---------------------------- MODULE SiteSettings ----------------------------
(***************************************************************************)
(* Settings and the pages of the built-in guide that show one of them      *)
(* (config_service.py, views/admin.py, docs_service.py).  The form of the  *)
(* settings saves the keys that differ one by one, each in a transaction   *)
(* of its own, and drops the rendered guide last.                          *)
(*                                                                         *)
(* The guide is cached in a dictionary of the server process.  Who renders *)
(* holds the dictionary it found; who drops the pages puts another in its  *)
(* place, unless the dictionary is empty: then nothing is done.            *)
(***************************************************************************)
EXTENDS Requests, Sequences

CONSTANTS
  ConfigKey,    \* the keys of the form, in the order it saves them
  Value,
  Default,      \* what an absent key means
  MaxRestarts   \* bound: restarts of the process

Keys == {ConfigKey[i] : i \in DOMAIN ConfigKey}

ASSUME SettingsAssumption ==
  /\ NULL \notin Value
  /\ Default \in Value
  /\ ConfigKey \in Seq(STRING)
  /\ "wifi_ssid" \in Keys
  /\ MaxRestarts \in Nat

VARIABLES
  config,      \* the table app_config: value, or NULL without a row
  guide,       \* docs_cache: which dictionary, its version entry, its page (or NULL)
  restarts,
  excuses      \* history: why the page may be out of date

settingsVars == <<config, guide, restarts, excuses>>

Table == [Keys -> Value \cup {NULL}]

Excuse == {"dictionary was empty", "save was cut off", "setting was not read"}

\* at: the key to save next, by its place; beyond the last, the guide is dropped.
\* viewed, seen: the table as the view read it for that key, and as set_config did last.
\* saved: the guide shows a setting this request has changed.
SaveRequest ==
  [op : {"save_settings"}, form : [Keys -> Value], viewed : Table, seen : Table,
   at : 1 .. Len(ConfigKey) + 1, saved : BOOLEAN]

SettingsRequest ==
  SaveRequest
    \cup [op : {"render"}, dictionary : Nat]
    \cup [op : {"store"}, dictionary : Nat, page : Value, failed : BOOLEAN]

SettingsOps == {"save_settings", "render", "store"}

\* get_config
Setting(table, key) == IF table[key] = NULL THEN Default ELSE table[key]

\* The log does not show these; of them it tells whether there was one.
Secrets == {"wifi_password"}

\* The old value logged for the key in hand: what set_config read last, and of a secret
\* what the view made of its own reading before it called set_config.
LoggedOld(r) ==
  LET key == ConfigKey[r.at] IN
  IF key \in Secrets THEN Setting(r.viewed, key) # Default ELSE r.seen[key]

\* The first key, from a place on, that the form changes.
NextKey(form, table, from) ==
  CHOOSE i \in from .. Len(ConfigKey) + 1 :
    /\ i <= Len(ConfigKey) => form[ConfigKey[i]] # Setting(table, ConfigKey[i])
    /\ \A j \in from .. i - 1 : form[ConfigKey[j]] = Setting(table, ConfigKey[j])

-----------------------------------------------------------------------------
(* app_config: saving the form.                                            *)

SaveSettings(t) ==
  \E form \in [Keys -> Value] :
    /\ Begin(t, "settings",
         [op |-> "save_settings", form |-> form, viewed |-> config, seen |-> config,
          at |-> NextKey(form, config, 1), saved |-> FALSE])
    /\ UNCHANGED settingsVars

SavingKey(t) ==
  /\ request[t].op = "save_settings"
  /\ request[t].at <= Len(ConfigKey)

\* On to the next key, in a new transaction.
NextFrom(r, table) ==
  [r EXCEPT !.viewed = table, !.seen = table, !.at = NextKey(r.form, table, r.at + 1)]

\* The value is written.
WriteKey(t) ==
  LET r == request[t]
      key == ConfigKey[r.at]
  IN  /\ SavingKey(t)
      /\ config' = [config EXCEPT ![key] = r.form[key]]
      /\ Commit(t, [NextFrom(r, config') EXCEPT !.saved = @ \/ key = "wifi_ssid"],
                {<<key, "value">>})
      /\ UNCHANGED <<guide, restarts, excuses>>

\* Mutant: an upsert that overwrites a row that appeared, or changed, meanwhile.
CommitKeyUnchecked(t) == WriteKey(t)

\* set_config updates the row it read, or inserts one where there is none.
CommitKey(t) ==
  LET key == ConfigKey[request[t].at] IN
  /\ SavingKey(t)
  /\ request[t].seen[key] # request[t].form[key]
  /\ IF request[t].seen[key] # NULL THEN Unchanged(t, key) ELSE config[key] = NULL
  /\ WriteKey(t)

\* The row it read again has the value already: there is nothing to write.
KeepKey(t) ==
  LET r == request[t] IN
  /\ SavingKey(t)
  /\ r.seen[ConfigKey[r.at]] = r.form[ConfigKey[r.at]]
  /\ Commit(t, NextFrom(r, config), {})
  /\ UNCHANGED settingsVars

\* The insert meets a row of another request: rolled back, and read again; what the
\* view has read stays.
InsertRefused(t) ==
  LET r == request[t]
      key == ConfigKey[r.at]
  IN  /\ SavingKey(t)
      /\ r.seen[key] = NULL /\ config[key] # NULL
      /\ Commit(t, [r EXCEPT !.seen = config], {})
      /\ UNCHANGED settingsVars

\* The requests that will put a page that is out of date into the cache.
LateRender(t) ==
  /\ request[t].op = "store"
  /\ request[t].dictionary = guide.dictionary
  /\ request[t].page # Setting(config, "wifi_ssid")

\* Mutant: the cache is left alone.
FinishSaveKeepingGuide(t) ==
  /\ request[t].op = "save_settings"
  /\ request[t].at = Len(ConfigKey) + 1
  /\ Continue(t, NoRequest)
  /\ UNCHANGED settingsVars

\* invalidate_page_cache, and the response.
FinishSave(t) ==
  /\ request[t].op = "save_settings"
  /\ request[t].at = Len(ConfigKey) + 1
  /\ IF guide.page = NULL /\ ~guide.version
       THEN /\ excuses' = {x \in {"dictionary was empty"} :
                             \E s \in Thread : LateRender(s)}
            /\ UNCHANGED guide
       ELSE /\ excuses' = {}
            /\ guide' = [guide EXCEPT !.dictionary = @ + 1, !.page = NULL]
  /\ Continue(t, NoRequest)
  /\ UNCHANGED <<config, restarts>>

-----------------------------------------------------------------------------
(* The guide.                                                              *)

\* render_page finds no page in the dictionary (a page it finds is served).
RenderPage(t) ==
  /\ guide.page = NULL
  /\ Begin(t, "settings", [op |-> "render", dictionary |-> guide.dictionary])
  /\ UNCHANGED settingsVars

\* get_placeholder_values, which makes do with the default when the query fails.
ReadSetting(t) ==
  /\ request[t].op = "render"
  /\ \E failed \in BOOLEAN :
       Continue(t, [op |-> "store", dictionary |-> request[t].dictionary,
                    page |-> IF failed THEN Default ELSE Setting(config, "wifi_ssid"),
                    failed |-> failed])
  /\ UNCHANGED settingsVars

\* The page goes into the dictionary the request holds.
StorePage(t) ==
  LET r == request[t] IN
  /\ r.op = "store"
  /\ IF r.dictionary = guide.dictionary
       THEN /\ guide' = [guide EXCEPT !.page = r.page]
            /\ excuses' = excuses \cup {x \in {"setting was not read"} : r.failed}
       ELSE UNCHANGED <<guide, excuses>>
  /\ Continue(t, NoRequest)
  /\ UNCHANGED <<config, restarts>>

\* get_version: the About page has the version kept in the same dictionary.
ReadVersion ==
  /\ desk = "settings"
  /\ ~guide.version
  /\ guide' = [guide EXCEPT !.version = TRUE]
  /\ UNCHANGED <<requestVars, config, restarts, excuses>>

\* The database refuses a write, or the request ends in another error.
SettingsAbort(t) ==
  LET r == request[t] IN
  /\ r.op \in SettingsOps
  /\ excuses' = excuses \cup {x \in {"save was cut off"} :
                                r.op = "save_settings" /\ r.saved}
  /\ Continue(t, NoRequest)
  /\ UNCHANGED <<config, guide, restarts>>

\* The process starts again: no request is left, and the cache is gone.
Restart ==
  /\ desk = "settings"
  /\ restarts < MaxRestarts
  /\ restarts' = restarts + 1
  /\ request' = [t \in Thread |-> NoRequest]
  /\ changed' = [t \in Thread |-> {}]
  /\ guide' = [dictionary |-> 0, version |-> FALSE, page |-> NULL]
  /\ excuses' = {}
  /\ UNCHANGED <<desk, begun, config>>

SettingsInit ==
  /\ config \in Table
  /\ guide = [dictionary |-> 0, version |-> FALSE, page |-> NULL]
  /\ restarts = 0
  /\ excuses = {}

SettingsStep(t) ==
  \/ SaveSettings(t) \/ CommitKey(t) \/ KeepKey(t) \/ InsertRefused(t) \/ FinishSave(t)
  \/ RenderPage(t) \/ ReadSetting(t) \/ StorePage(t) \/ SettingsAbort(t)

-----------------------------------------------------------------------------
SettingsTypeOK ==
  /\ config \in Table
  /\ guide \in [dictionary : Nat, version : BOOLEAN, page : Value \cup {NULL}]
  /\ restarts \in 0 .. MaxRestarts
  /\ excuses \subseteq Excuse

\* "drop the cache so the next docs view reflects changes" (views/admin.py): a cached
\* page that shows an old network name is about to be dropped by the request that
\* changed the name, or has one of three excuses: the change found the dictionary
\* empty while a page was being rendered into it, the save was cut off between the
\* name and the end, or the page was rendered while the setting could not be read.
GuideOutOfDateOnlyExcused ==
  \/ guide.page \in {NULL, Setting(config, "wifi_ssid")}
  \/ excuses # {}
  \/ \E t \in Thread : request[t].op = "save_settings" /\ request[t].saved

\* The log of settings tells the truth: the old value it gives is the one the commit
\* replaces, whatever saves overlap and whoever inserts a key first.  Of a secret it tells
\* whether there was one, but after a lost insert it always says there was none.
SettingsLogTellsOldValue ==
  [][\A t \in Thread : CommitKey(t) =>
       LET r == request[t]
           key == ConfigKey[r.at]
           insertLost == r.viewed[key] # r.seen[key]
       IN  LoggedOld(r) =
             IF key \in Secrets THEN Setting(config, key) # Default /\ ~insertLost
                               ELSE config[key]
    ]_<<requestVars, settingsVars>>
=============================================================================

------------------------- MODULE MachineStatusCache -------------------------
(***************************************************************************)
(* The table machine_status, a cache of what the machine access controller *)
(* (MAC) knows of its machines.  It has two writers: the webhook handlers  *)
(* and, once a minute, the worker, which fetches all states, upserts them  *)
(* one after the other, and deletes the rows of machines no longer listed. *)
(*                                                                         *)
(* An upsert reads the row and writes it later.  MariaDB (12.2, snapshot   *)
(* isolation) refuses an UPDATE or DELETE of a row that was changed since  *)
(* it was read.  A web request that this happens to answers 500 and drops  *)
(* its session; the worker keeps one session for its life.                 *)
(***************************************************************************)
EXTENDS Naturals

CONSTANTS
  Machine,
  Handler,      \* webhook requests that can be in progress at once
  NONE,
  MaxChanges,   \* bound: changes at MAC
  MaxFailures   \* bound: failed fetches, requests and processes that die

CacheConstants ==
  /\ NONE \notin Nat \cup Machine
  /\ "worker" \notin Handler
  /\ MaxChanges \in Nat /\ MaxFailures \in Nat

ASSUME CacheAssumption == CacheConstants

Worker == "worker"
Session == Handler \cup {Worker}

VARIABLES
  mac,       \* MAC, per machine: its state, a number, or NONE when it is not listed
  posts,     \* MAC: the webhooks not yet answered with 204, each a machine and state
  row,       \* machine_status, per machine: the state cached, NONE for no row
  upsert,    \* per session: the step, machine and state of its upsert, and the state
             \* of the row it has read
  stale,     \* sessions that read a row which was written since
  worker,    \* "poll", "upserts", "orphans" or "static": where in its loop it is
  fetched,   \* what its last fetch returned
  todo,      \* machines it has still to upsert, or the orphans it has read
  wedged,    \* its session refuses statements until a rollback
  changes, failures,
  undisturbed  \* history: since the last fetch, all that is under way carries what MAC says

bounds == <<changes, failures>>
vars ==
  <<mac, posts, row, upsert, stale, worker, fetched, todo, wedged, bounds, undisturbed>>

NoUpsert == [step |-> "idle", machine |-> NONE, state |-> NONE, seen |-> NONE]

Init ==
  /\ mac = [m \in Machine |-> 0]
  /\ posts = {}
  /\ row = [m \in Machine |-> NONE]
  /\ upsert = [s \in Session |-> NoUpsert]
  /\ stale = {}
  /\ worker = "poll" /\ fetched = mac /\ todo = {} /\ wedged = FALSE
  /\ changes = 0 /\ failures = 0
  /\ undisturbed = TRUE

-----------------------------------------------------------------------------
(* MAC.                                                                    *)

\* A machine changes its state, or is listed (again); MAC posts it.
Change(m) ==
  /\ changes < MaxChanges /\ changes' = changes + 1
  /\ mac' = [mac EXCEPT ![m] = changes']
  /\ posts' = posts \cup {[machine |-> m, state |-> changes']}
  /\ UNCHANGED <<row, upsert, stale, worker, fetched, todo, wedged, failures>>

\* A machine is removed or renamed.
Unlist(m) ==
  /\ mac[m] # NONE
  /\ changes < MaxChanges /\ changes' = changes + 1
  /\ mac' = [mac EXCEPT ![m] = NONE]
  /\ UNCHANGED <<posts, row, upsert, stale, worker, fetched, todo, wedged, failures>>

-----------------------------------------------------------------------------
(* upsert_machine_status, in the session of a handler or of the worker.    *)

BeginUpsert(s, m, state) ==
  upsert' = [upsert EXCEPT ![s] =
               [step |-> "read", machine |-> m, state |-> state, seen |-> NONE]]

MoveUpsert(s, step) == upsert' = [upsert EXCEPT ![s].step = step]

\* The sessions that have read the row of a machine in ms, s excepted.
Readers(s, ms) ==
  {u \in Session \ {s} : /\ upsert[u].step = "write" /\ upsert[u].seen # NONE
                         /\ upsert[u].machine \in ms}
    \cup {u \in {Worker} \ {s} : worker = "orphans" /\ todo \cap ms # {}}

\* The first SELECT.
ReadRow(s) ==
  LET m == upsert[s].machine IN
  /\ upsert[s].step = "read"
  /\ upsert' = [upsert EXCEPT ![s].step = "write", ![s].seen = row[m]]
  /\ stale' = stale \ {s}
  /\ UNCHANGED <<mac, posts, row, worker, fetched, todo, wedged, bounds>>

\* There was no row: INSERT.  If there is one by now, IntegrityError and a rollback.
InsertRow(s) ==
  LET m == upsert[s].machine IN
  /\ upsert[s].step = "write" /\ upsert[s].seen = NONE
  /\ IF row[m] = NONE
       THEN row' = [row EXCEPT ![m] = upsert[s].state] /\ MoveUpsert(s, "done")
       ELSE UNCHANGED row /\ MoveUpsert(s, "reread")
  /\ UNCHANGED <<mac, posts, stale, worker, fetched, todo, wedged, bounds>>

\* The SELECT after the rollback must find the row of whoever won: it raises when that
\* row is gone by now.
RereadRow(s) ==
  LET m == upsert[s].machine IN
  /\ upsert[s].step = "reread"
  /\ IF row[m] = NONE
       THEN MoveUpsert(s, "error")
       ELSE upsert' = [upsert EXCEPT ![s].step = "write", ![s].seen = row[m]]
  /\ stale' = stale \ {s}
  /\ UNCHANGED <<mac, posts, row, worker, fetched, todo, wedged, bounds>>

\* There was a row: UPDATE, even when the row says the same already; its times are
\* assigned with a zone that the columns do not have, and updated_at moves.
UpdateRow(s) ==
  LET m == upsert[s].machine IN
  /\ upsert[s].step = "write" /\ upsert[s].seen # NONE
  /\ s \notin stale
  /\ row' = [row EXCEPT ![m] = upsert[s].state]
  /\ stale' = stale \cup Readers(s, {m})
  /\ MoveUpsert(s, "done")
  /\ UNCHANGED <<mac, posts, worker, fetched, todo, wedged, bounds>>

\* The database refuses the UPDATE of a row written or deleted since it was read.
UpdateRefused(s) ==
  /\ upsert[s].step = "write" /\ upsert[s].seen # NONE
  /\ s \in stale
  /\ MoveUpsert(s, "error")
  /\ stale' = stale \ {s}
  /\ wedged' = (wedged \/ s = Worker)
  /\ UNCHANGED <<mac, posts, row, worker, fetched, todo, bounds>>

UpsertStep(s) ==
  ReadRow(s) \/ InsertRow(s) \/ RereadRow(s) \/ UpdateRow(s) \/ UpdateRefused(s)

-----------------------------------------------------------------------------
(* The webhook handler, as far as the status goes.                         *)

Receive(h) ==
  \E p \in posts :
    /\ upsert[h].step = "idle"
    /\ BeginUpsert(h, p.machine, p.state)
    /\ UNCHANGED <<mac, posts, row, stale, worker, fetched, todo, wedged, bounds>>

EndUpsert(s) == upsert' = [upsert EXCEPT ![s] = NoUpsert]

\* 204.
Answer(h) ==
  /\ upsert[h].step = "done"
  /\ posts' = posts \ {[machine |-> upsert[h].machine, state |-> upsert[h].state]}
  /\ EndUpsert(h)
  /\ UNCHANGED <<mac, row, stale, worker, fetched, todo, wedged, bounds>>

\* 500: MAC will post it again.
Refuse(h) ==
  /\ upsert[h].step = "error"
  /\ EndUpsert(h)
  /\ UNCHANGED <<mac, posts, row, stale, worker, fetched, todo, wedged, bounds>>

Failing == failures < MaxFailures /\ failures' = failures + 1

\* The request dies, or MAC does not hear its answer.
HandlerDies(h) ==
  /\ upsert[h].step # "idle"
  /\ Failing
  /\ EndUpsert(h)
  /\ stale' = stale \ {h}
  /\ UNCHANGED <<mac, posts, row, worker, fetched, todo, wedged, changes>>

-----------------------------------------------------------------------------
(* The worker: _do_mac_refresh within run_worker_loop.                     *)

Listed(states) == {m \in Machine : states[m] # NONE}

\* The poll and the batch before the refresh need the session; then the fetch.
Fetch ==
  /\ worker = "poll" /\ ~wedged
  /\ fetched' = mac /\ todo' = Listed(mac)
  /\ worker' = "upserts"
  /\ UNCHANGED <<mac, posts, row, upsert, stale, wedged, bounds>>

\* The fetch raises; _refresh_mac_status logs it.
FetchFails ==
  /\ worker = "poll" /\ ~wedged
  /\ Failing
  /\ worker' = "static"
  /\ UNCHANGED <<mac, posts, row, upsert, stale, fetched, todo, wedged, changes>>

UpsertNext ==
  \E m \in todo :
    /\ worker = "upserts" /\ upsert[Worker].step = "idle"
    /\ BeginUpsert(Worker, m, fetched[m])
    /\ todo' = todo \ {m}
    /\ UNCHANGED <<mac, posts, row, stale, worker, fetched, wedged, bounds>>

UpsertDone ==
  /\ upsert[Worker].step = "done"
  /\ EndUpsert(Worker)
  /\ UNCHANGED <<mac, posts, row, stale, worker, fetched, todo, wedged, bounds>>

\* The error leaves the refresh; it is logged and nothing is rolled back.
UpsertError ==
  /\ upsert[Worker].step = "error"
  /\ EndUpsert(Worker)
  /\ worker' = "static" /\ todo' = {}
  /\ UNCHANGED <<mac, posts, row, stale, fetched, wedged, bounds>>

\* Mutant: the rows of machines that are gone are kept.
ReadNoOrphans ==
  /\ worker = "upserts" /\ todo = {} /\ upsert[Worker].step = "idle"
  /\ worker' = "static"
  /\ UNCHANGED <<mac, posts, row, upsert, stale, fetched, todo, wedged, bounds>>

\* Mutant: the fetched machines are not taken from the rows.
ReadAllRows ==
  /\ worker = "upserts" /\ todo = {} /\ upsert[Worker].step = "idle"
  /\ todo' = IF Listed(fetched) = {} THEN {} ELSE Listed(row)
  /\ worker' = "orphans"
  /\ stale' = stale \ {Worker}
  /\ UNCHANGED <<mac, posts, row, upsert, fetched, wedged, bounds>>

\* Mutant: the difference is taken the other way round.
ReadOrphansSwapped ==
  /\ worker = "upserts" /\ todo = {} /\ upsert[Worker].step = "idle"
  /\ todo' = IF Listed(fetched) = {} THEN {} ELSE Listed(fetched) \ Listed(row)
  /\ worker' = "orphans"
  /\ stale' = stale \ {Worker}
  /\ UNCHANGED <<mac, posts, row, upsert, fetched, wedged, bounds>>

\* reconcile_orphans reads the rows of machines that were not fetched, unless none was.
ReadOrphans ==
  /\ worker = "upserts" /\ todo = {} /\ upsert[Worker].step = "idle"
  /\ todo' = IF Listed(fetched) = {} THEN {} ELSE Listed(row) \ Listed(fetched)
  /\ worker' = "orphans"
  /\ stale' = stale \ {Worker}
  /\ UNCHANGED <<mac, posts, row, upsert, fetched, wedged, bounds>>

\* And deletes them, in one transaction that is refused as a whole.
DeleteOrphans ==
  /\ worker = "orphans"
  /\ IF Worker \in stale
       THEN UNCHANGED row /\ stale' = stale \ {Worker} /\ wedged' = TRUE
       ELSE /\ row' = [m \in Machine |-> IF m \in todo THEN NONE ELSE row[m]]
            /\ stale' = stale \cup Readers(Worker, todo)
            /\ UNCHANGED wedged
  /\ worker' = "static" /\ todo' = {}
  /\ UNCHANGED <<mac, posts, upsert, fetched, bounds>>

\* _refresh_static_reservations: most of the time it returns before any statement;
\* otherwise a wedged session makes it raise, and it rolls back.
StaticRefresh ==
  /\ worker = "static"
  /\ wedged' \in {wedged, FALSE}
  /\ worker' = "poll"
  /\ UNCHANGED <<mac, posts, row, upsert, stale, fetched, todo, bounds>>

NewProcess ==
  /\ worker' = "poll" /\ todo' = {} /\ wedged' = FALSE
  /\ EndUpsert(Worker)
  /\ stale' = stale \ {Worker}
  /\ UNCHANGED <<mac, posts, row, fetched>>

\* Every poll raises, the heartbeat stops, autoheal restarts the container.
Autoheal == worker = "poll" /\ wedged /\ NewProcess /\ UNCHANGED bounds

WorkerDies == Failing /\ NewProcess /\ UNCHANGED changes

-----------------------------------------------------------------------------
\* Webhooks, upserts and the refresh carry what MAC says, not what it said before.
CarriesMac ==
  /\ \A p \in posts : mac[p.machine] = p.state
  /\ \A s \in Session :
       upsert[s].step # "idle" => mac[upsert[s].machine] = upsert[s].state
  /\ worker \in {"upserts", "orphans"} => fetched = mac

Note == undisturbed' = (CarriesMac' /\ (worker = "poll" \/ undisturbed))

HandlerStep(h) == (Receive(h) \/ Answer(h) \/ Refuse(h) \/ UpsertStep(h)) /\ Note

WorkerStep ==
  /\ \/ Fetch \/ UpsertNext \/ UpsertStep(Worker) \/ UpsertDone \/ UpsertError
     \/ ReadOrphans \/ DeleteOrphans \/ StaticRefresh \/ Autoheal
  /\ Note

\* What no fairness asks for.
Interruption ==
  /\ \/ \E m \in Machine : Change(m) \/ Unlist(m)
     \/ \E h \in Handler : HandlerDies(h)
     \/ FetchFails \/ WorkerDies
  /\ Note

Next == (\E h \in Handler : HandlerStep(h)) \/ WorkerStep \/ Interruption

\* MAC keeps posting, requests and the worker go on.
Fairness == WF_vars(WorkerStep) /\ \A h \in Handler : WF_vars(HandlerStep(h))

Spec == Init /\ [][Next]_vars /\ Fairness

-----------------------------------------------------------------------------
TypeOK ==
  /\ mac \in [Machine -> 0..MaxChanges \cup {NONE}]
  /\ row \in [Machine -> 0..MaxChanges \cup {NONE}]
  /\ posts \subseteq [machine : Machine, state : 0..MaxChanges]
  /\ stale \subseteq Session
  /\ worker \in {"poll", "upserts", "orphans", "static"}
  /\ todo \subseteq Machine
  /\ wedged \in BOOLEAN
  /\ \A s \in Session : upsert[s].step # "idle" => upsert[s].state # NONE

\* While all that is under way carries what MAC says, nothing turns a row that agrees with
\* MAC into one that does not, and nothing outdated can come up again.
AgreementStays ==
  [][CarriesMac /\ UNCHANGED mac =>
       /\ CarriesMac'
       /\ \A m \in Machine : row[m] = mac[m] => row'[m] = mac[m]]_vars

\* A refresh that goes through to its reconciliation while nothing outdated is under way
\* leaves the table with what MAC says, whatever it found there and whoever wrote beside it.
RefreshCompletes ==
  [][DeleteOrphans /\ undisturbed /\ Worker \notin stale /\ Listed(mac) # {}
       => row' = mac]_vars

\* In the end, when MAC is quiet and lists a machine at all, the cache is what MAC
\* says: whatever order webhooks and polls came in, whatever failed or was refused.
CacheConverges ==
  <>[](Listed(mac) # {} => row = mac)

-----------------------------------------------------------------------------
\* What a comment of the worker loop says and a race refutes: the refresh is
\* "self-contained (its own try/except)", so that it never feeds the poll's failures.
RefreshIsSelfContained == worker = "poll" => ~wedged
=============================================================================

--------------------------- MODULE RepairLifecycle ---------------------------
(***************************************************************************)
(* Repair records under concurrent requests.  A request (a thread of the   *)
(* web server or of the Slack client) runs in three parts:                 *)
(*                                                                         *)
(*   Begin...   it reads the tables and decides.  MariaDB's REPEATABLE     *)
(*              READ gives all its reads one snapshot, so this is one step;*)
(*              a refused request changes nothing and has no step.         *)
(*   Commit...  it writes the columns it decided on, with the audit row.   *)
(*              The code locks and compares nothing; MariaDB (12.2, pinned *)
(*              by docker-compose.yml, innodb_snapshot_isolation on by     *)
(*              default) refuses to update a row that was changed since    *)
(*              the snapshot, and the request ends in an error.  What it   *)
(*              read of other rows may be out of date.                     *)
(*   Queue...   after the commit, one transaction per notification: the    *)
(*              static page, Slack, and the unlocking of the machine.      *)
(*                                                                         *)
(* The process may die between any two of them (Crash).                    *)
(***************************************************************************)
EXTENDS RepairRules

CONSTANTS
  Repair,         \* ids a repair record can get
  Equipment,
  User,
  Thread,         \* requests that can be in progress at once
  Eta,            \* dates
  Archived,       \* equipment that is archived
  Linked,         \* equipment with a mac_machine_name, the integration enabled
  NotifyOn,       \* the notify_* switches that are set
  StatusInput, SeverityInput, EtaInput, AssigneeInput,
                  \* what forms offer to change the fields to
  MaxRequests,    \* bound: requests begun
  MaxCrashes      \* bound: requests cut off

ASSUME LifecycleAssumption ==
  /\ NULL \notin Repair \cup Equipment \cup User \cup Eta
  /\ NULL \notin REPAIR_STATUSES \cup REPAIR_SEVERITIES
  /\ Archived \subseteq Equipment /\ Linked \subseteq Equipment
  /\ NotifyOn \subseteq SlackEvents
  /\ StatusInput \subseteq REPAIR_STATUSES
  /\ SeverityInput \subseteq REPAIR_SEVERITIES \cup {NULL}
  /\ EtaInput \subseteq Eta \cup {NULL}
  /\ AssigneeInput \subseteq User \cup {NULL}
  /\ MaxRequests \in Nat /\ MaxCrashes \in Nat

VARIABLES
  repair,     \* the table repair_records: a function on the ids in use
  outbox,     \* the table pending_notifications, counted by what the rows say
  pc,         \* per thread: "idle", "commit" or "queue"
  plan,       \* per thread: what it decided
  todo,       \* per thread: what it still has to queue
  stale,      \* threads whose record was changed since their snapshot
  begun, crashes,
  unlockDue,  \* history: equipment whose machine ought to be unlocked by a request
  cutOff      \* history: equipment whose unlocking request died

vars ==
  <<repair, outbox, pc, plan, todo, stale, begun, crashes, unlockDue, cutOff>>

-----------------------------------------------------------------------------
RowType ==
  [equipment_id : Equipment,
   status : REPAIR_STATUSES,
   severity : REPAIR_SEVERITIES \cup {NULL},
   assignee_id : User \cup {NULL},
   eta : Eta \cup {NULL},
   duplicated_repair_id : Repair \cup {NULL}]

\* A write: some of the columns, with values of their types.
IsWrite(w) ==
  /\ DOMAIN w \subseteq UpdatableFields
  /\ "status" \in DOMAIN w => w["status"] \in REPAIR_STATUSES
  /\ "severity" \in DOMAIN w => w["severity"] \in REPAIR_SEVERITIES \cup {NULL}
  /\ "assignee_id" \in DOMAIN w => w["assignee_id"] \in User \cup {NULL}
  /\ "eta" \in DOMAIN w => w["eta"] \in Eta \cup {NULL}
  /\ "duplicated_repair_id" \in DOMAIN w
       => w["duplicated_repair_id"] \in Repair \cup {NULL}

NoWrite == [f \in {} |-> NULL]

\* old: what the audit row and the timeline say the write replaces.
\* then: the status a Slack creation goes on to set, NULL for none.
NoPlan ==
  [kind |-> "none", record |-> NULL, equipment_id |-> NULL, write |-> NoWrite,
   old |-> NoWrite, then |-> NULL]

\* A notification: its type (and event), and the equipment it is about.
Said(item, e) == [item |-> item, equipment_id |-> e]
Notification == [item : FollowUpItems \ {"mac_check"}, equipment_id : Equipment]

\* The table with one more row.
With(table, r, row) ==
  [s \in DOMAIN table \cup {r} |-> IF s = r THEN row ELSE table[s]]

\* Mutant: the blank of the severity drop-down is stored as it is.
NewRowBlankSeverity(e, severity, assignee) ==
  [equipment_id |-> e, status |-> "New",
   severity |-> IF severity = NULL THEN "" ELSE severity,
   assignee_id |-> assignee, eta |-> NULL, duplicated_repair_id |-> NULL]

\* The row create_repair_record inserts.
NewRow(e, severity, assignee) ==
  [equipment_id |-> e, status |-> "New", severity |-> severity,
   assignee_id |-> assignee, eta |-> NULL, duplicated_repair_id |-> NULL]

\* The open repairs of a piece of equipment, other than those in `except'.
OpenRepairs(table, e, except) ==
  {r \in DOMAIN table \ except : table[r].equipment_id = e /\ IsOpen(table[r])}

\* r has no duplicate link, or one to another existing record of its equipment.
SoundLink(table, r) ==
  LET link == table[r].duplicated_repair_id
  IN  \/ link = NULL
      \/ /\ link \in DOMAIN table \ {r}
         /\ table[link].equipment_id = table[r].equipment_id

\* Tables a quiet history can have left: any statuses, and a sound link on duplicates
\* only (a legacy duplicate may have none).
SettledTable(table) ==
  \A r \in DOMAIN table :
    /\ SoundLink(table, r)
    /\ table[r].duplicated_repair_id # NULL => table[r].status = "Closed - Duplicate"

InitialRows ==
  [equipment_id : Equipment, status : StatusInput, severity : SeverityInput,
   assignee_id : AssigneeInput, eta : EtaInput,
   duplicated_repair_id : Repair \cup {NULL}]

Init ==
  /\ \E used \in SUBSET Repair : repair \in [used -> InitialRows]
  /\ SettledTable(repair)
  /\ outbox = [n \in Notification |-> 0]
  /\ pc = [t \in Thread |-> "idle"]
  /\ plan = [t \in Thread |-> NoPlan]
  /\ todo = [t \in Thread |-> {}]
  /\ stale = {}
  /\ begun = 0 /\ crashes = 0
  /\ unlockDue = {} /\ cutOff = {}

-----------------------------------------------------------------------------
(* Begin: the request reads, validates and decides.                        *)

Begin(t, p) ==
  /\ pc[t] = "idle"
  /\ begun < MaxRequests
  /\ begun' = begun + 1
  /\ pc' = [pc EXCEPT ![t] = "commit"]
  /\ plan' = [plan EXCEPT ![t] = p]
  /\ UNCHANGED <<repair, outbox, todo, stale, crashes, unlockDue, cutOff>>

\* The plan of an update of r: what differs from the row as it is read now.
UpdatePlan(kind, r, changes) ==
  LET write == Written(repair[r], changes)
  IN  [kind |-> kind, record |-> r, equipment_id |-> repair[r].equipment_id,
       write |-> write, old |-> [f \in DOMAIN write |-> repair[r][f]], then |-> NULL]

\* create_repair_record: a report page, the staff form, or Slack, whose form also
\* offers a status.
BeginCreate(t) ==
  \E e \in Equipment \ Archived, severity \in SeverityInput,
     assignee \in AssigneeInput,
     then \in (StatusInput \ {"New", "Closed - Duplicate"}) \cup {NULL} :
    Begin(t, [kind |-> "create", record |-> NULL, equipment_id |-> e,
              write |-> [severity |-> severity, assignee_id |-> assignee],
              old |-> NoWrite, then |-> then])

\* An accepted request that changes something (another writes nothing at all).
BeginUpdate(t, kind, r, changes) ==
  /\ Accepted(repair, r, changes)
  /\ Written(repair[r], changes) # NoWrite
  /\ Begin(t, UpdatePlan(kind, r, changes))

\* The edit page posts every field, and no link unless the status is a duplicate.
EditForms ==
  {c \in [status : StatusInput, severity : SeverityInput,
          assignee_id : AssigneeInput, eta : EtaInput,
          duplicated_repair_id : Repair \cup {NULL}] :
     c.status # "Closed - Duplicate" => c.duplicated_repair_id = NULL}

BeginEdit(t) ==
  \E r \in DOMAIN repair, form \in EditForms : BeginUpdate(t, "edit", r, form)

\* Slack's Set ETA and Set Status, which ask for a link with a duplicate.
SetForms ==
  [eta : EtaInput \ {NULL}]
    \cup [status : StatusInput \ {"Closed - Duplicate"}]
    \cup [status : StatusInput \cap {"Closed - Duplicate"},
          duplicated_repair_id : Repair]

\* The Slack handler refuses a record it reads as closed.
BeginSet(t) ==
  \E r \in DOMAIN repair, form \in SetForms :
    IsOpen(repair[r]) /\ BeginUpdate(t, "set", r, form)

\* claim_repair_record
BeginClaim(t) ==
  \E r \in DOMAIN repair, u \in AssigneeInput \ {NULL} :
    /\ IsOpen(repair[r])
    /\ BeginUpdate(t, "claim", r, ClaimChanges(repair[r], u))

\* resolve_repair_record
BeginResolve(t) ==
  \E r \in DOMAIN repair :
    IsOpen(repair[r]) /\ BeginUpdate(t, "resolve", r, ResolveChanges)

-----------------------------------------------------------------------------
(* Commit: the row and its audit row, in one transaction.                  *)

\* Machines that ought to be unlocked once table is committed by the write w on
\* equipment e: closing its last open repair makes it due, an open one undoes it.
UnlockDueAfter(table, e, w) ==
  IF OpenRepairs(table, e, {}) # {} THEN unlockDue \ {e}
  ELSE IF Unlocks(w) THEN unlockDue \cup ({e} \cap Linked)
  ELSE unlockDue

\* Thread t goes on with the work `items', or is done with it.
GoOn(t, p, items) ==
  /\ todo' = [todo EXCEPT ![t] = items]
  /\ IF items # {}
       THEN pc' = [pc EXCEPT ![t] = "queue"] /\ plan' = [plan EXCEPT ![t] = p]
     ELSE IF p.then # NULL
       THEN pc' = [pc EXCEPT ![t] = "then"] /\ plan' = [plan EXCEPT ![t] = p]
     ELSE pc' = [pc EXCEPT ![t] = "idle"] /\ plan' = [plan EXCEPT ![t] = NoPlan]

\* The plan of a creation, now that its record has an id.
CreatedPlan(p, r) ==
  [kind |-> "create", record |-> r, equipment_id |-> p.equipment_id,
   write |-> NoWrite, old |-> NoWrite, then |-> p.then]

\* The commit of create_repair_record.
CommitCreate(t) ==
  LET p == plan[t] IN
  /\ pc[t] = "commit" /\ p.kind = "create"
  /\ \E r \in Repair \ DOMAIN repair :
       LET row == NewRow(p.equipment_id, p.write["severity"], p.write["assignee_id"])
       IN  /\ repair' = With(repair, r, row)
           /\ GoOn(t, CreatedPlan(p, r), CreateFollowUps(NotifyOn))
  /\ unlockDue' = UnlockDueAfter(repair', p.equipment_id, NoWrite)
  /\ UNCHANGED <<outbox, stale, begun, crashes, cutOff>>

\* The row of an update changes, and with it the snapshots of the other requests
\* about to update it are out of date.
WriteRow(t) ==
  LET p == plan[t] IN
  /\ pc[t] = "commit" /\ p.kind # "create"
  /\ repair' = [repair EXCEPT ![p.record] = Updated(@, p.write)]
  /\ GoOn(t, p, FollowUps(p.write, NotifyOn))
  /\ stale' = stale \cup {u \in Thread \ {t} : /\ pc[u] = "commit"
                                               /\ plan[u].record = p.record}
  /\ unlockDue' = UnlockDueAfter(repair', p.equipment_id, p.write)
  /\ UNCHANGED <<outbox, begun, crashes, cutOff>>

\* Mutant: the database does not compare, as READ COMMITTED would not.
CommitUpdateUnchecked(t) == WriteRow(t)

\* The commit of update_repair_record.
CommitUpdate(t) == t \notin stale /\ WriteRow(t)

\* The database refuses the update (Record has changed since last read).
Conflict(t) ==
  /\ pc[t] = "commit"
  /\ t \in stale
  /\ stale' = stale \ {t}
  /\ pc' = [pc EXCEPT ![t] = "idle"]
  /\ plan' = [plan EXCEPT ![t] = NoPlan]
  /\ UNCHANGED <<repair, outbox, todo, begun, crashes, unlockDue, cutOff>>

-----------------------------------------------------------------------------
(* Queue: one transaction per item, in the order of the code.              *)

IsNext(t, item) ==
  /\ pc[t] = "queue"
  /\ item \in todo[t]
  /\ \A other \in todo[t] : Rank(item) <= Rank(other)

\* Mutant: the query for another open repair forgets to filter on the status.
CheckUnlockAnyRepair(t) ==
  LET p == plan[t] IN
  /\ IsNext(t, "mac_check")
  /\ GoOn(t, p, (todo[t] \ {"mac_check"})
                   \cup {i \in {"mac_clear"} :
                           /\ p.equipment_id \in Linked
                           /\ \A r \in DOMAIN repair \ {p.record} :
                                repair[r].equipment_id # p.equipment_id})
  /\ UNCHANGED <<repair, outbox, stale, begun, crashes, unlockDue, cutOff>>

\* _maybe_queue_mac_clear reads the other repairs, after the commit; the row it
\* inserts comes later.
CheckUnlock(t) ==
  LET p == plan[t] IN
  /\ IsNext(t, "mac_check")
  /\ GoOn(t, p, (todo[t] \ {"mac_check"})
                   \cup {i \in {"mac_clear"} :
                           /\ p.equipment_id \in Linked
                           /\ OpenRepairs(repair, p.equipment_id, {p.record}) = {}})
  /\ UNCHANGED <<repair, outbox, stale, begun, crashes, unlockDue, cutOff>>

\* queue_notification
QueueItem(t) ==
  \E item \in todo[t] \ {"mac_check"} :
    /\ IsNext(t, item)
    /\ outbox' = [outbox EXCEPT ![Said(item, plan[t].equipment_id)] = @ + 1]
    /\ GoOn(t, plan[t], todo[t] \ {item})
    /\ unlockDue' = IF item = "mac_clear"
                      THEN unlockDue \ {plan[t].equipment_id} ELSE unlockDue
    /\ UNCHANGED <<repair, stale, begun, crashes, cutOff>>

\* The Slack creation handler, its record created, sets the status it was asked for.
ThenSetStatus(t) ==
  LET r == plan[t].record
      changes == [status |-> plan[t].then]
  IN  /\ pc[t] = "then"
      /\ IF Written(repair[r], changes) # NoWrite
           THEN /\ pc' = [pc EXCEPT ![t] = "commit"]
                /\ plan' = [plan EXCEPT ![t] = UpdatePlan("then", r, changes)]
           ELSE /\ pc' = [pc EXCEPT ![t] = "idle"]
                /\ plan' = [plan EXCEPT ![t] = NoPlan]
      /\ UNCHANGED <<repair, outbox, todo, stale, begun, crashes, unlockDue, cutOff>>

\* The process dies, or a transaction after the commit fails and the request ends
\* in an error: what is not yet committed or queued is never done.
Crash(t) ==
  /\ pc[t] # "idle"
  /\ crashes < MaxCrashes
  /\ crashes' = crashes + 1
  /\ cutOff' = IF todo[t] \cap {"mac_check", "mac_clear"} # {}
                 THEN cutOff \cup {plan[t].equipment_id} ELSE cutOff
  /\ pc' = [pc EXCEPT ![t] = "idle"]
  /\ plan' = [plan EXCEPT ![t] = NoPlan]
  /\ todo' = [todo EXCEPT ![t] = {}]
  /\ stale' = stale \ {t}
  /\ UNCHANGED <<repair, outbox, begun, unlockDue>>

Next ==
  \E t \in Thread :
    \/ BeginCreate(t) \/ BeginEdit(t) \/ BeginSet(t) \/ BeginClaim(t) \/ BeginResolve(t)
    \/ CommitCreate(t) \/ CommitUpdate(t) \/ Conflict(t)
    \/ CheckUnlock(t) \/ QueueItem(t) \/ ThenSetStatus(t)
    \/ Crash(t)

Spec == Init /\ [][Next]_vars

-----------------------------------------------------------------------------
TypeOK ==
  /\ DOMAIN repair \subseteq Repair
  /\ \A r \in DOMAIN repair : repair[r] \in RowType
  /\ outbox \in [Notification -> Nat]
  /\ pc \in [Thread -> {"idle", "commit", "queue", "then"}]
  /\ todo \in [Thread -> SUBSET FollowUpItems]
  /\ stale \subseteq Thread
  /\ unlockDue \subseteq Linked
  /\ cutOff \subseteq Equipment

\* Whatever edits overlap, only a record closed as a duplicate has a duplicate link,
\* and the link names another existing record of the same equipment.
LinksStaySettled == SettledTable(repair)

\* The audit row and the timeline tell the truth: the old value they give for each
\* column an update writes is the one that its commit replaces.
AuditTellsOldValues ==
  [][\A t \in Thread : CommitUpdate(t) =>
       \A f \in DOMAIN plan[t].write : plan[t].old[f] = repair[plan[t].record][f]]_vars

\* Whatever requests overlap, closing the last open repair of a linked machine with
\* an unlocking status leaves some request about to queue the unlocking, until it is
\* queued, unless that request died.
UnlockNeverForgotten ==
  \A e \in unlockDue :
    \/ e \in cutOff
    \/ \E t \in Thread : /\ plan[t].equipment_id = e
                         /\ todo[t] \cap {"mac_check", "mac_clear"} # {}

\* claim_repair_record promises that closed records cannot be claimed, and the other
\* requests that check for an open record rely on it likewise: none of them changes
\* a record that is closed by the time it commits.
ClosedNeverClaimed ==
  [][\A t \in Thread :
       plan[t].kind \in {"set", "claim", "resolve"} /\ CommitUpdate(t)
         => IsOpen(repair[plan[t].record])]_vars

-----------------------------------------------------------------------------
\* What a comment of the code says and its requests refute.  MAC_CLEAR_STATUSES:
\* "closing a repair as a duplicate means the authoritative repair is still open".
DuplicateOfAnOpenRepair ==
  [][\A t \in Thread :
       LET w == plan[t].write IN
       /\ CommitUpdate(t)
       /\ "status" \in DOMAIN w /\ w["status"] = "Closed - Duplicate"
       => OpenRepairs(repair', plan[t].equipment_id, {}) # {}]_vars
=============================================================================

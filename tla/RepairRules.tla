----------------------------- MODULE RepairRules -----------------------------
(***************************************************************************)
(* What esb/services/repair_service.py accepts, writes and announces for   *)
(* one repair record, as operators without state.  A request first reads   *)
(* the table, decides here what it will write, and commits it later:       *)
(* RepairLifecycle gives the steps.                                        *)
(*                                                                         *)
(* A set of changes is a function whose domain is the fields the caller    *)
(* passed, as the keyword arguments **changes of update_repair_record.     *)
(* specialist_description is left out: it is written and audited like the  *)
(* other fields, and nothing is queued or shown because of it.             *)
(***************************************************************************)
EXTENDS Integers

CONSTANT NULL   \* SQL NULL / Python None

\* REPAIR_STATUSES of esb/models/repair_record.py.
REPAIR_STATUSES ==
  {"New", "Assigned", "In Progress", "Parts Needed", "Parts Ordered",
   "Parts Received", "Needs Specialist", "Resolved",
   "Closed - No Issue Found", "Closed - Duplicate"}

CLOSED_STATUSES == {"Resolved", "Closed - No Issue Found", "Closed - Duplicate"}

\* The closed statuses that physically unlock the machine.
MAC_CLEAR_STATUSES == {"Resolved", "Closed - No Issue Found"}

REPAIR_SEVERITIES == {"Down", "Degraded", "Not Sure"}

\* _REPAIR_UPDATABLE_FIELDS: equipment_id is never among them.
UpdatableFields ==
  {"status", "severity", "assignee_id", "eta", "duplicated_repair_id"}

IsOpen(row) == row.status \notin CLOSED_STATUSES

-----------------------------------------------------------------------------
(* Which changes each kind of request asks for.                            *)

\* changes.get(field, record.field)
Effective(row, changes, field) ==
  IF field \in DOMAIN changes THEN changes[field] ELSE row[field]

\* claim_repair_record: always the assignee, and New becomes Assigned.
ClaimChanges(row, user) ==
  IF row.status = "New"
    THEN [assignee_id |-> user, status |-> "Assigned"]
    ELSE [assignee_id |-> user]

\* resolve_repair_record (the note is timeline text).
ResolveChanges == [status |-> "Resolved"]

-----------------------------------------------------------------------------
(* The rules on duplicated_repair_id, keyed on the transition of the       *)
(* status the request read.                                                *)

BecomesDuplicate(row, changes) ==
  /\ Effective(row, changes, "status") = "Closed - Duplicate"
  /\ row.status # "Closed - Duplicate"

LeavesDuplicate(row, changes) ==
  /\ Effective(row, changes, "status") # "Closed - Duplicate"
  /\ row.status = "Closed - Duplicate"

SetsDuplicate(row, changes) ==
  LET target == Effective(row, changes, "duplicated_repair_id")
  IN  target # NULL /\ target # row.duplicated_repair_id

\* A link is never dropped while the status stays Closed - Duplicate; a legacy
\* row that has none may keep none.
DropsLink(row, changes) ==
  /\ Effective(row, changes, "status") = "Closed - Duplicate"
  /\ Effective(row, changes, "duplicated_repair_id") = NULL
  /\ row.duplicated_repair_id # NULL

\* Mutant: the same-equipment check is forgotten.
LinkAllowedAcrossEquipment(table, r, target) ==
  target # r /\ target \in DOMAIN table

\* The link names another, existing record of the same equipment.  Its status
\* is not looked at.
LinkAllowed(table, r, target) ==
  /\ target # r
  /\ target \in DOMAIN table
  /\ table[target].equipment_id = table[r].equipment_id

\* update_repair_record raises no ValidationError.
Accepted(table, r, changes) ==
  LET row    == table[r]
      target == Effective(row, changes, "duplicated_repair_id")
  IN  /\ BecomesDuplicate(row, changes) => target # NULL
      /\ ~DropsLink(row, changes)
      /\ SetsDuplicate(row, changes)
           => Effective(row, changes, "status") = "Closed - Duplicate"
      /\ BecomesDuplicate(row, changes) \/ SetsDuplicate(row, changes)
           => LinkAllowed(table, r, target)

-----------------------------------------------------------------------------
(* What an accepted request writes, and what it queues after its commit.   *)

\* The silent clear for callers that pass only the status.
WithLinkCleared(row, changes) ==
  IF /\ LeavesDuplicate(row, changes)
     /\ row.duplicated_repair_id # NULL
     /\ "duplicated_repair_id" \notin DOMAIN changes
    THEN [f \in DOMAIN changes \cup {"duplicated_repair_id"} |->
            IF f = "duplicated_repair_id" THEN NULL ELSE changes[f]]
    ELSE changes

\* Mutant: the silent clear is forgotten.
WrittenLinkKept(row, changes) ==
  [f \in {g \in DOMAIN changes : changes[g] # row[g]} |-> changes[f]]

\* audit_changes: the fields that differ from the row as it was read.  These and
\* no others are in the UPDATE.
Written(row, changes) ==
  LET asked == WithLinkCleared(row, changes)
  IN  [f \in {g \in DOMAIN asked : asked[g] # row[g]} |-> asked[f]]

\* The UPDATE itself: the columns of write, over the row as it is now.
Updated(row, write) ==
  [equipment_id         |-> row.equipment_id,
   status               |-> Effective(row, write, "status"),
   severity             |-> Effective(row, write, "severity"),
   assignee_id          |-> Effective(row, write, "assignee_id"),
   eta                  |-> Effective(row, write, "eta"),
   duplicated_repair_id |-> Effective(row, write, "duplicated_repair_id")]

\* The closed branch: a status was written and it is a closed one.
Closes(write) ==
  "status" \in DOMAIN write /\ write["status"] \in CLOSED_STATUSES

\* Condition (a) of _maybe_queue_mac_clear, in the closed branch.
Unlocks(write) ==
  "status" \in DOMAIN write /\ write["status"] \in MAC_CLEAR_STATUSES

SlackEvents ==
  {"new_report", "resolved", "status_changed", "assignee_changed",
   "severity_changed", "eta_updated"}

\* Whether an update is followed by a Slack event; `on' are the notify_* switches
\* that are set.  The assignee is announced on its own only when no status event is.
Announces(event, write, on) ==
  /\ event \in on
  /\ CASE event = "resolved"         -> Closes(write)
       [] event = "status_changed"   -> "status" \in DOMAIN write /\ ~Closes(write)
       [] event = "assignee_changed" -> /\ "assignee_id" \in DOMAIN write
                                        /\ ~Closes(write)
                                        /\ "status" \in DOMAIN write
                                             => "status_changed" \notin on
       [] event = "severity_changed" -> "severity" \in DOMAIN write
       [] event = "eta_updated"      -> "eta" \in DOMAIN write
       [] OTHER                      -> FALSE

\* The work an update leaves to do after its commit.
FollowUps(write, on) ==
  {e \in SlackEvents : Announces(e, write, on)}
    \cup {i \in {"static_page_push"} :
            DOMAIN write \cap {"status", "severity", "eta"} # {}}
    \cup {i \in {"mac_check"} : Unlocks(write)}

\* The work a creation leaves.
CreateFollowUps(on) == {"static_page_push"} \cup ({"new_report"} \cap on)

FollowUpItems ==
  SlackEvents \cup {"static_page_push", "mac_check", "mac_clear"}

\* The order in which create_repair_record and update_repair_record queue.
Rank(item) ==
  CASE item = "static_page_push"            -> 1
    [] item \in {"mac_check", "mac_clear"} -> 3
    [] item = "severity_changed"            -> 4
    [] item = "eta_updated"                 -> 5
    [] OTHER                                -> 2
=============================================================================

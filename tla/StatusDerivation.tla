--------------------------- MODULE StatusDerivation ---------------------------
(***************************************************************************)
(* What members are told about equipment: status_service.py, and the two   *)
(* published pages.  Everything here is a function of the tables; names    *)
(* and rows are as small as the pages tell them apart.                     *)
(*                                                                         *)
(*   area       archived or not, and a name                                *)
(*   equipment  its area and name, archived or not, reservable or not      *)
(*   record     repair records by id: of which equipment, whether open,    *)
(*              how severe (NONE: no severity), with which ETA.  Ids grow, *)
(*              so the order of ids is that of (created_at, id).           *)
(*   booking    reservations: of which equipment, whether active, and      *)
(*              whether they lie ahead of the window the page shows, are   *)
(*              in it, or are over                                         *)
(***************************************************************************)
EXTENDS Integers, Sublists, FiniteSetsExt

CONSTANT NONE

Severities == {"Down", "Degraded", "Not Sure"}

\* _SEVERITY_STATUS: the colour of the dot and the priority of each severity.
Color(severity) == IF severity = "Down" THEN "red" ELSE "yellow"
Priority(severity) ==
  CASE severity = "Down" -> 0 [] severity = "Degraded" -> 1 [] OTHER -> 2

-----------------------------------------------------------------------------
\* Records in the order of the queries: oldest first.
OldestFirst(ids) ==
  Only([i \in 1 .. Max(ids \cup {0}) |-> i], ids)

\* Mutant: the filter on the status is forgotten.
AllRecords(record, e) ==
  OldestFirst({r \in DOMAIN record : record[r].equipment_id = e})

\* _get_open_records
OpenRecords(record, e) ==
  OldestFirst({r \in DOMAIN record : record[r].equipment_id = e /\ record[r].open})

\* _find_highest_severity_record: the first of the worst, those without a severity
\* not counted.
WorstRecord(record, list) ==
  LET known == {i \in DOMAIN list : record[list[i]].severity \in Severities}
      worst == {i \in known : \A j \in known : Priority(record[list[i]].severity)
                                                 <= Priority(record[list[j]].severity)}
  IN  IF worst = {} THEN NONE ELSE list[Min(worst)]

\* _derive_status_from_records: the colour, and the record that is described.
Derived(record, list) ==
  IF list = <<>> THEN [color |-> "green", about |-> NONE, eta |-> NONE]
  ELSE LET worst == WorstRecord(record, list)
           about == IF worst = NONE THEN list[1] ELSE worst
       IN  [color |-> IF worst = NONE THEN "yellow" ELSE Color(record[worst].severity),
            about |-> about, eta |-> record[about].eta]

\* Mutant: a record without a severity counts as the worst.
SortKeyUnknownFirst(record, r) ==
  IF record[r].severity \in Severities THEN Priority(record[r].severity) ELSE 0

\* _open_records_sort_key, without the age: the sort is stable, and the list is
\* sorted by age.
SortKey(record, r) == Priority(record[r].severity)

\* sorted(equip_records, key=_open_records_sort_key)
WorstFirst(record, list) ==
  LET WithKey(k) == Only(list, {r \in DOMAIN record : SortKey(record, r) = k})
  IN  WithKey(0) \o WithKey(1) \o WithKey(2)

-----------------------------------------------------------------------------
(* The views.                                                              *)

\* compute_equipment_status and get_equipment_status_detail: the equipment page, and
\* the status command of Slack.
EquipmentStatus(record, e) == Derived(record, OpenRecords(record, e))

\* equipment_page and the notice after a report, where archived equipment is not found.
EquipmentPage(equipment, record, e) ==
  IF equipment[e].is_archived THEN NONE ELSE EquipmentStatus(record, e)

\* The equipment of an area that its views list.
Listed(equipment, a) ==
  {e \in DOMAIN equipment : equipment[e].area_id = a /\ ~equipment[e].is_archived}

\* get_single_area_status_dashboard: the kiosk of an area; NONE is the 404.
AreaKiosk(area, equipment, record, a) ==
  IF area[a].is_archived THEN NONE
  ELSE [e \in Listed(equipment, a) |-> Derived(record, OpenRecords(record, e))]

\* get_area_status_dashboard: one query for the open records of all listed equipment,
\* grouped afterwards.
Dashboard(area, equipment, record) ==
  LET prefetched == OldestFirst({r \in DOMAIN record :
                        /\ record[r].open
                        /\ ~equipment[record[r].equipment_id].is_archived})
      Group(e) == Only(prefetched, {r \in DOMAIN record : record[r].equipment_id = e})
  IN  [a \in {b \in DOMAIN area : ~area[b].is_archived} |->
         [e \in Listed(equipment, a) |->
            [status |-> Derived(record, Group(e)),
             open_records |-> WorstFirst(record, Group(e))]]]

\* generate: what the static page says.
StatusPage(area, equipment, record) ==
  LET areas == Dashboard(area, equipment, record)
      Item(e, row) == [name |-> equipment[e].name, status |-> row.status,
                       records |-> [i \in DOMAIN row.open_records |->
                                      record[row.open_records[i]]]]
  IN  [a \in DOMAIN areas |->
         LET rows == areas[a]
         IN  [name |-> area[a].name,
              equipment |-> [e \in DOMAIN rows |-> Item(e, rows[e])]]]

\* Mutant: an unknown severity sorts as on the dashboard.
QueuePriorityFolded(severity) == Priority(severity)

\* _SEVERITY_PRIORITY of the repair queue, where an unknown severity comes last.
QueuePriority(severity) ==
  IF severity \in Severities THEN Priority(severity) ELSE 3

\* get_repair_queue without filters: what technicians have to do, on archived equipment
\* too.  (Records of one second are in the order of ids here, in any order there.)
RepairQueue(record) ==
  LET open == OldestFirst({r \in DOMAIN record : record[r].open})
      OfPriority(k) ==
        Only(open, {r \in DOMAIN record : QueuePriority(record[r].severity) = k})
  IN  OfPriority(0) \o OfPriority(1) \o OfPriority(2) \o OfPriority(3)

\* list_reservable_equipment
Reservable(equipment) ==
  {e \in DOMAIN equipment : ~equipment[e].is_archived /\ equipment[e].reservable}

\* get_public_availability and generate_reservations.
ReservationPage(equipment, booking) ==
  [e \in Reservable(equipment) |->
     [name |-> equipment[e].name,
      reserved |-> {b \in DOMAIN booking : /\ booking[b].equipment_id = e
                                           /\ booking[b].active
                                           /\ booking[b].when = "shown"}]]
=============================================================================

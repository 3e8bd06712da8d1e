----------------------------- MODULE PublicStatus -----------------------------
(***************************************************************************)
(* The tables from which members are told about equipment, the operations  *)
(* that change them, and the pushes each of them queues.  Every operation  *)
(* is one transaction here: what interleaving does to repairs and          *)
(* reservations is in RepairLifecycle and Reservations, what becomes of    *)
(* the pushes in StaticPages.                                              *)
(***************************************************************************)
EXTENDS StatusDerivation, PageChanges

CONSTANTS
  Area, Equipment, Booking,
  Record,         \* ids a repair record can get
  Name,           \* names of equipment and areas
  SeverityInput, EtaInput,
  InitialRecords, \* ids that may be in use at the start
  MaxChanges      \* bound: changes since the start

ASSUME PublicStatusAssumption ==
  /\ Record \subseteq Nat \ {0}
  /\ InitialRecords \subseteq Record /\ IsFiniteSet(InitialRecords)
  /\ SeverityInput \subseteq Severities \cup {NONE} /\ NONE \in EtaInput
  /\ Name # {} /\ MaxChanges \in Nat
  /\ NONE \notin Record /\ NONE \notin Severities  \* nor is it what a kiosk shows
  /\ LET Status == [color : {"red", "yellow", "green"}, about : Record \cup {NONE},
                    eta : EtaInput]
     IN  \A shown \in SUBSET Equipment : NONE \notin [shown -> Status]

VARIABLES
  area, equipment, record, booking,  \* the tables, see StatusDerivation
  told,     \* the pages that the last change queued pushes for
  changes   \* how many there were

tables == <<area, equipment, record, booking>>
vars == <<tables, told, changes>>

Times == {"ahead", "shown", "over"}
RecordRow ==
  [equipment_id : Equipment, open : BOOLEAN, severity : SeverityInput, eta : EtaInput]

\* Names only matter in that they change.
Anonymous == CHOOSE n \in Name : TRUE

\* Records of any kind, on equipment in use that is not reservable yet.
Init ==
  /\ area = [a \in Area |-> [name |-> Anonymous, is_archived |-> FALSE]]
  /\ equipment \in [Equipment -> [area_id : Area, name : {Anonymous}, is_archived : {FALSE},
                                  reservable : {FALSE}]]
  /\ \E used \in SUBSET InitialRecords : record \in [used -> RecordRow]
  /\ booking \in [Booking -> [equipment_id : Equipment, active : {FALSE}, when : {"over"}]]
  /\ told = {} /\ changes = 0

-----------------------------------------------------------------------------
Told(pages) ==
  /\ changes < MaxChanges
  /\ told' = pages /\ changes' = changes + 1

\* report_problem and create_repair_record: not on archived equipment.
ReportProblem(e) ==
  \E r \in Record \ DOMAIN record, severity \in SeverityInput :
    /\ \A s \in DOMAIN record : s < r
    /\ ~equipment[e].is_archived
    /\ record' = [s \in DOMAIN record \cup {r} |->
                    IF s = r THEN [equipment_id |-> e, open |-> TRUE,
                                   severity |-> severity, eta |-> NONE]
                    ELSE record[s]]
    /\ UNCHANGED <<area, equipment, booking>>
    /\ Told({"index"})

\* Mutant: the change of a severity alone is not told.
UpdateRecordQuietly(r) ==
  \E new \in {[record[r] EXCEPT !.open = FALSE], [record[r] EXCEPT !.open = TRUE]}
               \cup {[record[r] EXCEPT !.severity = s] : s \in SeverityInput}
               \cup {[record[r] EXCEPT !.eta = d] : d \in EtaInput} :
    /\ new # record[r]
    /\ record' = [record EXCEPT ![r] = new]
    /\ UNCHANGED <<area, equipment, booking>>
    /\ Told(IF new.severity = record[r].severity THEN {"index"} ELSE {})

\* update_repair_record: status, severity or ETA.
UpdateRecord(r) ==
  \E new \in {[record[r] EXCEPT !.open = FALSE], [record[r] EXCEPT !.open = TRUE]}
               \cup {[record[r] EXCEPT !.severity = s] : s \in SeverityInput}
               \cup {[record[r] EXCEPT !.eta = d] : d \in EtaInput} :
    /\ new # record[r]
    /\ record' = [record EXCEPT ![r] = new]
    /\ UNCHANGED <<area, equipment, booking>>
    /\ Told({"index"})

\* Pushes of a change to equipment: only the reservation page, if it shows it.
EquipmentPushes(e) == IF equipment[e].reservable THEN {"json"} ELSE {}

\* update_equipment: another name or area.  Archived equipment can be edited too.
UpdateEquipment(e) ==
  \E new \in {[equipment[e] EXCEPT !.name = n] : n \in Name}
               \cup {[equipment[e] EXCEPT !.area_id = a] :
                       a \in {b \in Area : ~area[b].is_archived}} :
    /\ new # equipment[e]
    /\ equipment' = [equipment EXCEPT ![e] = new]
    /\ UNCHANGED <<area, record, booking>>
    /\ Told(IF new.name # equipment[e].name THEN EquipmentPushes(e) ELSE {})

\* archive_equipment
ArchiveEquipment(e) ==
  /\ ~equipment[e].is_archived
  /\ equipment' = [equipment EXCEPT ![e].is_archived = TRUE]
  /\ UNCHANGED <<area, record, booking>>
  /\ Told(EquipmentPushes(e))

\* update_equipment_reservation_settings, when it changes something: whether the
\* equipment is reservable, or the window.
SaveReservationSettings(e) ==
  /\ ~equipment[e].is_archived
  /\ \/ /\ equipment' = [equipment EXCEPT ![e].reservable = ~@]
        /\ UNCHANGED booking
     \/ /\ \E b \in Booking, when \in {"ahead", "shown"} :
             /\ booking[b].equipment_id = e /\ booking[b].when \notin {when, "over"}
             /\ booking' = [booking EXCEPT ![b].when = when]
        /\ UNCHANGED equipment
  /\ UNCHANGED <<area, record>>
  /\ Told({"json"})

\* update_area and archive_area push nothing.
ChangeArea(a) ==
  \E new \in {[area[a] EXCEPT !.name = n] : n \in Name}
               \cup {[area[a] EXCEPT !.is_archived = TRUE]} :
    /\ new # area[a]
    /\ area' = [area EXCEPT ![a] = new]
    /\ UNCHANGED <<equipment, record, booking>>
    /\ Told({})

\* A reservation is made, or replaced by one at another time.
Book(b) ==
  /\ booking[b].equipment_id \in Reservable(equipment)
  /\ \E when \in {"ahead", "shown"} :
       booking' = [booking EXCEPT ![b].active = TRUE, ![b].when = when]
  /\ UNCHANGED <<area, equipment, record>>
  /\ Told({"json"})

Cancel(b) ==
  /\ booking[b].active
  /\ booking' = [booking EXCEPT ![b].active = FALSE]
  /\ UNCHANGED <<area, equipment, record>>
  /\ Told({"json"})

\* Time passes: a reservation comes into the window, or ends.
TimePasses(b) ==
  /\ booking[b].when # "over"
  /\ booking' = [booking EXCEPT ![b].when = IF @ = "ahead" THEN "shown" ELSE "over"]
  /\ UNCHANGED <<area, equipment, record>>
  /\ Told({})

Next ==
  \/ \E e \in Equipment : \/ ReportProblem(e) \/ UpdateEquipment(e) \/ ArchiveEquipment(e)
                          \/ SaveReservationSettings(e)
  \/ \E r \in DOMAIN record : UpdateRecord(r)
  \/ \E a \in Area : ChangeArea(a)
  \/ \E b \in Booking : Book(b) \/ Cancel(b) \/ TimePasses(b)

Spec == Init /\ [][Next]_vars

-----------------------------------------------------------------------------
TypeOK ==
  /\ DOMAIN record \subseteq Record /\ \A r \in DOMAIN record : record[r] \in RecordRow
  /\ area \in [Area -> [name : Name, is_archived : BOOLEAN]]
  /\ equipment \in [Equipment -> [area_id : Area, name : Name, is_archived : BOOLEAN,
                                  reservable : BOOLEAN]]
  /\ booking \in [Booking -> [equipment_id : Equipment, active : BOOLEAN, when : Times]]
  /\ told \subseteq Page /\ changes \in 0 .. MaxChanges

\* What _open_records_sort_key promises: the dot of a piece of equipment and the list
\* of its records do not disagree.  The dot has the colour of the first record of the
\* list, and the status tells of that record; only a record without a severity can
\* precede the one described, which is then a "Not Sure".
DotAndListAgree ==
  LET areas == Dashboard(area, equipment, record) IN
  \A a \in DOMAIN areas : \A e \in DOMAIN areas[a] :
    LET status == areas[a][e].status
        list == areas[a][e].open_records
    IN  IF list = <<>> THEN status.color = "green"
        ELSE /\ status.color = Color(record[list[1]].severity)
             /\ \/ status.about = list[1]
                \/ /\ record[list[1]].severity = NONE
                   /\ record[status.about].severity = "Not Sure"

\* Every view tells the same of a piece of equipment: the dashboard and the static
\* page, the kiosk of its area, its own page and Slack.
ViewsAgree ==
  LET areas == Dashboard(area, equipment, record) IN
  \A a \in Area :
    LET kiosk == AreaKiosk(area, equipment, record, a) IN
    /\ a \in DOMAIN areas <=> kiosk # NONE
    /\ a \in DOMAIN areas =>
         /\ DOMAIN areas[a] = DOMAIN kiosk
         /\ \A e \in DOMAIN kiosk :
              /\ kiosk[e] = areas[a][e].status
              /\ kiosk[e] = EquipmentPage(equipment, record, e)

\* What members are told is what technicians find first: of the records of a piece of
\* equipment, the one its status describes leads the repair queue, and equipment whose
\* dot is green has none in it.
QueueLeadsWithStatus ==
  LET areas == Dashboard(area, equipment, record) IN
  \A a \in DOMAIN areas : \A e \in DOMAIN areas[a] :
    LET mine == Only(RepairQueue(record), {r \in DOMAIN record : record[r].equipment_id = e})
        status == areas[a][e].status
    IN  IF mine = <<>> THEN status.color = "green"
        ELSE status.color # "green" /\ status.about = mine[1]

\* The pages that ought to say something else after a step.
Altered ==
  {p \in Page :
     \/ /\ p = "index"
        /\ StatusPage(area', equipment', record') # StatusPage(area, equipment, record)
     \/ /\ p = "json"
        /\ ReservationPage(equipment', booking') # ReservationPage(equipment, booking)}

\* Which changes the published pages are told of.  A step that alters what a page ought
\* to say queues a push for it, with two exceptions: edits of areas and equipment leave
\* the status page as it is until the next repair, and the passing of time leaves both
\* alone.  So no change of a repair record, a reservation or the reservable equipment
\* goes without its push.
ChangesAreTold ==
  [][\E kind \in ChangeKinds :
       /\ told' = kind.tells
       /\ Altered \subseteq kind.alters
       /\ kind = OtherEdits => area' # area \/ equipment' # equipment
       /\ kind = Window => /\ UNCHANGED <<area, equipment, record>>
                          /\ \A b \in Booking : booking'[b].active = booking[b].active]_vars
=============================================================================

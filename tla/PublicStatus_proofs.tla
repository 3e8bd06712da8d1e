--------------------------- MODULE PublicStatus_proofs ---------------------------
(***************************************************************************)
(* What members are told about equipment, for any areas, equipment,        *)
(* records and severities.  Every list of records of the program is sorted *)
(* by a key and then by id, so that its first record is determined by what *)
(* is in it, however the list was made; that is why the views agree.       *)
(***************************************************************************)
EXTENDS PublicStatus, Sublists_proofs

-----------------------------------------------------------------------------
(* The tables.                                                             *)

\* There are finitely many records, so that the queries return lists.
IInv == TypeOK /\ IsFiniteSet(DOMAIN record)

LEMMA Initially == Init => IInv
<1> SUFFICES ASSUME Init PROVE IInv
  OBVIOUS
<1>1. Anonymous \in Name
  BY PublicStatusAssumption DEF Anonymous
<1>2. PICK used \in SUBSET InitialRecords : record \in [used -> RecordRow]
  BY DEF Init
<1>3. /\ DOMAIN record \subseteq Record /\ IsFiniteSet(DOMAIN record)
      /\ \A r \in DOMAIN record : record[r] \in RecordRow
  BY <1>2, PublicStatusAssumption, FS_Subset
<1>4. /\ area \in [Area -> [name : Name, is_archived : BOOLEAN]]
      /\ equipment \in [Equipment -> [area_id : Area, name : Name, is_archived : BOOLEAN,
                                      reservable : BOOLEAN]]
      /\ booking \in [Booking -> [equipment_id : Equipment, active : BOOLEAN, when : Times]]
  <2>1. area \in [Area -> [name : Name, is_archived : BOOLEAN]]
    BY <1>1 DEF Init
  <2>2. equipment \in [Equipment -> [area_id : Area, name : Name, is_archived : BOOLEAN,
                                     reservable : BOOLEAN]]
    BY <1>1 DEF Init
  <2>3. booking \in [Booking -> [equipment_id : Equipment, active : BOOLEAN, when : Times]]
    <3>1. [equipment_id : Equipment, active : {FALSE}, when : {"over"}]
            \subseteq [equipment_id : Equipment, active : BOOLEAN, when : Times]
      BY DEF Times
    <3>2. booking \in [Booking -> [equipment_id : Equipment, active : {FALSE}, when : {"over"}]]
      BY DEF Init
    <3> QED
      BY <3>1, <3>2
  <2> QED
    BY <2>1, <2>2, <2>3
<1>5. told \subseteq Page /\ changes \in 0 .. MaxChanges
  BY PublicStatusAssumption DEF Init
<1> QED
  BY <1>3, <1>4, <1>5 DEF IInv, TypeOK

\* What a step leaves alone, and what it counts.
LEMMA ToldStep ==
  ASSUME IInv, NEW pages \in SUBSET Page, Told(pages)
  PROVE  told' \subseteq Page /\ changes' \in 0 .. MaxChanges
BY PublicStatusAssumption DEF IInv, TypeOK, Told

LEMMA ReportStep ==
  ASSUME IInv, NEW e \in Equipment, ReportProblem(e)
  PROVE  IInv'
<1>1. PICK r \in Record \ DOMAIN record, severity \in SeverityInput :
        /\ record' = [s \in DOMAIN record \cup {r} |->
                        IF s = r THEN [equipment_id |-> e, open |-> TRUE,
                                       severity |-> severity, eta |-> NONE]
                        ELSE record[s]]
        /\ UNCHANGED <<area, equipment, booking>>
        /\ Told({"index"})
  BY DEF ReportProblem
<1>2. \A s \in DOMAIN record' : record'[s] \in RecordRow
  BY <1>1, PublicStatusAssumption DEF IInv, TypeOK, RecordRow
<1>3. DOMAIN record' \subseteq Record /\ IsFiniteSet(DOMAIN record')
  BY <1>1, FS_AddElement DEF IInv, TypeOK
<1>4. told' \subseteq Page /\ changes' \in 0 .. MaxChanges
  BY <1>1, ToldStep DEF Page
<1> QED
  BY <1>1, <1>2, <1>3, <1>4 DEF IInv, TypeOK

LEMMA UpdateStep ==
  ASSUME IInv, NEW r \in DOMAIN record, UpdateRecord(r)
  PROVE  IInv'
<1>1. record[r] \in RecordRow
  BY DEF IInv, TypeOK
<1>2. PICK new \in {[record[r] EXCEPT !.open = FALSE], [record[r] EXCEPT !.open = TRUE]}
               \cup {[record[r] EXCEPT !.severity = s] : s \in SeverityInput}
               \cup {[record[r] EXCEPT !.eta = d] : d \in EtaInput} :
        /\ record' = [record EXCEPT ![r] = new]
        /\ UNCHANGED <<area, equipment, booking>>
        /\ Told({"index"})
  BY DEF UpdateRecord
<1>3. new \in RecordRow
  BY <1>1, <1>2 DEF RecordRow
<1>4. /\ DOMAIN record' = DOMAIN record
      /\ \A s \in DOMAIN record' : record'[s] \in RecordRow
  BY <1>2, <1>3 DEF IInv, TypeOK
<1>5. told' \subseteq Page /\ changes' \in 0 .. MaxChanges
  BY <1>2, ToldStep DEF Page
<1> QED
  BY <1>2, <1>4, <1>5 DEF IInv, TypeOK

\* The operations on equipment, areas and reservations.
LEMMA OtherStep ==
  ASSUME IInv,
         \/ \E e \in Equipment : \/ UpdateEquipment(e) \/ ArchiveEquipment(e)
                                 \/ SaveReservationSettings(e)
         \/ \E a \in Area : ChangeArea(a)
         \/ \E b \in Booking : Book(b) \/ Cancel(b) \/ TimePasses(b)
  PROVE  IInv'
<1> DEFINE AreaTyped == area \in [Area -> [name : Name, is_archived : BOOLEAN]]
           EquipmentTyped ==
             equipment \in [Equipment -> [area_id : Area, name : Name, is_archived : BOOLEAN,
                                          reservable : BOOLEAN]]
           BookingTyped ==
             booking \in [Booking -> [equipment_id : Equipment, active : BOOLEAN,
                                      when : Times]]
<1>0. AreaTyped /\ EquipmentTyped /\ BookingTyped
  BY DEF IInv, TypeOK
<1>1. ASSUME NEW e \in Equipment, UpdateEquipment(e)
      PROVE  AreaTyped' /\ EquipmentTyped' /\ BookingTyped' /\ record' = record
             /\ \E pages \in SUBSET Page : Told(pages)
  <2>1. PICK new \in {[equipment[e] EXCEPT !.name = n] : n \in Name}
               \cup {[equipment[e] EXCEPT !.area_id = a] :
                       a \in {b \in Area : ~area[b].is_archived}} :
          /\ equipment' = [equipment EXCEPT ![e] = new]
          /\ UNCHANGED <<area, record, booking>>
          /\ Told(IF new.name # equipment[e].name THEN EquipmentPushes(e) ELSE {})
    BY <1>1 DEF UpdateEquipment
  <2>2. new \in [area_id : Area, name : Name, is_archived : BOOLEAN, reservable : BOOLEAN]
    BY <1>0, <2>1
  <2>3. EquipmentTyped'
    BY <1>0, <2>1, <2>2
  <2>4. {} \in SUBSET Page /\ EquipmentPushes(e) \in SUBSET Page
    BY DEF EquipmentPushes, Page
  <2> QED
    BY <1>0, <2>1, <2>3, <2>4
<1>2. ASSUME NEW e \in Equipment, ArchiveEquipment(e)
      PROVE  AreaTyped' /\ EquipmentTyped' /\ BookingTyped' /\ record' = record
             /\ \E pages \in SUBSET Page : Told(pages)
  <2>1. EquipmentTyped'
    BY <1>0, <1>2 DEF ArchiveEquipment
  <2>2. EquipmentPushes(e) \in SUBSET Page
    BY DEF EquipmentPushes, Page
  <2> QED
    BY <1>0, <1>2, <2>1, <2>2 DEF ArchiveEquipment
<1>3. ASSUME NEW e \in Equipment, SaveReservationSettings(e)
      PROVE  AreaTyped' /\ EquipmentTyped' /\ BookingTyped' /\ record' = record
             /\ \E pages \in SUBSET Page : Told(pages)
  <2>1. EquipmentTyped' /\ BookingTyped'
    <3>1. CASE /\ equipment' = [equipment EXCEPT ![e].reservable = ~@]
               /\ UNCHANGED booking
      BY <1>0, <3>1
    <3>2. CASE /\ \E b \in Booking, when \in {"ahead", "shown"} :
                    booking' = [booking EXCEPT ![b].when = when]
               /\ UNCHANGED equipment
      <4>1. PICK b \in Booking, when \in {"ahead", "shown"} :
              booking' = [booking EXCEPT ![b].when = when]
        BY <3>2
      <4>2. BookingTyped'
        BY <1>0, <4>1 DEF Times
      <4> QED
        BY <1>0, <3>2, <4>2
    <3> QED
      BY <1>3, <3>1, <3>2 DEF SaveReservationSettings
  <2>3. Told({"json"}) /\ {"json"} \in SUBSET Page
    BY <1>3 DEF SaveReservationSettings, Page
  <2> QED
    BY <1>0, <1>3, <2>1, <2>3 DEF SaveReservationSettings
<1>4. ASSUME NEW a \in Area, ChangeArea(a)
      PROVE  AreaTyped' /\ EquipmentTyped' /\ BookingTyped' /\ record' = record
             /\ \E pages \in SUBSET Page : Told(pages)
  <2>1. PICK new \in {[area[a] EXCEPT !.name = n] : n \in Name}
               \cup {[area[a] EXCEPT !.is_archived = TRUE]} :
          /\ area' = [area EXCEPT ![a] = new]
          /\ UNCHANGED <<equipment, record, booking>>
          /\ Told({})
    BY <1>4 DEF ChangeArea
  <2>2. new \in [name : Name, is_archived : BOOLEAN]
    BY <1>0, <2>1
  <2> QED
    BY <1>0, <2>1, <2>2
<1>5. ASSUME NEW b \in Booking, Book(b) \/ Cancel(b) \/ TimePasses(b)
      PROVE  AreaTyped' /\ EquipmentTyped' /\ BookingTyped' /\ record' = record
             /\ \E pages \in SUBSET Page : Told(pages)
  <2>1. BookingTyped'
    <3>1. CASE Book(b)
      <4>1. PICK when \in {"ahead", "shown"} :
              booking' = [booking EXCEPT ![b].active = TRUE, ![b].when = when]
        BY <3>1 DEF Book
      <4> QED
        BY <1>0, <4>1 DEF Times
    <3>2. CASE Cancel(b)
      BY <1>0, <3>2 DEF Cancel
    <3>3. CASE TimePasses(b)
      BY <1>0, <3>3 DEF TimePasses, Times
    <3> QED
      BY <1>5, <3>1, <3>2, <3>3
  <2>2. (Told({"json"}) \/ Told({})) /\ {"json"} \in SUBSET Page /\ {} \in SUBSET Page
    BY <1>5 DEF Book, Cancel, TimePasses, Page
  <2> QED
    BY <1>0, <1>5, <2>1, <2>2 DEF Book, Cancel, TimePasses
<1>6. /\ AreaTyped' /\ EquipmentTyped' /\ BookingTyped' /\ record' = record
      /\ \E pages \in SUBSET Page : Told(pages)
  BY <1>1, <1>2, <1>3, <1>4, <1>5
<1>7. told' \subseteq Page /\ changes' \in 0 .. MaxChanges
  BY <1>6, ToldStep
<1> QED
  BY <1>6, <1>7 DEF IInv, TypeOK

LEMMA Inductive == IInv /\ [Next]_vars => IInv'
<1> SUFFICES ASSUME IInv, [Next]_vars PROVE IInv'
  OBVIOUS
<1>1. CASE UNCHANGED vars
  BY <1>1 DEF IInv, TypeOK, vars, tables
<1> QED
  BY <1>1, ReportStep, UpdateStep, OtherStep DEF Next

\* Every operation keeps the tables well-formed, and the records finitely many.
THEOREM Invariant == Spec => []IInv
BY Initially, Inductive, PTL DEF Spec

\* The tables are well-formed.
THEOREM TypeCorrect == Spec => []TypeOK
<1>1. IInv => TypeOK
  BY DEF IInv
<1> QED
  BY <1>1, Invariant, PTL

-----------------------------------------------------------------------------
(* The lists of records.                                                   *)

LEMMA OldestFirstIs ==
  ASSUME NEW ids, ids \subseteq Nat \ {0}, IsFiniteSet(ids)
  PROVE  /\ OldestFirst(ids) \in Seq(ids) /\ Elements(OldestFirst(ids)) = ids
         /\ SortedBy(OldestFirst(ids), Before)
<1> DEFINE M == Max(ids \cup {0})
           all == [i \in 1 .. M |-> i]
<1>1. M \in Nat /\ \A x \in ids : x <= M
  <2>1. PICK b \in Nat : \A x \in ids : x <= b
    BY FiniteBounded
  <2>2. \E m \in ids \cup {0} : \A x \in ids \cup {0} : m >= x
    <3>1. ids \cup {0} \subseteq Nat /\ ids \cup {0} # {} /\ \A x \in ids \cup {0} : x <= b
      BY <2>1
    <3>2. PICK m \in ids \cup {0} : \A x \in ids \cup {0} : x <= m
      BY <3>1, Greatest
    <3> QED
      BY <3>1, <3>2
  <2>3. M \in ids \cup {0} /\ \A x \in ids \cup {0} : M >= x
    BY <2>2 DEF Max
  <2> HIDE DEF M
  <2>4. M \in Nat /\ \A x \in ids : x \in Nat
    BY <2>3
  <2> QED
    BY <2>3, <2>4
<1> HIDE DEF M
<1>2. all \in Seq(Nat) /\ Len(all) = M /\ DOMAIN all = 1 .. M
  BY <1>1
<1>3. SortedBy(all, Before)
  BY <1>1 DEF SortedBy, Before
<1>4. Elements(all) = 1 .. M
  BY DEF Elements
<1>5. ids \subseteq 1 .. M
  BY <1>1
<1> HIDE DEF all
<1>6. PICK list : list = Only(all, ids)
  OBVIOUS
<1>7. /\ list \in Seq(Nat \cap ids) /\ Elements(list) = 1 .. M \cap ids
      /\ SortedBy(list, Before)
  BY <1>2, <1>3, <1>4, <1>6, OnlyPicks, OnlyElements, OnlySorted
<1>8. Nat \cap ids = ids /\ 1 .. M \cap ids = ids
  BY <1>5
<1>9. OldestFirst(ids) = list
  BY <1>6 DEF OldestFirst, all, M
<1> QED
  BY <1>7, <1>8, <1>9

\* A list of records, oldest first.
Dated(list) ==
  list \in Seq(DOMAIN record) /\ list \in Seq(Nat) /\ SortedBy(list, Before)

LEMMA RecordsDated ==
  ASSUME IInv, NEW ids \in SUBSET DOMAIN record
  PROVE  Dated(OldestFirst(ids)) /\ Elements(OldestFirst(ids)) = ids
<1>1. DOMAIN record \subseteq Nat \ {0} /\ IsFiniteSet(ids)
  BY PublicStatusAssumption, FS_Subset DEF IInv, TypeOK
<1>2. PICK list : list = OldestFirst(ids)
  OBVIOUS
<1>3. list \in Seq(ids) /\ Elements(list) = ids /\ SortedBy(list, Before)
  BY <1>1, <1>2, OldestFirstIs
<1>4. DOMAIN list = 1 .. Len(list) /\ Len(list) \in Nat /\ \A i \in 1 .. Len(list) : list[i] \in ids
  BY <1>3, LenProperties, ElementOfSeq
<1>5. list \in Seq(DOMAIN record) /\ list \in Seq(Nat)
  BY <1>1, <1>3, <1>4
<1> QED
  BY <1>2, <1>3, <1>5 DEF Dated

LEMMA OnlyDated ==
  ASSUME NEW list, Dated(list), NEW keep
  PROVE  Dated(Only(list, keep)) /\ Elements(Only(list, keep)) = Elements(list) \cap keep
<1>1. PICK part : part = Only(list, keep)
  OBVIOUS
<1>2. /\ part \in Seq(DOMAIN record \cap keep) /\ part \in Seq(Nat \cap keep)
      /\ SortedBy(part, Before) /\ Elements(part) = Elements(list) \cap keep
  BY <1>1, OnlyPicks, OnlyElements, OnlySorted DEF Dated
<1>3. part \in Seq(DOMAIN record) /\ part \in Seq(Nat)
  <2>1. /\ DOMAIN part = 1 .. Len(part) /\ Len(part) \in Nat
        /\ \A i \in 1 .. Len(part) : part[i] \in DOMAIN record /\ part[i] \in Nat
    BY <1>2, LenProperties, ElementOfSeq
  <2> QED
    BY <1>2, <2>1
<1> QED
  BY <1>1, <1>2, <1>3 DEF Dated

\* The open records of a piece of equipment.
OpenIds(e) == {r \in DOMAIN record : record[r].equipment_id = e /\ record[r].open}

\* What the dashboard takes for them from its one query.
GroupOf(e) ==
  Only(OldestFirst({r \in DOMAIN record : /\ record[r].open
                                          /\ ~equipment[record[r].equipment_id].is_archived}),
       {r \in DOMAIN record : record[r].equipment_id = e})

LEMMA OpenRecordsDated ==
  ASSUME IInv, NEW e
  PROVE  Dated(OpenRecords(record, e)) /\ Elements(OpenRecords(record, e)) = OpenIds(e)
<1>1. OpenIds(e) \in SUBSET DOMAIN record
  BY DEF OpenIds
<1>2. OpenRecords(record, e) = OldestFirst(OpenIds(e))
  BY DEF OpenRecords, OpenIds
<1> QED
  BY <1>1, <1>2, RecordsDated

LEMMA GroupIsOpenRecords ==
  ASSUME IInv, NEW e \in Equipment, ~equipment[e].is_archived
  PROVE  GroupOf(e) = OpenRecords(record, e)
<1> DEFINE ids == {r \in DOMAIN record : /\ record[r].open
                                         /\ ~equipment[record[r].equipment_id].is_archived}
           mine == {r \in DOMAIN record : record[r].equipment_id = e}
<1>1. ids \in SUBSET DOMAIN record /\ ids \cap mine = OpenIds(e)
  BY DEF OpenIds
<1>2. PICK list : list = OldestFirst(ids)
  OBVIOUS
<1>3. Dated(list) /\ Elements(list) = ids
  <2> HIDE DEF ids
  <2> QED
    BY <1>1, <1>2, RecordsDated
<1>4. GroupOf(e) = Only(list, mine)
  BY <1>2 DEF GroupOf
<1> HIDE DEF ids, mine
<1>5. Dated(GroupOf(e)) /\ Elements(GroupOf(e)) = OpenIds(e)
  BY <1>1, <1>3, <1>4, OnlyDated
<1> QED
  BY <1>5, OpenRecordsDated, AscendingUnique DEF Dated

\* Sorted by a key of the records.
LEMMA DatedByKey ==
  ASSUME IInv, NEW list, Dated(list), NEW key \in [DOMAIN record -> Nat]
  PROVE  LET D == DOMAIN record
             three == OfKey(D, list, key, 0) \o OfKey(D, list, key, 1) \o OfKey(D, list, key, 2)
         IN  /\ UpTo(D, list, key, 3, three)
             /\ UpTo(D, list, key, 4, three \o OfKey(D, list, key, 3))
<1>1. DOMAIN record \subseteq Nat
  BY PublicStatusAssumption DEF IInv, TypeOK
<1>2. Keyed(DOMAIN record, list, key)
  BY <1>1 DEF Keyed, Dated
<1> QED
  BY <1>2, SortedByKey

\* The first of a list that is sorted by a key.
LEMMA FirstByKey ==
  ASSUME IInv, NEW list, Dated(list), NEW key \in [DOMAIN record -> Nat], NEW sorted \in Seq(DOMAIN record),
         SortedBy(sorted, KeyOrder(DOMAIN record, key)), sorted # <<>>
  PROVE  /\ sorted[1] \in Elements(sorted)
         /\ \A r \in Elements(sorted) :
              \/ key[sorted[1]] < key[r]
              \/ key[sorted[1]] = key[r] /\ sorted[1] <= r
<1>0. DOMAIN record \subseteq Nat
  BY PublicStatusAssumption DEF IInv, TypeOK
<1>1. /\ sorted[1] \in Elements(sorted) /\ Elements(sorted) \subseteq DOMAIN record
      /\ \A r \in Elements(sorted) : \/ r = sorted[1]
                                     \/ <<sorted[1], r>> \in KeyOrder(DOMAIN record, key)
  BY FirstOfSorted, ElementOfSeq DEF Elements
<1>2. Keyed(DOMAIN record, list, key)
  BY <1>0 DEF Keyed, Dated
<1> SUFFICES ASSUME NEW r \in Elements(sorted)
             PROVE  \/ key[sorted[1]] < key[r]
                    \/ key[sorted[1]] = key[r] /\ sorted[1] <= r
  BY <1>1
<1>3. CASE r = sorted[1]
  BY <1>0, <1>1, <1>3
<1>4. CASE <<sorted[1], r>> \in KeyOrder(DOMAIN record, key)
  <2>1. r \in DOMAIN record /\ sorted[1] \in DOMAIN record
    BY <1>1
  <2>2. key[sorted[1]] < key[r] \/ (key[sorted[1]] = key[r] /\ sorted[1] < r)
    BY <1>2, <1>4, <2>1, InKeyOrder
  <2> QED
    BY <1>0, <2>1, <2>2
<1> QED
  BY <1>1, <1>3, <1>4

-----------------------------------------------------------------------------
(* The status, and the lists sorted by severity.                           *)

Sev(r) == record[r].severity

LEMMA SeverityTable ==
  /\ Priority("Down") = 0 /\ QueuePriority("Down") = 0 /\ Color("Down") = "red"
  /\ Priority("Degraded") = 1 /\ QueuePriority("Degraded") = 1 /\ Color("Degraded") = "yellow"
  /\ Priority("Not Sure") = 2 /\ QueuePriority("Not Sure") = 2 /\ Color("Not Sure") = "yellow"
  /\ Priority(NONE) = 2 /\ QueuePriority(NONE) = 3 /\ Color(NONE) = "yellow"
  /\ NONE \notin Severities
<1>1. NONE \notin Severities
  BY PublicStatusAssumption
<1>2. NONE # "Down" /\ NONE # "Degraded"
  BY <1>1 DEF Severities
<1>3. /\ Priority("Down") = 0 /\ Priority("Degraded") = 1
      /\ Priority("Not Sure") = 2 /\ Priority(NONE) = 2
  BY <1>2 DEF Priority
<1>4. /\ QueuePriority("Down") = 0 /\ QueuePriority("Degraded") = 1
      /\ QueuePriority("Not Sure") = 2 /\ QueuePriority(NONE) = 3
  BY <1>1, <1>3 DEF QueuePriority, Severities
<1>5. /\ Color("Down") = "red" /\ Color("Degraded") = "yellow"
      /\ Color("Not Sure") = "yellow" /\ Color(NONE) = "yellow"
  BY <1>2 DEF Color
<1> QED
  BY <1>1, <1>3, <1>4, <1>5

LEMMA SeverityValues ==
  ASSUME NEW s \in Severities \cup {NONE}
  PROVE  /\ Priority(s) \in Nat /\ Priority(s) <= 2
         /\ QueuePriority(s) \in Nat /\ QueuePriority(s) <= 3
         /\ Color(s) \in {"red", "yellow"}
         /\ s \in Severities => QueuePriority(s) = Priority(s)
         /\ s \notin Severities => /\ s = NONE /\ Priority(s) = 2
                                  /\ QueuePriority(s) = 3 /\ Color(s) = "yellow"
         /\ Priority(s) = 2 /\ s \in Severities => s = "Not Sure" /\ Color(s) = "yellow"
<1>1. CASE s = "Down"
  <2>1. Priority(s) = 0 /\ QueuePriority(s) = 0 /\ Color(s) = "red"
    BY <1>1, SeverityTable
  <2>2. s \in Severities
    BY <1>1 DEF Severities
  <2> QED
    BY <1>1, <2>1, <2>2
<1>2. CASE s = "Degraded"
  <2>1. Priority(s) = 1 /\ QueuePriority(s) = 1 /\ Color(s) = "yellow"
    BY <1>2, SeverityTable
  <2>2. s \in Severities
    BY <1>2 DEF Severities
  <2> QED
    BY <1>2, <2>1, <2>2
<1>3. CASE s = "Not Sure"
  <2>1. Priority(s) = 2 /\ QueuePriority(s) = 2 /\ Color(s) = "yellow"
    BY <1>3, SeverityTable
  <2>2. s \in Severities
    BY <1>3 DEF Severities
  <2>3. /\ Priority(s) \in Nat /\ Priority(s) <= 2
        /\ QueuePriority(s) \in Nat /\ QueuePriority(s) <= 3
        /\ Color(s) \in {"red", "yellow"}
    BY <2>1
  <2> QED
    BY <1>3, <2>1, <2>2, <2>3, Zenon
<1>4. CASE s = NONE
  <2>1. Priority(s) = 2 /\ QueuePriority(s) = 3 /\ Color(s) = "yellow"
    BY <1>4, SeverityTable
  <2>2. s \notin Severities
    BY <1>4, SeverityTable
  <2>3. /\ Priority(s) \in Nat /\ Priority(s) <= 2
        /\ QueuePriority(s) \in Nat /\ QueuePriority(s) <= 3
        /\ Color(s) \in {"red", "yellow"}
    BY <2>1
  <2> QED
    BY <1>4, <2>1, <2>2, <2>3, Zenon
<1> QED
  BY <1>1, <1>2, <1>3, <1>4 DEF Severities

LEMMA Severity ==
  ASSUME IInv, NEW r \in DOMAIN record
  PROVE  /\ r \in Nat /\ r \in Record /\ r # NONE
         /\ Sev(r) \in Severities \cup {NONE}
         /\ Priority(Sev(r)) \in Nat /\ Priority(Sev(r)) <= 2
         /\ QueuePriority(Sev(r)) \in Nat /\ QueuePriority(Sev(r)) <= 3
         /\ Color(Sev(r)) \in {"red", "yellow"}
         /\ SortKey(record, r) = Priority(Sev(r))
         /\ Sev(r) \in Severities => QueuePriority(Sev(r)) = Priority(Sev(r))
         /\ Sev(r) \notin Severities => /\ Sev(r) = NONE /\ Priority(Sev(r)) = 2
                                        /\ QueuePriority(Sev(r)) = 3 /\ Color(Sev(r)) = "yellow"
         /\ Priority(Sev(r)) = 2 /\ Sev(r) \in Severities
              => Sev(r) = "Not Sure" /\ Color(Sev(r)) = "yellow"
<1>1. r \in Nat /\ r \in Record /\ r # NONE
  BY PublicStatusAssumption DEF IInv, TypeOK
<1>2. Sev(r) \in Severities \cup {NONE}
  BY PublicStatusAssumption DEF IInv, TypeOK, RecordRow, Sev
<1>3. SortKey(record, r) = Priority(Sev(r))
  BY DEF SortKey, Sev
<1> QED
  BY <1>1, <1>2, <1>3, SeverityValues

\* Which record a status describes: the oldest of the worst whose severity is known or,
\* if none is, the oldest.
LEMMA Described ==
  ASSUME IInv, NEW list, Dated(list), list # <<>>
  PROVE  LET status == Derived(record, list) IN
         /\ status.about \in Elements(list)
         /\ \/ /\ \A r \in Elements(list) : Sev(r) \notin Severities /\ status.about <= r
               /\ status.color = "yellow"
            \/ /\ Sev(status.about) \in Severities
               /\ status.color = Color(Sev(status.about))
               /\ \A r \in Elements(list) : Sev(r) \in Severities =>
                    \/ Priority(Sev(status.about)) < Priority(Sev(r))
                    \/ Priority(Sev(status.about)) = Priority(Sev(r)) /\ status.about <= r
<1> DEFINE known == {i \in DOMAIN list : record[list[i]].severity \in Severities}
           worst == {i \in known : \A j \in known : Priority(record[list[i]].severity)
                                                      <= Priority(record[list[j]].severity)}
<1>1. /\ DOMAIN list = 1 .. Len(list) /\ Len(list) \in Nat
      /\ \A i \in DOMAIN list : list[i] \in DOMAIN record /\ list[i] \in Nat
      /\ 1 \in DOMAIN list /\ \A r \in Elements(list) : \E i \in DOMAIN list : r = list[i]
  BY LenProperties, ElementOfSeq, EmptySeq DEF Dated, Elements
<1>2. \A i, j \in DOMAIN list : i <= j => list[i] <= list[j]
  <2> SUFFICES ASSUME NEW i \in DOMAIN list, NEW j \in DOMAIN list, i <= j
               PROVE  list[i] <= list[j]
    OBVIOUS
  <2>1. CASE i = j
    BY <1>1, <2>1
  <2>2. CASE i < j
    <3>1. list[i] < list[j]
      BY <2>2 DEF Dated, SortedBy, Before
    <3> QED
      BY <1>1, <3>1
  <2> QED
    BY <1>1, <2>1, <2>2
<1>3. WorstRecord(record, list) = IF worst = {} THEN NONE ELSE list[Min(worst)]
  BY DEF WorstRecord
<1>4. Derived(record, list) =
        LET w == WorstRecord(record, list)
            about == IF w = NONE THEN list[1] ELSE w
        IN  [color |-> IF w = NONE THEN "yellow" ELSE Color(record[w].severity),
             about |-> about, eta |-> record[about].eta]
  BY DEF Derived
<1>5. \A i \in DOMAIN list : Sev(list[i]) = record[list[i]].severity
  BY DEF Sev
<1>6. CASE known = {}
  <2>1. worst = {}
    BY <1>6
  <2>2. /\ Derived(record, list).about = list[1]
        /\ Derived(record, list).color = "yellow"
    BY <1>3, <1>4, <2>1
  <2>3. \A r \in Elements(list) : Sev(r) \notin Severities /\ list[1] <= r
    BY <1>1, <1>2, <1>5, <1>6
  <2>4. list[1] \in Elements(list)
    BY <1>1 DEF Elements
  <2> QED
    BY <2>2, <2>3, <2>4
<1>7. CASE known # {}
  <2>1. known \subseteq DOMAIN list /\ known \subseteq Nat
    BY <1>1
  <2>2. worst # {}
    <3> DEFINE T == {Priority(record[list[i]].severity) : i \in known}
    <3>1. T \subseteq Nat /\ T # {}
      <4>1. \A i \in DOMAIN list : Priority(record[list[i]].severity) \in Nat
        <5>1. \A i \in DOMAIN list : Priority(Sev(list[i])) \in Nat
          BY <1>1, Severity
        <5> QED
          BY <1>5, <5>1
      <4> QED
        BY <1>7, <2>1, <4>1
    <3>2. PICK m \in T : \A n \in T : m <= n
      <4> HIDE DEF T
      <4> QED
        BY <3>1, Least
    <3>3. PICK i \in known : m = Priority(record[list[i]].severity)
      BY <3>2
    <3>4. \A j \in known : Priority(record[list[j]].severity) \in T
      OBVIOUS
    <3>5. i \in worst
      BY <3>2, <3>3, <3>4
    <3> QED
      BY <3>5
  <2>3. PICK i : i = Min(worst)
    OBVIOUS
  <2>4. i \in worst /\ \A j \in worst : i <= j
    <3>1. worst \subseteq Nat
      BY <2>1
    <3> HIDE DEF worst
    <3>2. PICK m \in worst : \A n \in worst : m <= n
      BY <2>2, <3>1, Least
    <3> QED
      BY <2>3, <3>2 DEF Min
  <2>5. i \in DOMAIN list /\ i \in known
    BY <2>1, <2>4
  <2>6. WorstRecord(record, list) = list[i] /\ list[i] # NONE
    BY <1>1, <1>3, <2>2, <2>3, <2>5, Severity
  <2>7. /\ Derived(record, list).about = list[i]
        /\ Derived(record, list).color = Color(Sev(list[i]))
    BY <1>4, <1>5, <2>5, <2>6
  <2>8. list[i] \in Elements(list) /\ Sev(list[i]) \in Severities
    BY <1>5, <2>5 DEF Elements
  <2>9. ASSUME NEW r \in Elements(list), Sev(r) \in Severities
        PROVE  \/ Priority(Sev(list[i])) < Priority(Sev(r))
               \/ Priority(Sev(list[i])) = Priority(Sev(r)) /\ list[i] <= r
    <3>1. PICK j \in DOMAIN list : r = list[j]
      BY <1>1
    <3>2. j \in known
      BY <1>5, <2>9, <3>1
    <3>3. /\ Priority(Sev(list[i])) <= Priority(Sev(r))
          /\ Priority(Sev(list[i])) \in Nat /\ Priority(Sev(r)) \in Nat
      <4>1. Priority(record[list[i]].severity) <= Priority(record[list[j]].severity)
        BY <2>4, <3>2
      <4>2. Priority(Sev(list[i])) \in Nat /\ Priority(Sev(list[j])) \in Nat
        BY <1>1, <2>5, Severity
      <4> QED
        BY <1>5, <2>5, <3>1, <4>1, <4>2
    <3>4. CASE Priority(Sev(list[i])) = Priority(Sev(r))
      <4>1. j \in worst
        BY <1>5, <2>4, <2>5, <3>1, <3>2, <3>4
      <4>2. i <= j
        BY <2>4, <4>1
      <4> QED
        BY <1>2, <2>5, <3>1, <3>4, <4>2
    <3> QED
      BY <3>3, <3>4
  <2> QED
    BY <2>7, <2>8, <2>9
<1> QED
  BY <1>6, <1>7

\* The list of the dashboard.
LEMMA WorstFirstIs ==
  ASSUME IInv, NEW list, Dated(list)
  PROVE  LET sorted == WorstFirst(record, list) IN
         /\ Elements(sorted) = Elements(list)
         /\ sorted # <<>> =>
              /\ sorted[1] \in Elements(list)
              /\ \A r \in Elements(list) :
                   \/ Priority(Sev(sorted[1])) < Priority(Sev(r))
                   \/ Priority(Sev(sorted[1])) = Priority(Sev(r)) /\ sorted[1] <= r
<1> DEFINE D == DOMAIN record
           key == [r \in D |-> SortKey(record, r)]
<1>1. PICK sorted : sorted = WorstFirst(record, list)
  OBVIOUS
<1>2. \A r \in D : key[r] = Priority(Sev(r)) /\ key[r] \in Nat /\ key[r] < 3
  <2> SUFFICES ASSUME NEW r \in D
               PROVE  key[r] = Priority(Sev(r)) /\ key[r] \in Nat /\ key[r] < 3
    OBVIOUS
  <2>1. key[r] = Priority(Sev(r))
    BY Severity
  <2>2. Priority(Sev(r)) \in Nat /\ Priority(Sev(r)) <= 2
    BY Severity
  <2> QED
    BY <2>1, <2>2
<1>3. key \in [D -> Nat]
  BY <1>2
<1>4. \A k \in {0, 1, 2} :
        OfKey(D, list, key, k) = Only(list, {r \in DOMAIN record : SortKey(record, r) = k})
  BY DEF OfKey
<1>5. sorted = OfKey(D, list, key, 0) \o OfKey(D, list, key, 1) \o OfKey(D, list, key, 2)
  BY <1>1, <1>4 DEF WorstFirst
<1> HIDE DEF key
<1>6. UpTo(D, list, key, 3, sorted)
  BY <1>3, <1>5, DatedByKey
<1>7. Elements(list) \subseteq D
  BY ElementOfSeq DEF Dated, Elements
<1>8. Elements(sorted) = Elements(list)
  BY <1>2, <1>6, <1>7 DEF UpTo
<1>9. sorted # <<>> =>
        /\ sorted[1] \in Elements(sorted)
        /\ \A r \in Elements(sorted) : \/ key[sorted[1]] < key[r]
                                       \/ key[sorted[1]] = key[r] /\ sorted[1] <= r
  BY <1>3, <1>6, FirstByKey DEF UpTo
<1> QED
  BY <1>1, <1>2, <1>7, <1>8, <1>9

\* The records of a piece of equipment in the queue of the technicians.
LEMMA QueueIs ==
  ASSUME IInv, NEW e
  PROVE  LET mine == Only(RepairQueue(record),
                          {r \in DOMAIN record : record[r].equipment_id = e})
         IN  /\ mine \in Seq(DOMAIN record) /\ Elements(mine) = OpenIds(e)
             /\ mine # <<>> =>
                  /\ mine[1] \in OpenIds(e)
                  /\ \A r \in OpenIds(e) :
                       \/ QueuePriority(Sev(mine[1])) < QueuePriority(Sev(r))
                       \/ QueuePriority(Sev(mine[1])) = QueuePriority(Sev(r)) /\ mine[1] <= r
<1> DEFINE D == DOMAIN record
           key == [r \in D |-> QueuePriority(record[r].severity)]
           ids == {r \in D : record[r].open}
           his == {r \in D : record[r].equipment_id = e}
<1>1. PICK open : open = OldestFirst(ids)
  OBVIOUS
<1>2. Dated(open) /\ Elements(open) = ids
  <2>1. ids \in SUBSET DOMAIN record
    OBVIOUS
  <2> HIDE DEF ids
  <2> QED
    BY <1>1, <2>1, RecordsDated
<1>3. PICK queue : queue = RepairQueue(record)
  OBVIOUS
<1>4. \A r \in D : key[r] = QueuePriority(Sev(r)) /\ key[r] \in Nat /\ key[r] < 4
  <2> SUFFICES ASSUME NEW r \in D
               PROVE  key[r] = QueuePriority(Sev(r)) /\ key[r] \in Nat /\ key[r] < 4
    OBVIOUS
  <2>1. key[r] = QueuePriority(Sev(r))
    BY DEF Sev
  <2>2. QueuePriority(Sev(r)) \in Nat /\ QueuePriority(Sev(r)) <= 3
    BY Severity
  <2> QED
    BY <2>1, <2>2
<1>5. key \in [D -> Nat]
  BY <1>4
<1>6. \A k \in {0, 1, 2, 3} :
        OfKey(D, open, key, k)
          = Only(open, {r \in DOMAIN record : QueuePriority(record[r].severity) = k})
  BY DEF OfKey
<1>7. queue = OfKey(D, open, key, 0) \o OfKey(D, open, key, 1) \o OfKey(D, open, key, 2)
                \o OfKey(D, open, key, 3)
  BY <1>1, <1>3, <1>6 DEF RepairQueue
<1> HIDE DEF key
<1>8. UpTo(D, open, key, 4, queue)
  BY <1>2, <1>5, <1>7, DatedByKey
<1>9. Elements(queue) = ids
  BY <1>2, <1>4, <1>8 DEF UpTo
<1>10. PICK mine : mine = Only(queue, his)
  OBVIOUS
<1>11. /\ mine \in Seq(D \cap his) /\ Elements(mine) = ids \cap his
       /\ SortedBy(mine, KeyOrder(D, key))
  BY <1>8, <1>9, <1>10, OnlyPicks, OnlyElements, OnlySorted DEF UpTo
<1>12. D \cap his = his /\ his \subseteq D /\ ids \cap his = OpenIds(e)
  BY DEF OpenIds
<1> HIDE DEF his, ids
<1>13. mine \in Seq(D)
  <2>1. /\ DOMAIN mine = 1 .. Len(mine) /\ Len(mine) \in Nat
        /\ \A i \in 1 .. Len(mine) : mine[i] \in D
    BY <1>11, LenProperties, ElementOfSeq
  <2> QED
    BY <1>11, <2>1
<1>14. mine # <<>> =>
         /\ mine[1] \in Elements(mine)
         /\ \A r \in Elements(mine) : \/ key[mine[1]] < key[r]
                                      \/ key[mine[1]] = key[r] /\ mine[1] <= r
  BY <1>2, <1>5, <1>11, <1>13, FirstByKey
<1>15. OpenIds(e) \subseteq D
  BY DEF OpenIds
<1> QED
  BY <1>3, <1>4, <1>10, <1>11, <1>12, <1>13, <1>14, <1>15 DEF his

-----------------------------------------------------------------------------
(* The views.                                                              *)

LEMMA DashboardIs ==
  ASSUME IInv, NEW a \in Area
  PROVE  LET areas == Dashboard(area, equipment, record) IN
         /\ DOMAIN areas \subseteq Area
         /\ a \in DOMAIN areas <=> ~area[a].is_archived
         /\ a \in DOMAIN areas =>
              /\ DOMAIN areas[a] = Listed(equipment, a)
              /\ \A e \in Listed(equipment, a) :
                   /\ areas[a][e].status = EquipmentStatus(record, e)
                   /\ areas[a][e].open_records = WorstFirst(record, OpenRecords(record, e))
<1> DEFINE areas == Dashboard(area, equipment, record)
<1>1. areas = [b \in {c \in DOMAIN area : ~area[c].is_archived} |->
                 [e \in Listed(equipment, b) |->
                    [status |-> Derived(record, GroupOf(e)),
                     open_records |-> WorstFirst(record, GroupOf(e))]]]
  BY DEF Dashboard, GroupOf
<1>2. DOMAIN area = Area
  BY DEF IInv, TypeOK
<1> HIDE DEF areas
<1>3. /\ DOMAIN areas = {c \in Area : ~area[c].is_archived}
      /\ a \in DOMAIN areas =>
           areas[a] = [e \in Listed(equipment, a) |->
                         [status |-> Derived(record, GroupOf(e)),
                          open_records |-> WorstFirst(record, GroupOf(e))]]
  BY <1>1, <1>2
<1>4. \A e \in Listed(equipment, a) : GroupOf(e) = OpenRecords(record, e)
  BY GroupIsOpenRecords DEF Listed, IInv, TypeOK
<1>5. a \in DOMAIN areas =>
        /\ DOMAIN areas[a] = Listed(equipment, a)
        /\ \A e \in Listed(equipment, a) :
             /\ areas[a][e].status = EquipmentStatus(record, e)
             /\ areas[a][e].open_records = WorstFirst(record, OpenRecords(record, e))
  BY <1>3, <1>4 DEF EquipmentStatus
<1> QED
  BY <1>3, <1>5 DEF areas

\* The dot of a piece of equipment has the colour of the first record of its list, and
\* the status tells of that record or of a "Not Sure" (_open_records_sort_key).
THEOREM DotFitsList == Spec => []DotAndListAgree
<1>1. ASSUME IInv, NEW e
      PROVE  LET status == EquipmentStatus(record, e)
                 list == WorstFirst(record, OpenRecords(record, e))
             IN  IF list = <<>> THEN status.color = "green"
                 ELSE /\ status.color = Color(record[list[1]].severity)
                      /\ \/ status.about = list[1]
                         \/ /\ record[list[1]].severity = NONE
                            /\ record[status.about].severity = "Not Sure"
  <2> DEFINE open == OpenRecords(record, e)
             status == Derived(record, open)
             list == WorstFirst(record, open)
  <2>1. Dated(open) /\ Elements(open) = OpenIds(e) /\ OpenIds(e) \subseteq DOMAIN record
    BY <1>1, OpenRecordsDated DEF OpenIds
  <2>2. EquipmentStatus(record, e) = status
    BY DEF EquipmentStatus
  <2>3. open = <<>> => status.color = "green"
    BY DEF Derived
  <2>4. open # <<>> =>
          /\ status.about \in Elements(open)
          /\ \/ /\ \A r \in Elements(open) : Sev(r) \notin Severities /\ status.about <= r
                /\ status.color = "yellow"
             \/ /\ Sev(status.about) \in Severities
                /\ status.color = Color(Sev(status.about))
                /\ \A r \in Elements(open) : Sev(r) \in Severities =>
                     \/ Priority(Sev(status.about)) < Priority(Sev(r))
                     \/ Priority(Sev(status.about)) = Priority(Sev(r)) /\ status.about <= r
    BY <1>1, <2>1, Described
  <2>5. /\ Elements(list) = Elements(open)
        /\ list # <<>> =>
             /\ list[1] \in Elements(open)
             /\ \A r \in Elements(open) :
                  \/ Priority(Sev(list[1])) < Priority(Sev(r))
                  \/ Priority(Sev(list[1])) = Priority(Sev(r)) /\ list[1] <= r
    BY <1>1, <2>1, WorstFirstIs
  <2>6. \A r \in Elements(open) : Sev(r) = record[r].severity
    BY DEF Sev
  <2>7. (open = <<>>) <=> (Elements(open) = {})
    <3>1. open \in Seq(Nat)
      BY <2>1 DEF Dated
    <3>2. open # <<>> => 1 \in DOMAIN open
      BY <3>1, LenProperties, EmptySeq
    <3>3. open = <<>> => DOMAIN open = {}
      OBVIOUS
    <3> HIDE DEF open
    <3> QED
      BY <3>2, <3>3 DEF Elements
  <2> HIDE DEF open, status, list
  <2>8. CASE list = <<>>
    <3>1. Elements(list) = {}
      BY <2>8 DEF Elements
    <3> QED
      BY <2>2, <2>3, <2>5, <2>7, <2>8, <3>1 DEF status, list, open
  <2>9. CASE list # <<>>
    <3> DEFINE f == list[1]
               w == status.about
    <3>1. f \in Elements(open) /\ open # <<>> /\ w \in Elements(open)
      BY <2>4, <2>5, <2>7, <2>9
    <3>2. f \in DOMAIN record /\ w \in DOMAIN record
      BY <2>1, <3>1
    <3> HIDE DEF f, w
    <3>3. /\ \/ Priority(Sev(f)) < Priority(Sev(w))
             \/ Priority(Sev(f)) = Priority(Sev(w)) /\ f <= w
      BY <2>5, <2>9, <3>1 DEF f, w
    <3>4. /\ f \in Nat /\ w \in Nat /\ Priority(Sev(f)) \in Nat /\ Priority(Sev(w)) \in Nat
          /\ Priority(Sev(f)) <= 2 /\ Priority(Sev(w)) <= 2
      BY <1>1, <3>2, Severity
    <3>5. CASE /\ \A r \in Elements(open) : Sev(r) \notin Severities /\ w <= r
               /\ status.color = "yellow"
      <4>1. Priority(Sev(f)) = 2 /\ Priority(Sev(w)) = 2 /\ Color(Sev(f)) = "yellow"
        BY <1>1, <3>1, <3>2, <3>5, Severity
      <4>2. f <= w /\ w <= f
        BY <3>1, <3>3, <3>5, <4>1
      <4>3. f = w
        BY <3>4, <4>2
      <4> QED
        BY <2>2, <2>6, <2>9, <3>1, <3>5, <4>1, <4>3 DEF f, w, status, list, open
    <3>6. CASE /\ Sev(w) \in Severities
               /\ status.color = Color(Sev(w))
               /\ \A r \in Elements(open) : Sev(r) \in Severities =>
                    \/ Priority(Sev(w)) < Priority(Sev(r))
                    \/ Priority(Sev(w)) = Priority(Sev(r)) /\ w <= r
      <4>1. CASE Sev(f) \in Severities
        <5>1. \/ Priority(Sev(w)) < Priority(Sev(f))
              \/ Priority(Sev(w)) = Priority(Sev(f)) /\ w <= f
          BY <3>1, <3>6, <4>1
        <5>2. f = w
          BY <3>3, <3>4, <5>1
        <5> QED
          BY <2>2, <2>6, <2>9, <3>1, <3>6, <5>2 DEF f, w, status, list, open
      <4>2. CASE Sev(f) \notin Severities
        <5>1. Sev(f) = NONE /\ Priority(Sev(f)) = 2 /\ Color(Sev(f)) = "yellow"
          BY <1>1, <3>2, <4>2, Severity
        <5>2. Priority(Sev(w)) = 2
          BY <3>3, <3>4, <5>1
        <5>3. Sev(w) = "Not Sure" /\ Color(Sev(w)) = "yellow"
          BY <1>1, <3>2, <3>6, <5>2, Severity
        <5> QED
          BY <2>2, <2>6, <2>9, <3>1, <3>6, <5>1, <5>3 DEF f, w, status, list, open
      <4> QED
        BY <4>1, <4>2
    <3> QED
      BY <2>4, <3>1, <3>5, <3>6 DEF w
  <2> QED
    BY <2>8, <2>9
<1>2. IInv => DotAndListAgree
  <2> SUFFICES ASSUME IInv PROVE DotAndListAgree
    OBVIOUS
  <2>1. PICK areas : areas = Dashboard(area, equipment, record)
    OBVIOUS
  <2>2. \A a \in DOMAIN areas :
          /\ DOMAIN areas[a] = Listed(equipment, a)
          /\ \A e \in Listed(equipment, a) :
               /\ areas[a][e].status = EquipmentStatus(record, e)
               /\ areas[a][e].open_records = WorstFirst(record, OpenRecords(record, e))
    <3>1. DOMAIN areas \subseteq Area
      BY <2>1 DEF IInv, TypeOK, Dashboard
    <3> QED
      BY <2>1, <3>1, DashboardIs
  <2> SUFFICES ASSUME NEW a \in DOMAIN areas, NEW e \in DOMAIN areas[a]
               PROVE  LET status == areas[a][e].status
                          list == areas[a][e].open_records
                      IN  IF list = <<>> THEN status.color = "green"
                          ELSE /\ status.color = Color(record[list[1]].severity)
                               /\ \/ status.about = list[1]
                                  \/ /\ record[list[1]].severity = NONE
                                     /\ record[status.about].severity = "Not Sure"
    BY <2>1 DEF DotAndListAgree
  <2>3. /\ areas[a][e].status = EquipmentStatus(record, e)
        /\ areas[a][e].open_records = WorstFirst(record, OpenRecords(record, e))
    BY <2>2
  <2> QED
    BY <1>1, <2>3
<1> QED
  BY <1>2, Invariant, PTL

\* The first record of a piece of equipment in the technicians' queue is the one that its
\* status describes, and a green dot means that there is none (get_repair_queue).
THEOREM QueueLeads == Spec => []QueueLeadsWithStatus
<1>1. ASSUME IInv, NEW e
      PROVE  LET mine == Only(RepairQueue(record),
                              {r \in DOMAIN record : record[r].equipment_id = e})
                 status == EquipmentStatus(record, e)
             IN  IF mine = <<>> THEN status.color = "green"
                 ELSE status.color # "green" /\ status.about = mine[1]
  <2>1. PICK open : open = OpenRecords(record, e)
    OBVIOUS
  <2>2. PICK mine : mine = Only(RepairQueue(record),
                                {r \in DOMAIN record : record[r].equipment_id = e})
    OBVIOUS
  <2>3. PICK status : status = Derived(record, open)
    OBVIOUS
  <2>4. EquipmentStatus(record, e) = status
    BY <2>1, <2>3 DEF EquipmentStatus
  <2>5. Dated(open) /\ Elements(open) = OpenIds(e) /\ OpenIds(e) \subseteq DOMAIN record
    BY <1>1, <2>1, OpenRecordsDated DEF OpenIds
  <2>6. /\ mine \in Seq(DOMAIN record) /\ Elements(mine) = OpenIds(e)
        /\ mine # <<>> =>
             /\ mine[1] \in OpenIds(e)
             /\ \A r \in OpenIds(e) :
                  \/ QueuePriority(Sev(mine[1])) < QueuePriority(Sev(r))
                  \/ QueuePriority(Sev(mine[1])) = QueuePriority(Sev(r)) /\ mine[1] <= r
    BY <1>1, <2>2, QueueIs
  <2>7. CASE mine = <<>>
    <3>1. Elements(mine) = {}
      BY <2>7 DEF Elements
    <3>2. open \in Seq(Nat) /\ Elements(open) = {}
      BY <2>5, <2>6, <3>1 DEF Dated
    <3>3. open # <<>> => 1 \in DOMAIN open
      BY <3>2, LenProperties, EmptySeq
    <3>4. open = <<>>
      BY <3>2, <3>3 DEF Elements
    <3>5. status.color = "green"
      BY <2>3, <3>4 DEF Derived
    <3> QED
      BY <2>2, <2>4, <2>7, <3>5
  <2>8. CASE mine # <<>>
    <3>1. PICK m : m = mine[1]
      OBVIOUS
    <3>2. PICK w : w = status.about
      OBVIOUS
    <3>3. /\ m \in Elements(open)
          /\ \A r \in Elements(open) :
               \/ QueuePriority(Sev(m)) < QueuePriority(Sev(r))
               \/ QueuePriority(Sev(m)) = QueuePriority(Sev(r)) /\ m <= r
      BY <2>5, <2>6, <2>8, <3>1
    <3>4. open # <<>>
      BY <3>3 DEF Elements
    <3>5. /\ w \in Elements(open)
          /\ \/ /\ \A r \in Elements(open) : Sev(r) \notin Severities /\ w <= r
                /\ status.color = "yellow"
             \/ /\ Sev(w) \in Severities
                /\ status.color = Color(Sev(w))
                /\ \A r \in Elements(open) : Sev(r) \in Severities =>
                     \/ Priority(Sev(w)) < Priority(Sev(r))
                     \/ Priority(Sev(w)) = Priority(Sev(r)) /\ w <= r
      BY <1>1, <2>3, <2>5, <3>2, <3>4, Described
    <3>6. m \in DOMAIN record /\ w \in DOMAIN record
      BY <2>5, <3>3, <3>5
    <3>7. /\ m \in Nat /\ w \in Nat
          /\ Priority(Sev(m)) \in Nat /\ Priority(Sev(w)) \in Nat
          /\ Priority(Sev(m)) <= 2 /\ Priority(Sev(w)) <= 2
          /\ Color(Sev(w)) \in {"red", "yellow"}
          /\ Sev(m) \in Severities => QueuePriority(Sev(m)) = Priority(Sev(m))
          /\ Sev(w) \in Severities => QueuePriority(Sev(w)) = Priority(Sev(w))
          /\ Sev(m) \notin Severities => QueuePriority(Sev(m)) = 3
          /\ Sev(w) \notin Severities => QueuePriority(Sev(w)) = 3
      BY <1>1, <3>6, Severity
    <3>8. \/ QueuePriority(Sev(m)) < QueuePriority(Sev(w))
          \/ QueuePriority(Sev(m)) = QueuePriority(Sev(w)) /\ m <= w
      BY <3>3, <3>5
    <3>9. CASE /\ \A r \in Elements(open) : Sev(r) \notin Severities /\ w <= r
               /\ status.color = "yellow"
      <4>1. QueuePriority(Sev(m)) = 3 /\ QueuePriority(Sev(w)) = 3 /\ w <= m
        BY <3>3, <3>5, <3>7, <3>9
      <4>2. m = w
        BY <3>7, <3>8, <4>1
      <4> QED
        BY <2>2, <2>4, <2>8, <3>1, <3>2, <3>9, <4>2
    <3>10. CASE /\ Sev(w) \in Severities
                /\ status.color = Color(Sev(w))
                /\ \A r \in Elements(open) : Sev(r) \in Severities =>
                     \/ Priority(Sev(w)) < Priority(Sev(r))
                     \/ Priority(Sev(w)) = Priority(Sev(r)) /\ w <= r
      <4>1. Sev(m) \in Severities
        BY <3>7, <3>8, <3>10
      <4>2. \/ Priority(Sev(w)) < Priority(Sev(m))
            \/ Priority(Sev(w)) = Priority(Sev(m)) /\ w <= m
        BY <3>3, <3>10, <4>1
      <4>3. m = w
        BY <3>7, <3>8, <3>10, <4>1, <4>2
      <4>4. status.color # "green"
        BY <3>7, <3>10
      <4> QED
        BY <2>2, <2>4, <2>8, <3>1, <3>2, <4>3, <4>4
    <3> QED
      BY <3>5, <3>9, <3>10
  <2> QED
    BY <2>7, <2>8
<1>2. IInv => QueueLeadsWithStatus
  <2> SUFFICES ASSUME IInv PROVE QueueLeadsWithStatus
    OBVIOUS
  <2>1. PICK areas : areas = Dashboard(area, equipment, record)
    OBVIOUS
  <2>2. DOMAIN areas \subseteq Area
    BY <2>1 DEF IInv, TypeOK, Dashboard
  <2> SUFFICES ASSUME NEW a \in DOMAIN areas, NEW e \in DOMAIN areas[a]
               PROVE  LET mine == Only(RepairQueue(record),
                                       {r \in DOMAIN record : record[r].equipment_id = e})
                          status == areas[a][e].status
                      IN  IF mine = <<>> THEN status.color = "green"
                          ELSE status.color # "green" /\ status.about = mine[1]
    BY <2>1 DEF QueueLeadsWithStatus
  <2>3. areas[a][e].status = EquipmentStatus(record, e)
    BY <2>1, <2>2, DashboardIs
  <2> QED
    BY <1>1, <2>3
<1> QED
  BY <1>2, Invariant, PTL

\* What a kiosk shows is not NONE.
LEMMA KioskIsNotNone ==
  ASSUME IInv, NEW a \in Area, ~area[a].is_archived
  PROVE  AreaKiosk(area, equipment, record, a) # NONE
<1> DEFINE Status == [color : {"red", "yellow", "green"}, about : Record \cup {NONE},
                      eta : EtaInput]
<1>1. Listed(equipment, a) \in SUBSET Equipment
  BY DEF Listed, IInv, TypeOK
<1>2. ASSUME NEW e
      PROVE  Derived(record, OpenRecords(record, e)) \in Status
  <2>1. PICK open : open = OpenRecords(record, e)
    OBVIOUS
  <2>2. Dated(open)
    BY <2>1, OpenRecordsDated
  <2>3. CASE open = <<>>
    <3>1. Derived(record, open) = [color |-> "green", about |-> NONE, eta |-> NONE]
      BY <2>3 DEF Derived
    <3> QED
      BY <2>1, <3>1, PublicStatusAssumption
  <2>4. CASE open # <<>>
    <3>1. PICK w : w = WorstRecord(record, open)
      OBVIOUS
    <3>2. PICK about : about = IF w = NONE THEN open[1] ELSE w
      OBVIOUS
    <3>3. Derived(record, open) =
            [color |-> IF w = NONE THEN "yellow" ELSE Color(record[w].severity),
             about |-> about, eta |-> record[about].eta]
      BY <2>4, <3>1, <3>2 DEF Derived
    <3>4. Derived(record, open).about = about /\ about \in Elements(open)
      BY <2>2, <2>4, <3>3, Described
    <3>5. about \in DOMAIN record
      BY <2>2, <3>4, ElementOfSeq DEF Dated, Elements
    <3>6. about \in Record /\ record[about].eta \in EtaInput
      BY <3>5 DEF IInv, TypeOK, RecordRow
    <3>7. (IF w = NONE THEN "yellow" ELSE Color(record[w].severity)) \in {"red", "yellow"}
      BY DEF Color
    <3> QED
      BY <2>1, <3>3, <3>6, <3>7
  <2> QED
    BY <2>3, <2>4
<1>3. AreaKiosk(area, equipment, record, a) \in [Listed(equipment, a) -> Status]
  BY <1>2 DEF AreaKiosk
<1> QED
  BY <1>1, <1>3, PublicStatusAssumption

\* The dashboard, the static page, the kiosks, the equipment pages and Slack tell the
\* same of every piece of equipment (get_area_status_dashboard,
\* get_single_area_status_dashboard, compute_equipment_status).
THEOREM AllViewsAgree == Spec => []ViewsAgree
<1>1. IInv => ViewsAgree
  <2> SUFFICES ASSUME IInv PROVE ViewsAgree
    OBVIOUS
  <2>1. PICK areas : areas = Dashboard(area, equipment, record)
    OBVIOUS
  <2> SUFFICES ASSUME NEW a \in Area
               PROVE  LET kiosk == AreaKiosk(area, equipment, record, a) IN
                      /\ a \in DOMAIN areas <=> kiosk # NONE
                      /\ a \in DOMAIN areas =>
                           /\ DOMAIN areas[a] = DOMAIN kiosk
                           /\ \A e \in DOMAIN kiosk :
                                /\ kiosk[e] = areas[a][e].status
                                /\ kiosk[e] = EquipmentPage(equipment, record, e)
    BY <2>1 DEF ViewsAgree
  <2>2. PICK kiosk : kiosk = AreaKiosk(area, equipment, record, a)
    OBVIOUS
  <2>3. /\ a \in DOMAIN areas <=> ~area[a].is_archived
        /\ a \in DOMAIN areas =>
             /\ DOMAIN areas[a] = Listed(equipment, a)
             /\ \A e \in Listed(equipment, a) :
                  areas[a][e].status = EquipmentStatus(record, e)
    BY <2>1, DashboardIs
  <2>4. CASE area[a].is_archived
    BY <2>2, <2>3, <2>4 DEF AreaKiosk
  <2>5. CASE ~area[a].is_archived
    <3>1. kiosk # NONE
      BY <2>2, <2>5, KioskIsNotNone
    <3>2. /\ DOMAIN kiosk = Listed(equipment, a)
          /\ \A e \in Listed(equipment, a) : kiosk[e] = EquipmentStatus(record, e)
      BY <2>2, <2>5 DEF AreaKiosk, EquipmentStatus
    <3>3. \A e \in Listed(equipment, a) :
            EquipmentPage(equipment, record, e) = EquipmentStatus(record, e)
      BY DEF EquipmentPage, Listed
    <3> QED
      BY <2>2, <2>3, <2>5, <3>1, <3>2, <3>3
  <2> QED
    BY <2>4, <2>5
<1> QED
  BY <1>1, Invariant, PTL
-----------------------------------------------------------------------------
(* Which pushes a change queues.                                           *)

\* A step is a change of a kind: it queues the pushes of the kind, and alters no page
\* that the kind does not.
IsChange(kind) ==
  /\ told' = kind.tells
  /\ Altered \subseteq kind.alters
  /\ kind = OtherEdits => area' # area \/ equipment' # equipment
  /\ kind = Window => /\ UNCHANGED <<area, equipment, record>>
                      /\ \A b \in Booking : booking'[b].active = booking[b].active

LEMMA KindsDiffer ==
  /\ Repairs \notin {OtherEdits, Window} /\ Bookings \notin {OtherEdits, Window}
  /\ Reservables \notin {OtherEdits, Window} /\ OtherEdits # Window
<1>1. /\ Repairs.tells = {"index"} /\ Bookings.tells = {"json"}
      /\ Reservables.tells = {"json"} /\ OtherEdits.tells = {} /\ Window.tells = {}
      /\ OtherEdits.alters = {"index"} /\ Window.alters = {"json"}
  BY DEF Repairs, Bookings, Reservables, OtherEdits, Window
<1>2. {"index"} # {} /\ {"json"} # {} /\ {"index"} # {"json"}
  OBVIOUS
<1> QED
  BY <1>1, <1>2, Zenon

\* The pages depend on the tables alone.
LEMMA StatusPageKept ==
  ASSUME UNCHANGED <<area, equipment, record>>
  PROVE  Altered \subseteq {"json"}
BY DEF Altered, Page

LEMMA ReservationPageKept ==
  ASSUME ReservationPage(equipment', booking') = ReservationPage(equipment, booking)
  PROVE  Altered \subseteq {"index"}
BY DEF Altered, Page

\* The reservation page does not tell what is not reservable, nor where anything is.
LEMMA SameReservables ==
  ASSUME NEW old, NEW new, NEW bookings, Reservable(new) = Reservable(old),
         \A e \in Reservable(old) : new[e].name = old[e].name
  PROVE  ReservationPage(new, bookings) = ReservationPage(old, bookings)
<1> DEFINE Row(list, e) ==
             [name |-> list[e].name,
              reserved |-> {b \in DOMAIN bookings : /\ bookings[b].equipment_id = e
                                                    /\ bookings[b].active
                                                    /\ bookings[b].when = "shown"}]
<1>1. /\ ReservationPage(new, bookings) = [e \in Reservable(new) |-> Row(new, e)]
      /\ ReservationPage(old, bookings) = [e \in Reservable(old) |-> Row(old, e)]
  BY DEF ReservationPage
<1>2. \A e \in Reservable(old) : Row(new, e) = Row(old, e)
  OBVIOUS
<1> HIDE DEF Row
<1> QED
  BY <1>1, <1>2

LEMMA RepairTold ==
  ASSUME UNCHANGED <<area, equipment, booking>>, Told({"index"})
  PROVE  IsChange(Repairs)
<1>1. Altered \subseteq {"index"}
  BY ReservationPageKept
<1> QED
  BY <1>1, KindsDiffer DEF IsChange, Told, Repairs

LEMMA ReservableTold ==
  ASSUME Told({"json"})
  PROVE  IsChange(Reservables)
<1>1. Altered \subseteq Page
  BY DEF Altered
<1> QED
  BY <1>1, KindsDiffer DEF IsChange, Told, Reservables

LEMMA BookingTold ==
  ASSUME UNCHANGED <<area, equipment, record>>, Told({"json"})
  PROVE  IsChange(Bookings)
BY StatusPageKept, KindsDiffer DEF IsChange, Told, Bookings

LEMMA EditTold ==
  ASSUME ReservationPage(equipment', booking') = ReservationPage(equipment, booking),
         area' # area \/ equipment' # equipment, Told({})
  PROVE  IsChange(OtherEdits)
BY ReservationPageKept, KindsDiffer DEF IsChange, Told, OtherEdits

LEMMA UpdateEquipmentTold ==
  ASSUME IInv, NEW e \in Equipment, UpdateEquipment(e)
  PROVE  \E kind \in ChangeKinds : IsChange(kind)
<1>1. PICK new \in {[equipment[e] EXCEPT !.name = n] : n \in Name}
             \cup {[equipment[e] EXCEPT !.area_id = a] :
                     a \in {b \in Area : ~area[b].is_archived}} :
        /\ new # equipment[e]
        /\ equipment' = [equipment EXCEPT ![e] = new]
        /\ UNCHANGED <<area, record, booking>>
        /\ Told(IF new.name # equipment[e].name THEN EquipmentPushes(e) ELSE {})
  BY DEF UpdateEquipment
<1>2. /\ DOMAIN equipment = Equipment
      /\ equipment[e] \in [area_id : Area, name : Name, is_archived : BOOLEAN,
                           reservable : BOOLEAN]
  BY DEF IInv, TypeOK
<1>3. new.is_archived = equipment[e].is_archived /\ new.reservable = equipment[e].reservable
  BY <1>1, <1>2
<1>4. /\ DOMAIN equipment' = Equipment /\ equipment'[e] = new
      /\ \A other \in Equipment \ {e} : equipment'[other] = equipment[other]
  BY <1>1, <1>2
<1>5. equipment' # equipment
  BY <1>1, <1>4
<1>6. CASE new.name # equipment[e].name /\ equipment[e].reservable
  <2>1. Told({"json"})
    BY <1>1, <1>6 DEF EquipmentPushes
  <2> QED
    BY <2>1, ReservableTold DEF ChangeKinds
<1>7. CASE new.name = equipment[e].name \/ ~equipment[e].reservable
  <2>1. Told({})
    BY <1>1, <1>7 DEF EquipmentPushes
  <2>2. Reservable(equipment') = Reservable(equipment)
    BY <1>2, <1>3, <1>4 DEF Reservable
  <2>3. \A other \in Reservable(equipment) : equipment'[other].name = equipment[other].name
    BY <1>2, <1>4, <1>7 DEF Reservable
  <2>4. ReservationPage(equipment', booking') = ReservationPage(equipment, booking)
    <3>1. booking' = booking
      BY <1>1
    <3>2. ReservationPage(equipment', booking) = ReservationPage(equipment, booking)
      BY <2>2, <2>3, SameReservables
    <3> QED
      BY <3>1, <3>2
  <2> QED
    BY <1>5, <2>1, <2>4, EditTold DEF ChangeKinds
<1> QED
  BY <1>6, <1>7

LEMMA ArchiveEquipmentTold ==
  ASSUME IInv, NEW e \in Equipment, ArchiveEquipment(e)
  PROVE  \E kind \in ChangeKinds : IsChange(kind)
<1>1. CASE equipment[e].reservable
  <2>1. Told({"json"})
    BY <1>1 DEF ArchiveEquipment, EquipmentPushes
  <2> QED
    BY <2>1, ReservableTold DEF ChangeKinds
<1>2. CASE ~equipment[e].reservable
  <2>1. Told({}) /\ UNCHANGED booking
    BY <1>2 DEF ArchiveEquipment, EquipmentPushes
  <2>2. /\ DOMAIN equipment = Equipment
        /\ equipment[e] \in [area_id : Area, name : Name, is_archived : BOOLEAN,
                             reservable : BOOLEAN]
    BY DEF IInv, TypeOK
  <2>3. /\ DOMAIN equipment' = Equipment
        /\ equipment'[e] = [equipment[e] EXCEPT !.is_archived = TRUE]
        /\ \A other \in Equipment \ {e} : equipment'[other] = equipment[other]
    BY <2>2 DEF ArchiveEquipment
  <2>4. equipment'[e].is_archived /\ ~equipment'[e].reservable
    BY <1>2, <2>2, <2>3
  <2>5. Reservable(equipment') = Reservable(equipment) /\ e \notin Reservable(equipment)
    BY <1>2, <2>2, <2>3, <2>4 DEF Reservable
  <2>6. \A other \in Reservable(equipment) : equipment'[other].name = equipment[other].name
    BY <2>2, <2>3, <2>5 DEF Reservable
  <2>7. ReservationPage(equipment', booking') = ReservationPage(equipment, booking)
    BY <2>1, <2>5, <2>6, SameReservables
  <2>8. equipment' # equipment
    BY <2>4 DEF ArchiveEquipment
  <2> QED
    BY <2>1, <2>7, <2>8, EditTold DEF ChangeKinds
<1> QED
  BY <1>1, <1>2

LEMMA TimeTold ==
  ASSUME IInv, NEW b \in Booking, TimePasses(b)
  PROVE  IsChange(Window)
<1>1. \A c \in Booking : booking'[c].active = booking[c].active
  BY DEF TimePasses, IInv, TypeOK
<1>2. UNCHANGED <<area, equipment, record>> /\ Told({})
  BY DEF TimePasses
<1> QED
  BY <1>1, <1>2, StatusPageKept, KindsDiffer DEF IsChange, Told, Window

\* No change of a repair record, a reservation or the reservable equipment goes without
\* its push, whatever is changed to what (every create, update and archive operation of
\* repair_service, equipment_service and reservation_service).
THEOREM EveryChangeIsTold == Spec => ChangesAreTold
<1>1. IInv /\ [Next]_vars => [\E kind \in ChangeKinds : IsChange(kind)]_vars
  <2> SUFFICES ASSUME IInv, Next PROVE \E kind \in ChangeKinds : IsChange(kind)
    OBVIOUS
  <2>1. ASSUME NEW e \in Equipment, ReportProblem(e)
        PROVE  \E kind \in ChangeKinds : IsChange(kind)
    BY <2>1, RepairTold DEF ReportProblem, ChangeKinds
  <2>2. ASSUME NEW e \in Equipment, SaveReservationSettings(e)
        PROVE  \E kind \in ChangeKinds : IsChange(kind)
    BY <2>2, ReservableTold DEF SaveReservationSettings, ChangeKinds
  <2>3. ASSUME NEW r \in DOMAIN record, UpdateRecord(r)
        PROVE  \E kind \in ChangeKinds : IsChange(kind)
    BY <2>3, RepairTold DEF UpdateRecord, ChangeKinds
  <2>4. ASSUME NEW a \in Area, ChangeArea(a)
        PROVE  \E kind \in ChangeKinds : IsChange(kind)
    <3>1. PICK new : new # area[a] /\ area' = [area EXCEPT ![a] = new]
      BY <2>4 DEF ChangeArea
    <3>2. area' # area
      BY <3>1 DEF IInv, TypeOK
    <3>3. Told({}) /\ UNCHANGED <<equipment, booking>>
      BY <2>4 DEF ChangeArea
    <3> QED
      BY <3>2, <3>3, EditTold DEF ChangeKinds
  <2>5. ASSUME NEW b \in Booking, Book(b) \/ Cancel(b)
        PROVE  \E kind \in ChangeKinds : IsChange(kind)
    BY <2>5, BookingTold DEF Book, Cancel, ChangeKinds
  <2>6. ASSUME NEW b \in Booking, TimePasses(b)
        PROVE  \E kind \in ChangeKinds : IsChange(kind)
    BY <2>6, TimeTold DEF ChangeKinds
  <2> QED
    BY <2>1, <2>2, <2>3, <2>4, <2>5, <2>6, UpdateEquipmentTold, ArchiveEquipmentTold DEF Next
<1>2. [\E kind \in ChangeKinds : IsChange(kind)]_vars
        => [\E kind \in ChangeKinds :
              /\ told' = kind.tells
              /\ Altered \subseteq kind.alters
              /\ kind = OtherEdits => area' # area \/ equipment' # equipment
              /\ kind = Window => /\ UNCHANGED <<area, equipment, record>>
                                 /\ \A b \in Booking :
                                      booking'[b].active = booking[b].active]_vars
  BY DEF IsChange
<1> QED
  BY <1>1, <1>2, Invariant, PTL DEF Spec, ChangesAreTold
=============================================================================

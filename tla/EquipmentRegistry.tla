-------------------------- MODULE EquipmentRegistry --------------------------
(***************************************************************************)
(* Areas and equipment (equipment_service.py, views/equipment.py,          *)
(* views/admin.py).  Names of areas are unique by a constraint of the      *)
(* table; the name of the machine a piece of equipment is linked to is     *)
(* compared by a query of the request, and no constraint backs it.         *)
(*                                                                         *)
(* An UPDATE writes the columns that differ from the row as it was read,   *)
(* and is refused when the row was changed since: `to' is the whole row.   *)
(* Columns no rule reads (channel, model, cost, ...) are left out.         *)
(***************************************************************************)
EXTENDS Requests

CONSTANTS
  Area, Equipment,    \* ids
  AreaName,
  Machine, Spelling,  \* a machine name: the machine it stands for, how it is spelt
  InitialNames        \* machine names equipment may have at first

MachineName == Machine \X Spelling

ASSUME RegistryAssumption ==
  /\ NULL \notin Area \cup Equipment \cup MachineName
  /\ Area \cap Equipment = {}
  /\ InitialNames \subseteq MachineName \cup {NULL}

VARIABLES
  area,        \* the table areas: a function on the ids in use
  equipment,   \* the table equipment
  raced        \* history: pairs of equipment whose machine names were saved by
               \* requests of which the later began before the earlier committed

registryVars == <<area, equipment, raced>>

AreaRow == [name : AreaName, is_archived : BOOLEAN]
EquipmentRow ==
  [area_id : Area, mac_machine_name : MachineName \cup {NULL}, is_archived : BOOLEAN]

RegistryRequest ==
  [op : {"create_area"}, to : AreaRow]
    \cup [op : {"save_area"}, row : Area, to : AreaRow]
    \cup [op : {"create_equipment"}, to : EquipmentRow]
    \cup [op : {"save_equipment"}, row : Equipment, to : EquipmentRow]

RegistryOps == {"create_area", "save_area", "create_equipment", "save_equipment"}

\* The table with one more row.
With(table, id, row) ==
  [i \in DOMAIN table \cup {id} |-> IF i = id THEN row ELSE table[i]]

-----------------------------------------------------------------------------
(* What the requests check.                                                *)

\* No other area has the name, an archived one included.
AreaNameFree(name, except) ==
  \A a \in DOMAIN area \ {except} : area[a].name # name

\* Two spellings that lower() makes equal.
SameMachine(m, n) == m # NULL /\ n # NULL /\ m[1] = n[1]

\* Mutant: the names are compared as they are spelt.
MachineNameFreeAsSpelt(name, except) ==
  \A e \in DOMAIN equipment \ {except} :
    ~equipment[e].is_archived
      => (name = NULL \/ equipment[e].mac_machine_name # name)

\* _check_mac_machine_name_unique
MachineNameFree(name, except) ==
  \A e \in DOMAIN equipment \ {except} :
    ~equipment[e].is_archived => ~SameMachine(equipment[e].mac_machine_name, name)

LiveArea(a) == a \in DOMAIN area /\ ~area[a].is_archived

\* Every page of one piece of equipment that changes something refuses an archived one.
LiveEquipment(e) == e \in DOMAIN equipment /\ ~equipment[e].is_archived

-----------------------------------------------------------------------------
(* Requests.                                                               *)

BeginRegistry(t, r) == Begin(t, "registry", r) /\ UNCHANGED registryVars

CreateArea(t) ==
  \E name \in AreaName :
    /\ AreaNameFree(name, NULL)
    /\ BeginRegistry(t, [op |-> "create_area",
                         to |-> [name |-> name, is_archived |-> FALSE]])

\* An archived area can still be edited.
EditArea(t) ==
  \E a \in DOMAIN area, name \in AreaName :
    /\ name # area[a].name
    /\ AreaNameFree(name, a)
    /\ BeginRegistry(t, [op |-> "save_area", row |-> a,
                         to |-> [area[a] EXCEPT !.name = name]])

ArchiveArea(t) ==
  \E a \in DOMAIN area :
    /\ LiveArea(a)
    /\ BeginRegistry(t, [op |-> "save_area", row |-> a,
                         to |-> [area[a] EXCEPT !.is_archived = TRUE]])

CreateEquipment(t) ==
  \E a \in DOMAIN area, name \in MachineName \cup {NULL} :
    /\ LiveArea(a)
    /\ MachineNameFree(name, NULL)
    /\ BeginRegistry(t, [op |-> "create_equipment",
                         to |-> [area_id |-> a, mac_machine_name |-> name,
                                 is_archived |-> FALSE]])

\* What the edit page may post: the area the equipment is in goes unchecked.
Edited(e) ==
  {row \in EquipmentRow :
     /\ ~row.is_archived
     /\ row # equipment[e]
     /\ row.area_id # equipment[e].area_id => LiveArea(row.area_id)
     /\ MachineNameFree(row.mac_machine_name, e)}

EditEquipment(t) ==
  \E e \in DOMAIN equipment :
    /\ LiveEquipment(e)
    /\ \E row \in Edited(e) :
         BeginRegistry(t, [op |-> "save_equipment", row |-> e, to |-> row])

ArchiveEquipment(t) ==
  \E e \in DOMAIN equipment :
    /\ LiveEquipment(e)
    /\ BeginRegistry(t, [op |-> "save_equipment", row |-> e,
                         to |-> [equipment[e] EXCEPT !.is_archived = TRUE]])

-----------------------------------------------------------------------------
(* Commits.                                                                *)

\* The unique constraint lets one area have the name.
CommitCreateArea(t) ==
  LET r == request[t] IN
  /\ r.op = "create_area"
  /\ AreaNameFree(r.to.name, NULL)
  /\ \E a \in Area \ DOMAIN area :
       /\ area' = With(area, a, r.to)
       /\ Commit(t, NoRequest, {a} \X DOMAIN r.to)
  /\ UNCHANGED <<equipment, raced>>

CommitArea(t) ==
  LET r == request[t] IN
  /\ r.op = "save_area"
  /\ Unchanged(t, r.row)
  /\ AreaNameFree(r.to.name, r.row)
  /\ area' = [area EXCEPT ![r.row] = r.to]
  /\ Commit(t, NoRequest, Differing(r.row, area[r.row], r.to))
  /\ UNCHANGED <<equipment, raced>>

\* The pairs that race once t has saved the machine name of e.
RacedAfter(t, e) ==
  {p \in raced : e \notin p}
    \cup {{e, f} : f \in {g \in DOMAIN equipment : Overtaken(t, g, "mac_machine_name")}}

CommitCreateEquipment(t) ==
  LET r == request[t] IN
  /\ r.op = "create_equipment"
  /\ \E e \in Equipment \ DOMAIN equipment :
       /\ equipment' = With(equipment, e, r.to)
       /\ raced' = RacedAfter(t, e)
       /\ Commit(t, NoRequest, {e} \X DOMAIN r.to)
  /\ UNCHANGED area

\* update_equipment and archive_equipment
CommitEquipment(t) ==
  LET r == request[t] IN
  /\ r.op = "save_equipment"
  /\ Unchanged(t, r.row)
  /\ equipment' = [equipment EXCEPT ![r.row] = r.to]
  /\ raced' = IF r.to.mac_machine_name # equipment[r.row].mac_machine_name
                THEN RacedAfter(t, r.row) ELSE raced
  /\ Commit(t, NoRequest, Differing(r.row, equipment[r.row], r.to))
  /\ UNCHANGED area

\* The database refuses the write, or the process dies before it.
RegistryAbort(t) ==
  /\ request[t].op \in RegistryOps
  /\ Continue(t, NoRequest)
  /\ UNCHANGED registryVars

RegistryInit ==
  /\ \E a \in Area, name \in AreaName :
       area = [i \in {a} |-> [name |-> name, is_archived |-> FALSE]]
  /\ \E e \in Equipment, a \in DOMAIN area, m \in InitialNames :
       equipment = [i \in {e} |-> [area_id |-> a, mac_machine_name |-> m,
                                   is_archived |-> FALSE]]
  /\ raced = {}

RegistryStep(t) ==
  \/ CreateArea(t) \/ EditArea(t) \/ ArchiveArea(t)
  \/ CreateEquipment(t) \/ EditEquipment(t) \/ ArchiveEquipment(t)
  \/ CommitCreateArea(t) \/ CommitArea(t)
  \/ CommitCreateEquipment(t) \/ CommitEquipment(t)
  \/ RegistryAbort(t)

-----------------------------------------------------------------------------
RegistryTypeOK ==
  /\ DOMAIN area \subseteq Area
  /\ area \in [DOMAIN area -> AreaRow]
  /\ DOMAIN equipment \subseteq Equipment
  /\ equipment \in [DOMAIN equipment -> EquipmentRow]
  /\ \A e \in DOMAIN equipment : equipment[e].area_id \in DOMAIN area
  /\ raced \subseteq SUBSET Equipment

\* A machine is linked to one piece of equipment at a time, as the staff guide says,
\* whatever the spelling, unless the two names were saved by overlapping requests:
\* the check is a query before the write, without a constraint behind it.
SharedMachineNameMeansOverlap ==
  \A e \in DOMAIN equipment, f \in DOMAIN equipment :
    /\ e # f /\ LiveEquipment(e) /\ LiveEquipment(f)
    /\ SameMachine(equipment[e].mac_machine_name, equipment[f].mac_machine_name)
    => {e, f} \in raced
=============================================================================

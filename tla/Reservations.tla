---------------------------- MODULE Reservations ----------------------------
(***************************************************************************)
(* Reservations of equipment (services/reservation_service.py), made by    *)
(* members in Slack and by staff on the admin pages, who may override      *)
(* policy warnings they have confirmed.                                    *)
(*                                                                         *)
(* A request is one transaction.  Its first statement reads the user and   *)
(* opens the snapshot that every plain SELECT reads.  Booking then locks   *)
(* the equipment row with its settings, and the reservations that overlap; *)
(* canceling locks the reservation, and with it (the statement is a join)  *)
(* its equipment row; replacing does both.  The database refuses to lock a *)
(* row that has changed since the snapshot (innodb_snapshot_isolation), so *)
(* objects loaded from the snapshot are as good as fresh after the lock.   *)
(* It breaks a cycle of waits by failing one of the requests in it.        *)
(*                                                                         *)
(* Owners, notes and what is queued after the commit are left out.         *)
(***************************************************************************)
EXTENDS ReservationRules, Sequences, FiniteSets

CONSTANTS
  Equipment,
  Request,          \* requests that can be in progress at once
  Settings,         \* settings that staff saves
  Starts, Durations,\* what forms ask for
  MaxReservations,  \* bound: reservations
  MaxTime,          \* bound: the clock
  MaxChanges        \* bound: changes of equipment

ASSUME ReservationsAssumption ==
  /\ NONE \notin Nat \cup Settings
  /\ \A s \in Settings : Acceptable(s)
  /\ Starts \subseteq Nat /\ Durations \subseteq Int
  /\ MaxReservations \in Nat /\ MaxTime \in Nat /\ MaxChanges \in Nat

VARIABLES
  now,
  equipment,    \* its rows: is_archived and settings
  reservation,  \* the rows of reservations, in order of their ids
  request,      \* per request: its step, what it asks for, and what it has found
  holds,        \* per request: the rows it has locked, each a table and a key
  newer,        \* per request: the rows that have changed since its snapshot
  changes

vars == <<now, equipment, reservation, request, holds, newer, changes>>

Idle ==
  [step |-> "idle", via |-> NONE, equipment |-> NONE, starts_at |-> NONE,
   ends_at |-> NONE, original |-> NONE, privileged |-> FALSE, codes |-> {}, at |-> 0]

Init ==
  /\ now = 0
  /\ equipment \in [Equipment -> [is_archived : {FALSE}, settings : Settings]]
  /\ reservation = <<>>
  /\ request = [q \in Request |-> Idle]
  /\ holds = [q \in Request |-> {}]
  /\ newer = [q \in Request |-> {}]
  /\ changes = 0

-----------------------------------------------------------------------------
(* Rows and locks.                                                         *)

ActiveOf(e, except) ==
  {r \in DOMAIN reservation \ {except} :
     reservation[r].equipment = e /\ reservation[r].active}

\* What the interval of p breaks at time t, its original aside.
Broken(p, t) ==
  Violations(equipment[p.equipment], p,
             {reservation[r] : r \in ActiveOf(p.equipment, p.original)}, t)

\* The reservations that the search for conflicts finds, if it gets to that.
Conflicting(p) ==
  {r \in ActiveOf(p.equipment, p.original) :
     Overlap(reservation[r], p) /\ "conflict" \in Broken(p, now)}

Rows(table, keys) == {table} \X keys

Free(q, rows) == \A p \in Request \ {q} : holds[p] \cap rows = {}

Open(q) == request[q].step # "idle"

\* Rows change: the others that are in progress have an older snapshot.
Changed(q, rows) ==
  newer' = [p \in Request |-> IF p # q /\ Open(p) THEN newer[p] \cup rows ELSE {}]

Move(q, step) == request' = [request EXCEPT ![q].step = step]

\* The next rows a request locks.
Wanted(q) ==
  LET p == request[q] IN
  CASE p.step = "original"  -> Rows("reservation", {p.original})
    [] p.step = "joined"    -> Rows("equipment", {reservation[p.original].equipment})
    [] p.step = "equipment" -> {"equipment", "settings"} \X {p.equipment}
    [] p.step = "conflicts" -> Rows("reservation", Conflicting(p))
    [] OTHER                -> {}

Waits(q) == ~Free(q, Wanted(q))

\* Mutant: locks are not waited for.
LockableAtOnce(q) == Wanted(q) \cap newer[q] = {}

\* They are free, and have not changed since the snapshot.
Lockable(q) == ~Waits(q) /\ Wanted(q) \cap newer[q] = {}

Lock(q) == holds' = [holds EXCEPT ![q] = @ \cup Wanted(q)]

\* Mutant: the session outlives the request, with its locks.
EndKeepingLocks(q) ==
  /\ request' = [request EXCEPT ![q] = Idle]
  /\ UNCHANGED holds

\* The request is over: its session is removed, and with it whatever was not committed.
End(q) ==
  /\ request' = [request EXCEPT ![q] = Idle]
  /\ holds' = [holds EXCEPT ![q] = {}]

\* It is over without a commit.
GiveUp(q) ==
  /\ End(q)
  /\ newer' = [newer EXCEPT ![q] = {}]

-----------------------------------------------------------------------------
(* Requests begin.  A form is filled in and checked in earlier requests;   *)
(* what counts is what it asks for when it is submitted.                   *)

\* Bound: every booking in progress still fits.
Room ==
  Len(reservation) + Cardinality({p \in Request : request[p].equipment # NONE})
    < MaxReservations

Ask(q, ask) ==
  /\ ~Open(q)
  /\ request' = [request EXCEPT ![q] = ask]
  /\ UNCHANGED <<now, equipment, reservation, holds, newer, changes>>

\* A member, or staff, submits the modal.
BeginSlack(q) ==
  \E e \in Equipment, s \in Starts, d \in Durations, privileged \in BOOLEAN :
    /\ d > 0 /\ Room
    /\ Ask(q, [Idle EXCEPT !.step = "equipment", !.via = "slack",
                           !.equipment = e, !.starts_at = s, !.ends_at = s + d,
                           !.privileged = privileged])

\* Staff submits the form, or confirms its warnings: the preview, on the snapshot, must
\* have nothing hard and the warnings that were confirmed, if any.
BeginAdmin(q) ==
  \E e \in Equipment, s \in Starts, d \in Durations,
     o \in DOMAIN reservation \cup {NONE} :
    LET ask == [Idle EXCEPT !.step = IF o = NONE THEN "equipment" ELSE "original",
                            !.via = "admin", !.equipment = e, !.starts_at = s,
                            !.ends_at = s + d, !.original = o, !.privileged = TRUE]
        codes == Broken(ask, now)
    IN  /\ Room
        /\ Hard(codes) = {}
        /\ Ask(q, [ask EXCEPT !.codes = codes])

\* A member cancels in Slack, or staff confirms a cancellation.
BeginCancel(q) ==
  \E o \in DOMAIN reservation :
    Ask(q, [Idle EXCEPT !.step = "original", !.via = "cancel", !.original = o])

-----------------------------------------------------------------------------
(* Locks and checks.                                                       *)

\* _get_reservation(for_update=True) locks the reservation.
LockOriginal(q) ==
  /\ request[q].step = "original" /\ Lockable(q)
  /\ Lock(q)
  /\ Move(q, "joined")
  /\ UNCHANGED <<now, equipment, reservation, newer, changes>>

\* Mutant: whether the reservation is canceled is not looked at.
LockJoinedUnchecked(q) ==
  /\ request[q].step = "joined" /\ Lockable(q)
  /\ Lock(q) /\ Move(q, IF request[q].via = "cancel" THEN "commit" ELSE "equipment")
  /\ UNCHANGED <<now, equipment, reservation, newer, changes>>

\* It locks the equipment row; a canceled reservation is not canceled or replaced again.
LockJoined(q) ==
  /\ request[q].step = "joined" /\ Lockable(q)
  /\ IF reservation[request[q].original].active
       THEN /\ Lock(q)
            /\ Move(q, IF request[q].via = "cancel" THEN "commit" ELSE "equipment")
            /\ UNCHANGED newer
       ELSE GiveUp(q)
  /\ UNCHANGED <<now, equipment, reservation, changes>>

\* Mutant: the equipment is read without a lock.
ReadEquipment(q) ==
  /\ request[q].step = "equipment" /\ Lockable(q)
  /\ Move(q, "conflicts")
  /\ UNCHANGED <<now, equipment, reservation, holds, newer, changes>>

\* _get_equipment(for_update=True) locks the equipment and its settings.
LockEquipment(q) ==
  /\ request[q].step = "equipment" /\ Lockable(q)
  /\ Lock(q)
  /\ Move(q, "conflicts")
  /\ UNCHANGED <<now, equipment, reservation, newer, changes>>

\* The request goes on only if it breaks exactly what was confirmed, or, in Slack,
\* nothing that stops it.
MayBook(p, broken) ==
  IF p.via = "admin" THEN Hard(broken) = {} /\ Overridable(broken) = p.codes
                     ELSE LegacyBlocking(broken, p.privileged) = {}

\* The overlapping reservations are locked and the policy is checked again.
LockConflicts(q) ==
  LET p == request[q] IN
  /\ p.step = "conflicts" /\ Lockable(q)
  /\ IF MayBook(p, Broken(p, now))
       THEN /\ Lock(q)
            /\ request' = [request EXCEPT ![q].step = "commit", ![q].at = now]
            /\ UNCHANGED newer
       ELSE GiveUp(q)
  /\ UNCHANGED <<now, equipment, reservation, changes>>

\* A row to lock has changed since the snapshot: error 1020.  The search for conflicts
\* may come across any reservation of the equipment.
Refused(q) ==
  LET p == request[q] IN
  /\ ~Waits(q)
  /\ \/ Wanted(q) \cap newer[q] # {}
     \/ /\ p.step = "conflicts"
        /\ \E r \in DOMAIN reservation : /\ reservation[r].equipment = p.equipment
                                       /\ <<"reservation", r>> \in newer[q]
  /\ GiveUp(q)
  /\ UNCHANGED <<now, equipment, reservation, changes>>

\* Requests that wait for each other.
Deadlocked(ring) ==
  \A p \in ring : Waits(p) /\ \E r \in ring \ {p} : holds[r] \cap Wanted(p) # {}

Cycle(q) == \E ring \in SUBSET Request : q \in ring /\ Deadlocked(ring)

\* The database fails one of them: error 1213.
DeadlockBroken(q) ==
  /\ Cycle(q)
  /\ GiveUp(q)
  /\ UNCHANGED <<now, equipment, reservation, changes>>

\* The process dies, or anything else raises before the commit.
Fails(q) ==
  /\ Open(q)
  /\ GiveUp(q)
  /\ UNCHANGED <<now, equipment, reservation, changes>>

-----------------------------------------------------------------------------
(* Commits.                                                                *)

Canceled(rs) ==
  [r \in DOMAIN reservation |->
     IF r \in rs THEN [reservation[r] EXCEPT !.active = FALSE] ELSE reservation[r]]

CommitCancel(q) ==
  LET r == request[q].original IN
  /\ request[q].step = "commit" /\ request[q].via = "cancel"
  /\ reservation' = Canceled({r})
  /\ End(q) /\ Changed(q, Rows("reservation", {r}))
  /\ UNCHANGED <<now, equipment, changes>>

\* The row a request inserts.
Booked(p) ==
  [equipment |-> p.equipment, starts_at |-> p.starts_at, ends_at |-> p.ends_at,
   active |-> TRUE, via |-> p.via, codes |-> p.codes, replaces |-> p.original]

\* Mutant: the reservation that is replaced is not canceled.
CommitBeside(q) ==
  LET p == request[q] IN
  /\ p.step = "commit" /\ p.via # "cancel"
  /\ reservation' = Append(reservation, Booked(p))
  /\ End(q) /\ Changed(q, Rows("reservation", {Len(reservation) + 1}))
  /\ UNCHANGED <<now, equipment, changes>>

\* The new reservation, and the cancellation of the one it replaces.
CommitBooking(q) ==
  LET p == request[q] IN
  /\ p.step = "commit" /\ p.via # "cancel"
  /\ reservation' = Append(Canceled({p.original}), Booked(p))
  /\ End(q)
  /\ Changed(q, Rows("reservation", {p.original, Len(reservation) + 1} \ {NONE}))
  /\ UNCHANGED <<now, equipment, changes>>

-----------------------------------------------------------------------------
(* Staff changes the equipment (services/equipment_service.py); time.      *)

Change(e, table, row) ==
  /\ changes < MaxChanges /\ changes' = changes + 1
  /\ ~equipment[e].is_archived
  /\ \A p \in Request : <<table, e>> \notin holds[p]
  /\ equipment' = [equipment EXCEPT ![e] = row]
  /\ newer' = [p \in Request |-> IF Open(p) THEN newer[p] \cup {<<table, e>>} ELSE {}]
  /\ UNCHANGED <<now, reservation, request, holds>>

SaveSettings(e) ==
  \E s \in Settings \ {equipment[e].settings} :
    Change(e, "settings", [equipment[e] EXCEPT !.settings = s])

Archive(e) == Change(e, "equipment", [equipment[e] EXCEPT !.is_archived = TRUE])

Tick ==
  /\ now < MaxTime
  /\ now' = now + 1
  /\ UNCHANGED <<equipment, reservation, request, holds, newer, changes>>

-----------------------------------------------------------------------------
Begin(q) == BeginSlack(q) \/ BeginAdmin(q) \/ BeginCancel(q)

Step(q) ==
  \/ LockOriginal(q) \/ LockJoined(q) \/ LockEquipment(q) \/ LockConflicts(q)
  \/ Refused(q) \/ CommitCancel(q) \/ CommitBooking(q)

Next ==
  \/ \E q \in Request : Begin(q) \/ Step(q) \/ DeadlockBroken(q) \/ Fails(q)
  \/ \E e \in Equipment : SaveSettings(e) \/ Archive(e)
  \/ Tick

\* Statements are executed, locks are granted in the order they were asked for, so that
\* nobody waits for ever while others come and go, and deadlocks are detected.
Fairness == \A q \in Request : SF_vars(Step(q)) /\ WF_vars(DeadlockBroken(q))

Spec == Init /\ [][Next]_vars /\ Fairness

-----------------------------------------------------------------------------
TypeOK ==
  /\ now \in 0..MaxTime /\ changes \in 0..MaxChanges
  /\ equipment \in
       [Equipment -> [is_archived : BOOLEAN, settings : Settings \cup {NONE}]]
  /\ \A r \in DOMAIN reservation :
       /\ reservation[r].starts_at < reservation[r].ends_at
       /\ reservation[r].codes \subseteq OVERRIDABLE_POLICY_CODES
  /\ \A q \in Request : ~Open(q) => holds[q] = {} /\ newer[q] = {}
  /\ \A p, q \in Request : p # q => holds[p] \cap holds[q] = {}

Calendar == INSTANCE ReservationCalendar WITH Code <- OVERRIDABLE_POLICY_CODES

\* The requests and their transactions, whatever overlaps, are as good as bookings and
\* cancellations one at a time: no check is made on something old.
ImplementsCalendar == Calendar!Spec

\* Of two active reservations that overlap, the later one was confirmed as a conflict
\* by staff; members never get one.
OverlapsWereOverridden == Calendar!OverlapsWereOverridden

\* A reservation is replaced once, and canceled by that.
ReplacedOnce == Calendar!ReplacedOnce

\* What was checked under the locks is still so when it is committed: the equipment,
\* its settings and the other reservations allow the booking, with the very warnings
\* that were confirmed.
CheckedStaysTrue ==
  \A q \in Request :
    LET p == request[q] IN
    p.step = "commit" /\ p.via # "cancel" => MayBook(p, Broken(p, p.at))

\* Cancellations never deadlock, nor do new bookings of one machine, however many there
\* are: of requests that wait for each other one is a booking, which locks equipment before
\* the reservations in its way, and one has locked a reservation before its equipment,
\* unless they book different machines.
DeadlocksMixOrders ==
  \A ring \in SUBSET Request :
    ring # {} /\ Deadlocked(ring) =>
      /\ \E p \in ring : request[p].via # "cancel"
      /\ \/ \E p \in ring : request[p].original # NONE
         \/ \E p, r \in ring : request[p].equipment # request[r].equipment

\* Every request ends, deadlocks included.
RequestsEnd == \A q \in Request : Open(q) ~> ~Open(q)
=============================================================================

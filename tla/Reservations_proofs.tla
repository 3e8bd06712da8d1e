------------------------- MODULE Reservations_proofs -------------------------
(***************************************************************************)
(* Reservations implements ReservationCalendar, for any equipment, policy  *)
(* and number of overlapping requests: what a request has checked cannot   *)
(* change before its commit, because it holds the locks of the rows.       *)
(***************************************************************************)
EXTENDS Reservations, SequenceTheorems, TLAPS

-----------------------------------------------------------------------------
(* The inductive invariant.                                                *)

AskType ==
  [step : {"idle", "original", "joined", "equipment", "conflicts", "commit"},
   via : {"slack", "admin", "cancel", NONE},
   equipment : Equipment \cup {NONE},
   starts_at : Int \cup {NONE}, ends_at : Int \cup {NONE},
   original : Nat \cup {NONE}, privileged : BOOLEAN,
   codes : SUBSET OVERRIDABLE_POLICY_CODES, at : Nat]

Lockables == {"equipment", "settings", "reservation"} \X (Equipment \cup Nat)

Typed ==
  /\ request \in [Request -> AskType]
  /\ holds \in [Request -> SUBSET Lockables]
  /\ newer \in [Request -> SUBSET Lockables]
  /\ reservation \in Seq(Calendar!Reservation)

\* What a request asks for fits how it came in.
Asked(p) ==
  p.step # "idle" =>
    /\ p.original \in DOMAIN reservation \cup {NONE}
    /\ p.step \in {"original", "joined"} \/ p.via = "cancel" => p.original # NONE
    /\ p.via = "cancel" => p.step \notin {"equipment", "conflicts"}
    /\ p.via # "cancel" =>
         /\ p.via \in {"slack", "admin"} /\ p.equipment \in Equipment
         /\ p.starts_at \in Int /\ p.ends_at \in Int
    /\ p.via = "slack" => p.codes = {} /\ p.original = NONE

\* The locks of a request by its step; the original it has locked is active.
Held(p, rows) ==
  /\ p.step \in {"joined", "equipment", "conflicts", "commit"} /\ p.original # NONE
       => <<"reservation", p.original>> \in rows
  /\ p.step \in {"equipment", "conflicts", "commit"} /\ p.original # NONE
       => /\ reservation[p.original].active
          /\ <<"equipment", reservation[p.original].equipment>> \in rows
  /\ p.step \in {"conflicts", "commit"} /\ p.via # "cancel"
       => {"equipment", "settings"} \X {p.equipment} \subseteq rows

\* What it checked under them.
Checked(p) == p.step = "commit" /\ p.via # "cancel" => MayBook(p, Broken(p, p.at))

\* What is so of one request.
Sound(q) ==
  Asked(request[q]) /\ Held(request[q], holds[q]) /\ Checked(request[q])

\* No row is locked by two requests, and none by a request that is over.
Exclusive ==
  /\ \A q \in Request : ~Open(q) => holds[q] = {} /\ newer[q] = {}
  /\ \A p, q \in Request : p # q => holds[p] \cap holds[q] = {}

IInv == TypeOK /\ Typed /\ \A q \in Request : Sound(q)

-----------------------------------------------------------------------------
(* The policy.                                                             *)

\* A booking that may go on has an interval, and says whether it conflicts.
LEMMA MayBookMeans ==
  ASSUME NEW e, NEW p, NEW others, NEW t,
         p.starts_at \in Int, p.ends_at \in Int,
         p.via = "slack" => p.codes = {},
         MayBook(p, Violations(e, p, others, t))
  PROVE  /\ p.starts_at < p.ends_at
         /\ p.via \in {"slack", "admin"}
              => ("conflict" \in p.codes <=> \E r \in others : Overlap(r, p))
<1> DEFINE broken == Violations(e, p, others, t)
           duration == p.ends_at - p.starts_at
<1>1. p.via \in {"slack", "admin"} => ("conflict" \in p.codes <=> "conflict" \in broken)
  BY DEF MayBook, Overridable, LegacyBlocking, OVERRIDABLE_POLICY_CODES,
         LEGACY_IMPLICIT_OVERRIDE_CODES
<1>2. \A c \in broken : c \notin {"equipment_archived", "equipment_not_reservable",
                                 "reservations_disabled", "duration_nonpositive"}
  BY DEF MayBook, Hard, LegacyBlocking, OVERRIDABLE_POLICY_CODES,
         LEGACY_IMPLICIT_OVERRIDE_CODES
<1>3. EquipmentViolations(e) = {}
  <2>1. EquipmentViolations(e) \subseteq
          {"equipment_archived", "equipment_not_reservable", "reservations_disabled"}
    BY DEF EquipmentViolations, When
  <2>2. EquipmentViolations(e) # {} => broken = EquipmentViolations(e)
    BY DEF Violations
  <2> QED
    BY <1>2, <2>1, <2>2
<1>4. broken = DurationViolations(duration, e.settings)
                 \cup StartViolations(p.starts_at, e.settings, t)
                 \cup When(duration > 0 /\ \E r \in others : Overlap(r, p), "conflict")
  BY <1>3 DEF Violations
<1>5. duration > 0
  <2>1. ~(duration > 0) => duration <= 0
    OBVIOUS
  <2>2. duration <= 0 => "duration_nonpositive" \in broken
    BY <1>4 DEF DurationViolations
  <2> QED
    BY <1>2, <2>1, <2>2
<1>6. /\ "conflict" \notin DurationViolations(duration, e.settings)
      /\ "conflict" \notin StartViolations(p.starts_at, e.settings, t)
  BY DEF DurationViolations, StartViolations, When
<1>7. "conflict" \in broken <=> \E r \in others : Overlap(r, p)
  BY <1>4, <1>5, <1>6 DEF When
<1> QED
  BY <1>1, <1>5, <1>7

-----------------------------------------------------------------------------
(* Steps of one request that change no row.                                *)

LEMMA IdleType == Idle \in AskType
  BY DEF Idle, AskType

\* Such a step keeps the invariant if the request is sound after it, and has locked
\* nothing that another holds.
LEMMA AloneKeeps ==
  ASSUME IInv, NEW q \in Request, NEW ask \in AskType, NEW rows \in SUBSET Lockables,
         request' = [request EXCEPT ![q] = ask],
         holds' = [holds EXCEPT ![q] = rows],
         newer' \in {newer, [newer EXCEPT ![q] = {}]},
         UNCHANGED <<now, equipment, reservation, changes>>,
         ask.step = "idle" => rows = {} /\ newer'[q] = {},
         \A p \in Request \ {q} : holds[p] \cap rows = {},
         Asked(ask), Held(ask, rows), Checked(ask)
  PROVE  IInv'
<1>1. /\ request'[q] = ask /\ holds'[q] = rows
      /\ \A p \in Request \ {q} :
           request'[p] = request[p] /\ holds'[p] = holds[p] /\ newer'[p] = newer[p]
  BY DEF IInv, Typed
<1>2. TypeOK'
  <2>1. \A p \in Request : ~Open(p)' => holds'[p] = {} /\ newer'[p] = {}
    BY <1>1 DEF IInv, TypeOK, Open
  <2>2. \A p, u \in Request : p # u => holds'[p] \cap holds'[u] = {}
    BY <1>1 DEF IInv, TypeOK
  <2> QED
    BY <2>1, <2>2 DEF IInv, TypeOK
<1>3. Typed'
  BY DEF IInv, Typed
<1>4. ASSUME NEW p \in Request PROVE Sound(p)'
  <2>1. Sound(p) /\ UNCHANGED <<equipment, reservation>>
    BY DEF IInv
  <2>2. CASE p = q
    <3>1. Asked(request[q])'
      BY <1>1, <2>1 DEF Asked
    <3>2. Held(request[q], holds[q])'
      BY <1>1, <2>1 DEF Held
    <3>3. Checked(request[q])'
      <4>1. Broken(ask, ask.at)' = Broken(ask, ask.at)
        BY <2>1 DEF Broken, ActiveOf
      <4>2. Checked(ask)'
        BY <4>1 DEF Checked
      <4> QED
        BY <1>1, <4>2
    <3> QED
      BY <2>2, <3>1, <3>2, <3>3 DEF Sound
  <2>3. CASE p # q
    BY <1>1, <2>1, <2>3 DEF Sound, Asked, Held, Checked, Broken, ActiveOf
  <2> QED
    BY <2>2, <2>3
<1> QED
  BY <1>2, <1>3, <1>4 DEF IInv

\* A request that is given up.
LEMMA GiveUpKeeps ==
  ASSUME IInv, NEW q \in Request, GiveUp(q),
         UNCHANGED <<now, equipment, reservation, changes>>
  PROVE  IInv'
<1>1. newer'[q] = {} /\ newer' \in {newer, [newer EXCEPT ![q] = {}]}
  BY DEF GiveUp, IInv, Typed
<1>2. Idle.step = "idle"
  BY DEF Idle
<1>3. Asked(Idle) /\ Held(Idle, {}) /\ Checked(Idle)
  BY <1>2 DEF Asked, Held, Checked
<1>4. request' = [request EXCEPT ![q] = Idle] /\ holds' = [holds EXCEPT ![q] = {}]
  BY DEF GiveUp, End
<1> QED
  BY <1>1, <1>2, <1>3, <1>4, IdleType, AloneKeeps

\* A request that locks the rows it wants, and goes on with ask.
LEMMA LockKeeps ==
  ASSUME IInv, NEW q \in Request, NEW ask \in AskType,
         Lock(q), Lockable(q), Wanted(q) \subseteq Lockables,
         request' = [request EXCEPT ![q] = ask], ask.step # "idle",
         UNCHANGED <<now, equipment, reservation, newer, changes>>,
         Asked(ask), Held(ask, holds[q] \cup Wanted(q)), Checked(ask)
  PROVE  IInv'
<1> DEFINE rows == holds[q] \cup Wanted(q)
<1>1. holds' = [holds EXCEPT ![q] = rows] /\ rows \in SUBSET Lockables
  BY DEF Lock, IInv, Typed
<1>2. \A p \in Request \ {q} : holds[p] \cap rows = {}
  <2> SUFFICES ASSUME NEW p \in Request \ {q}
               PROVE  holds[p] \cap rows = {}
    OBVIOUS
  <2>1. holds[p] \cap Wanted(q) = {}
    BY DEF Lockable, Waits, Free
  <2>2. holds[p] \cap holds[q] = {}
    BY DEF IInv, TypeOK
  <2> QED
    BY <2>1, <2>2
<1>3. newer' \in {newer, [newer EXCEPT ![q] = {}]}
  OBVIOUS
<1> HIDE DEF rows
<1>4. Held(ask, rows)
  BY DEF rows
<1> QED
  BY <1>1, <1>2, <1>3, <1>4, AloneKeeps

-----------------------------------------------------------------------------
(* The actions of a request before its commit.                             *)

\* What an unlocked request asks for is sound when it fits how it came in.
LEMMA AskKeeps ==
  ASSUME IInv, NEW q \in Request, NEW ask \in AskType, Ask(q, ask),
         ask.step \in {"original", "equipment"}, Asked(ask),
         ask.step = "equipment" => ask.original = NONE
  PROVE  IInv'
<1>1. holds[q] \in SUBSET Lockables /\ holds' = [holds EXCEPT ![q] = holds[q]]
  BY DEF Ask, IInv, Typed
<1>2. \A p \in Request \ {q} : holds[p] \cap holds[q] = {}
  BY DEF IInv, TypeOK
<1>3. Held(ask, holds[q]) /\ Checked(ask)
  BY DEF Held, Checked
<1>4. /\ request' = [request EXCEPT ![q] = ask] /\ newer' \in {newer, [newer EXCEPT ![q] = {}]}
      /\ UNCHANGED <<now, equipment, reservation, changes>>
  BY DEF Ask
<1>5. ask.step = "idle" => holds[q] = {} /\ newer'[q] = {}
  OBVIOUS
<1> QED
  BY <1>1, <1>2, <1>3, <1>4, <1>5, AloneKeeps

LEMMA BeginKeeps ==
  ASSUME IInv, NEW q \in Request, Begin(q)
  PROVE  IInv'
<1>1. Idle \in AskType /\ DOMAIN reservation \subseteq Nat /\ NONE \notin Nat
  BY IdleType, LenProperties, ReservationsAssumption DEF IInv, Typed
<1>2. CASE BeginSlack(q)
  <2> PICK e \in Equipment, s \in Starts, d \in Durations, privileged \in BOOLEAN :
        Ask(q, [Idle EXCEPT !.step = "equipment", !.via = "slack",
                            !.equipment = e, !.starts_at = s, !.ends_at = s + d,
                            !.privileged = privileged])
    BY <1>2 DEF BeginSlack
  <2> DEFINE ask == [Idle EXCEPT !.step = "equipment", !.via = "slack",
                                 !.equipment = e, !.starts_at = s, !.ends_at = s + d,
                                 !.privileged = privileged]
  <2>1. s \in Int /\ s + d \in Int
    BY ReservationsAssumption
  <2>2. ask \in AskType
    BY <2>1 DEF AskType, Idle
  <2>3. /\ Asked(ask) /\ ask.step \in {"original", "equipment"}
        /\ ask.step = "equipment" => ask.original = NONE
    BY <2>1 DEF Asked, Idle
  <2> HIDE DEF ask
  <2>4. Ask(q, ask)
    BY DEF ask
  <2> QED
    BY <2>2, <2>3, <2>4, AskKeeps
<1>3. CASE BeginAdmin(q)
  <2> PICK e \in Equipment, s \in Starts, d \in Durations,
           o \in DOMAIN reservation \cup {NONE} :
        LET asked == [Idle EXCEPT !.step = IF o = NONE THEN "equipment" ELSE "original",
                                  !.via = "admin", !.equipment = e, !.starts_at = s,
                                  !.ends_at = s + d, !.original = o, !.privileged = TRUE]
            broken == Broken(asked, now)
        IN  Room /\ Hard(broken) = {} /\ Ask(q, [asked EXCEPT !.codes = broken])
    BY <1>3 DEF BeginAdmin
  <2> DEFINE asked ==
        [Idle EXCEPT !.step = IF o = NONE THEN "equipment" ELSE "original",
                     !.via = "admin", !.equipment = e, !.starts_at = s,
                     !.ends_at = s + d, !.original = o, !.privileged = TRUE]
      codes == Broken(asked, now)
      ask == [asked EXCEPT !.codes = codes]
  <2> HIDE DEF codes
  <2>1. s \in Int /\ s + d \in Int
    BY ReservationsAssumption
  <2>2. codes \in SUBSET OVERRIDABLE_POLICY_CODES
    BY DEF Hard, codes
  <2>3. ask \in AskType
    BY <1>1, <2>1, <2>2 DEF AskType, Idle
  <2>4. /\ Asked(ask) /\ ask.step \in {"original", "equipment"}
        /\ ask.step = "equipment" => ask.original = NONE
    BY <1>1, <2>1 DEF Asked, Idle
  <2>5. Ask(q, ask)
    BY DEF codes
  <2> HIDE DEF ask
  <2> QED
    BY <2>3, <2>4, <2>5, AskKeeps
<1>4. CASE BeginCancel(q)
  <2> PICK o \in DOMAIN reservation :
        Ask(q, [Idle EXCEPT !.step = "original", !.via = "cancel", !.original = o])
    BY <1>4 DEF BeginCancel
  <2> DEFINE ask == [Idle EXCEPT !.step = "original", !.via = "cancel", !.original = o]
  <2>1. ask \in AskType
    BY <1>1 DEF AskType, Idle
  <2>2. /\ Asked(ask) /\ ask.step \in {"original", "equipment"}
        /\ ask.step = "equipment" => ask.original = NONE
    BY <1>1 DEF Asked, Idle
  <2> HIDE DEF ask
  <2>3. Ask(q, ask)
    BY DEF ask
  <2> QED
    BY <2>1, <2>2, <2>3, AskKeeps
<1> QED
  BY <1>2, <1>3, <1>4 DEF Begin

\* The rows and ids that the invariant speaks of.
LEMMA Basics ==
  ASSUME IInv, NEW q \in Request
  PROVE  /\ request[q] \in AskType /\ NONE \notin Nat
         /\ DOMAIN reservation \subseteq Nat
         /\ \A r \in DOMAIN reservation : reservation[r].equipment \in Equipment
         /\ Asked(request[q]) /\ Held(request[q], holds[q]) /\ Checked(request[q])
<1>1. \A r \in DOMAIN reservation : reservation[r] \in Calendar!Reservation
  BY ElementOfSeq DEF IInv, Typed
<1>2. \A r \in DOMAIN reservation : reservation[r].equipment \in Equipment
  BY <1>1 DEF Calendar!Reservation
<1>3. DOMAIN reservation \subseteq Nat
  BY LenProperties DEF IInv, Typed
<1> QED
  BY <1>2, <1>3, ReservationsAssumption DEF IInv, Typed, Sound

LEMMA LockOriginalKeeps ==
  ASSUME IInv, NEW q \in Request, LockOriginal(q)
  PROVE  IInv'
<1> DEFINE ask == [request[q] EXCEPT !.step = "joined"]
<1>1. /\ request[q] \in AskType /\ NONE \notin Nat /\ DOMAIN reservation \subseteq Nat
      /\ request[q].step = "original" /\ Asked(request[q])
  BY Basics DEF LockOriginal
<1>2. Wanted(q) = {<<"reservation", request[q].original>>}
  BY <1>1 DEF Wanted, Rows
<1>3. request[q].original \in DOMAIN reservation
  BY <1>1 DEF Asked
<1>4. Wanted(q) \subseteq Lockables
  BY <1>1, <1>2, <1>3 DEF Lockables
<1>5. ask \in AskType /\ ask.step # "idle" /\ request' = [request EXCEPT ![q] = ask]
  BY <1>1 DEF AskType, LockOriginal, Move, IInv, Typed
<1>6. Asked(ask) /\ Held(ask, holds[q] \cup Wanted(q)) /\ Checked(ask)
  BY <1>1, <1>2 DEF AskType, Asked, Held, Checked
<1> HIDE DEF ask
<1> QED
  BY <1>4, <1>5, <1>6, LockKeeps DEF LockOriginal

LEMMA LockJoinedKeeps ==
  ASSUME IInv, NEW q \in Request, LockJoined(q)
  PROVE  IInv'
<1> DEFINE p == request[q]
           r == p.original
           ask == [p EXCEPT !.step = IF p.via = "cancel" THEN "commit" ELSE "equipment"]
<1>1. /\ p \in AskType /\ NONE \notin Nat /\ DOMAIN reservation \subseteq Nat
      /\ p.step = "joined" /\ Asked(p) /\ Held(p, holds[q])
      /\ \A s \in DOMAIN reservation : reservation[s].equipment \in Equipment
  BY Basics DEF LockJoined
<1>2. Wanted(q) = {<<"equipment", reservation[r].equipment>>}
  BY <1>1 DEF Wanted, Rows
<1>3. r \in DOMAIN reservation
  BY <1>1 DEF Asked
<1>4. CASE ~reservation[r].active
  BY <1>4, GiveUpKeeps DEF LockJoined
<1>5. CASE reservation[r].active
  <2>1. Wanted(q) \subseteq Lockables
    BY <1>1, <1>2, <1>3 DEF Lockables
  <2>2. ask \in AskType /\ ask.step # "idle" /\ request' = [request EXCEPT ![q] = ask]
    BY <1>1, <1>5 DEF AskType, LockJoined, Move, IInv, Typed
  <2>3. Asked(ask)
    BY <1>1 DEF AskType, Asked
  <2>4. Held(ask, holds[q] \cup Wanted(q))
    BY <1>1, <1>2, <1>5 DEF AskType, Held
  <2>5. Checked(ask)
    BY <1>1 DEF AskType, Checked
  <2>6. /\ Lock(q) /\ Lockable(q)
        /\ UNCHANGED <<now, equipment, reservation, newer, changes>>
    BY <1>5 DEF LockJoined
  <2> HIDE DEF ask
  <2> QED
    BY <2>1, <2>2, <2>3, <2>4, <2>5, <2>6, LockKeeps
<1> QED
  BY <1>4, <1>5 DEF LockJoined

LEMMA LockEquipmentKeeps ==
  ASSUME IInv, NEW q \in Request, LockEquipment(q)
  PROVE  IInv'
<1> DEFINE p == request[q]
           ask == [p EXCEPT !.step = "conflicts"]
<1>1. p \in AskType /\ p.step = "equipment" /\ Asked(p) /\ Held(p, holds[q])
  BY Basics DEF LockEquipment
<1>2. Wanted(q) = {"equipment", "settings"} \X {p.equipment}
  BY <1>1 DEF Wanted
<1>3. Wanted(q) \subseteq Lockables
  BY <1>1, <1>2 DEF Lockables, Asked
<1>4. ask \in AskType /\ ask.step # "idle" /\ request' = [request EXCEPT ![q] = ask]
  BY <1>1 DEF AskType, LockEquipment, Move, IInv, Typed
<1>5. Asked(ask)
  BY <1>1 DEF AskType, Asked
<1>6. Held(ask, holds[q] \cup Wanted(q))
  BY <1>1, <1>2 DEF AskType, Held
<1>7. Checked(ask)
  BY <1>1 DEF AskType, Checked
<1> HIDE DEF ask
<1> QED
  BY <1>3, <1>4, <1>5, <1>6, <1>7, LockKeeps DEF LockEquipment

LEMMA LockConflictsKeeps ==
  ASSUME IInv, NEW q \in Request, LockConflicts(q)
  PROVE  IInv'
<1> DEFINE p == request[q]
           ask == [p EXCEPT !.step = "commit", !.at = now]
<1>1. /\ p \in AskType /\ p.step = "conflicts" /\ Asked(p) /\ Held(p, holds[q])
      /\ DOMAIN reservation \subseteq Nat
  BY Basics DEF LockConflicts
<1>2. CASE ~MayBook(p, Broken(p, now))
  BY <1>2, GiveUpKeeps DEF LockConflicts
<1>3. CASE MayBook(p, Broken(p, now))
  <2>1. Wanted(q) = {"reservation"} \X Conflicting(p)
    BY <1>1 DEF Wanted, Rows
  <2>2. Wanted(q) \subseteq Lockables
    BY <1>1, <2>1 DEF Lockables, Conflicting, ActiveOf
  <2>3. now \in Nat
    BY ReservationsAssumption DEF IInv, TypeOK
  <2>4. ask \in AskType /\ ask.step # "idle" /\ request' = [request EXCEPT ![q] = ask]
    BY <1>1, <1>3, <2>3 DEF AskType, LockConflicts, IInv, Typed
  <2>5. Asked(ask)
    BY <1>1 DEF AskType, Asked
  <2>6. Held(ask, holds[q] \cup Wanted(q))
    BY <1>1 DEF AskType, Held
  <2>7. Broken(ask, ask.at) = Broken(p, now)
    BY <1>1 DEF AskType, Broken, Violations, Overlap
  <2>8. Checked(ask)
    BY <1>1, <1>3, <2>7 DEF AskType, Checked, MayBook
  <2>9. /\ Lock(q) /\ Lockable(q)
        /\ UNCHANGED <<now, equipment, reservation, newer, changes>>
    BY <1>3 DEF LockConflicts
  <2> HIDE DEF ask
  <2> QED
    BY <2>2, <2>4, <2>5, <2>6, <2>8, <2>9, LockKeeps
<1> QED
  BY <1>2, <1>3

-----------------------------------------------------------------------------
(* Steps that change rows.                                                 *)

\* A request stays sound when what it has locked stays as it is: its original, its
\* equipment, and with that the reservations of it.
LEMMA LockedKeeps ==
  ASSUME IInv, NEW q \in Request,
         request'[q] = request[q], holds'[q] = holds[q],
         \A r \in DOMAIN reservation :
           /\ r \in DOMAIN reservation'
           /\ reservation'[r].equipment = reservation[r].equipment
           /\ <<"reservation", r>> \in holds[q] => reservation'[r] = reservation[r],
         \A e \in Equipment :
           {"equipment", "settings"} \X {e} \subseteq holds[q] =>
             /\ equipment'[e] = equipment[e]
             /\ \A r \in DOMAIN reservation' :
                  reservation'[r].equipment = e =>
                    r \in DOMAIN reservation /\ reservation'[r] = reservation[r]
  PROVE  Sound(q)'
<1> DEFINE p == request[q]
<1>1. Asked(p) /\ Held(p, holds[q]) /\ Checked(p) /\ NONE \notin Nat
  BY Basics
<1>2. Asked(p)'
  BY <1>1 DEF Asked
<1>3. Held(p, holds[q])'
  BY <1>1 DEF Held, Asked
<1>4. Checked(p)'
  <2> SUFFICES ASSUME p.step = "commit", p.via # "cancel"
               PROVE  MayBook(p, Broken(p, p.at))'
    BY DEF Checked
  <2>1. p.equipment \in Equipment
    BY <1>1 DEF Asked
  <2>2. {"equipment", "settings"} \X {p.equipment} \subseteq holds[q]
    BY <1>1 DEF Held
  <2>3. equipment'[p.equipment] = equipment[p.equipment]
    BY <2>1, <2>2
  <2>4. ActiveOf(p.equipment, p.original)' = ActiveOf(p.equipment, p.original)
    <3>1. p' = p
      OBVIOUS
    <3>2. \A r : /\ r \in DOMAIN reservation' /\ reservation'[r].equipment = p.equipment
               <=> r \in DOMAIN reservation /\ reservation[r].equipment = p.equipment
      BY <2>1, <2>2
    <3>3. \A r \in DOMAIN reservation :
            reservation[r].equipment = p.equipment => reservation'[r] = reservation[r]
      BY <2>1, <2>2
    <3> HIDE DEF p
    <3> QED
      BY <3>1, <3>2, <3>3 DEF ActiveOf
  <2>5. {reservation[r] : r \in ActiveOf(p.equipment, p.original)}'
          = {reservation[r] : r \in ActiveOf(p.equipment, p.original)}
    BY <2>1, <2>2, <2>4 DEF ActiveOf
  <2>6. Broken(p, p.at)' = Broken(p, p.at)
    BY <2>3, <2>5 DEF Broken
  <2>7. MayBook(p, Broken(p, p.at))
    BY <1>1 DEF Checked
  <2> QED
    BY <2>6, <2>7
<1> QED
  BY <1>2, <1>3, <1>4 DEF Sound

\* Equipment changes where nobody has it locked.
LEMMA ChangeKeeps ==
  ASSUME IInv, NEW e \in Equipment, NEW table \in {"equipment", "settings"}, NEW row,
         row \in [is_archived : BOOLEAN, settings : Settings \cup {NONE}],
         Change(e, table, row)
  PROVE  IInv'
<1>1. /\ UNCHANGED <<now, reservation, request, holds>>
      /\ equipment' = [equipment EXCEPT ![e] = row]
      /\ \A p \in Request : <<table, e>> \notin holds[p]
      /\ changes < MaxChanges /\ changes' = changes + 1
      /\ newer' = [p \in Request |->
                     IF Open(p) THEN newer[p] \cup {<<table, e>>} ELSE {}]
  BY DEF Change
<1>2. <<table, e>> \in Lockables
  BY DEF Lockables
<1>3. TypeOK'
  <2>1. changes' \in 0..MaxChanges
    BY <1>1, ReservationsAssumption DEF IInv, TypeOK
  <2>2. equipment' \in
          [Equipment -> [is_archived : BOOLEAN, settings : Settings \cup {NONE}]]
    BY <1>1 DEF IInv, TypeOK
  <2>3. \A p \in Request : ~Open(p)' => holds'[p] = {} /\ newer'[p] = {}
    BY <1>1 DEF IInv, TypeOK, Open
  <2> QED
    BY <1>1, <2>1, <2>2, <2>3 DEF IInv, TypeOK
<1>4. Typed'
  BY <1>1, <1>2 DEF IInv, Typed
<1>5. ASSUME NEW q \in Request PROVE Sound(q)'
  <2>1. \A d \in Equipment : {"equipment", "settings"} \X {d} \subseteq holds[q]
          => equipment'[d] = equipment[d]
    BY <1>1 DEF IInv, TypeOK
  <2> QED
    BY <1>1, <2>1, LockedKeeps
<1> QED
  BY <1>3, <1>4, <1>5 DEF IInv

LEMMA StaffKeeps ==
  ASSUME IInv, NEW e \in Equipment, SaveSettings(e) \/ Archive(e)
  PROVE  IInv'
<1>1. equipment[e] \in [is_archived : BOOLEAN, settings : Settings \cup {NONE}]
  BY DEF IInv, TypeOK
<1>2. CASE SaveSettings(e)
  <2> PICK s \in Settings : Change(e, "settings", [equipment[e] EXCEPT !.settings = s])
    BY <1>2 DEF SaveSettings
  <2>1. [equipment[e] EXCEPT !.settings = s]
          \in [is_archived : BOOLEAN, settings : Settings \cup {NONE}]
    BY <1>1
  <2> QED
    BY <2>1, ChangeKeeps
<1>3. CASE Archive(e)
  <2>1. [equipment[e] EXCEPT !.is_archived = TRUE]
          \in [is_archived : BOOLEAN, settings : Settings \cup {NONE}]
    BY <1>1
  <2> QED
    BY <1>3, <2>1, ChangeKeeps DEF Archive
<1> QED
  BY <1>2, <1>3

\* What was checked does not depend on the time that has passed since.
LEMMA TickKeeps == ASSUME IInv, Tick PROVE IInv'
<1>1. UNCHANGED <<equipment, reservation, request, holds, newer, changes>>
  BY DEF Tick
<1>2. TypeOK' /\ Typed'
  <2>1. now' \in 0..MaxTime
    BY ReservationsAssumption DEF Tick, IInv, TypeOK
  <2> QED
    BY <1>1, <2>1 DEF IInv, TypeOK, Typed, Open
<1>3. ASSUME NEW q \in Request PROVE Sound(q)'
  BY <1>1, LockedKeeps
<1> QED
  BY <1>2, <1>3 DEF IInv

\* A commit leaves the others sound: it writes to its original and to a new row, and has
\* the equipment of both locked.
LEMMA CommitKeeps ==
  ASSUME IInv, NEW q \in Request, NEW rows \in SUBSET Lockables,
         request[q].step = "commit", End(q), Changed(q, rows),
         UNCHANGED <<now, equipment, changes>>,
         reservation' \in Seq(Calendar!Reservation),
         \A r \in DOMAIN reservation' :
           /\ reservation'[r].starts_at < reservation'[r].ends_at
           /\ reservation'[r].codes \subseteq OVERRIDABLE_POLICY_CODES,
         \A r \in DOMAIN reservation :
           /\ r \in DOMAIN reservation'
           /\ reservation'[r].equipment = reservation[r].equipment
           /\ r # request[q].original => reservation'[r] = reservation[r],
         \A r \in DOMAIN reservation' \ DOMAIN reservation :
           /\ request[q].via # "cancel"
           /\ reservation'[r].equipment = request[q].equipment
  PROVE  IInv'
<1> DEFINE p == request[q]
<1>1. /\ NONE \notin Nat /\ DOMAIN reservation \subseteq Nat
      /\ Asked(p) /\ Held(p, holds[q])
  BY Basics
<1>2. Idle.step = "idle" /\ Idle \in AskType
  BY IdleType DEF Idle
<1>3. /\ request'[q] = Idle /\ holds'[q] = {} /\ newer'[q] = {}
      /\ \A u \in Request \ {q} :
           /\ request'[u] = request[u] /\ holds'[u] = holds[u]
           /\ newer'[u] = IF Open(u) THEN newer[u] \cup rows ELSE {}
  BY DEF IInv, Typed, End, Changed
<1>4. TypeOK'
  <2>1. \A u \in Request : ~Open(u)' => holds'[u] = {} /\ newer'[u] = {}
    BY <1>3 DEF IInv, TypeOK, Open
  <2>2. \A u, v \in Request : u # v => holds'[u] \cap holds'[v] = {}
    BY <1>3 DEF IInv, TypeOK
  <2> QED
    BY <2>1, <2>2 DEF IInv, TypeOK
<1>5. Typed'
  BY <1>2 DEF IInv, Typed, End, Changed
<1>6. ASSUME NEW u \in Request PROVE Sound(u)'
  <2>1. CASE u = q
    BY <1>2, <1>3, <2>1 DEF Sound, Asked, Held, Checked
  <2>2. CASE u # q
    <3>1. holds[u] \cap holds[q] = {}
      BY <2>2 DEF IInv, TypeOK
    <3>2. \A r \in DOMAIN reservation :
            <<"reservation", r>> \in holds[u] => r # p.original
      BY <1>1, <3>1 DEF Held
    <3>3. \A e \in Equipment :
            {"equipment", "settings"} \X {e} \subseteq holds[u] =>
              /\ <<"equipment", e>> \notin holds[q]
              /\ <<"settings", e>> \notin holds[q]
      BY <3>1
    <3>4. ASSUME NEW e \in Equipment,
                 {"equipment", "settings"} \X {e} \subseteq holds[u],
                 NEW r \in DOMAIN reservation', reservation'[r].equipment = e
          PROVE  r \in DOMAIN reservation /\ reservation'[r] = reservation[r]
      <4>1. <<"equipment", e>> \notin holds[q]
        BY <3>3, <3>4
      <4>2. r \in DOMAIN reservation
        <5> SUFFICES ASSUME r \notin DOMAIN reservation
                     PROVE  FALSE
          OBVIOUS
        <5>1. p.via # "cancel" /\ p.equipment = e
          BY <3>4
        <5>2. <<"equipment", e>> \in holds[q]
          BY <1>1, <5>1 DEF Held
        <5> QED
          BY <4>1, <5>2
      <4>3. r # p.original
        <5> SUFFICES ASSUME r = p.original
                     PROVE  FALSE
          OBVIOUS
        <5>1. reservation[r].equipment = e /\ p.original # NONE
          BY <1>1, <3>4, <4>2
        <5>2. <<"equipment", e>> \in holds[q]
          BY <1>1, <5>1 DEF Held
        <5> QED
          BY <4>1, <5>2
      <4> QED
        BY <4>2, <4>3
    <3> QED
      BY <1>3, <2>2, <3>2, <3>4, LockedKeeps
  <2> QED
    BY <2>1, <2>2
<1> QED
  BY <1>4, <1>5, <1>6 DEF IInv

\* Canceling keeps everything of a reservation but that it is active.
LEMMA CanceledKeeps ==
  ASSUME IInv, NEW rs
  PROVE  /\ Canceled(rs) \in Seq(Calendar!Reservation)
         /\ Len(Canceled(rs)) = Len(reservation)
         /\ DOMAIN Canceled(rs) = DOMAIN reservation
         /\ DOMAIN reservation = 1..Len(reservation)
         /\ \A r \in DOMAIN reservation :
              LET old == reservation[r]
                  new == Canceled(rs)[r]
              IN  /\ new.equipment = old.equipment
                  /\ new.starts_at = old.starts_at /\ new.ends_at = old.ends_at
                  /\ new.codes = old.codes
                  /\ r \notin rs => new = old
<1> DEFINE W == Canceled(rs)
<1>1. \A r \in DOMAIN reservation : reservation[r] \in Calendar!Reservation
  BY ElementOfSeq DEF IInv, Typed
<1>2. DOMAIN reservation = 1..Len(reservation) /\ Len(reservation) \in Nat
  BY LenProperties DEF IInv, Typed
<1>3. /\ DOMAIN W = DOMAIN reservation
      /\ \A r \in DOMAIN reservation :
           W[r] = IF r \in rs THEN [reservation[r] EXCEPT !.active = FALSE]
                  ELSE reservation[r]
  BY DEF Canceled
<1>4. \A r \in DOMAIN reservation : W[r] \in Calendar!Reservation
  <2> SUFFICES ASSUME NEW r \in DOMAIN reservation
               PROVE  W[r] \in Calendar!Reservation
    OBVIOUS
  <2>1. [reservation[r] EXCEPT !.active = FALSE] \in Calendar!Reservation
    BY <1>1 DEF Calendar!Reservation
  <2> QED
    BY <1>1, <1>3, <2>1
<1>5. W \in Seq(Calendar!Reservation) /\ Len(W) = Len(reservation)
  <2>1. W \in [1..Len(reservation) -> Calendar!Reservation]
    BY <1>2, <1>4 DEF Canceled
  <2> QED
    BY <1>2, <2>1
<1>6. \A r \in DOMAIN reservation :
        /\ W[r].equipment = reservation[r].equipment
        /\ W[r].starts_at = reservation[r].starts_at
        /\ W[r].ends_at = reservation[r].ends_at /\ W[r].codes = reservation[r].codes
        /\ r \notin rs => W[r] = reservation[r]
  BY <1>1, <1>3 DEF Calendar!Reservation
<1> QED
  BY <1>2, <1>3, <1>5, <1>6

\* What a request about to commit inserts is a reservation, in the place of an active one
\* or of none; its codes tell whether it conflicts, and a member's has none.
LEMMA BookedSound ==
  ASSUME IInv, NEW q \in Request, request[q].step = "commit", request[q].via # "cancel"
  PROVE  LET p == request[q]
             new == Booked(p)
         IN  /\ new \in Calendar!Reservation /\ new.active
             /\ new.starts_at < new.ends_at /\ new.codes \subseteq OVERRIDABLE_POLICY_CODES
             /\ new.equipment = p.equipment /\ new.replaces = p.original
             /\ new.via = "slack" => new.codes = {}
             /\ new.replaces \in Calendar!Active \cup {NONE}
             /\ "conflict" \in new.codes
                  <=> \E r \in Calendar!Active \ {new.replaces} :
                        Calendar!Overlaps(reservation[r], new)
<1> DEFINE p == request[q]
           new == Booked(p)
<1>1. /\ p \in AskType /\ NONE \notin Nat /\ DOMAIN reservation \subseteq Nat
      /\ Asked(p) /\ Held(p, holds[q]) /\ Checked(p)
  BY Basics
<1>2. /\ p.via \in {"slack", "admin"} /\ p.equipment \in Equipment
      /\ p.starts_at \in Int /\ p.ends_at \in Int
      /\ p.via = "slack" => p.codes = {}
      /\ p.original \in DOMAIN reservation \cup {NONE}
  BY <1>1 DEF Asked
<1>3. MayBook(p, Broken(p, p.at))
  BY <1>1 DEF Checked
<1>4. /\ p.starts_at < p.ends_at
      /\ "conflict" \in p.codes
           <=> \E s \in {reservation[r] : r \in ActiveOf(p.equipment, p.original)} :
                 Overlap(s, p)
  <2> DEFINE others == {reservation[r] : r \in ActiveOf(p.equipment, p.original)}
  <2>1. MayBook(p, Violations(equipment[p.equipment], p, others, p.at))
    BY <1>3 DEF Broken
  <2> HIDE DEF p, others
  <2>2. /\ p.starts_at < p.ends_at
        /\ p.via \in {"slack", "admin"}
             => ("conflict" \in p.codes <=> \E s \in others : Overlap(s, p))
    BY <1>2, <2>1, MayBookMeans
  <2> QED
    BY <1>2, <2>2 DEF others
<1>5. /\ new.equipment = p.equipment /\ new.starts_at = p.starts_at
      /\ new.ends_at = p.ends_at /\ new.active /\ new.via = p.via
      /\ new.codes = p.codes /\ new.replaces = p.original
  BY DEF Booked
<1>6. p.codes \in SUBSET OVERRIDABLE_POLICY_CODES
  BY <1>1 DEF AskType
<1>7. new \in Calendar!Reservation
  BY <1>1, <1>2, <1>6 DEF Booked, Calendar!Reservation
<1>8. p.original \in Calendar!Active \cup {NONE}
  BY <1>1, <1>2 DEF Held, Calendar!Active
<1>9. "conflict" \in new.codes
        <=> \E r \in Calendar!Active \ {p.original} :
              Calendar!Overlaps(reservation[r], new)
  <2>1. \A r \in DOMAIN reservation :
          Calendar!Overlaps(reservation[r], new)
            <=> reservation[r].equipment = p.equipment /\ Overlap(reservation[r], p)
    BY <1>5 DEF Calendar!Overlaps, Overlap
  <2> QED
    BY <1>4, <1>5, <2>1 DEF Calendar!Active, ActiveOf
<1> QED
  BY <1>2, <1>4, <1>5, <1>6, <1>7, <1>8, <1>9

\* The reservations after a booking: the old ones, one of them canceled at most, and
\* the new one.
LEMMA CommitBookingKeeps ==
  ASSUME IInv, NEW q \in Request, CommitBooking(q)
  PROVE  IInv'
<1> DEFINE p == request[q]
           W == Canceled({p.original})
           n == Len(reservation) + 1
           new == Booked(p)
           rows == Rows("reservation", {p.original, n} \ {NONE})
<1>1. /\ p.step = "commit" /\ p.via # "cancel" /\ reservation' = Append(W, new)
      /\ End(q) /\ Changed(q, rows) /\ UNCHANGED <<now, equipment, changes>>
  BY DEF CommitBooking
<1>2. /\ new \in Calendar!Reservation /\ new.starts_at < new.ends_at
      /\ new.codes \subseteq OVERRIDABLE_POLICY_CODES /\ new.equipment = p.equipment
  BY <1>1, BookedSound
<1> HIDE DEF new
<1>3. /\ W \in Seq(Calendar!Reservation) /\ Len(W) = Len(reservation)
      /\ DOMAIN reservation = 1..Len(reservation) /\ Len(reservation) \in Nat
      /\ \A r \in DOMAIN reservation :
           /\ W[r].equipment = reservation[r].equipment
           /\ W[r].starts_at = reservation[r].starts_at
           /\ W[r].ends_at = reservation[r].ends_at /\ W[r].codes = reservation[r].codes
           /\ r # p.original => W[r] = reservation[r]
  BY CanceledKeeps, LenProperties DEF IInv, Typed
<1> HIDE DEF W
<1>4. /\ reservation' \in Seq(Calendar!Reservation)
      /\ DOMAIN reservation' = 1..n /\ reservation'[n] = new
      /\ \A r \in DOMAIN reservation : reservation'[r] = W[r]
  <2>1. /\ Append(W, new) \in Seq(Calendar!Reservation) /\ Len(Append(W, new)) = n
        /\ Append(W, new)[n] = new
        /\ \A r \in 1..Len(W) : Append(W, new)[r] = W[r]
    BY <1>2, <1>3, AppendProperties
  <2> QED
    BY <1>1, <1>3, <2>1, LenProperties
<1>5. /\ \A r \in DOMAIN reservation : r \in DOMAIN reservation'
      /\ \A r \in DOMAIN reservation' : r \in DOMAIN reservation \/ r = n
  BY <1>3, <1>4
<1>6. \A r \in DOMAIN reservation :
        /\ reservation[r].starts_at < reservation[r].ends_at
        /\ reservation[r].codes \subseteq OVERRIDABLE_POLICY_CODES
  BY DEF IInv, TypeOK
<1>7. \A r \in DOMAIN reservation' :
        /\ reservation'[r].starts_at < reservation'[r].ends_at
        /\ reservation'[r].codes \subseteq OVERRIDABLE_POLICY_CODES
  BY <1>2, <1>3, <1>4, <1>5, <1>6
<1>8. rows \in SUBSET Lockables
  <2>1. p.original \in Nat \cup {NONE}
    BY Basics DEF AskType
  <2> QED
    BY <1>3, <2>1 DEF Rows, Lockables
<1>9. /\ \A r \in DOMAIN reservation :
           /\ r \in DOMAIN reservation'
           /\ reservation'[r].equipment = reservation[r].equipment
           /\ r # p.original => reservation'[r] = reservation[r]
      /\ \A r \in DOMAIN reservation' \ DOMAIN reservation :
           p.via # "cancel" /\ reservation'[r].equipment = p.equipment
  BY <1>1, <1>2, <1>3, <1>4, <1>5
<1> HIDE DEF rows
<1> QED
  BY <1>1, <1>4, <1>7, <1>8, <1>9, CommitKeeps

LEMMA CommitCancelKeeps ==
  ASSUME IInv, NEW q \in Request, CommitCancel(q)
  PROVE  IInv'
<1> DEFINE p == request[q]
           rows == Rows("reservation", {p.original})
<1>1. /\ p.step = "commit" /\ p.via = "cancel" /\ reservation' = Canceled({p.original})
      /\ End(q) /\ Changed(q, rows) /\ UNCHANGED <<now, equipment, changes>>
  BY DEF CommitCancel
<1>2. p.original \in DOMAIN reservation /\ DOMAIN reservation \subseteq Nat
  BY <1>1, Basics DEF Asked
<1>3. rows \in SUBSET Lockables
  BY <1>2 DEF Rows, Lockables
<1>4. /\ reservation' \in Seq(Calendar!Reservation)
      /\ DOMAIN reservation' = DOMAIN reservation
      /\ \A r \in DOMAIN reservation :
           /\ reservation'[r].equipment = reservation[r].equipment
           /\ reservation'[r].starts_at = reservation[r].starts_at
           /\ reservation'[r].ends_at = reservation[r].ends_at
           /\ reservation'[r].codes = reservation[r].codes
           /\ r # p.original => reservation'[r] = reservation[r]
  BY <1>1, CanceledKeeps
<1>5. \A r \in DOMAIN reservation' :
        /\ reservation'[r].starts_at < reservation'[r].ends_at
        /\ reservation'[r].codes \subseteq OVERRIDABLE_POLICY_CODES
  BY <1>4 DEF IInv, TypeOK
<1> HIDE DEF rows
<1> QED
  BY <1>1, <1>3, <1>4, <1>5, CommitKeeps

-----------------------------------------------------------------------------
(* The theorems.                                                           *)

LEMMA InitIInv == Init => IInv
<1> SUFFICES ASSUME Init PROVE IInv
  OBVIOUS
<1>1. reservation \in Seq(Calendar!Reservation) /\ DOMAIN reservation = {}
  BY EmptySeq DEF Init
<1>2. \A q \in Request : request[q] = Idle /\ holds[q] = {} /\ newer[q] = {}
  BY DEF Init
<1>3. Idle.step = "idle"
  BY DEF Idle
<1>4. Typed
  BY <1>1, IdleType DEF Init, Typed
<1>5. TypeOK
  <2>1. 0 \in 0..MaxTime /\ 0 \in 0..MaxChanges
    BY ReservationsAssumption
  <2>2. equipment \in
          [Equipment -> [is_archived : BOOLEAN, settings : Settings \cup {NONE}]]
    BY DEF Init
  <2> QED
    BY <1>1, <1>2, <2>1, <2>2 DEF Init, TypeOK
<1>6. \A q \in Request : Sound(q)
  BY <1>2, <1>3 DEF Sound, Asked, Held, Checked
<1> QED
  BY <1>4, <1>5, <1>6 DEF IInv

LEMMA StepIInv == ASSUME IInv, [Next]_vars PROVE IInv'
<1>1. ASSUME NEW q \in Request,
             Begin(q) \/ Step(q) \/ DeadlockBroken(q) \/ Fails(q)
      PROVE  IInv'
  <2>1. CASE Begin(q)
    BY <2>1, BeginKeeps
  <2>2. CASE LockOriginal(q) \/ LockJoined(q) \/ LockEquipment(q) \/ LockConflicts(q)
    BY <2>2, LockOriginalKeeps, LockJoinedKeeps, LockEquipmentKeeps, LockConflictsKeeps
  <2>3. CASE CommitCancel(q) \/ CommitBooking(q)
    BY <2>3, CommitCancelKeeps, CommitBookingKeeps
  <2>4. CASE Refused(q) \/ DeadlockBroken(q) \/ Fails(q)
    BY <2>4, GiveUpKeeps DEF Refused, DeadlockBroken, Fails
  <2> QED
    BY <1>1, <2>1, <2>2, <2>3, <2>4 DEF Step
<1>2. CASE \E e \in Equipment : SaveSettings(e) \/ Archive(e)
  BY <1>2, StaffKeeps
<1>3. CASE Tick
  BY <1>3, TickKeeps
<1>4. CASE UNCHANGED vars
  <2>1. /\ UNCHANGED <<now, equipment, reservation, changes>>
        /\ UNCHANGED <<request, holds, newer>>
    BY <1>4 DEF vars
  <2>2. TypeOK' /\ Typed'
    BY <2>1 DEF IInv, TypeOK, Typed, Open
  <2>3. ASSUME NEW q \in Request PROVE Sound(q)'
    BY <2>1, LockedKeeps
  <2> QED
    BY <2>2, <2>3 DEF IInv
<1> QED
  BY <1>1, <1>2, <1>3, <1>4 DEF Next

\* Every step of a request keeps the invariant: its commit writes nothing that another
\* one has locked.
THEOREM Inductive == Spec => []IInv
<1> QED
  BY InitIInv, StepIInv, PTL DEF Spec

\* The rows, requests and locks keep their types; no row is locked by two requests, and a
\* request that is over holds none (the transactions of reservation_service).
THEOREM TypeCorrect == Spec => []TypeOK
<1>1. IInv => TypeOK
  BY DEF IInv
<1> QED
  BY <1>1, Inductive, PTL

\* What a booking has checked is still so when it is committed: the equipment, its
\* settings and the other reservations allow it with the warnings that were confirmed
\* (evaluate_reservation_request with lock_equipment).
THEOREM CheckedHolds == Spec => []CheckedStaysTrue
<1>1. IInv => CheckedStaysTrue
  BY DEF IInv, Sound, Checked, CheckedStaysTrue
<1> QED
  BY <1>1, Inductive, PTL

\* A step of the requests is a booking, a cancellation, or nothing to the calendar.
LEMMA StepRefines == ASSUME IInv, [Next]_vars PROVE [Calendar!Next]_reservation
<1>1. CASE \E q \in Request : CommitBooking(q)
  <2> PICK q \in Request : CommitBooking(q)
    BY <1>1
  <2> DEFINE new == Booked(request[q])
             W == Canceled({new.replaces})
             n == Len(reservation) + 1
  <2>1. /\ request[q].step = "commit" /\ request[q].via # "cancel"
        /\ reservation' = Append(Canceled({request[q].original}), new)
    BY DEF CommitBooking
  <2>2. /\ new \in Calendar!Reservation /\ new.active
        /\ new.via = "slack" => new.codes = {}
        /\ new.replaces = request[q].original
        /\ new.replaces \in Calendar!Active \cup {NONE}
        /\ "conflict" \in new.codes
             <=> \E r \in Calendar!Active \ {new.replaces} :
                   Calendar!Overlaps(reservation[r], new)
    BY <2>1, BookedSound
  <2>3. reservation' = Append(W, new)
    BY <2>1, <2>2
  <2>4. W \in Seq(Calendar!Reservation) /\ Len(W) = Len(reservation)
    BY CanceledKeeps
  <2> HIDE DEF new
  <2>5. W = Calendar!Without({new.replaces})
    BY DEF Canceled, Calendar!Without
  <2> HIDE DEF W
  <2>6. Len(reservation') = n /\ reservation'[n] = new
    BY <2>2, <2>3, <2>4, AppendProperties
  <2>7. Calendar!Book
    BY <2>2, <2>3, <2>5, <2>6 DEF Calendar!Book
  <2> QED
    BY <2>7 DEF Calendar!Next
<1>2. CASE \E q \in Request : CommitCancel(q)
  <2> PICK q \in Request : CommitCancel(q)
    BY <1>2
  <2> DEFINE r == request[q].original
  <2>1. r \in Calendar!Active
    BY Basics DEF CommitCancel, Asked, Held, Calendar!Active
  <2>2. Calendar!Cancel(r)
    BY DEF CommitCancel, Canceled, Calendar!Cancel, Calendar!Without
  <2> QED
    BY <2>1, <2>2 DEF Calendar!Next
<1>3. ASSUME NEW q \in Request,
             \/ Begin(q) \/ LockOriginal(q) \/ LockJoined(q) \/ LockEquipment(q)
             \/ LockConflicts(q) \/ Refused(q) \/ DeadlockBroken(q) \/ Fails(q)
      PROVE  UNCHANGED reservation
  <2>1. CASE Begin(q)
    BY <2>1 DEF Begin, BeginSlack, BeginAdmin, BeginCancel, Ask
  <2> QED
    BY <1>3, <2>1 DEF LockOriginal, LockJoined, LockEquipment, LockConflicts, Refused,
                      DeadlockBroken, Fails
<1>4. CASE (\E e \in Equipment : SaveSettings(e) \/ Archive(e)) \/ Tick \/ UNCHANGED vars
  BY <1>4 DEF SaveSettings, Archive, Change, Tick, vars
<1> QED
  BY <1>1, <1>2, <1>3, <1>4 DEF Next, Step

\* The requests, with their snapshots, locks, waits and failures, do to the calendar
\* what bookings and cancellations one at a time could have done.
THEOREM Refines == Spec => ImplementsCalendar
<1>1. Init => Calendar!Init
  BY DEF Init, Calendar!Init
<1> QED
  BY <1>1, StepRefines, Inductive, PTL DEF Spec, ImplementsCalendar, Calendar!Spec

-----------------------------------------------------------------------------
(* What the calendar promises is inductive in it.                          *)

\* The reservations are well-formed, and NONE is no id.
CalendarTyped ==
  /\ reservation \in Seq(Calendar!Reservation)
  /\ \A s \in DOMAIN reservation : reservation[s].via = "slack" => reservation[s].codes = {}

CalendarInv == CalendarTyped /\ Calendar!OverlapsWereOverridden /\ Calendar!ReplacedOnce

\* What is appended comes after what was there.
LEMMA AppendKeeps ==
  ASSUME NEW S, NEW seq \in Seq(S), NEW elt \in S
  PROVE  /\ Append(seq, elt) \in Seq(S) /\ Len(Append(seq, elt)) = Len(seq) + 1
         /\ \A r \in 1..Len(seq) : Append(seq, elt)[r] = seq[r]
BY AppendProperties

\* Canceling keeps everything of a reservation but that it is active.
LEMMA WithoutKeeps ==
  ASSUME NEW rs, reservation \in Seq(Calendar!Reservation)
  PROVE  /\ Calendar!Without(rs) \in Seq(Calendar!Reservation)
         /\ Len(Calendar!Without(rs)) = Len(reservation)
         /\ DOMAIN Calendar!Without(rs) = DOMAIN reservation
         /\ \A r \in DOMAIN reservation :
              /\ Calendar!Without(rs)[r].equipment = reservation[r].equipment
              /\ Calendar!Without(rs)[r].starts_at = reservation[r].starts_at
              /\ Calendar!Without(rs)[r].ends_at = reservation[r].ends_at
              /\ Calendar!Without(rs)[r].via = reservation[r].via
              /\ Calendar!Without(rs)[r].codes = reservation[r].codes
              /\ Calendar!Without(rs)[r].replaces = reservation[r].replaces
              /\ Calendar!Without(rs)[r].active <=> reservation[r].active /\ r \notin rs
<1> DEFINE W == Calendar!Without(rs)
<1>1. \A r \in DOMAIN reservation : reservation[r] \in Calendar!Reservation
  BY ElementOfSeq
<1>2. \A r \in DOMAIN reservation :
        W[r] = IF r \in rs THEN [reservation[r] EXCEPT !.active = FALSE] ELSE reservation[r]
  BY DEF Calendar!Without
<1>3. \A r \in DOMAIN reservation : W[r] \in Calendar!Reservation
  <2> SUFFICES ASSUME NEW r \in DOMAIN reservation
               PROVE  W[r] \in Calendar!Reservation
    OBVIOUS
  <2>1. [reservation[r] EXCEPT !.active = FALSE] \in Calendar!Reservation
    BY <1>1 DEF Calendar!Reservation
  <2> QED
    BY <1>1, <1>2, <2>1
<1>4. DOMAIN W = DOMAIN reservation
  BY DEF Calendar!Without
<1>5. DOMAIN reservation = 1..Len(reservation) /\ Len(reservation) \in Nat
  BY LenProperties
<1>6. W \in Seq(Calendar!Reservation) /\ Len(W) = Len(reservation)
  <2>1. W \in [1..Len(reservation) -> Calendar!Reservation]
    BY <1>3, <1>4, <1>5 DEF Calendar!Without
  <2>2. \A i \in 1..Len(reservation) : W[i] \in Calendar!Reservation
    BY <1>3, <1>5
  <2> QED
    BY <2>1, <2>2, <1>5
<1> QED
  BY <1>1, <1>2, <1>4, <1>6 DEF Calendar!Reservation

\* Canceling active reservations breaks nothing.
LEMMA CancelKeeps ==
  ASSUME CalendarInv, NEW r \in Calendar!Active, Calendar!Cancel(r)
  PROVE  CalendarInv'
<1> USE DEF CalendarTyped, Calendar!Active
<1>1. reservation' = Calendar!Without({r}) /\ reservation \in Seq(Calendar!Reservation)
  BY DEF CalendarInv, Calendar!Cancel
<1>2. CalendarTyped'
  BY <1>1, WithoutKeeps DEF CalendarInv
<1>3. Calendar!OverlapsWereOverridden'
  BY <1>1, WithoutKeeps DEF CalendarInv, Calendar!OverlapsWereOverridden,
         Calendar!Overlaps
<1>4. Calendar!ReplacedOnce'
  BY <1>1, WithoutKeeps DEF CalendarInv, Calendar!ReplacedOnce
<1> QED
  BY <1>2, <1>3, <1>4 DEF CalendarInv

\* A booking that says whether it conflicts, in the place of an active one, breaks
\* nothing either.
LEMMA BookKeeps ==
  ASSUME NONE \notin Nat, CalendarInv, Calendar!Book
  PROVE  CalendarInv'
<1> DEFINE n == Len(reservation) + 1
           new == reservation'[n]
           W == Calendar!Without({new.replaces})
<1> USE DEF CalendarTyped, Calendar!Active
<1>1. reservation \in Seq(Calendar!Reservation)
  BY DEF CalendarInv
<1>2. /\ new \in Calendar!Reservation /\ new.active
      /\ new.via = "slack" => new.codes = {}
      /\ new.replaces \in Calendar!Active \cup {NONE}
      /\ "conflict" \in new.codes
           <=> \E r \in Calendar!Active \ {new.replaces} : Calendar!Overlaps(reservation[r], new)
      /\ reservation' = Append(W, new)
  BY DEF Calendar!Book
<1> HIDE DEF new
<1>3. /\ W \in Seq(Calendar!Reservation) /\ Len(W) = Len(reservation)
      /\ Len(reservation) \in Nat /\ DOMAIN reservation = 1..Len(reservation)
  BY <1>1, WithoutKeeps, LenProperties
<1>4. /\ reservation' \in Seq(Calendar!Reservation)
      /\ DOMAIN reservation' = 1..n
      /\ \A r \in DOMAIN reservation : reservation'[r] = W[r]
  <2>1. /\ Append(W, new) \in Seq(Calendar!Reservation) /\ Len(Append(W, new)) = n
        /\ \A r \in 1..Len(W) : Append(W, new)[r] = W[r]
    BY <1>2, <1>3, AppendKeeps DEF n
  <2> QED
    BY <1>2, <1>3, <2>1, LenProperties
<1>5. /\ n \in Nat
      /\ \A r \in DOMAIN reservation' : r \in Nat /\ (r \in DOMAIN reservation \/ r = n)
      /\ \A r \in DOMAIN reservation : r < n /\ r \in Nat /\ r # NONE
      /\ n \in DOMAIN reservation' /\ n # NONE /\ n \notin DOMAIN reservation
  BY <1>3, <1>4
<1>6. \A r \in DOMAIN reservation :
        LET old == reservation[r]
            kept == reservation'[r]
        IN  /\ kept.equipment = old.equipment /\ kept.starts_at = old.starts_at
            /\ kept.ends_at = old.ends_at /\ kept.via = old.via
            /\ kept.codes = old.codes /\ kept.replaces = old.replaces
            /\ kept.active <=> old.active /\ r # new.replaces
  BY <1>1, <1>4, WithoutKeeps
<1> HIDE DEF n, W
<1>7. CalendarTyped'
  BY <1>2, <1>4, <1>5, <1>6 DEF CalendarInv, new
<1>8. Calendar!OverlapsWereOverridden'
  <2> SUFFICES ASSUME NEW r \in Calendar!Active', NEW s \in Calendar!Active', r < s,
                      Calendar!Overlaps(reservation'[r], reservation'[s])
               PROVE  "conflict" \in reservation'[s].codes /\ reservation'[s].via = "admin"
    BY DEF Calendar!OverlapsWereOverridden
  <2>1. CASE s \in DOMAIN reservation
    <3>1. r \in DOMAIN reservation
      BY <1>5, <2>1 DEF n
    <3>2. r \in Calendar!Active /\ s \in Calendar!Active /\ Calendar!Overlaps(reservation[r], reservation[s])
      BY <1>6, <2>1, <3>1 DEF Calendar!Overlaps
    <3> QED
      BY <1>6, <2>1, <3>2 DEF CalendarInv, Calendar!OverlapsWereOverridden
  <2>2. CASE s = n
    <3>1. r \in DOMAIN reservation
      BY <1>5, <2>2
    <3>2. r \in Calendar!Active \ {new.replaces} /\ Calendar!Overlaps(reservation[r], new)
      BY <1>6, <2>2, <3>1 DEF Calendar!Overlaps, new
    <3>3. "conflict" \in new.codes
      BY <1>2, <3>2
    <3> QED
      BY <1>2, <2>2, <3>3 DEF new, Calendar!Reservation
  <2> QED
    BY <1>5, <2>1, <2>2
<1>9. Calendar!ReplacedOnce'
  <2> SUFFICES ASSUME NEW s \in DOMAIN reservation', reservation'[s].replaces # NONE
               PROVE  LET r == reservation'[s].replaces IN
                      /\ r \in DOMAIN reservation' /\ ~reservation'[r].active
                      /\ \A u \in DOMAIN reservation' :
                           reservation'[u].replaces = r => u = s
    BY DEF Calendar!ReplacedOnce
  <2> DEFINE r == reservation'[s].replaces
  <2>1. \A u \in DOMAIN reservation : reservation[u].replaces # NONE =>
          /\ reservation[u].replaces \in DOMAIN reservation
          /\ ~reservation[reservation[u].replaces].active
          /\ \A v \in DOMAIN reservation :
               reservation[v].replaces = reservation[u].replaces => v = u
    BY DEF CalendarInv, Calendar!ReplacedOnce
  <2>2. CASE s = n
    <3>1. r = new.replaces /\ r \in DOMAIN reservation /\ reservation[r].active
      BY <1>2, <2>2 DEF new
    <3>2. \A u \in DOMAIN reservation : reservation[u].replaces # r
      BY <1>5, <2>1, <3>1
    <3>3. r \in DOMAIN reservation' /\ ~reservation'[r].active
      BY <1>3, <1>4, <1>6, <3>1 DEF n
    <3>4. \A u \in DOMAIN reservation' : reservation'[u].replaces = r => u = s
      BY <1>5, <1>6, <2>2, <3>2
    <3> QED
      BY <3>3, <3>4
  <2>3. CASE s \in DOMAIN reservation
    <3>1. r = reservation[s].replaces /\ r \in DOMAIN reservation /\ ~reservation[r].active
      BY <1>6, <2>1, <2>3
    <3>2. new.replaces # r
      BY <1>2, <1>5, <3>1
    <3>3. r \in DOMAIN reservation' /\ ~reservation'[r].active
      BY <1>3, <1>4, <1>6, <3>1 DEF n
    <3>4. \A u \in DOMAIN reservation' : reservation'[u].replaces = r => u = s
      BY <1>5, <1>6, <2>1, <2>3, <3>1, <3>2 DEF new
    <3> QED
      BY <3>3, <3>4
  <2> QED
    BY <1>5, <2>2, <2>3
<1> QED
  BY <1>7, <1>8, <1>9 DEF CalendarInv

\* The invariant of the calendar holds in every state of what implements it.
THEOREM CalendarKept == Spec => []CalendarInv
<1>0. NONE \notin Nat
  BY ReservationsAssumption
<1>1. Calendar!Init => CalendarInv
  <2> SUFFICES ASSUME Calendar!Init PROVE CalendarInv
    OBVIOUS
  <2>1. reservation = <<>> /\ reservation \in Seq(Calendar!Reservation) /\ DOMAIN reservation = {}
    BY DEF Calendar!Init
  <2> QED
    BY <2>1 DEF CalendarInv, CalendarTyped, Calendar!OverlapsWereOverridden,
                Calendar!ReplacedOnce, Calendar!Active
<1>2. CalendarInv /\ [Calendar!Next]_reservation => CalendarInv'
  <2> SUFFICES ASSUME CalendarInv, [Calendar!Next]_reservation PROVE CalendarInv'
    OBVIOUS
  <2>1. CASE Calendar!Book
    BY <1>0, <2>1, BookKeeps
  <2>2. CASE \E r \in Calendar!Active : Calendar!Cancel(r)
    BY <2>2, CancelKeeps
  <2>3. CASE UNCHANGED reservation
    BY <2>3 DEF CalendarInv, CalendarTyped, Calendar!OverlapsWereOverridden,
                Calendar!ReplacedOnce, Calendar!Active
  <2> QED
    BY <2>1, <2>2, <2>3 DEF Calendar!Next
<1> QED
  BY <1>1, <1>2, Refines, PTL DEF ImplementsCalendar, Calendar!Spec

\* Two active reservations of one machine overlap only if staff confirmed the later one
\* as a conflict, whatever requests overlap (collect_reservation_violations).
THEOREM OverlapsOverridden == Spec => []OverlapsWereOverridden
<1>1. CalendarInv => OverlapsWereOverridden
  BY DEF CalendarInv, OverlapsWereOverridden
<1> QED
  BY <1>1, CalendarKept, PTL

\* A reservation is replaced once, and canceled by that, whatever requests overlap
\* (_persist_admin_reservation).
THEOREM ReplacementUnique == Spec => []ReplacedOnce
<1>1. CalendarInv => ReplacedOnce
  BY DEF CalendarInv, ReplacedOnce
<1> QED
  BY <1>1, CalendarKept, PTL

-----------------------------------------------------------------------------
(* Who can wait for whom.                                                  *)

\* The rows a request has locked when it waits, by its step.
WhileWaiting(p, rows) ==
  /\ p.step = "original" => rows = {}
  /\ p.step = "joined" => rows = {<<"reservation", p.original>>}
  /\ p.step = "equipment" /\ p.original = NONE => rows = {}
  /\ p.step = "conflicts" /\ p.original = NONE
       => rows = {"equipment", "settings"} \X {p.equipment}

InLockOrder == \A q \in Request : WhileWaiting(request[q], holds[q])

\* A step of one request.
LEMMA OneMoves ==
  ASSUME IInv, InLockOrder, NEW q \in Request, NEW ask, NEW rows,
         request' = [request EXCEPT ![q] = ask],
         holds' = [holds EXCEPT ![q] = rows],
         WhileWaiting(ask, rows)
  PROVE  InLockOrder'
<1>1. request'[q] = ask /\ holds'[q] = rows
  BY DEF IInv, Typed
<1>2. \A p \in Request \ {q} : request'[p] = request[p] /\ holds'[p] = holds[p]
  BY DEF IInv, Typed
<1> QED
  BY <1>1, <1>2 DEF InLockOrder, WhileWaiting

\* A request that is over has locked nothing.
LEMMA OverInOrder ==
  ASSUME IInv, InLockOrder, NEW q \in Request, End(q)
  PROVE  InLockOrder'
<1>1. WhileWaiting(Idle, {})
  BY DEF WhileWaiting, Idle
<1> QED
  BY <1>1, OneMoves DEF End

\* A request that begins has locked nothing yet.
LEMMA AskInOrder ==
  ASSUME IInv, InLockOrder, NEW q \in Request, NEW ask, Ask(q, ask),
         ask.step \in {"original", "equipment"}
  PROVE  InLockOrder'
<1>1. holds[q] = {} /\ holds' = [holds EXCEPT ![q] = {}]
  BY DEF Ask, IInv, TypeOK, Typed
<1>2. WhileWaiting(ask, {})
  BY DEF WhileWaiting
<1> QED
  BY <1>1, <1>2, OneMoves DEF Ask

LEMMA BeginInOrder ==
  ASSUME IInv, InLockOrder, NEW q \in Request, Begin(q)
  PROVE  InLockOrder'
<1>1. ASSUME NEW ask, Ask(q, ask), ask.step \in {"original", "equipment"}
      PROVE  InLockOrder'
  BY <1>1, AskInOrder
<1>2. CASE BeginSlack(q)
  <2> PICK e \in Equipment, s \in Starts, d \in Durations, privileged \in BOOLEAN :
        Ask(q, [Idle EXCEPT !.step = "equipment", !.via = "slack",
                            !.equipment = e, !.starts_at = s, !.ends_at = s + d,
                            !.privileged = privileged])
    BY <1>2 DEF BeginSlack
  <2> DEFINE ask == [Idle EXCEPT !.step = "equipment", !.via = "slack",
                                 !.equipment = e, !.starts_at = s, !.ends_at = s + d,
                                 !.privileged = privileged]
  <2>1. Ask(q, ask)
    OBVIOUS
  <2>2. ask.step = "equipment"
    BY DEF Idle
  <2> HIDE DEF ask
  <2> QED
    BY <1>1, <2>1, <2>2
<1>3. CASE BeginAdmin(q)
  <2> PICK e \in Equipment, s \in Starts, d \in Durations,
           o \in DOMAIN reservation \cup {NONE} :
        LET asked == [Idle EXCEPT !.step = IF o = NONE THEN "equipment" ELSE "original",
                                  !.via = "admin", !.equipment = e, !.starts_at = s,
                                  !.ends_at = s + d, !.original = o, !.privileged = TRUE]
        IN  Ask(q, [asked EXCEPT !.codes = Broken(asked, now)])
    BY <1>3 DEF BeginAdmin
  <2> DEFINE asked ==
        [Idle EXCEPT !.step = IF o = NONE THEN "equipment" ELSE "original",
                     !.via = "admin", !.equipment = e, !.starts_at = s,
                     !.ends_at = s + d, !.original = o, !.privileged = TRUE]
      ask == [asked EXCEPT !.codes = Broken(asked, now)]
  <2>1. Ask(q, ask)
    OBVIOUS
  <2>2. ask.step \in {"original", "equipment"}
    BY DEF Idle
  <2> HIDE DEF ask
  <2> QED
    BY <1>1, <2>1, <2>2
<1>4. CASE BeginCancel(q)
  <2> PICK o \in DOMAIN reservation :
        Ask(q, [Idle EXCEPT !.step = "original", !.via = "cancel", !.original = o])
    BY <1>4 DEF BeginCancel
  <2> DEFINE ask == [Idle EXCEPT !.step = "original", !.via = "cancel", !.original = o]
  <2>1. Ask(q, ask) /\ ask.step = "original"
    BY DEF Idle
  <2> HIDE DEF ask
  <2> QED
    BY <1>1, <2>1
<1> QED
  BY <1>2, <1>3, <1>4 DEF Begin

\* A lock is taken when all before it in the order are.
LEMMA LockInOrder ==
  ASSUME IInv, InLockOrder, NEW q \in Request,
         LockOriginal(q) \/ LockJoined(q) \/ LockEquipment(q) \/ LockConflicts(q)
  PROVE  InLockOrder'
<1> DEFINE p == request[q]
           rows == holds[q] \cup Wanted(q)
<1>1. p \in AskType /\ NONE \notin Nat /\ Asked(p) /\ WhileWaiting(p, holds[q])
  BY Basics DEF InLockOrder
<1>2. ASSUME NEW step, Move(q, step), Lock(q),
             WhileWaiting([p EXCEPT !.step = step], rows)
      PROVE  InLockOrder'
  BY <1>2, OneMoves DEF Move, Lock, IInv, Typed
<1>3. CASE LockOriginal(q)
  <2>1. Wanted(q) = {<<"reservation", p.original>>} /\ holds[q] = {}
    BY <1>1, <1>3 DEF LockOriginal, Wanted, Rows, WhileWaiting
  <2>2. WhileWaiting([p EXCEPT !.step = "joined"], rows)
    BY <1>1, <2>1 DEF WhileWaiting, AskType
  <2> QED
    BY <1>2, <1>3, <2>2 DEF LockOriginal
<1>4. CASE LockJoined(q)
  <2> DEFINE step == IF p.via = "cancel" THEN "commit" ELSE "equipment"
  <2>1. p.original # NONE
    BY <1>1, <1>4 DEF LockJoined, Asked
  <2>2. WhileWaiting([p EXCEPT !.step = step], rows)
    BY <1>1, <2>1 DEF WhileWaiting, AskType
  <2>3. (Lock(q) /\ Move(q, step)) \/ End(q)
    BY <1>4 DEF LockJoined, GiveUp
  <2> HIDE DEF step
  <2> QED
    BY <1>2, <2>2, <2>3, OverInOrder
<1>5. CASE LockEquipment(q)
  <2>1. Wanted(q) = {"equipment", "settings"} \X {p.equipment}
    BY <1>5 DEF LockEquipment, Wanted
  <2>2. p.original = NONE => holds[q] = {}
    BY <1>1, <1>5 DEF LockEquipment, WhileWaiting
  <2>3. WhileWaiting([p EXCEPT !.step = "conflicts"], rows)
    BY <1>1, <2>1, <2>2 DEF WhileWaiting, AskType
  <2> QED
    BY <1>2, <1>5, <2>3 DEF LockEquipment
<1>6. CASE LockConflicts(q)
  <2>1. CASE End(q)
    BY <2>1, OverInOrder
  <2>2. CASE Lock(q) /\ request' = [request EXCEPT ![q].step = "commit", ![q].at = now]
    <3>1. request' = [request EXCEPT ![q] = [p EXCEPT !.step = "commit", !.at = now]]
      BY <1>1, <2>2 DEF IInv, Typed
    <3>2. WhileWaiting([p EXCEPT !.step = "commit", !.at = now], rows)
      BY <1>1 DEF WhileWaiting, AskType
    <3> QED
      BY <2>2, <3>1, <3>2, OneMoves DEF Lock
  <2> QED
    BY <1>6, <2>1, <2>2 DEF LockConflicts, GiveUp
<1> QED
  BY <1>3, <1>4, <1>5, <1>6

LEMMA StepInOrder ==
  ASSUME IInv, InLockOrder, [Next]_vars
  PROVE  InLockOrder'
<1>1. ASSUME NEW q \in Request,
             Begin(q) \/ Step(q) \/ DeadlockBroken(q) \/ Fails(q)
      PROVE  InLockOrder'
  <2>1. CASE Begin(q)
    BY <2>1, BeginInOrder
  <2>2. CASE LockOriginal(q) \/ LockJoined(q) \/ LockEquipment(q) \/ LockConflicts(q)
    BY <2>2, LockInOrder
  <2>3. CASE End(q)
    BY <2>3, OverInOrder
  <2>4. Begin(q) \/ End(q)
          \/ LockOriginal(q) \/ LockJoined(q) \/ LockEquipment(q) \/ LockConflicts(q)
    BY <1>1 DEF Step, Refused, DeadlockBroken, Fails, GiveUp, CommitCancel, CommitBooking
  <2> QED
    BY <2>1, <2>2, <2>3, <2>4
<1>2. CASE UNCHANGED <<request, holds>>
  BY <1>2 DEF InLockOrder, WhileWaiting
<1>3. (\E e \in Equipment : SaveSettings(e) \/ Archive(e)) \/ Tick \/ UNCHANGED vars
        => UNCHANGED <<request, holds>>
  BY DEF SaveSettings, Archive, Change, Tick, vars
<1> QED
  BY <1>1, <1>2, <1>3 DEF Next

\* A request that waits is at one of the steps that lock, and wants rows of that step.
LEMMA WaitingWants ==
  ASSUME IInv, NEW q \in Request, Waits(q)
  PROVE  /\ request[q].step \in {"original", "joined", "equipment", "conflicts"}
         /\ request[q].step = "joined"
              => Wanted(q) \subseteq {"equipment"} \X Equipment
         /\ request[q].step = "conflicts"
              => Wanted(q) \subseteq {"reservation"} \X Nat
<1> DEFINE p == request[q]
<1>1. /\ p \in AskType /\ Asked(p) /\ NONE \notin Nat /\ DOMAIN reservation \subseteq Nat
      /\ \A r \in DOMAIN reservation : reservation[r].equipment \in Equipment
  BY Basics
<1>2. Wanted(q) # {}
  BY DEF Waits, Free
<1>3. p.step \in {"original", "joined", "equipment", "conflicts"}
  BY <1>2 DEF Wanted
<1>4. p.step = "joined" => Wanted(q) \subseteq {"equipment"} \X Equipment
  BY <1>1 DEF Wanted, Rows, Asked
<1>5. p.step = "conflicts" => Wanted(q) \subseteq {"reservation"} \X Nat
  BY <1>1 DEF Wanted, Rows, Conflicting, ActiveOf
<1> QED
  BY <1>3, <1>4, <1>5

\* New bookings lock equipment before reservations, cancellations the other way round; a
\* ring of waits needs both orders.
LEMMA RingsMix ==
  ASSUME IInv, InLockOrder
  PROVE  DeadlocksMixOrders
<1> SUFFICES ASSUME NEW ring \in SUBSET Request, ring # {}, Deadlocked(ring)
             PROVE  /\ \E p \in ring : request[p].via # "cancel"
                    /\ \E p \in ring : request[p].original # NONE
  BY DEF DeadlocksMixOrders
<1>1. \A p \in ring :
        /\ p \in Request /\ Asked(request[p]) /\ WhileWaiting(request[p], holds[p])
        /\ request[p].step \in {"original", "joined", "equipment", "conflicts"}
        /\ request[p].step = "joined" => Wanted(p) \subseteq {"equipment"} \X Equipment
        /\ request[p].step = "conflicts" => Wanted(p) \subseteq {"reservation"} \X Nat
        /\ \E r \in ring : holds[r] \cap Wanted(p) # {}
  <2> TAKE p \in ring
  <2>1. p \in Request /\ Waits(p) /\ \E r \in ring : holds[r] \cap Wanted(p) # {}
    BY DEF Deadlocked
  <2>2. Asked(request[p]) /\ WhileWaiting(request[p], holds[p])
    BY <2>1, Basics DEF InLockOrder
  <2> QED
    BY <2>1, <2>2, WaitingWants
<1>2. PICK p \in ring : p \in Request
  BY <1>1
<1>3. PICK r \in ring : holds[r] \cap Wanted(p) # {}
  BY <1>1
<1>4. PICK s \in ring : holds[s] \cap Wanted(r) # {}
  BY <1>1
<1>5. \E u \in ring : request[u].via # "cancel"
  <2> SUFFICES ASSUME \A u \in ring : request[u].via = "cancel"
               PROVE  FALSE
    OBVIOUS
  <2>1. \A u \in ring : request[u].step \in {"original", "joined"}
    BY <1>1 DEF Asked
  <2>2. \A u \in ring :
          holds[u] # {} => /\ request[u].step = "joined"
                           /\ holds[u] = {<<"reservation", request[u].original>>}
    BY <1>1, <2>1 DEF WhileWaiting
  <2>3. Wanted(r) \subseteq {"equipment"} \X Equipment
    BY <1>1, <1>3, <2>2
  <2>4. holds[s] = {<<"reservation", request[s].original>>}
    BY <1>4, <2>2
  <2> QED
    BY <1>4, <2>3, <2>4
<1>6. \E u \in ring : request[u].original # NONE
  <2> SUFFICES ASSUME \A u \in ring : request[u].original = NONE
               PROVE  FALSE
    OBVIOUS
  <2>1. \A u \in ring : request[u].step \in {"equipment", "conflicts"}
    BY <1>1 DEF Asked
  <2>2. \A u \in ring :
          holds[u] # {} => /\ request[u].step = "conflicts"
                           /\ holds[u] = {"equipment", "settings"} \X {request[u].equipment}
    BY <1>1, <2>1 DEF WhileWaiting
  <2>3. Wanted(r) \subseteq {"reservation"} \X Nat
    BY <1>1, <1>3, <2>2
  <2>4. holds[s] = {"equipment", "settings"} \X {request[s].equipment}
    BY <1>4, <2>2
  <2> QED
    BY <1>4, <2>3, <2>4
<1> QED
  BY <1>5, <1>6

\* New bookings of one machine never deadlock, however many there are, nor do
\* cancellations: only the two orders of locks together can (_get_equipment,
\* _get_reservation for_update).
THEOREM DeadlocksNeedBothOrders == Spec => []DeadlocksMixOrders
<1>1. Init => InLockOrder
  BY DEF Init, InLockOrder, WhileWaiting, Idle
<1>2. IInv /\ InLockOrder /\ [Next]_vars => InLockOrder'
  BY StepInOrder
<1>3. IInv /\ InLockOrder => DeadlocksMixOrders
  BY RingsMix
<1> QED
  BY <1>1, <1>2, <1>3, Inductive, PTL DEF Spec
=============================================================================

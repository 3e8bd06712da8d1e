------------------------- MODULE MachineAccess_proofs -------------------------
(***************************************************************************)
(* The safety of MachineLoop, for any number of machines, presses of oops, *)
(* deliveries, requests, retries and failures: what is answered, what is   *)
(* unlocked, and that no unlocking gets lost unrecorded.                   *)
(*                                                                         *)
(* And that of MachineStatusCache, for any number of machines, webhooks    *)
(* and changes: what a refresh leaves, and what keeps it.                  *)
(*                                                                         *)
(* That oopses lead to repairs, machines get unlocked and the cache        *)
(* becomes right in the end is checked by TLC only.                        *)
(***************************************************************************)
EXTENDS MachineLoop, TLAPS

Steps == {"idle", "guard", "create", "answer"}

EventOK ==
  event \in [Event -> [state : {"unused", "owed", "answered"},
                       machine : Machine \cup {NONE}]]

\* A delivery in progress is of an event that was pressed.
HandlerOK ==
  /\ handler \in [Handler -> [step : Steps, of : Event \cup {NONE}]]
  /\ \A h \in Handler : handler[h].step # "idle" =>
       handler[h].of \in Event /\ event[handler[h].of].state # "unused"

CloserOK ==
  /\ closer \in [Closer -> [step : {"idle", "check", "queue"}, of : Nat \cup {NONE}]]
  /\ \A c \in Closer : closer[c].step # "idle" => closer[c].of \in DOMAIN repair

WorkerOK ==
  /\ worker \in [step : {"idle", "clear_oops", "clear_lockout", "mark"},
                 of : Nat \cup {NONE}]
  /\ worker.step # "idle" => worker.of \in DOMAIN clear

\* No event goes unaccounted while its machine has an open repair.
Accounted ==
  \A v \in Event : \A r \in DOMAIN repair :
    /\ event[v].state # "unused"
    /\ repair[r].machine = event[v].machine /\ repair[r].open
    => v \in repaired

\* Why an answer may be sent: the repair was seen or made at some time since the press.
RepairedOK ==
  /\ \A h \in Handler : handler[h].step = "answer" => handler[h].of \in repaired
  /\ Accounted

IInv ==
  TypeOK /\ EventOK /\ HandlerOK /\ CloserOK /\ WorkerOK
    /\ RepairedOK /\ AnsweredMeansRepaired

ClearRow ==
  [status : {"pending", "delivered", "failed"}, machine : Machine,
   retry_count : 0..MAX_RETRIES]

-----------------------------------------------------------------------------
LEMMA InitInvariant == Init => IInv
  BY LoopAssumption
  DEF Init, Idle, IInv, TypeOK, EventOK, HandlerOK, CloserOK, WorkerOK, RepairedOK, Accounted,
      AnsweredMeansRepaired, Steps

\* What a sequence holds.
LEMMA ElementOf ==
  ASSUME NEW S, NEW s \in Seq(S), NEW i \in DOMAIN s
  PROVE  s[i] \in S
  OBVIOUS

\* The open repairs of machines other than m were open before.
OthersAsBefore(m) ==
  \A r \in DOMAIN repair' : repair'[r].open /\ repair'[r].machine # m =>
    r \in DOMAIN repair /\ repair[r].open /\ repair[r].machine = repair'[r].machine

\* A repair opened for m accounts for all the events MAC still owes for m.
LEMMA OpenedKeeps ==
  ASSUME IInv, NEW m \in Machine, UnderRepair(m), event' = event, OthersAsBefore(m)
  PROVE  /\ repaired \subseteq repaired' /\ repaired' \subseteq Event
         /\ due' \subseteq Machine
         /\ \A v \in Event :
              event[v].state # "unused" /\ event[v].machine = m => v \in repaired'
         /\ Accounted'
<1>1. /\ repaired \subseteq repaired' /\ repaired' \subseteq Event /\ due' \subseteq Machine
  BY DEF UnderRepair, IInv, TypeOK
<1>2. ASSUME NEW v \in Event, event[v].state # "unused", event[v].machine = m
      PROVE  v \in repaired'
  BY <1>2 DEF UnderRepair, IInv, EventOK, AnsweredMeansRepaired
<1>3. Accounted'
  BY <1>1, <1>2 DEF IInv, RepairedOK, Accounted, OthersAsBefore
<1> QED
  BY <1>1, <1>2, <1>3

\* A new repair record is a record, opens no other machine's, and moves no other.
LEMMA AppendedRepair ==
  ASSUME IInv, NEW m \in Machine,
         repair' = Append(repair, [machine |-> m, open |-> TRUE])
  PROVE  /\ repair' \in Seq([machine : Machine, open : BOOLEAN])
         /\ DOMAIN repair \subseteq DOMAIN repair'
         /\ \A r \in DOMAIN repair : repair'[r] = repair[r]
         /\ OthersAsBefore(m)
<1>1. repair \in Seq([machine : Machine, open : BOOLEAN])
  BY DEF IInv, TypeOK
<1>2. /\ repair' \in Seq([machine : Machine, open : BOOLEAN])
      /\ Len(repair') = Len(repair) + 1
      /\ \A r \in DOMAIN repair : repair'[r] = repair[r]
      /\ repair'[Len(repair) + 1].machine = m
      /\ DOMAIN repair = 1 .. Len(repair) /\ DOMAIN repair' = 1 .. Len(repair) + 1
  BY <1>1
<1>3. OthersAsBefore(m)
  BY <1>2 DEF OthersAsBefore
<1> QED
  BY <1>2, <1>3

\* The steps of a webhook handler keep its events pressed, when only it moves.
LEMMA MovedHandler ==
  ASSUME IInv, NEW h \in Handler, NEW step \in Steps, NEW v \in Event \cup {NONE},
         MoveHandler(h, step, v), event' = event,
         step # "idle" => v \in Event /\ event[v].state # "unused"
  PROVE  /\ HandlerOK'
         /\ \A g \in Handler \ {h} : handler'[g] = handler[g]
         /\ handler'[h] = [step |-> step, of |-> v]
  BY DEF IInv, HandlerOK, MoveHandler

-----------------------------------------------------------------------------
(* Each step of the loop keeps the invariant.                              *)

LEMMA PressOopsKeeps ==
  ASSUME IInv, NEW m \in Machine, PressOops(m)
  PROVE  IInv'
<1>1. PICK v \in Event :
        /\ event[v].state = "unused"
        /\ event' = [event EXCEPT ![v] = [state |-> "owed", machine |-> m]]
        /\ oops' = oops \cup {m}
        /\ repaired' = repaired \cup {w \in {v} : OpenRepairs(m) # {}}
        /\ UNCHANGED <<locked_out, activity, repair, handler, closer, clear, worker,
                       bounds, due, lost>>
  BY DEF PressOops
<1>2. EventOK'
  BY <1>1 DEF IInv, EventOK
<1>3. TypeOK'
  BY <1>1, LoopAssumption DEF IInv, TypeOK, EventOK
<1>4. HandlerOK'
  BY <1>1 DEF IInv, HandlerOK, EventOK
<1>5. CloserOK' /\ WorkerOK'
  BY <1>1 DEF IInv, CloserOK, WorkerOK
<1>6. v \in repaired' \/ \A r \in DOMAIN repair : repair[r].machine = m => ~repair[r].open
  BY <1>1 DEF OpenRepairs
<1>7. RepairedOK'
  BY <1>1, <1>6 DEF IInv, RepairedOK, Accounted, EventOK
<1>8. AnsweredMeansRepaired'
  BY <1>1 DEF IInv, AnsweredMeansRepaired, EventOK
<1> QED
  BY <1>2, <1>3, <1>4, <1>5, <1>7, <1>8 DEF IInv

\* Steps that only move machines' flags, activity, handlers' steps or history.
LEMMA LockOutKeeps ==
  ASSUME IInv, NEW m \in Machine, LockOut(m) \/ StaffClears(m)
  PROVE  IInv'
<1>1. /\ UNCHANGED <<event, activity, repair, handler, closer, clear, worker, repaired, lost>>
      /\ oops' \subseteq Machine /\ locked_out' \subseteq Machine /\ due' \subseteq Machine
  BY DEF LockOut, StaffClears, IInv, TypeOK, history
<1> QED
  BY <1>1
  DEF IInv, TypeOK, EventOK, HandlerOK, CloserOK, WorkerOK, RepairedOK, Accounted,
      AnsweredMeansRepaired

\* A handler that only moves, with what its new step needs.
LEMMA HandlerMoves ==
  ASSUME IInv, NEW h \in Handler, NEW step \in Steps, NEW v \in Event \cup {NONE},
         MoveHandler(h, step, v), activity' \subseteq Event,
         UNCHANGED <<mac, event, repair, closer, clear, worker, history>>,
         step # "idle" => v \in Event /\ event[v].state # "unused",
         step = "answer" => v \in repaired
  PROVE  IInv'
<1>1. /\ UNCHANGED <<oops, locked_out, event, repair, closer, clear, worker, repaired,
                     due, lost>>
  BY DEF mac, history
<1>2. /\ HandlerOK'
      /\ \A g \in Handler \ {h} : handler'[g] = handler[g]
      /\ handler'[h] = [step |-> step, of |-> v]
  BY <1>1, MovedHandler
<1>3. RepairedOK'
  BY <1>1, <1>2 DEF IInv, RepairedOK, Accounted
<1> QED
  BY <1>1, <1>2, <1>3
  DEF IInv, TypeOK, EventOK, CloserOK, WorkerOK, AnsweredMeansRepaired

LEMMA ReceiveKeeps ==
  ASSUME IInv, NEW h \in Handler, Receive(h)
  PROVE  IInv'
<1>1. PICK v \in Event :
        /\ event[v].state = "owed"
        /\ activity' = activity \cup {v}
        /\ MoveHandler(h, "guard", v)
        /\ UNCHANGED <<mac, event, repair, closer, clear, worker, bounds, history>>
  BY DEF Receive
<1>2. activity' \subseteq Event /\ "guard" \in Steps
  BY <1>1 DEF IInv, TypeOK, Steps
<1> QED
  BY <1>1, <1>2, HandlerMoves

LEMMA GuardKeeps ==
  ASSUME IInv, NEW h \in Handler, Guard(h)
  PROVE  IInv'
<1> DEFINE v == handler[h].of
<1>1. /\ v \in Event /\ event[v].state # "unused"
      /\ activity' \subseteq Event /\ "create" \in Steps /\ "answer" \in Steps
      /\ UNCHANGED <<mac, event, repair, closer, clear, worker, history>>
  BY DEF Guard, IInv, HandlerOK, TypeOK, Steps
<1>2. CASE OpenRepairs(event[v].machine) = {}
  <2>1. MoveHandler(h, "create", v)
    BY <1>2 DEF Guard
  <2> HIDE DEF v
  <2> QED
    BY <1>1, <2>1, HandlerMoves
<1>3. CASE OpenRepairs(event[v].machine) # {}
  <2>1. MoveHandler(h, "answer", v)
    BY <1>3 DEF Guard
  <2>2. v \in repaired
    BY <1>1, <1>3 DEF IInv, RepairedOK, Accounted, OpenRepairs
  <2> HIDE DEF v
  <2> QED
    BY <1>1, <2>1, <2>2, HandlerMoves
<1> QED
  BY <1>2, <1>3

LEMMA CreateRepairKeeps ==
  ASSUME IInv, NEW h \in Handler, CreateRepair(h)
  PROVE  IInv'
<1> DEFINE v == handler[h].of
           m == event[v].machine
<1>1. /\ v \in Event /\ event[v].state # "unused"
      /\ repair' = Append(repair, [machine |-> m, open |-> TRUE])
      /\ UnderRepair(m) /\ MoveHandler(h, "answer", v)
      /\ UNCHANGED <<oops, locked_out, event, activity, closer, clear, worker, lost>>
      /\ "answer" \in Steps
  BY DEF CreateRepair, Opened, IInv, HandlerOK, Steps, mac
<1>2. m \in Machine
  BY <1>1 DEF IInv, TypeOK
<1>3. /\ repair' \in Seq([machine : Machine, open : BOOLEAN])
      /\ DOMAIN repair \subseteq DOMAIN repair'
      /\ OthersAsBefore(m)
  <2> HIDE DEF m
  <2> QED
    BY <1>1, <1>2, AppendedRepair
<1>4. /\ repaired \subseteq repaired' /\ repaired' \subseteq Event /\ due' \subseteq Machine
      /\ \A w \in Event :
           event[w].state # "unused" /\ event[w].machine = m => w \in repaired'
      /\ Accounted'
  <2> HIDE DEF m
  <2> QED
    BY <1>1, <1>2, <1>3, OpenedKeeps
<1>5. /\ HandlerOK'
      /\ \A g \in Handler \ {h} : handler'[g] = handler[g]
      /\ handler'[h] = [step |-> "answer", of |-> v]
  <2> HIDE DEF v
  <2> QED
    BY <1>1, MovedHandler
<1>6. RepairedOK'
  BY <1>1, <1>4, <1>5 DEF IInv, RepairedOK
<1>7. TypeOK' /\ EventOK' /\ CloserOK' /\ WorkerOK' /\ AnsweredMeansRepaired'
  BY <1>1, <1>3, <1>4
  DEF IInv, TypeOK, EventOK, CloserOK, WorkerOK, AnsweredMeansRepaired
<1> QED
  BY <1>5, <1>6, <1>7 DEF IInv

LEMMA AnswerKeeps ==
  ASSUME IInv, NEW h \in Handler, Answer(h)
  PROVE  IInv'
<1> DEFINE v == handler[h].of
<1>1. /\ v \in Event /\ event[v].state # "unused" /\ v \in repaired
      /\ event' = [event EXCEPT ![v].state = "answered"]
      /\ MoveHandler(h, "idle", NONE)
      /\ UNCHANGED <<oops, locked_out, activity, repair, closer, clear, worker, repaired,
                     due, lost>>
  BY DEF Answer, IInv, HandlerOK, RepairedOK, mac, history
<1>2. /\ EventOK'
      /\ event'[v].state = "answered" /\ event'[v].machine = event[v].machine
      /\ \A w \in Event \ {v} : event'[w] = event[w]
  BY <1>1 DEF IInv, EventOK
<1>3. /\ handler' \in [Handler -> [step : Steps, of : Event \cup {NONE}]]
      /\ \A g \in Handler \ {h} : handler'[g] = handler[g]
      /\ handler'[h].step = "idle"
  BY <1>1 DEF IInv, HandlerOK, MoveHandler, Steps
<1> HIDE DEF v
<1>4. HandlerOK'
  BY <1>1, <1>2, <1>3 DEF IInv, HandlerOK
<1>5. RepairedOK' /\ AnsweredMeansRepaired'
  BY <1>1, <1>2, <1>3 DEF IInv, RepairedOK, Accounted, AnsweredMeansRepaired
<1>6. TypeOK' /\ CloserOK' /\ WorkerOK'
  BY <1>1, <1>2 DEF IInv, TypeOK, CloserOK, WorkerOK
<1> QED
  BY <1>2, <1>4, <1>5, <1>6 DEF IInv

LEMMA HandlerFailsKeeps ==
  ASSUME IInv, NEW h \in Handler, HandlerFails(h)
  PROVE  IInv'
<1>1. /\ MoveHandler(h, "idle", NONE) /\ "idle" \in Steps /\ activity' \subseteq Event
      /\ UNCHANGED <<mac, event, repair, closer, clear, worker, history>>
  BY DEF HandlerFails, Steps, IInv, TypeOK
<1> QED
  BY <1>1, HandlerMoves

LEMMA ReportKeeps ==
  ASSUME IInv, NEW m \in Machine, Report(m)
  PROVE  IInv'
<1>1. /\ repair' = Append(repair, [machine |-> m, open |-> TRUE])
      /\ UnderRepair(m)
      /\ UNCHANGED <<oops, locked_out, event, activity, handler, closer, clear, worker, lost>>
  BY DEF Report, Opened, mac
<1>2. /\ repair' \in Seq([machine : Machine, open : BOOLEAN])
      /\ DOMAIN repair \subseteq DOMAIN repair'
      /\ OthersAsBefore(m)
  BY <1>1, AppendedRepair
<1>3. /\ repaired \subseteq repaired' /\ repaired' \subseteq Event /\ due' \subseteq Machine
      /\ Accounted'
  BY <1>1, <1>2, OpenedKeeps
<1>4. RepairedOK'
  BY <1>1, <1>3 DEF IInv, RepairedOK
<1> QED
  BY <1>1, <1>2, <1>3, <1>4
  DEF IInv, TypeOK, EventOK, HandlerOK, CloserOK, WorkerOK, AnsweredMeansRepaired

\* A repair record that is opened or closed stays a record of its machine.
LEMMA SwitchedRepair ==
  ASSUME IInv, NEW r \in DOMAIN repair, NEW b \in BOOLEAN,
         repair' = [repair EXCEPT ![r].open = b]
  PROVE  /\ repair' \in Seq([machine : Machine, open : BOOLEAN])
         /\ DOMAIN repair' = DOMAIN repair
         /\ repair[r].machine \in Machine
         /\ \A s \in DOMAIN repair \ {r} : repair'[s] = repair[s]
         /\ repair'[r].machine = repair[r].machine /\ repair'[r].open = b
<1>1. repair \in Seq([machine : Machine, open : BOOLEAN])
  BY DEF IInv, TypeOK
<1>2. repair[r] \in [machine : Machine, open : BOOLEAN]
  BY <1>1, ElementOf
<1>3. [repair[r] EXCEPT !.open = b] \in [machine : Machine, open : BOOLEAN]
  BY <1>2
<1>4. repair' = [repair EXCEPT ![r] = [repair[r] EXCEPT !.open = b]]
  OBVIOUS
<1>5. /\ repair' \in Seq([machine : Machine, open : BOOLEAN])
      /\ DOMAIN repair' = DOMAIN repair
  BY <1>1, <1>3, <1>4
<1>6. /\ \A s \in DOMAIN repair \ {r} : repair'[s] = repair[s]
      /\ repair'[r] = [repair[r] EXCEPT !.open = b]
  BY <1>1, <1>4
<1> QED
  BY <1>2, <1>5, <1>6

LEMMA ReopenKeeps ==
  ASSUME IInv, NEW r \in DOMAIN repair, Reopen(r)
  PROVE  IInv'
<1> DEFINE m == repair[r].machine
<1>1. /\ repair' = [repair EXCEPT ![r].open = TRUE]
      /\ UnderRepair(m)
      /\ UNCHANGED <<oops, locked_out, event, activity, handler, closer, clear, worker, lost>>
  BY DEF Reopen, mac
<1>2. /\ repair' \in Seq([machine : Machine, open : BOOLEAN])
      /\ DOMAIN repair' = DOMAIN repair
      /\ m \in Machine
      /\ OthersAsBefore(m)
  BY <1>1, SwitchedRepair DEF OthersAsBefore
<1> HIDE DEF m
<1>3. /\ repaired \subseteq repaired' /\ repaired' \subseteq Event /\ due' \subseteq Machine
      /\ Accounted'
  BY <1>1, <1>2, OpenedKeeps
<1>4. RepairedOK'
  BY <1>1, <1>3 DEF IInv, RepairedOK
<1> QED
  BY <1>1, <1>2, <1>3, <1>4
  DEF IInv, TypeOK, EventOK, HandlerOK, CloserOK, WorkerOK, AnsweredMeansRepaired

LEMMA CloseKeeps ==
  ASSUME IInv, NEW c \in Closer, NEW r \in DOMAIN repair, Close(c, r)
  PROVE  IInv'
<1>1. /\ repair' = [repair EXCEPT ![r].open = FALSE]
      /\ UNCHANGED <<oops, locked_out, event, activity, handler, clear, worker, repaired,
                     lost>>
  BY DEF Close, mac
<1>2. /\ repair' \in Seq([machine : Machine, open : BOOLEAN])
      /\ DOMAIN repair' = DOMAIN repair
      /\ repair[r].machine \in Machine
      /\ \A s \in DOMAIN repair \ {r} : repair'[s] = repair[s]
      /\ repair'[r].open = FALSE
  BY <1>1, SwitchedRepair
<1>3. due' \subseteq Machine
  BY <1>2 DEF Close, IInv, TypeOK
<1>4. r \in Nat
  BY DEF IInv, TypeOK
<1>5. CloserOK'
  <2>1. \/ closer' = closer
        \/ closer' = [closer EXCEPT ![c] = [step |-> "check", of |-> r]]
    BY DEF Close, MoveCloser
  <2>2. CASE closer' = closer
    BY <1>2, <2>2 DEF IInv, CloserOK
  <2>3. CASE closer' = [closer EXCEPT ![c] = [step |-> "check", of |-> r]]
    <3>1. [step |-> "check", of |-> r]
            \in [step : {"idle", "check", "queue"}, of : Nat \cup {NONE}]
      BY <1>4
    <3>2. closer' \in [Closer -> [step : {"idle", "check", "queue"}, of : Nat \cup {NONE}]]
      BY <2>3, <3>1 DEF IInv, CloserOK
    <3>3. \A d \in Closer : closer'[d].step # "idle" => closer'[d].of \in DOMAIN repair
      BY <2>3 DEF IInv, CloserOK
    <3> QED
      BY <1>2, <3>2, <3>3 DEF CloserOK
  <2> QED
    BY <2>1, <2>2, <2>3
<1>6. RepairedOK'
  BY <1>1, <1>2 DEF IInv, RepairedOK, Accounted
<1> QED
  BY <1>1, <1>2, <1>3, <1>5, <1>6
  DEF IInv, TypeOK, EventOK, HandlerOK, WorkerOK, AnsweredMeansRepaired

\* Nothing but the requests that close, the rows, the worker and the flags moves.
LEMMA RestKeeps ==
  ASSUME IInv, UNCHANGED <<event, activity, repair, handler, repaired, due>>
  PROVE  EventOK' /\ HandlerOK' /\ RepairedOK' /\ AnsweredMeansRepaired'
  BY DEF IInv, EventOK, HandlerOK, RepairedOK, Accounted, AnsweredMeansRepaired

\* The rows before a new one stay as they are.
LEMMA AppendedRow ==
  ASSUME NEW S, NEW s \in Seq(S), NEW x \in S, NEW t, t = Append(s, x)
  PROVE  /\ t \in Seq(S)
         /\ DOMAIN t = DOMAIN s \cup {Len(s) + 1}
         /\ t[Len(s) + 1] = x
         /\ \A i \in DOMAIN s : t[i] = s[i]
  OBVIOUS

LEMMA CloserStepKeeps ==
  ASSUME IInv, NEW c \in Closer, CloserStep(c) \/ CloserDies(c)
  PROVE  IInv'
<1> DEFINE m == repair[closer[c].of].machine
<1>1. /\ closer[c].step # "idle"
      /\ UNCHANGED <<oops, locked_out, event, activity, repair, handler, worker, repaired,
                     due>>
  BY DEF CloserStep, CloserDies, Check, QueueClear, mac, history
<1>2. closer[c].of \in DOMAIN repair /\ m \in Machine
  <2>1. closer[c].of \in DOMAIN repair
    BY <1>1 DEF IInv, CloserOK
  <2>2. repair \in Seq([machine : Machine, open : BOOLEAN])
    BY DEF IInv, TypeOK
  <2>3. repair[closer[c].of] \in [machine : Machine, open : BOOLEAN]
    BY <2>1, <2>2, ElementOf
  <2> QED
    BY <2>1, <2>3
<1>3. CloserOK'
  <2>1. \/ MoveCloser(c, "queue", closer[c].of)
        \/ MoveCloser(c, "idle", NONE)
    BY DEF CloserStep, CloserDies, Check, QueueClear
  <2> QED
    BY <1>1, <1>2, <2>1 DEF MoveCloser, IInv, CloserOK
<1>4. lost' \subseteq Machine
  BY <1>2 DEF CloserStep, CloserDies, Check, QueueClear, history, IInv, TypeOK
<1>5. EventOK' /\ HandlerOK' /\ RepairedOK' /\ AnsweredMeansRepaired'
  BY <1>1, RestKeeps
<1>6. TypeOK' /\ WorkerOK'
  <2>1. CASE clear' = clear
    BY <1>1, <1>4, <2>1 DEF IInv, TypeOK, WorkerOK
  <2>2. CASE QueueClear(c)
    <3> DEFINE row == [status |-> "pending", retry_count |-> 0, machine |-> m]
    <3>1. clear \in Seq(ClearRow) /\ row \in ClearRow /\ clear' = Append(clear, row)
      BY <1>2, <2>2, LoopAssumption DEF QueueClear, IInv, TypeOK, ClearRow
    <3>2. row.status = "pending" /\ row.retry_count # MAX_RETRIES
      BY LoopAssumption
    <3> HIDE DEF row
    <3>3. /\ clear' \in Seq(ClearRow)
          /\ DOMAIN clear' = DOMAIN clear \cup {Len(clear) + 1}
          /\ clear'[Len(clear) + 1] = row
          /\ \A i \in DOMAIN clear : clear'[i] = clear[i]
      BY <3>1, AppendedRow
    <3>4. \A i \in DOMAIN clear' :
            clear'[i].status = "failed" <=> clear'[i].retry_count = MAX_RETRIES
      BY <3>2, <3>3 DEF IInv, TypeOK
    <3>5. WorkerOK' /\ (worker'.step # "idle" => clear'[worker'.of].status = "pending")
      BY <1>1, <3>3 DEF IInv, TypeOK, WorkerOK
    <3> QED
      BY <1>1, <1>4, <3>3, <3>4, <3>5 DEF IInv, TypeOK, ClearRow
  <2> QED
    BY <2>1, <2>2 DEF CloserStep, CloserDies, Check
<1> QED
  BY <1>3, <1>5, <1>6 DEF IInv

LEMMA WorkerMoves ==
  ASSUME IInv, NEW i \in DOMAIN clear \cup {NONE},
         NEW step \in {"idle", "clear_oops", "clear_lockout", "mark"},
         MoveWorker(step, i), oops' \subseteq Machine, locked_out' \subseteq Machine,
         UNCHANGED <<event, activity, repair, handler, closer, clear, history>>,
         step # "idle" => i \in DOMAIN clear /\ clear[i].status = "pending"
  PROVE  IInv'
<1>1. UNCHANGED <<event, activity, repair, handler, closer, clear, repaired, due, lost>>
  BY DEF history
<1>2. EventOK' /\ HandlerOK' /\ RepairedOK' /\ AnsweredMeansRepaired'
  BY <1>1, RestKeeps
<1>3. worker' = [step |-> step, of |-> i] /\ i \in Nat \cup {NONE}
  BY DEF MoveWorker, IInv, TypeOK
<1>4. WorkerOK' /\ (worker'.step # "idle" => clear'[worker'.of].status = "pending")
  BY <1>1, <1>3 DEF WorkerOK
<1> QED
  BY <1>1, <1>2, <1>4 DEF IInv, TypeOK, CloserOK

\* The worker's row, while it has one.
LEMMA RowInHand ==
  ASSUME IInv, worker.step # "idle"
  PROVE  /\ worker.of \in DOMAIN clear
         /\ clear[worker.of] \in ClearRow /\ clear[worker.of].status = "pending"
         /\ clear[worker.of].retry_count # MAX_RETRIES
<1>1. worker.of \in DOMAIN clear /\ clear[worker.of].status = "pending"
  BY DEF IInv, TypeOK, WorkerOK
<1>2. clear \in Seq(ClearRow)
  BY DEF IInv, TypeOK, ClearRow
<1>3. clear[worker.of] \in ClearRow
  BY <1>1, <1>2
<1>4. clear[worker.of].retry_count # MAX_RETRIES
  <2>1. \A i \in DOMAIN clear :
          clear[i].status = "failed" <=> clear[i].retry_count = MAX_RETRIES
    BY DEF IInv, TypeOK
  <2> QED
    BY <1>1, <2>1
<1> QED
  BY <1>1, <1>3, <1>4

LEMMA ClearingKeeps ==
  ASSUME IInv,
         (\E i \in DOMAIN clear : Take(i)) \/ ClearOops \/ ClearLockout \/ WorkerRestarts
  PROVE  IInv'
<1>1. ASSUME NEW i \in DOMAIN clear, Take(i)
      PROVE  IInv'
  <2>1. /\ clear[i].status = "pending" /\ MoveWorker("clear_oops", i)
        /\ oops' \subseteq Machine /\ locked_out' \subseteq Machine
        /\ UNCHANGED <<event, activity, repair, handler, closer, clear, history>>
    BY <1>1 DEF Take, mac, IInv, TypeOK
  <2> QED
    BY <2>1, WorkerMoves
<1>2. CASE ClearOops
  <2>1. /\ worker.of \in DOMAIN clear /\ clear[worker.of].status = "pending"
        /\ MoveWorker("clear_lockout", worker.of)
        /\ oops' \subseteq Machine /\ locked_out' \subseteq Machine
        /\ UNCHANGED <<event, activity, repair, handler, closer, clear, history>>
    BY <1>2, RowInHand DEF ClearOops, IInv, TypeOK
  <2> QED
    BY <2>1, WorkerMoves
<1>3. CASE ClearLockout
  <2>1. /\ worker.of \in DOMAIN clear /\ clear[worker.of].status = "pending"
        /\ MoveWorker("mark", worker.of)
        /\ oops' \subseteq Machine /\ locked_out' \subseteq Machine
        /\ UNCHANGED <<event, activity, repair, handler, closer, clear, history>>
    BY <1>3, RowInHand DEF ClearLockout, IInv, TypeOK
  <2> QED
    BY <2>1, WorkerMoves
<1>4. CASE WorkerRestarts
  <2>1. /\ MoveWorker("idle", NONE)
        /\ oops' \subseteq Machine /\ locked_out' \subseteq Machine
        /\ UNCHANGED <<event, activity, repair, handler, closer, clear, history>>
    BY <1>4 DEF WorkerRestarts, mac, IInv, TypeOK
  <2> QED
    BY <2>1, WorkerMoves
<1> QED
  BY <1>1, <1>2, <1>3, <1>4

\* A row in hand that is settled: the others stay as they are, and the worker lets go.
LEMMA SettledKeeps ==
  ASSUME IInv, NEW row \in ClearRow, worker.step # "idle",
         clear' = [clear EXCEPT ![worker.of] = row],
         row.status = "failed" <=> row.retry_count = MAX_RETRIES,
         MoveWorker("idle", NONE),
         oops' \subseteq Machine, locked_out' \subseteq Machine, lost' \subseteq Machine,
         UNCHANGED <<event, activity, repair, handler, closer, repaired, due>>
  PROVE  IInv'
<1>1. clear \in Seq(ClearRow) /\ worker.of \in DOMAIN clear
  BY RowInHand DEF IInv, TypeOK, ClearRow
<1>2. /\ clear' \in Seq(ClearRow) /\ DOMAIN clear' = DOMAIN clear
      /\ \A i \in DOMAIN clear : i # worker.of => clear'[i] = clear[i]
      /\ clear'[worker.of] = row
  BY <1>1
<1>3. worker' = [step |-> "idle", of |-> NONE]
  BY DEF MoveWorker
<1>4. \A i \in DOMAIN clear' :
        clear'[i].status = "failed" <=> clear'[i].retry_count = MAX_RETRIES
  BY <1>2 DEF IInv, TypeOK
<1>5. TypeOK'
  BY <1>2, <1>3, <1>4 DEF IInv, TypeOK, ClearRow
<1>6. EventOK' /\ HandlerOK' /\ RepairedOK' /\ AnsweredMeansRepaired'
  BY RestKeeps
<1>7. CloserOK' /\ WorkerOK'
  BY <1>3 DEF IInv, CloserOK, WorkerOK
<1> QED
  BY <1>5, <1>6, <1>7 DEF IInv

LEMMA MarkDeliveredKeeps ==
  ASSUME IInv, MarkDelivered
  PROVE  IInv'
<1> DEFINE row == [clear[worker.of] EXCEPT !.status = "delivered"]
<1>1. worker.step # "idle" /\ MoveWorker("idle", NONE)
  BY DEF MarkDelivered
<1>2. /\ clear[worker.of] \in ClearRow /\ clear[worker.of].retry_count # MAX_RETRIES
  BY <1>1, RowInHand
<1>3. /\ row \in ClearRow /\ row.status # "failed" /\ row.retry_count # MAX_RETRIES
  BY <1>2 DEF ClearRow
<1>4. clear' = [clear EXCEPT ![worker.of] = row]
  BY DEF MarkDelivered
<1>5. /\ oops' \subseteq Machine /\ locked_out' \subseteq Machine /\ lost' \subseteq Machine
      /\ UNCHANGED <<event, activity, repair, handler, closer, repaired, due>>
  BY DEF MarkDelivered, mac, history, IInv, TypeOK
<1> HIDE DEF row
<1> QED
  BY <1>1, <1>3, <1>4, <1>5, SettledKeeps

LEMMA ClearRaisesKeeps ==
  ASSUME IInv, ClearRaises
  PROVE  IInv'
<1> DEFINE row == Failed(clear[worker.of])
<1>1. worker.step # "idle" /\ MoveWorker("idle", NONE)
  BY DEF ClearRaises
<1>2. /\ clear[worker.of] \in ClearRow /\ clear[worker.of].retry_count # MAX_RETRIES
      /\ clear[worker.of].status = "pending"
  BY <1>1, RowInHand
<1>3. /\ row \in ClearRow
      /\ row.status = "failed" <=> row.retry_count = MAX_RETRIES
  <2> DEFINE old == clear[worker.of]
  <2>1. /\ old \in ClearRow /\ old.retry_count \in 0 .. (MAX_RETRIES - 1)
        /\ old.status = "pending"
    BY <1>2, LoopAssumption DEF ClearRow
  <2>2. row = [old EXCEPT !.retry_count = old.retry_count + 1,
                          !.status = IF old.retry_count + 1 >= MAX_RETRIES
                                       THEN "failed" ELSE old.status]
    BY DEF Failed
  <2> HIDE DEF old, row
  <2>3. old.retry_count + 1 \in 0 .. MAX_RETRIES
    BY <2>1, LoopAssumption
  <2>4. /\ row.retry_count = old.retry_count + 1 /\ row.machine = old.machine
        /\ row.status = IF old.retry_count + 1 >= MAX_RETRIES THEN "failed" ELSE "pending"
        /\ row \in ClearRow
    BY <2>1, <2>2, <2>3 DEF ClearRow
  <2> QED
    BY <2>1, <2>3, <2>4, LoopAssumption
<1>4. clear' = [clear EXCEPT ![worker.of] = row]
  BY DEF ClearRaises
<1>5. /\ oops' \subseteq Machine /\ locked_out' \subseteq Machine
      /\ UNCHANGED <<event, activity, repair, handler, closer, repaired, due>>
  BY DEF ClearRaises, mac, IInv, TypeOK
<1>6. lost' \subseteq Machine
  BY <1>2 DEF ClearRaises, ClearRow, IInv, TypeOK
<1> HIDE DEF row
<1> QED
  BY <1>1, <1>3, <1>4, <1>5, <1>6, SettledKeeps

-----------------------------------------------------------------------------
LEMMA StepInvariant == IInv /\ [Next]_vars => IInv'
<1> SUFFICES ASSUME IInv, [Next]_vars PROVE IInv'
  OBVIOUS
<1>1. ASSUME NEW m \in Machine, PressOops(m) \/ LockOut(m) \/ Report(m) \/ StaffClears(m)
      PROVE  IInv'
  BY <1>1, PressOopsKeeps, LockOutKeeps, ReportKeeps
<1>2. ASSUME NEW r \in DOMAIN repair, Reopen(r) \/ \E c \in Closer : Close(c, r)
      PROVE  IInv'
  BY <1>2, ReopenKeeps, CloseKeeps
<1>3. ASSUME NEW h \in Handler, HandlerStep(h) \/ HandlerFails(h)
      PROVE  IInv'
  BY <1>3, ReceiveKeeps, GuardKeeps, CreateRepairKeeps, AnswerKeeps, HandlerFailsKeeps
  DEF HandlerStep
<1>4. ASSUME NEW c \in Closer, CloserStep(c) \/ CloserDies(c)
      PROVE  IInv'
  BY <1>4, CloserStepKeeps
<1>5. CASE WorkerStep \/ ClearRaises \/ WorkerRestarts
  BY <1>5, ClearingKeeps, MarkDeliveredKeeps, ClearRaisesKeeps DEF WorkerStep
<1>6. CASE UNCHANGED vars
  <2>1. UNCHANGED <<oops, locked_out, event, activity, repair, handler, closer, clear,
                    worker, repaired, due, lost>>
    BY <1>6 DEF vars, mac, history
  <2>2. EventOK' /\ HandlerOK' /\ RepairedOK' /\ AnsweredMeansRepaired'
    BY <2>1, RestKeeps
  <2> QED
    BY <2>1, <2>2 DEF IInv, TypeOK, CloserOK, WorkerOK
<1> QED
  BY <1>1, <1>2, <1>3, <1>4, <1>5, <1>6 DEF Next

\* What each state of a behaviour of MachineLoop satisfies.
THEOREM Invariant == Spec => []IInv
  BY InitInvariant, StepInvariant, PTL DEF Spec

\* The tables, the handlers' and the worker's rows are what the code keeps in them; a
\* mac_clear row is given up exactly when its retries are used up.
THEOREM TypeCorrect == Spec => []TypeOK
<1>1. IInv => TypeOK
  BY DEF IInv
<1> QED
  BY <1>1, Invariant, PTL

\* MAC is answered 204 only for an oops whose machine had an open repair since.
THEOREM OnlyRepairedIsAnswered == Spec => []AnsweredMeansRepaired
<1>1. IInv => AnsweredMeansRepaired
  BY DEF IInv
<1> QED
  BY <1>1, Invariant, PTL

-----------------------------------------------------------------------------
(* Unlocking: what was decided at the closing, and what becomes of it.     *)

\* The rows of mac_clear and the repairs behind closings and rows.
LEMMA Tables ==
  ASSUME IInv
  PROVE  /\ \A r \in DOMAIN repair :
              repair[r].machine \in Machine /\ repair[r].open \in BOOLEAN
         /\ \A i \in DOMAIN clear : clear[i] \in ClearRow
         /\ \A c \in Closer : closer[c].step # "idle" => closer[c].of \in DOMAIN repair
         /\ worker.step # "idle" => /\ worker.of \in DOMAIN clear
                                   /\ clear[worker.of].status = "pending"
         /\ DOMAIN clear = 1 .. Len(clear) /\ Len(clear) \in Nat
         /\ due \subseteq Machine
<1>1. \A r \in DOMAIN repair : repair[r] \in [machine : Machine, open : BOOLEAN]
  BY ElementOf DEF IInv, TypeOK
<1>2. clear \in Seq(ClearRow)
  BY DEF IInv, TypeOK, ClearRow
<1>3. \A i \in DOMAIN clear : clear[i] \in ClearRow
  BY <1>2, ElementOf
<1>4. DOMAIN clear = 1 .. Len(clear) /\ Len(clear) \in Nat
  BY <1>2
<1>5. /\ \A c \in Closer : closer[c].step # "idle" => closer[c].of \in DOMAIN repair
      /\ worker.step # "idle" => worker.of \in DOMAIN clear /\ clear[worker.of].status = "pending"
      /\ due \subseteq Machine
  BY DEF IInv, TypeOK, CloserOK, WorkerOK
<1> QED
  BY <1>1, <1>3, <1>4, <1>5

\* What a closing and its row have found still holds, unless a repair was opened since.
\* Before its check a closing knows of its own repair only.
DecidedOK ==
  /\ \A c \in Closer : <<"closing", c>> \notin overtaken =>
       /\ closer[c].step = "check" => ~repair[closer[c].of].open
       /\ closer[c].step = "queue" => OpenRepairs(repair[closer[c].of].machine) = {}
  /\ \A i \in DOMAIN clear :
       clear[i].status = "pending" /\ <<"row", i>> \notin overtaken
         => OpenRepairs(clear[i].machine) = {}

LEMMA NotUnlocking ==
  ASSUME NEW m
  PROVE  /\ \A c \in Closer : <<"closing", c>> \in Unlocking(m) <=>
              closer[c].step # "idle" /\ repair[closer[c].of].machine = m
         /\ \A i \in DOMAIN clear : <<"row", i>> \in Unlocking(m) <=>
              clear[i].status = "pending" /\ clear[i].machine = m
         /\ \A c : <<"closing", c>> \in Unlocking(m) => c \in Closer
         /\ \A i : <<"row", i>> \in Unlocking(m) => i \in DOMAIN clear
         /\ \A u \in Unlocking(m) : \/ \E c \in Closer : u = <<"closing", c>>
                                   \/ \E i \in DOMAIN clear : u = <<"row", i>>
<1>1. /\ \A c \in Closer : <<"closing", c>> \in Unlocking(m) <=>
           closer[c].step # "idle" /\ repair[closer[c].of].machine = m
      /\ \A i \in DOMAIN clear : <<"row", i>> \in Unlocking(m) <=>
           clear[i].status = "pending" /\ clear[i].machine = m
  BY DEF Unlocking
<1>2. /\ \A c : <<"closing", c>> \in Unlocking(m) => c \in Closer
      /\ \A i : <<"row", i>> \in Unlocking(m) => i \in DOMAIN clear
  BY DEF Unlocking
<1>3. \A u \in Unlocking(m) : \/ \E c \in Closer : u = <<"closing", c>>
                             \/ \E i \in DOMAIN clear : u = <<"row", i>>
  BY DEF Unlocking
<1> QED
  BY <1>1, <1>2, <1>3

\* A repair is opened for m.
LEMMA OpenedDecided ==
  ASSUME IInv, DecidedOK, NEW m, UnderRepair(m), OthersAsBefore(m),
         UNCHANGED <<closer, clear>>,
         \A r \in DOMAIN repair :
           r \in DOMAIN repair' /\ repair'[r].machine = repair[r].machine
  PROVE  DecidedOK'
<1>1. \A n : n # m /\ OpenRepairs(n) = {} => OpenRepairs(n)' = {}
  BY DEF OthersAsBefore, OpenRepairs
<1>2. overtaken' = overtaken \cup Unlocking(m)
  BY DEF UnderRepair
<1>3. ASSUME NEW c \in Closer, <<"closing", c>> \notin overtaken'
      PROVE  /\ closer'[c].step = "check" => ~repair'[closer'[c].of].open
             /\ closer'[c].step = "queue" => OpenRepairs(repair[closer[c].of].machine)' = {}
  <2> SUFFICES ASSUME closer[c].step # "idle"
               PROVE  /\ closer[c].step = "check" => ~repair'[closer[c].of].open
                      /\ closer[c].step = "queue" => OpenRepairs(repair[closer[c].of].machine)' = {}
    OBVIOUS
  <2>1. closer[c].of \in DOMAIN repair
    BY Tables
  <2>2. repair'[closer[c].of].machine = repair[closer[c].of].machine
    BY <2>1
  <2>3. repair[closer[c].of].machine # m
    BY <1>2, <1>3, NotUnlocking
  <2>4. closer[c].step = "check" => ~repair'[closer[c].of].open
    BY <1>2, <1>3, <2>1, <2>2, <2>3 DEF DecidedOK, OthersAsBefore
  <2>5. closer[c].step = "queue" => OpenRepairs(repair[closer[c].of].machine) = {}
    BY <1>2, <1>3 DEF DecidedOK
  <2> QED
    BY <1>1, <2>2, <2>3, <2>4, <2>5
<1>4. ASSUME NEW i \in DOMAIN clear, clear[i].status = "pending",
             <<"row", i>> \notin overtaken'
      PROVE  OpenRepairs(clear[i].machine)' = {}
  <2>1. clear[i].machine # m
    BY <1>2, <1>4, NotUnlocking
  <2>2. OpenRepairs(clear[i].machine) = {}
    BY <1>2, <1>4 DEF DecidedOK
  <2> QED
    BY <1>1, <2>1, <2>2
<1> QED
  BY <1>3, <1>4 DEF DecidedOK

\* Nothing that a decision was about moves.
LEMMA NothingDecided ==
  ASSUME DecidedOK, UNCHANGED <<repair, closer, clear, overtaken>>
  PROVE  DecidedOK'
  BY DEF DecidedOK, OpenRepairs

LEMMA OpeningDecided ==
  ASSUME IInv, DecidedOK,
         \/ \E m \in Machine : Report(m)
         \/ \E r \in DOMAIN repair : Reopen(r)
         \/ \E h \in Handler : CreateRepair(h)
  PROVE  DecidedOK'
<1>1. ASSUME NEW m \in Machine, Opened(m), UNCHANGED <<closer, clear>>
      PROVE  DecidedOK'
  <2>1. UnderRepair(m) /\ repair' = Append(repair, [machine |-> m, open |-> TRUE])
    BY <1>1 DEF Opened
  <2>2. /\ DOMAIN repair \subseteq DOMAIN repair' /\ OthersAsBefore(m)
        /\ \A r \in DOMAIN repair : repair'[r] = repair[r]
    BY <2>1, AppendedRepair
  <2> QED
    BY <1>1, <2>1, <2>2, OpenedDecided
<1>2. ASSUME NEW r \in DOMAIN repair, Reopen(r)
      PROVE  DecidedOK'
  <2>1. repair' = [repair EXCEPT ![r].open = TRUE]
    BY <1>2 DEF Reopen
  <2>2. /\ DOMAIN repair' = DOMAIN repair
        /\ \A s \in DOMAIN repair \ {r} : repair'[s] = repair[s]
        /\ repair'[r].machine = repair[r].machine
    BY <2>1, SwitchedRepair
  <2>3. OthersAsBefore(repair[r].machine)
    BY <2>2 DEF OthersAsBefore
  <2>4. UnderRepair(repair[r].machine) /\ UNCHANGED <<closer, clear>>
    BY <1>2 DEF Reopen
  <2> QED
    BY <2>2, <2>3, <2>4, OpenedDecided
<1>3. ASSUME NEW h \in Handler, CreateRepair(h)
      PROVE  DecidedOK'
  <2>1. event[handler[h].of].machine \in Machine
    BY <1>3 DEF CreateRepair, IInv, HandlerOK, TypeOK
  <2>2. Opened(event[handler[h].of].machine) /\ UNCHANGED <<closer, clear>>
    BY <1>3 DEF CreateRepair
  <2> QED
    BY <1>1, <2>1, <2>2
<1> QED
  BY <1>1, <1>2, <1>3 DEF Report

LEMMA CloseDecided ==
  ASSUME IInv, DecidedOK, NEW c \in Closer, NEW r \in DOMAIN repair, Close(c, r)
  PROVE  DecidedOK'
<1>1. /\ repair' = [repair EXCEPT ![r].open = FALSE] /\ clear' = clear
      /\ overtaken' = overtaken \ {<<"closing", c>>}
      /\ closer[c].step = "idle"
      /\ closer' = closer \/ closer' = [closer EXCEPT ![c] = [step |-> "check", of |-> r]]
  BY DEF Close, MoveCloser
<1>2. /\ DOMAIN repair' = DOMAIN repair
      /\ \A s \in DOMAIN repair \ {r} : repair'[s] = repair[s]
      /\ repair'[r].machine = repair[r].machine /\ ~repair'[r].open
  BY <1>1, SwitchedRepair
<1>3. \A n : OpenRepairs(n)' \subseteq OpenRepairs(n)
  BY <1>2 DEF OpenRepairs
<1>4. ASSUME NEW d \in Closer, <<"closing", d>> \notin overtaken'
      PROVE  /\ closer'[d].step = "check" => ~repair'[closer'[d].of].open
             /\ closer'[d].step = "queue" => OpenRepairs(repair[closer[d].of].machine)' = {}
  <2>1. CASE d = c
    <3>1. closer \in [Closer -> [step : {"idle", "check", "queue"}, of : Nat \cup {NONE}]]
      BY DEF IInv, CloserOK
    <3> QED
      BY <1>1, <1>2, <2>1, <3>1
  <2>2. CASE d # c
    <3>1. closer'[d] = closer[d] /\ <<"closing", d>> \notin overtaken
      BY <1>1, <1>4, <2>2 DEF IInv, CloserOK
    <3>2. closer[d].step # "idle" => closer[d].of \in DOMAIN repair
      BY Tables
    <3> QED
      BY <1>2, <1>3, <3>1, <3>2 DEF DecidedOK
  <2> QED
    BY <2>1, <2>2
<1>5. ASSUME NEW i \in DOMAIN clear, clear[i].status = "pending",
             <<"row", i>> \notin overtaken'
      PROVE  OpenRepairs(clear[i].machine)' = {}
  <2>1. <<"row", i>> \notin overtaken
    BY <1>1, <1>5
  <2> QED
    BY <1>1, <1>3, <1>5, <2>1 DEF DecidedOK
<1> QED
  BY <1>1, <1>4, <1>5 DEF DecidedOK

LEMMA CheckDecided ==
  ASSUME IInv, DecidedOK, NEW c \in Closer, Check(c) \/ QueueClear(c) \/ CloserDies(c)
  PROVE  DecidedOK'
<1> DEFINE m == repair[closer[c].of].machine
<1>1. repair' = repair /\ closer[c].step # "idle"
  BY DEF Check, QueueClear, CloserDies
<1>2. \A n : OpenRepairs(n)' = OpenRepairs(n)
  BY <1>1 DEF OpenRepairs
<1>3. closer \in [Closer -> [step : {"idle", "check", "queue"}, of : Nat \cup {NONE}]]
  BY DEF IInv, CloserOK
<1>4. /\ \A d \in Closer \ {c} : closer'[d] = closer[d]
      /\ closer'[c].step \in {"idle", "queue"}
      /\ closer'[c].step = "queue" => Check(c) /\ closer'[c].of = closer[c].of
  BY <1>3 DEF Check, QueueClear, CloserDies, MoveCloser
<1>5. /\ overtaken \subseteq overtaken'
      /\ \A d : <<"closing", d>> \in overtaken' => <<"closing", d>> \in overtaken
  BY DEF Check, QueueClear, CloserDies, history
<1>6. ASSUME Check(c), closer'[c].step = "queue", <<"closing", c>> \notin overtaken
      PROVE  OpenRepairs(m) = {}
  <2>1. closer[c].step = "check" /\ OpenRepairs(m) \ {closer[c].of} = {}
    BY <1>3, <1>6 DEF Check, MoveCloser
  <2>2. closer[c].of \notin OpenRepairs(m)
    BY <1>6, <2>1 DEF DecidedOK, OpenRepairs
  <2> QED
    BY <2>1, <2>2
<1>7. ASSUME NEW d \in Closer, <<"closing", d>> \notin overtaken'
      PROVE  /\ closer'[d].step = "check" => ~repair'[closer'[d].of].open
             /\ closer'[d].step = "queue" => OpenRepairs(repair[closer[d].of].machine)' = {}
  BY <1>1, <1>2, <1>4, <1>5, <1>6, <1>7 DEF DecidedOK
<1>8. ASSUME NEW i \in DOMAIN clear', clear'[i].status = "pending",
             <<"row", i>> \notin overtaken'
      PROVE  OpenRepairs(clear[i].machine)' = {}
  <2>1. CASE clear' = clear
    BY <1>2, <1>5, <1>8, <2>1 DEF DecidedOK
  <2>2. CASE QueueClear(c)
    <3> DEFINE row == [status |-> "pending", retry_count |-> 0, machine |-> m]
    <3>1. /\ clear' = Append(clear, row) /\ closer[c].step = "queue"
          /\ overtaken' = overtaken \cup
               {<<"row", j>> : j \in {k \in {Len(clear')} : <<"closing", c>> \in overtaken}}
      BY <2>2 DEF QueueClear
    <3>2. clear \in Seq(ClearRow) /\ row \in ClearRow /\ row.machine = m
      <4>1. m \in Machine
        BY <1>1, Tables
      <4> QED
        BY <4>1, LoopAssumption DEF IInv, TypeOK, ClearRow
    <3> HIDE DEF row
    <3>3. /\ DOMAIN clear' = DOMAIN clear \cup {Len(clear) + 1}
          /\ clear'[Len(clear) + 1] = row
          /\ \A j \in DOMAIN clear : clear'[j] = clear[j]
          /\ Len(clear') = Len(clear) + 1
      <4>1. /\ DOMAIN clear' = DOMAIN clear \cup {Len(clear) + 1}
            /\ clear'[Len(clear) + 1] = row
            /\ \A j \in DOMAIN clear : clear'[j] = clear[j]
        BY <3>1, <3>2, AppendedRow
      <4>2. Len(clear') = Len(clear) + 1
        BY <3>1, <3>2
      <4> QED
        BY <4>1, <4>2
    <3>4. CASE i = Len(clear) + 1
      <4>1. <<"closing", c>> \notin overtaken
        BY <1>8, <3>1, <3>3, <3>4
      <4>2. OpenRepairs(m) = {}
        BY <3>1, <4>1 DEF DecidedOK
      <4> QED
        BY <1>2, <3>2, <3>3, <3>4, <4>2
    <3>5. CASE i \in DOMAIN clear
      BY <1>2, <1>5, <1>8, <3>3, <3>5 DEF DecidedOK
    <3> QED
      BY <1>8, <3>3, <3>4, <3>5
  <2> QED
    BY <2>1, <2>2 DEF Check, CloserDies
<1> QED
  BY <1>7, <1>8 DEF DecidedOK

\* A row in hand stays pending, or is settled; it never names another machine.
LEMMA RowsAfterDelivery ==
  ASSUME IInv, MarkDelivered \/ ClearRaises
  PROVE  /\ worker.of \in DOMAIN clear /\ DOMAIN clear' = DOMAIN clear
         /\ \A i \in DOMAIN clear : i # worker.of => clear'[i] = clear[i]
         /\ clear'[worker.of].machine = clear[worker.of].machine
         /\ MarkDelivered => clear'[worker.of].status = "delivered"
         /\ ClearRaises => \/ clear'[worker.of].status = "pending"
                           \/ clear[worker.of].machine \in lost'
<1>1. worker.step # "idle"
  BY DEF MarkDelivered, ClearRaises
<1>2. worker.of \in DOMAIN clear /\ clear[worker.of] \in ClearRow
      /\ clear[worker.of].status = "pending"
  BY <1>1, RowInHand
<1>3. CASE MarkDelivered
  <2>1. clear' = [clear EXCEPT ![worker.of] = [clear[worker.of] EXCEPT !.status = "delivered"]]
    BY <1>3 DEF MarkDelivered
  <2>2. ~ClearRaises
    BY <1>3 DEF MarkDelivered, ClearRaises
  <2> QED
    BY <1>2, <2>1, <2>2 DEF ClearRow
<1>4. CASE ClearRaises
  <2>1. /\ clear' = [clear EXCEPT ![worker.of] = Failed(clear[worker.of])]
        /\ lost' = lost \cup {n \in {clear[worker.of].machine} :
                               Failed(clear[worker.of]).status = "failed"}
    BY <1>4 DEF ClearRaises
  <2>2. /\ Failed(clear[worker.of]).machine = clear[worker.of].machine
        /\ Failed(clear[worker.of]).status \in {"pending", "failed"}
    BY <1>2 DEF Failed, ClearRow
  <2>3. ~MarkDelivered
    BY <1>4 DEF MarkDelivered, ClearRaises
  <2> QED
    BY <1>2, <2>1, <2>2, <2>3
<1> QED
  BY <1>3, <1>4

LEMMA DeliveredDecided ==
  ASSUME IInv, DecidedOK, MarkDelivered \/ ClearRaises
  PROVE  DecidedOK'
<1>1. UNCHANGED <<repair, closer, overtaken>>
  BY DEF MarkDelivered, ClearRaises, history
<1>2. \A i \in DOMAIN clear' : clear'[i].status = "pending" =>
         i \in DOMAIN clear /\ clear[i].status = "pending" /\ clear'[i].machine = clear[i].machine
  <2>1. clear[worker.of].status = "pending"
    BY RowInHand DEF MarkDelivered, ClearRaises
  <2> QED
    BY <2>1, RowsAfterDelivery
<1>3. \A n : OpenRepairs(n)' = OpenRepairs(n)
  BY <1>1 DEF OpenRepairs
<1> QED
  BY <1>1, <1>2, <1>3 DEF DecidedOK

LEMMA StepDecided == IInv /\ DecidedOK /\ [Next]_vars => DecidedOK'
<1> SUFFICES ASSUME IInv, DecidedOK, [Next]_vars PROVE DecidedOK'
  OBVIOUS
<1>1. ASSUME NEW m \in Machine, PressOops(m) \/ LockOut(m) \/ Report(m) \/ StaffClears(m)
      PROVE  DecidedOK'
  <2>1. CASE Report(m)
    BY <2>1, OpeningDecided
  <2>2. CASE ~Report(m)
    BY <1>1, <2>2, NothingDecided DEF PressOops, LockOut, StaffClears, history
  <2> QED
    BY <2>1, <2>2
<1>2. ASSUME NEW r \in DOMAIN repair, Reopen(r) \/ \E c \in Closer : Close(c, r)
      PROVE  DecidedOK'
  BY <1>2, OpeningDecided, CloseDecided
<1>3. ASSUME NEW h \in Handler, HandlerStep(h) \/ HandlerFails(h)
      PROVE  DecidedOK'
  <2>1. CASE CreateRepair(h)
    BY <2>1, OpeningDecided
  <2>2. CASE ~CreateRepair(h)
    BY <1>3, <2>2, NothingDecided DEF HandlerStep, HandlerFails, Receive, Guard, Answer, history
  <2> QED
    BY <2>1, <2>2
<1>4. ASSUME NEW c \in Closer, CloserStep(c) \/ CloserDies(c)
      PROVE  DecidedOK'
  BY <1>4, CheckDecided DEF CloserStep
<1>5. CASE WorkerStep \/ ClearRaises \/ WorkerRestarts
  <2>1. CASE MarkDelivered \/ ClearRaises
    BY <2>1, DeliveredDecided
  <2>2. CASE ~(MarkDelivered \/ ClearRaises)
    <3>1. UNCHANGED <<repair, closer, clear, overtaken>>
      BY <1>5, <2>2 DEF WorkerStep, Take, ClearOops, ClearLockout, WorkerRestarts, history
    <3> QED
      BY <3>1, NothingDecided
  <2> QED
    BY <2>1, <2>2
<1>6. CASE UNCHANGED vars
  BY <1>6, NothingDecided DEF vars, history
<1> QED
  BY <1>1, <1>2, <1>3, <1>4, <1>5, <1>6 DEF Next

\* A machine is unlocked with an open repair only if one was opened since the closing
\* that unlocks it, whatever was reported, reopened and closed at the same time
\* (_maybe_queue_mac_clear, _deliver_mac_clear).
THEOREM UnlocksAsDecided == Spec => UnlockedOnlyAsDecided
<1>1. Init => DecidedOK
  BY DEF Init, Idle, DecidedOK
<1>2. ASSUME IInv, DecidedOK, ClearOops \/ ClearLockout
      PROVE  \/ OpenRepairs(clear[worker.of].machine) = {}
             \/ <<"row", worker.of>> \in overtaken
  <2>1. worker.of \in DOMAIN clear /\ clear[worker.of].status = "pending"
    BY <1>2, RowInHand DEF ClearOops, ClearLockout
  <2> QED
    BY <1>2, <2>1 DEF DecidedOK
<1>3. IInv /\ DecidedOK /\ [Next]_vars =>
        [ClearOops \/ ClearLockout =>
           \/ OpenRepairs(clear[worker.of].machine) = {}
           \/ <<"row", worker.of>> \in overtaken]_vars
  BY <1>2
<1> QED
  BY <1>1, <1>3, StepDecided, Invariant, PTL DEF Spec, UnlockedOnlyAsDecided

-----------------------------------------------------------------------------
(* What is under way for a machine that is due.                            *)

\* What will still call MAC for m after what the worker has in hand.
Fresh(m) ==
  {u \in Unlocking(m) :
     worker.step \in {"clear_lockout", "mark"} => u # <<"row", worker.of>>}

Owed(m) == {v \in Event \ repaired : event[v].state = "owed" /\ event[v].machine = m}

UnderWay(m) ==
  \/ m \in lost \/ Owed(m) # {} \/ Fresh(m) # {}
  \/ m \notin oops \cup locked_out
  \/ m \notin oops /\ worker.step = "clear_lockout" /\ clear[worker.of].machine = m

PressedOK == \A v \in Event : event[v].state = "unused" => v \notin repaired

DueOK ==
  /\ PressedOK
  /\ \A m \in due : OpenRepairs(m) = {} /\ UnderWay(m)

\* Only flags, events, handlers and history move, and no machine gets due.
LEMMA FlagsDue ==
  ASSUME DueOK, UNCHANGED <<repair, closer, clear, worker, lost>>, PressedOK',
         due' \subseteq due,
         \A n \in due' : /\ Owed(n) \subseteq Owed(n)'
                         /\ \/ Owed(n)' # {}
                            \/ n \in oops' => n \in oops
                         /\ n \in locked_out' => n \in locked_out
  PROVE  DueOK'
<1>1. \A n : OpenRepairs(n)' = OpenRepairs(n) /\ Fresh(n)' = Fresh(n)
  BY DEF OpenRepairs, Fresh, Unlocking
<1>2. ASSUME NEW n \in due'
      PROVE  UnderWay(n)'
  <2>1. UnderWay(n)
    BY <1>2 DEF DueOK
  <2> QED
    BY <1>1, <1>2, <2>1 DEF UnderWay
<1> QED
  BY <1>1, <1>2 DEF DueOK

LEMMA PressOopsDue ==
  ASSUME IInv, DueOK, NEW m \in Machine, PressOops(m)
  PROVE  DueOK'
<1>1. PICK v \in Event :
        /\ event[v].state = "unused"
        /\ event' = [event EXCEPT ![v] = [state |-> "owed", machine |-> m]]
        /\ oops' = oops \cup {m}
        /\ repaired' = repaired \cup {w \in {v} : OpenRepairs(m) # {}}
        /\ UNCHANGED <<locked_out, repair, closer, clear, worker, due, lost>>
  BY DEF PressOops
<1>2. v \notin repaired
  BY <1>1 DEF DueOK, PressedOK
<1>3. /\ event'[v].state = "owed" /\ event'[v].machine = m
      /\ \A w \in Event \ {v} : event'[w] = event[w]
  BY <1>1 DEF IInv, EventOK
<1>4. PressedOK'
  BY <1>1, <1>3 DEF DueOK, PressedOK
<1>5. ASSUME NEW n \in due'
      PROVE  Owed(n) \subseteq Owed(n)' /\ (Owed(n)' # {} \/ (n \in oops' => n \in oops))
  <2>1. Owed(n) \subseteq Owed(n)'
    BY <1>1, <1>3 DEF Owed
  <2>2. CASE n = m
    <3>1. OpenRepairs(m) = {}
      BY <1>1, <1>5, <2>2 DEF DueOK
    <3>2. v \in Owed(n)'
      BY <1>1, <1>2, <1>3, <2>2, <3>1 DEF Owed
    <3> QED
      BY <2>1, <3>2
  <2> QED
    BY <1>1, <2>1, <2>2
<1> QED
  BY <1>1, <1>4, <1>5, FlagsDue

LEMMA SwitchesDue ==
  ASSUME DueOK, NEW m \in Machine, LockOut(m) \/ StaffClears(m)
  PROVE  DueOK'
<1>1. /\ UNCHANGED <<repair, closer, clear, worker, lost, event, repaired>>
      /\ due' \subseteq due /\ oops' \subseteq oops
      /\ \A n \in due' : n \in locked_out' => n \in locked_out
  BY DEF LockOut, StaffClears, history
<1>2. PressedOK' /\ \A n : Owed(n)' = Owed(n)
  BY <1>1 DEF DueOK, PressedOK, Owed
<1> QED
  BY <1>1, <1>2, FlagsDue

LEMMA HandlerDue ==
  ASSUME IInv, DueOK, NEW h \in Handler,
         Receive(h) \/ Guard(h) \/ Answer(h) \/ HandlerFails(h)
  PROVE  DueOK'
<1>1. UNCHANGED <<repair, closer, clear, worker, lost, due, repaired, oops, locked_out>>
  BY DEF Receive, Guard, Answer, HandlerFails, history, mac
<1>2. PressedOK' /\ \A n : Owed(n) \subseteq Owed(n)'
  <2>1. CASE event' = event
    BY <1>1, <2>1 DEF DueOK, PressedOK, Owed
  <2>2. CASE Answer(h)
    <3>1. /\ handler[h].of \in repaired
          /\ event' = [event EXCEPT ![handler[h].of].state = "answered"]
      BY <2>2 DEF Answer, IInv, RepairedOK
    <3>2. /\ \A w \in Event \ {handler[h].of} : event'[w] = event[w]
          /\ handler[h].of \in Event => event'[handler[h].of].state # "unused"
      BY <3>1 DEF IInv, EventOK
    <3> QED
      BY <1>1, <3>1, <3>2 DEF DueOK, PressedOK, Owed
  <2> QED
    BY <2>1, <2>2 DEF Receive, Guard, HandlerFails
<1> QED
  BY <1>1, <1>2, FlagsDue

\* A machine that gets a repair is not due; the others stay as they were.
LEMMA OpenedDue ==
  ASSUME IInv, DueOK, NEW m, UnderRepair(m), OthersAsBefore(m),
         UNCHANGED <<event, oops, locked_out, closer, clear, worker, lost>>,
         \A r \in DOMAIN repair :
           r \in DOMAIN repair' /\ repair'[r].machine = repair[r].machine
  PROVE  DueOK'
<1>1. \A n : n # m /\ OpenRepairs(n) = {} => OpenRepairs(n)' = {}
  BY DEF OthersAsBefore, OpenRepairs
<1>2. \A n : Fresh(n)' = Fresh(n)
  <2>1. \A c \in Closer : closer[c].step # "idle" =>
          repair'[closer[c].of].machine = repair[closer[c].of].machine
    BY Tables
  <2> QED
    BY <2>1 DEF Fresh, Unlocking
<1>3. \A n : n # m => Owed(n) \subseteq Owed(n)'
  BY DEF Owed, UnderRepair
<1>4. PressedOK' /\ due' = due \ {m}
  BY DEF DueOK, PressedOK, UnderRepair
<1>5. ASSUME NEW n \in due'
      PROVE  UnderWay(n)'
  BY <1>2, <1>3, <1>4, <1>5 DEF DueOK, UnderWay
<1> QED
  BY <1>1, <1>4, <1>5 DEF DueOK

LEMMA OpeningDue ==
  ASSUME IInv, DueOK,
         \/ \E m \in Machine : Report(m)
         \/ \E r \in DOMAIN repair : Reopen(r)
         \/ \E h \in Handler : CreateRepair(h)
  PROVE  DueOK'
<1>1. ASSUME NEW m \in Machine, Opened(m),
             UNCHANGED <<event, oops, locked_out, closer, clear, worker, lost>>
      PROVE  DueOK'
  <2>1. UnderRepair(m) /\ repair' = Append(repair, [machine |-> m, open |-> TRUE])
    BY <1>1 DEF Opened
  <2>2. /\ DOMAIN repair \subseteq DOMAIN repair' /\ OthersAsBefore(m)
        /\ \A r \in DOMAIN repair : repair'[r] = repair[r]
    BY <2>1, AppendedRepair
  <2> QED
    BY <1>1, <2>1, <2>2, OpenedDue
<1>2. ASSUME NEW r \in DOMAIN repair, Reopen(r)
      PROVE  DueOK'
  <2>1. repair' = [repair EXCEPT ![r].open = TRUE]
    BY <1>2 DEF Reopen
  <2>2. /\ DOMAIN repair' = DOMAIN repair
        /\ \A s \in DOMAIN repair \ {r} : repair'[s] = repair[s]
        /\ repair'[r].machine = repair[r].machine
    BY <2>1, SwitchedRepair
  <2>3. OthersAsBefore(repair[r].machine)
    BY <2>2 DEF OthersAsBefore
  <2>4. /\ UnderRepair(repair[r].machine)
        /\ UNCHANGED <<event, oops, locked_out, closer, clear, worker, lost>>
    BY <1>2 DEF Reopen, mac
  <2> QED
    BY <2>2, <2>3, <2>4, OpenedDue
<1>3. ASSUME NEW h \in Handler, CreateRepair(h)
      PROVE  DueOK'
  <2>1. event[handler[h].of].machine \in Machine
    BY <1>3 DEF CreateRepair, IInv, HandlerOK, TypeOK
  <2>2. /\ Opened(event[handler[h].of].machine)
        /\ UNCHANGED <<event, oops, locked_out, closer, clear, worker, lost>>
    BY <1>3 DEF CreateRepair, mac
  <2> QED
    BY <1>1, <2>1, <2>2
<1> QED
  BY <1>1, <1>2, <1>3 DEF Report, mac

\* Closings, rows and the worker move; the machines, MAC's events and what is due do not.
LEMMA OwedStays ==
  ASSUME DueOK, UNCHANGED <<event, repaired>>
  PROVE  PressedOK' /\ \A n : Owed(n)' = Owed(n)
  BY DEF DueOK, PressedOK, Owed

LEMMA CloseDue ==
  ASSUME IInv, DueOK, NEW c \in Closer, NEW r \in DOMAIN repair, Close(c, r)
  PROVE  DueOK'
<1> DEFINE m == repair[r].machine
<1>1. /\ repair' = [repair EXCEPT ![r].open = FALSE] /\ repair[r].open
      /\ UNCHANGED <<oops, locked_out, event, clear, worker, repaired, lost>>
      /\ closer[c].step = "idle"
      /\ \/ /\ closer' = [closer EXCEPT ![c] = [step |-> "check", of |-> r]]
            /\ due' = due \cup {n \in {m} : OpenRepairs(m) = {r}}
         \/ closer' = closer /\ due' = due
  BY DEF Close, MoveCloser, mac
<1>2. /\ DOMAIN repair' = DOMAIN repair
      /\ \A s \in DOMAIN repair \ {r} : repair'[s] = repair[s]
      /\ repair'[r].machine = m /\ ~repair'[r].open
  BY <1>1, SwitchedRepair
<1>3. \A n : OpenRepairs(n)' = OpenRepairs(n) \ {r}
  BY <1>2 DEF OpenRepairs
<1>4. closer \in [Closer -> [step : {"idle", "check", "queue"}, of : Nat \cup {NONE}]]
  BY DEF IInv, CloserOK
<1>5. \A d \in Closer : closer[d].step # "idle" =>
        closer'[d] = closer[d] /\ repair'[closer[d].of].machine = repair[closer[d].of].machine
  BY <1>1, <1>2, <1>4, Tables
<1>6. \A n : Fresh(n) \subseteq Fresh(n)'
  <2>1. \A n : Unlocking(n) \subseteq Unlocking(n)'
    BY <1>1, <1>5 DEF Unlocking
  <2> QED
    BY <1>1, <2>1 DEF Fresh
<1>7. PressedOK' /\ \A n : Owed(n)' = Owed(n)
  BY <1>1, OwedStays
<1>8. ASSUME NEW n \in due'
      PROVE  OpenRepairs(n)' = {} /\ UnderWay(n)'
  <2>1. CASE n \in due
    BY <1>1, <1>3, <1>6, <1>7, <2>1 DEF DueOK, UnderWay
  <2>2. CASE n \notin due
    <3>1. /\ closer' = [closer EXCEPT ![c] = [step |-> "check", of |-> r]]
          /\ n = m /\ OpenRepairs(n) = {r}
      BY <1>1, <1>8, <2>2
    <3>2. closer'[c].step # "idle" /\ repair'[closer'[c].of].machine = n
      BY <1>2, <1>4, <3>1
    <3>3. <<"closing", c>> \in Unlocking(n)'
      BY <3>2 DEF Unlocking
    <3>4. <<"closing", c>> \in Fresh(n)'
      BY <3>3 DEF Fresh
    <3> QED
      BY <1>3, <3>1, <3>4 DEF UnderWay
  <2> QED
    BY <2>1, <2>2
<1> QED
  BY <1>7, <1>8 DEF DueOK

\* A request goes on, after its check, or dies: its machine's unlocking is queued, not
\* called for, or lost, and the others' stays.
LEMMA CloserDue ==
  ASSUME IInv, DueOK, NEW c \in Closer, Check(c) \/ QueueClear(c) \/ CloserDies(c)
  PROVE  DueOK'
<1>0. repair[closer[c].of].machine \in Machine
  BY Tables DEF Check, QueueClear, CloserDies
<1> SUFFICES ASSUME NEW m \in Machine, m = repair[closer[c].of].machine
             PROVE  DueOK'
  BY <1>0
<1>1. /\ closer[c].step # "idle"
      /\ UNCHANGED <<oops, locked_out, event, repair, worker, repaired, due>>
      /\ lost \subseteq lost'
  BY DEF Check, QueueClear, CloserDies, mac, history
<1>2. closer \in [Closer -> [step : {"idle", "check", "queue"}, of : Nat \cup {NONE}]]
  BY DEF IInv, CloserOK
<1>3. \A d \in Closer \ {c} : closer'[d] = closer[d]
  BY <1>2 DEF Check, QueueClear, CloserDies, MoveCloser
<1>4. PressedOK' /\ \A n : Owed(n)' = Owed(n) /\ OpenRepairs(n)' = OpenRepairs(n)
  BY <1>1, OwedStays DEF OpenRepairs
<1>5. CASE Check(c) \/ CloserDies(c)
  <2>1. clear' = clear
    BY <1>5 DEF Check, CloserDies
  <2>2. \A n : n # m => Fresh(n) \subseteq Fresh(n)'
    BY <1>1, <1>3, <2>1 DEF Fresh, Unlocking
  <2>3. ASSUME m \in due
        PROVE  m \in lost' \/ Fresh(m) \subseteq Fresh(m)'
    <3>1. CASE CloserDies(c)
      BY <3>1 DEF CloserDies
    <3>2. CASE Check(c)
      <4>1. OpenRepairs(m) = {}
        BY <2>3 DEF DueOK
      <4>2. closer' = [closer EXCEPT ![c] = [step |-> "queue", of |-> closer[c].of]]
        BY <3>2, <4>1 DEF Check, MoveCloser
      <4>3. closer'[c].step # "idle" /\ closer'[c].of = closer[c].of
        BY <1>2, <4>2
      <4> QED
        BY <1>1, <1>3, <2>1, <4>3 DEF Fresh, Unlocking
    <3> QED
      BY <1>5, <3>1, <3>2
  <2>4. ASSUME NEW n \in due
        PROVE  UnderWay(n)'
    <3>1. n \in lost' \/ Fresh(n) \subseteq Fresh(n)'
      BY <2>2, <2>3, <2>4
    <3>2. UnderWay(n)
      BY <2>4 DEF DueOK
    <3> QED
      BY <1>1, <1>4, <2>1, <3>1, <3>2 DEF UnderWay
  <2> QED
    BY <1>1, <1>4, <2>4 DEF DueOK
<1>6. CASE QueueClear(c)
  <2> DEFINE row == [status |-> "pending", retry_count |-> 0, machine |-> m]
  <2>0. PICK i : i = Len(clear) + 1
    OBVIOUS
  <2>1. clear \in Seq(ClearRow) /\ row \in ClearRow /\ clear' = Append(clear, row)
    BY <1>6, LoopAssumption DEF QueueClear, IInv, TypeOK, ClearRow
  <2>2. row.status = "pending" /\ row.machine = m
    OBVIOUS
  <2> HIDE DEF row
  <2>3. /\ DOMAIN clear' = DOMAIN clear \cup {i} /\ clear'[i] = row
        /\ \A j \in DOMAIN clear : clear'[j] = clear[j]
    BY <2>0, <2>1, AppendedRow
  <2>4. lost' = lost /\ (worker.step # "idle" => worker.of # i /\ worker.of \in DOMAIN clear)
    BY <1>6, <2>0, Tables DEF QueueClear
  <2>5. \A n : n # m => Fresh(n) \subseteq Fresh(n)'
    BY <1>1, <1>3, <2>3 DEF Fresh, Unlocking
  <2>6. <<"row", i>> \in Fresh(m)'
    <3>1. <<"row", i>> \in Unlocking(m)'
      BY <1>1, <2>2, <2>3 DEF Unlocking
    <3>2. worker'.step \in {"clear_lockout", "mark"} => worker'.of # i
      BY <1>1, <2>4
    <3> QED
      BY <3>1, <3>2 DEF Fresh
  <2>7. ASSUME NEW n \in due
        PROVE  UnderWay(n)'
    <3>1. Fresh(n)' # {} \/ Fresh(n) \subseteq Fresh(n)'
      BY <2>5, <2>6
    <3>2. UnderWay(n)
      BY <2>7 DEF DueOK
    <3> QED
      BY <1>1, <1>4, <2>3, <2>4, <3>1, <3>2 DEF UnderWay
  <2> QED
    BY <1>1, <1>4, <2>7 DEF DueOK
<1> QED
  BY <1>5, <1>6

\* The worker takes a row or is started again: no row is settled.
LEMMA WorkerMovesDue ==
  ASSUME IInv, DueOK, (\E i \in DOMAIN clear : Take(i)) \/ WorkerRestarts
  PROVE  DueOK'
<1>1. /\ UNCHANGED <<oops, locked_out, event, repair, closer, clear, repaired, due, lost>>
      /\ worker'.step \in {"idle", "clear_oops"}
      /\ worker.step = "idle" \/ worker'.step = "idle"
  BY DEF Take, WorkerRestarts, MoveWorker, mac, history
<1>2. PressedOK' /\ \A n : Owed(n)' = Owed(n) /\ OpenRepairs(n)' = OpenRepairs(n)
  BY <1>1, OwedStays DEF OpenRepairs
<1>3. \A n : Fresh(n)' = Unlocking(n) /\ Fresh(n) \subseteq Unlocking(n)
  BY <1>1 DEF Fresh, Unlocking
<1>4. ASSUME NEW n \in due
      PROVE  UnderWay(n)'
  <2>1. CASE worker.step = "clear_lockout" /\ clear[worker.of].machine = n
    <3>1. <<"row", worker.of>> \in Unlocking(n)
      BY <2>1, RowInHand DEF Unlocking
    <3> QED
      BY <1>3, <3>1 DEF UnderWay
  <2>2. CASE ~(worker.step = "clear_lockout" /\ clear[worker.of].machine = n)
    BY <1>1, <1>2, <1>3, <1>4, <2>2 DEF DueOK, UnderWay
  <2> QED
    BY <2>1, <2>2
<1> QED
  BY <1>1, <1>2, <1>4 DEF DueOK

\* One of the two calls succeeds.
LEMMA CallsDue ==
  ASSUME IInv, DueOK, ClearOops \/ ClearLockout
  PROVE  DueOK'
<1>1. /\ UNCHANGED <<event, repair, closer, clear, repaired, due, lost>>
      /\ worker'.of = worker.of /\ oops' \subseteq oops /\ locked_out' \subseteq locked_out
      /\ \/ /\ worker.step = "clear_oops" /\ worker'.step = "clear_lockout"
            /\ clear[worker.of].machine \notin oops'
         \/ /\ worker.step = "clear_lockout" /\ worker'.step = "mark"
            /\ clear[worker.of].machine \notin locked_out'
  BY DEF ClearOops, ClearLockout, MoveWorker, history
<1>2. PressedOK' /\ \A n : Owed(n)' = Owed(n) /\ OpenRepairs(n)' = OpenRepairs(n)
  BY <1>1, OwedStays DEF OpenRepairs
<1>3. \A n : clear[worker.of].machine # n => Fresh(n)' = Fresh(n)
  BY <1>1 DEF Fresh, Unlocking
<1>4. worker.step = "clear_lockout" => \A n : Fresh(n)' = Fresh(n)
  BY <1>1 DEF Fresh, Unlocking
<1>5. ASSUME NEW n \in due
      PROVE  UnderWay(n)'
  <2>1. UnderWay(n)
    BY <1>5 DEF DueOK
  <2>2. CASE clear[worker.of].machine # n
    BY <1>1, <1>2, <1>3, <2>1, <2>2 DEF UnderWay
  <2>3. CASE clear[worker.of].machine = n /\ worker.step = "clear_oops"
    BY <1>1, <2>3 DEF UnderWay
  <2>4. CASE clear[worker.of].machine = n /\ worker.step = "clear_lockout"
    BY <1>1, <1>2, <1>4, <2>1, <2>4 DEF UnderWay
  <2> QED
    BY <1>1, <2>2, <2>3, <2>4
<1> QED
  BY <1>1, <1>2, <1>5 DEF DueOK

\* The row in hand is delivered, or its call raises.
LEMMA SettledDue ==
  ASSUME IInv, DueOK, MarkDelivered \/ ClearRaises
  PROVE  DueOK'
<1>1. /\ UNCHANGED <<event, repair, closer, repaired, due>>
      /\ worker.step # "idle" /\ worker'.step = "idle"
      /\ oops' \subseteq oops /\ locked_out' \subseteq locked_out /\ lost \subseteq lost'
      /\ MarkDelivered => worker.step = "mark"
      /\ ClearRaises => worker.step \in {"clear_oops", "clear_lockout"}
  BY DEF MarkDelivered, ClearRaises, MoveWorker, mac, history
<1>2. PressedOK' /\ \A n : Owed(n)' = Owed(n) /\ OpenRepairs(n)' = OpenRepairs(n)
  BY <1>1, OwedStays DEF OpenRepairs
<1>3. /\ worker.of \in DOMAIN clear /\ DOMAIN clear' = DOMAIN clear
      /\ \A i \in DOMAIN clear : i # worker.of => clear'[i] = clear[i]
      /\ clear'[worker.of].machine = clear[worker.of].machine
  BY RowsAfterDelivery
<1>4. \A n : \A u \in Unlocking(n) : u # <<"row", worker.of>> => u \in Unlocking(n)'
  BY <1>1, <1>3 DEF Unlocking
<1>5. \A n : Fresh(n)' = Unlocking(n)'
  BY <1>1 DEF Fresh
<1>6. ASSUME NEW n \in due
      PROVE  UnderWay(n)'
  <2>1. UnderWay(n)
    BY <1>6 DEF DueOK
  <2>2. CASE MarkDelivered
    <3>1. Fresh(n) \subseteq Fresh(n)'
      BY <1>1, <1>4, <1>5, <2>2 DEF Fresh
    <3> QED
      BY <1>1, <1>2, <2>1, <2>2, <3>1 DEF UnderWay
  <2>3. CASE ClearRaises /\ clear[worker.of].machine = n
    <3>1. CASE n \in lost'
      BY <3>1 DEF UnderWay
    <3>2. CASE n \notin lost'
      <4>1. clear'[worker.of].status = "pending"
        BY <2>3, <3>2, RowsAfterDelivery
      <4>2. <<"row", worker.of>> \in Unlocking(n)'
        BY <1>3, <2>3, <4>1 DEF Unlocking
      <4> QED
        BY <1>5, <4>2 DEF UnderWay
    <3> QED
      BY <3>1, <3>2
  <2>4. CASE ClearRaises /\ clear[worker.of].machine # n
    <3>1. <<"row", worker.of>> \notin Unlocking(n)
      BY <1>3, <2>4 DEF Unlocking
    <3>2. Fresh(n) \subseteq Fresh(n)'
      BY <1>4, <1>5, <3>1 DEF Fresh
    <3> QED
      BY <1>1, <1>2, <2>1, <2>4, <3>2 DEF UnderWay
  <2> QED
    BY <2>2, <2>3, <2>4
<1> QED
  BY <1>1, <1>2, <1>6 DEF DueOK

LEMMA StepDue == IInv /\ DueOK /\ [Next]_vars => DueOK'
<1> SUFFICES ASSUME IInv, DueOK, [Next]_vars PROVE DueOK'
  OBVIOUS
<1>1. ASSUME NEW m \in Machine, PressOops(m) \/ LockOut(m) \/ Report(m) \/ StaffClears(m)
      PROVE  DueOK'
  BY <1>1, PressOopsDue, SwitchesDue, OpeningDue
<1>2. ASSUME NEW r \in DOMAIN repair, Reopen(r) \/ \E c \in Closer : Close(c, r)
      PROVE  DueOK'
  BY <1>2, OpeningDue, CloseDue
<1>3. ASSUME NEW h \in Handler, HandlerStep(h) \/ HandlerFails(h)
      PROVE  DueOK'
  BY <1>3, HandlerDue, OpeningDue DEF HandlerStep
<1>4. ASSUME NEW c \in Closer, CloserStep(c) \/ CloserDies(c)
      PROVE  DueOK'
  BY <1>4, CloserDue DEF CloserStep
<1>5. CASE WorkerStep \/ ClearRaises \/ WorkerRestarts
  BY <1>5, WorkerMovesDue, CallsDue, SettledDue DEF WorkerStep
<1>6. CASE UNCHANGED vars
  <2>1. UNCHANGED <<oops, locked_out, event, repair, closer, clear, worker, repaired, due, lost>>
    BY <1>6 DEF vars, mac, history
  <2>2. PressedOK' /\ \A n : Owed(n)' = Owed(n)
    BY <2>1, OwedStays
  <2> QED
    BY <2>1, <2>2, FlagsDue
<1> QED
  BY <1>1, <1>2, <1>3, <1>4, <1>5, <1>6 DEF Next

\* The safety behind DueIsUnlocked: whatever the requests, the worker and MAC do, a
\* machine whose last open repair was closed to unlock it has none open, and is unlocked,
\* or a closing or a pending row will unlock it, or MAC owes an oops that will bring a
\* repair, or its loss is on record.
THEOREM DueUnderWay == Spec => []DueIsUnderWay
<1>1. Init => DueOK
  BY DEF Init, DueOK, PressedOK
<1>2. IInv /\ DueOK => DueIsUnderWay
  <2> SUFFICES ASSUME IInv, DueOK, NEW m \in due
               PROVE  /\ OpenRepairs(m) = {}
                      /\ \/ m \in lost \/ m \notin oops \cup locked_out
                         \/ Unlocking(m) # {}
                         \/ \E v \in Event \ repaired :
                              event[v].state = "owed" /\ event[v].machine = m
    BY DEF DueIsUnderWay
  <2>1. CASE worker.step = "clear_lockout" /\ clear[worker.of].machine = m
    BY <2>1, RowInHand DEF DueOK, Unlocking
  <2> QED
    BY <2>1 DEF DueOK, UnderWay, Owed, Fresh
<1> QED
  BY <1>1, <1>2, StepDue, Invariant, PTL DEF Spec

-----------------------------------------------------------------------------
(* The cache of MAC's states: MachineStatusCache, with variables of its own. *)

CONSTANT MaxChanges

VARIABLES
  known, posts, row, upsert, stale, refresher, fetched, todo, wedged, changes, faults,
  undisturbed

Cache == INSTANCE MachineStatusCache
           WITH mac <- known, worker <- refresher, failures <- faults

State == 0 .. MaxChanges
Upsert ==
  [step : {"idle", "read", "write", "reread", "done", "error"},
   machine : Machine \cup {NONE}, state : State \cup {NONE}, seen : State \cup {NONE}]

UpsertOK ==
  /\ upsert \in [Cache!Session -> Upsert]
  /\ \A s \in Cache!Session : upsert[s].step # "idle" =>
       upsert[s].machine \in Machine /\ upsert[s].state \in State
  /\ changes \in State

\* What the refresher has fetched, and what it has still to do about it.
RefreshOK ==
  /\ fetched \in [Machine -> State \cup {NONE}]
  /\ upsert[Cache!Worker].step # "idle" => refresher = "upserts"
  /\ refresher = "upserts" => todo \subseteq Cache!Listed(fetched)
  /\ refresher = "orphans" => todo \cap Cache!Listed(fetched) = {}

\* What the refresher has still to upsert, in a refresh that nothing outdated disturbs.
Ahead(m) ==
  \/ m \in todo
  \/ /\ upsert[Cache!Worker].machine = m
     /\ upsert[Cache!Worker].step \in {"read", "write", "reread", "error"}

Agrees(m) == row[m] = known[m]

\* What the reconciliation has still to delete.
OrphansAhead ==
  Cache!Listed(known) # {} =>
    \A m \in Machine \ Cache!Listed(known) : m \in todo \/ Agrees(m)

RefreshingOK ==
  undisturbed =>
    /\ Cache!CarriesMac
    /\ refresher = "upserts" => \A m \in Cache!Listed(known) : Ahead(m) \/ Agrees(m)
    /\ refresher = "orphans" =>
         /\ \A m \in Cache!Listed(known) : Agrees(m)
         /\ OrphansAhead

CacheInv == Cache!TypeOK /\ UpsertOK /\ RefreshOK /\ RefreshingOK

LEMMA CacheInit ==
  ASSUME Cache!CacheConstants, Cache!Init
  PROVE  CacheInv
<1>1. /\ known = [m \in Machine |-> 0] /\ fetched = known /\ row = [m \in Machine |-> NONE]
      /\ upsert = [s \in Cache!Session |-> Cache!NoUpsert]
      /\ posts = {} /\ stale = {} /\ refresher = "poll" /\ todo = {} /\ wedged = FALSE
      /\ changes = 0
  BY DEF Cache!Init
<1>2. 0 \in State
  BY DEF Cache!CacheConstants, State
<1>3. Cache!NoUpsert \in Upsert /\ Cache!NoUpsert.step = "idle"
  BY DEF Cache!NoUpsert, Upsert
<1>4. Cache!Worker \in Cache!Session
  BY DEF Cache!Session
<1> HIDE DEF Cache!NoUpsert, Upsert, Cache!Session
<1>5. \A s \in Cache!Session : upsert[s].step = "idle"
  BY <1>1, <1>3
<1>6. UpsertOK
  BY <1>1, <1>2, <1>3, <1>5 DEF UpsertOK
<1>7. Cache!TypeOK
  BY <1>1, <1>2, <1>5 DEF Cache!TypeOK, State
<1>8. RefreshOK
  BY <1>1, <1>2, <1>4, <1>5 DEF RefreshOK
<1>9. Cache!CarriesMac
  BY <1>1, <1>5 DEF Cache!CarriesMac
<1> QED
  BY <1>1, <1>6, <1>7, <1>8, <1>9 DEF CacheInv, RefreshingOK

CacheTypes == Cache!TypeOK /\ UpsertOK /\ RefreshOK

\* A session's upsert, begun, moved on or ended.
LEMMA UpsertChanged ==
  ASSUME CacheTypes, NEW s \in Cache!Session, NEW u \in Upsert,
         upsert' = [upsert EXCEPT ![s] = u],
         u.step # "idle" => u.machine \in Machine /\ u.state \in State,
         changes' = changes
  PROVE  /\ UpsertOK'
         /\ upsert'[s] = u
         /\ \A t \in Cache!Session \ {s} : upsert'[t] = upsert[t]
<1>1. upsert \in [Cache!Session -> Upsert]
  BY DEF CacheTypes, UpsertOK
<1>2. /\ upsert' \in [Cache!Session -> Upsert]
      /\ upsert'[s] = u
      /\ \A t \in Cache!Session \ {s} : upsert'[t] = upsert[t]
  BY <1>1
<1> QED
  BY <1>2 DEF CacheTypes, UpsertOK

\* One step of an upsert: it stays with its machine and state, and writes nothing else.
LEMMA UpsertMoved ==
  ASSUME Cache!CacheConstants, CacheTypes, NEW s \in Cache!Session, Cache!UpsertStep(s)
  PROVE  /\ UpsertOK'
         /\ upsert[s].step \in {"read", "write", "reread"}
         /\ upsert'[s].step \in {"write", "reread", "done", "error"}
         /\ upsert'[s].machine = upsert[s].machine /\ upsert'[s].state = upsert[s].state
         /\ \A t \in Cache!Session \ {s} : upsert'[t] = upsert[t]
         /\ \/ row' = row
            \/ row' = [row EXCEPT ![upsert[s].machine] = upsert[s].state]
         /\ upsert'[s].step = "done" =>
              row' = [row EXCEPT ![upsert[s].machine] = upsert[s].state]
         /\ stale' \subseteq Cache!Session /\ wedged' \in BOOLEAN
         /\ UNCHANGED <<known, posts, refresher, fetched, todo, changes>>
<1> DEFINE m == upsert[s].machine
           x == upsert[s].state
<1>1. /\ upsert[s] \in Upsert
      /\ upsert[s].step # "idle" => m \in Machine /\ x \in State
  BY DEF CacheTypes, UpsertOK
<1>2. /\ row \in [Machine -> State \cup {NONE}] /\ stale \subseteq Cache!Session
      /\ wedged \in BOOLEAN
  BY DEF CacheTypes, Cache!TypeOK, State
<1>3. UNCHANGED <<known, posts, refresher, fetched, todo, changes>>
  BY DEF Cache!UpsertStep, Cache!ReadRow, Cache!InsertRow, Cache!RereadRow,
         Cache!UpdateRow, Cache!UpdateRefused, Cache!bounds
<1>4. PICK step \in {"write", "reread", "done", "error"}, seen \in State \cup {NONE} :
        /\ upsert[s].step \in {"read", "write", "reread"}
        /\ upsert' = [upsert EXCEPT ![s] = [upsert[s] EXCEPT !.step = step, !.seen = seen]]
        /\ row' = row \/ row' = [row EXCEPT ![m] = x]
        /\ step = "done" => row' = [row EXCEPT ![m] = x]
  <2>1. CASE Cache!ReadRow(s) \/ (Cache!RereadRow(s) /\ row[m] # NONE)
    <3>1. /\ upsert[s].step \in {"read", "reread"} /\ row' = row
          /\ upsert' = [upsert EXCEPT ![s] =
                          [upsert[s] EXCEPT !.step = "write", !.seen = row[m]]]
      BY <2>1 DEF Cache!ReadRow, Cache!RereadRow
    <3>2. row[m] \in State \cup {NONE}
      BY <1>1, <1>2, <3>1
    <3> QED
      BY <3>1, <3>2
  <2>2. ASSUME NEW step \in {"reread", "done", "error"}, Cache!MoveUpsert(s, step)
        PROVE  \E seen \in State \cup {NONE} :
                 /\ upsert' = [upsert EXCEPT ![s] =
                                 [upsert[s] EXCEPT !.step = step, !.seen = seen]]
    <3>1. upsert[s].seen \in State \cup {NONE}
      BY <1>1 DEF Upsert
    <3>2. upsert' = [upsert EXCEPT ![s] =
                       [upsert[s] EXCEPT !.step = step, !.seen = upsert[s].seen]]
      <4>1. upsert' = [upsert EXCEPT ![s] = [upsert[s] EXCEPT !.step = step]]
        BY <2>2 DEF Cache!MoveUpsert
      <4>2. [upsert[s] EXCEPT !.step = step]
              = [upsert[s] EXCEPT !.step = step, !.seen = upsert[s].seen]
        BY <1>1 DEF Upsert
      <4> QED
        BY <4>1, <4>2
    <3> QED
      BY <3>1, <3>2
  <2>3. CASE Cache!InsertRow(s)
    BY <2>2, <2>3 DEF Cache!InsertRow
  <2>4. CASE Cache!UpdateRow(s)
    BY <2>2, <2>4 DEF Cache!UpdateRow
  <2>5. CASE Cache!UpdateRefused(s)
    BY <2>2, <2>5 DEF Cache!UpdateRefused
  <2>6. CASE Cache!RereadRow(s) /\ row[m] = NONE
    BY <2>2, <2>6 DEF Cache!RereadRow
  <2> QED
    BY <2>1, <2>3, <2>4, <2>5, <2>6 DEF Cache!UpsertStep
<1> DEFINE u == [upsert[s] EXCEPT !.step = step, !.seen = seen]
<1>5. /\ u \in Upsert /\ u.step = step /\ u.seen = seen
      /\ u.machine = m /\ u.state = x
  BY <1>1, <1>4 DEF Upsert
<1>6. /\ UpsertOK' /\ upsert'[s] = u
      /\ \A t \in Cache!Session \ {s} : upsert'[t] = upsert[t]
  <2>1. u.step # "idle" => u.machine \in Machine /\ u.state \in State
    BY <1>1, <1>4, <1>5
  <2> HIDE DEF u
  <2> QED
    BY <1>3, <1>4, <1>5, <2>1, UpsertChanged DEF u
<1>7. stale' \subseteq Cache!Session /\ wedged' \in BOOLEAN
  <2>1. \A ms : Cache!Readers(s, ms) \subseteq Cache!Session
    BY DEF Cache!Readers, Cache!Session
  <2> QED
    BY <1>2, <2>1 DEF Cache!UpsertStep, Cache!ReadRow, Cache!InsertRow,
                      Cache!RereadRow, Cache!UpdateRow, Cache!UpdateRefused
<1> QED
  BY <1>3, <1>4, <1>5, <1>6, <1>7

\* The types after a step: an upsert under way has a state.
LEMMA TypesFrom ==
  ASSUME Cache!CacheConstants, UpsertOK', RefreshOK',
         known' \in [Machine -> State \cup {NONE}], row' \in [Machine -> State \cup {NONE}],
         posts' \subseteq [machine : Machine, state : State],
         stale' \subseteq Cache!Session,
         refresher' \in {"poll", "upserts", "orphans", "static"}, todo' \subseteq Machine,
         wedged' \in BOOLEAN
  PROVE  CacheTypes'
<1>1. \A s \in Cache!Session : upsert'[s].step # "idle" => upsert'[s].state # NONE
  BY DEF UpsertOK, State, Cache!CacheConstants
<1> QED
  BY <1>1 DEF CacheTypes, Cache!TypeOK, State

\* The tables' types, as CacheTypes has them.
LEMMA TypesAre ==
  ASSUME CacheTypes
  PROVE  /\ known \in [Machine -> State \cup {NONE}]
         /\ row \in [Machine -> State \cup {NONE}]
         /\ posts \subseteq [machine : Machine, state : State]
         /\ stale \subseteq Cache!Session
         /\ refresher \in {"poll", "upserts", "orphans", "static"} /\ todo \subseteq Machine
         /\ wedged \in BOOLEAN /\ UpsertOK /\ RefreshOK
  BY DEF CacheTypes, Cache!TypeOK, State

LEMMA NoUpsertIs ==
  /\ Cache!NoUpsert \in Upsert /\ Cache!NoUpsert.step = "idle"
  /\ Cache!Worker \in Cache!Session /\ Handler \subseteq Cache!Session
  /\ Cache!CacheConstants => Cache!Worker \notin Handler
  BY DEF Cache!NoUpsert, Upsert, Cache!Session, Cache!Worker, Cache!CacheConstants

\* Steps of MAC.
LEMMA ChangeTypes ==
  ASSUME Cache!CacheConstants, CacheTypes, NEW m \in Machine,
         Cache!Change(m) \/ Cache!Unlist(m)
  PROVE  CacheTypes'
<1>1. /\ changes' \in State
      /\ known' = [known EXCEPT ![m] = changes'] \/ known' = [known EXCEPT ![m] = NONE]
      /\ posts' \subseteq posts \cup {[machine |-> m, state |-> changes']}
      /\ UNCHANGED <<row, upsert, stale, refresher, fetched, todo, wedged>>
  BY DEF Cache!Change, Cache!Unlist, Cache!CacheConstants, CacheTypes, UpsertOK, State
<1>2. UpsertOK' /\ RefreshOK'
  BY <1>1 DEF CacheTypes, UpsertOK, RefreshOK, Cache!Listed
<1>3. /\ known' \in [Machine -> State \cup {NONE}]
      /\ posts' \subseteq [machine : Machine, state : State]
  BY <1>1, TypesAre
<1> QED
  BY <1>1, <1>2, <1>3, TypesAre, TypesFrom

\* Steps of a webhook.
LEMMA HandlerTypes ==
  ASSUME Cache!CacheConstants, CacheTypes, NEW h \in Handler,
         Cache!HandlerStep(h) \/ Cache!HandlerDies(h)
  PROVE  CacheTypes'
<1>1. h \in Cache!Session /\ Cache!Worker \in Cache!Session \ {h}
  BY NoUpsertIs
<1>2. PICK u \in Upsert :
        /\ u.step # "idle" => u.machine \in Machine /\ u.state \in State
        /\ upsert' = [upsert EXCEPT ![h] = u] \/ Cache!UpsertStep(h)
  <2>1. CASE Cache!Receive(h)
    <3>1. PICK p \in posts : Cache!BeginUpsert(h, p.machine, p.state)
      BY <2>1 DEF Cache!Receive
    <3>2. p.machine \in Machine /\ p.state \in State
      BY TypesAre
    <3>3. [step |-> "read", machine |-> p.machine, state |-> p.state, seen |-> NONE] \in Upsert
      BY <3>2 DEF Upsert
    <3> QED
      BY <3>1, <3>2, <3>3 DEF Cache!BeginUpsert
  <2>2. CASE Cache!Answer(h) \/ Cache!Refuse(h) \/ Cache!HandlerDies(h)
    BY <2>2, NoUpsertIs DEF Cache!Answer, Cache!Refuse, Cache!HandlerDies,
      Cache!EndUpsert
  <2>3. CASE Cache!UpsertStep(h)
    BY <2>3, NoUpsertIs
  <2> QED
    BY <2>1, <2>2, <2>3 DEF Cache!HandlerStep
<1>3. /\ UpsertOK' /\ upsert'[Cache!Worker] = upsert[Cache!Worker]
      /\ stale' \subseteq Cache!Session /\ wedged' \in BOOLEAN
      /\ row' \in [Machine -> State \cup {NONE}]
      /\ posts' \subseteq posts
      /\ UNCHANGED <<known, refresher, fetched, todo>>
  <2>1. CASE Cache!UpsertStep(h)
    <3>1. /\ upsert[h].machine \in Machine /\ upsert[h].state \in State
      BY <1>1, <2>1, UpsertMoved DEF CacheTypes, UpsertOK
    <3> QED
      BY <1>1, <2>1, <3>1, UpsertMoved, TypesAre
  <2>2. CASE Cache!Receive(h) \/ Cache!Answer(h) \/ Cache!Refuse(h) \/ Cache!HandlerDies(h)
    <3>1. /\ changes' = changes
          /\ UNCHANGED <<known, row, refresher, fetched, todo, wedged>>
          /\ posts' \subseteq posts
          /\ stale' \subseteq Cache!Session
      BY <2>2, TypesAre DEF Cache!Receive, Cache!Answer, Cache!Refuse,
        Cache!HandlerDies, Cache!bounds
    <3>2. CASE upsert' = [upsert EXCEPT ![h] = u]
      BY <1>1, <1>2, <3>1, <3>2, UpsertChanged, TypesAre
    <3> QED
      BY <1>2, <2>1, <3>2
  <2> QED
    BY <2>1, <2>2 DEF Cache!HandlerStep
<1>4. RefreshOK'
  BY <1>3 DEF CacheTypes, RefreshOK, Cache!Listed
<1> QED
  BY <1>3, <1>4, TypesAre, TypesFrom

\* Steps of the refresher.
LEMMA WorkerTypes ==
  ASSUME Cache!CacheConstants, CacheTypes,
         Cache!WorkerStep \/ Cache!FetchFails \/ Cache!WorkerDies
  PROVE  CacheTypes'
<1>1. /\ Cache!Worker \in Cache!Session /\ Cache!NoUpsert \in Upsert
      /\ Cache!NoUpsert.step = "idle"
  BY NoUpsertIs
<1>2. CASE Cache!UpsertStep(Cache!Worker)
  <2>1. /\ upsert[Cache!Worker].machine \in Machine /\ upsert[Cache!Worker].state \in State
        /\ refresher = "upserts"
    BY <1>1, <1>2, UpsertMoved DEF CacheTypes, UpsertOK, RefreshOK
  <2>2. RefreshOK'
    BY <1>1, <1>2, <2>1, UpsertMoved DEF CacheTypes, RefreshOK, Cache!Listed
  <2> QED
    BY <1>1, <1>2, <2>1, <2>2, UpsertMoved, TypesAre, TypesFrom
<1>3. CASE Cache!Fetch
  <2>1. /\ fetched' = known /\ todo' = Cache!Listed(known) /\ refresher' = "upserts"
        /\ UNCHANGED <<known, posts, row, upsert, stale, wedged, changes>>
    BY <1>3 DEF Cache!Fetch, Cache!bounds
  <2>2. UpsertOK' /\ RefreshOK'
    BY <2>1, TypesAre DEF UpsertOK, RefreshOK, Cache!Listed
  <2> QED
    BY <2>1, <2>2, TypesAre, TypesFrom DEF Cache!Listed
<1>4. CASE Cache!UpsertNext
  <2>1. PICK m \in todo :
          /\ refresher = "upserts" /\ Cache!BeginUpsert(Cache!Worker, m, fetched[m])
          /\ todo' = todo \ {m}
          /\ UNCHANGED <<known, posts, row, stale, refresher, fetched, wedged, changes>>
    BY <1>4 DEF Cache!UpsertNext, Cache!bounds
  <2>2. m \in Machine /\ fetched[m] \in State
    BY <2>1 DEF CacheTypes, RefreshOK, Cache!Listed
  <2>3. [step |-> "read", machine |-> m, state |-> fetched[m], seen |-> NONE] \in Upsert
    BY <2>2 DEF Upsert
  <2>4. UpsertOK'
    BY <1>1, <2>1, <2>2, <2>3, UpsertChanged DEF Cache!BeginUpsert
  <2>5. RefreshOK'
    BY <2>1 DEF CacheTypes, RefreshOK, Cache!Listed
  <2> QED
    BY <2>1, <2>4, <2>5, TypesAre, TypesFrom
<1>5. ASSUME upsert' = [upsert EXCEPT ![Cache!Worker] = Cache!NoUpsert],
             UNCHANGED <<known, posts, row, fetched, changes>>,
             stale' \subseteq stale, wedged' \in BOOLEAN,
             \/ UNCHANGED <<refresher, todo>>
             \/ refresher' \in {"poll", "static"} /\ todo' = {}
      PROVE  CacheTypes'
  <2>1. UpsertOK' /\ upsert'[Cache!Worker] = Cache!NoUpsert
    BY <1>1, <1>5, UpsertChanged
  <2>2. RefreshOK'
    BY <1>1, <1>5, <2>1 DEF CacheTypes, RefreshOK, Cache!Listed
  <2> QED
    BY <1>5, <2>1, <2>2, TypesAre, TypesFrom
<1>6. CASE Cache!UpsertDone \/ Cache!UpsertError \/ Cache!Autoheal \/ Cache!WorkerDies
  BY <1>5, <1>6, TypesAre
  DEF Cache!UpsertDone, Cache!UpsertError, Cache!Autoheal, Cache!WorkerDies,
      Cache!NewProcess, Cache!EndUpsert, Cache!bounds
<1>7. CASE Cache!ReadOrphans
  <2>1. /\ upsert[Cache!Worker].step = "idle" /\ refresher' = "orphans"
        /\ todo' \subseteq Cache!Listed(row) \ Cache!Listed(fetched)
        /\ stale' \subseteq stale
        /\ UNCHANGED <<known, posts, row, upsert, fetched, wedged, changes>>
    BY <1>7 DEF Cache!ReadOrphans, Cache!bounds
  <2>2. UpsertOK' /\ RefreshOK'
    BY <2>1 DEF CacheTypes, UpsertOK, RefreshOK, Cache!Listed
  <2> QED
    BY <2>1, <2>2, TypesAre, TypesFrom DEF Cache!Listed
<1>8. CASE Cache!DeleteOrphans
  <2>1. /\ refresher = "orphans" /\ refresher' = "static" /\ todo' = {}
        /\ UNCHANGED <<known, posts, upsert, fetched, changes>>
        /\ stale' \subseteq Cache!Session /\ wedged' \in BOOLEAN
        /\ row' \in [Machine -> State \cup {NONE}]
    <3>1. Cache!Readers(Cache!Worker, todo) \subseteq Cache!Session
      BY DEF Cache!Readers, Cache!Session
    <3> QED
      BY <1>8, <3>1, TypesAre DEF Cache!DeleteOrphans, Cache!bounds
  <2>2. UpsertOK' /\ RefreshOK'
    BY <2>1 DEF CacheTypes, UpsertOK, RefreshOK, Cache!Listed
  <2> QED
    BY <2>1, <2>2, TypesAre, TypesFrom
<1>9. CASE Cache!StaticRefresh \/ Cache!FetchFails
  <2>1. /\ refresher \notin {"upserts", "orphans"} /\ refresher' \in {"poll", "static"}
        /\ UNCHANGED <<known, posts, row, upsert, stale, fetched, todo, changes>>
        /\ wedged' \in BOOLEAN
    BY <1>9, TypesAre DEF Cache!StaticRefresh, Cache!FetchFails, Cache!bounds
  <2>2. UpsertOK' /\ RefreshOK'
    BY <2>1 DEF CacheTypes, UpsertOK, RefreshOK, Cache!Listed
  <2> QED
    BY <2>1, <2>2, TypesAre, TypesFrom
<1> QED
  BY <1>2, <1>3, <1>4, <1>6, <1>7, <1>8, <1>9 DEF Cache!WorkerStep

LEMMA StepTypes ==
  ASSUME Cache!CacheConstants, CacheTypes, [Cache!Next]_Cache!vars
  PROVE  CacheTypes'
<1>1. CASE Cache!Next
  BY <1>1, ChangeTypes, HandlerTypes, WorkerTypes DEF Cache!Next, Cache!Interruption
<1>2. CASE UNCHANGED Cache!vars
  BY <1>2 DEF Cache!vars, Cache!bounds, CacheTypes, Cache!TypeOK, UpsertOK, RefreshOK,
              Cache!Listed
<1> QED
  BY <1>1, <1>2

\* Who writes a row writes what its upsert carries, or deletes what was not fetched.
LEMMA RowWritten ==
  ASSUME Cache!CacheConstants, CacheTypes, [Cache!Next]_Cache!vars, Cache!CarriesMac,
         known' = known
  PROVE  \A m \in Machine : Agrees(m) => Agrees(m)'
<1>0. /\ row \in [Machine -> State \cup {NONE}] /\ Handler \subseteq Cache!Session
      /\ Cache!Worker \in Cache!Session
  BY TypesAre, NoUpsertIs
<1>1. CASE row' = row
  BY <1>1 DEF Agrees
<1>2. ASSUME NEW s \in Cache!Session, Cache!UpsertStep(s)
      PROVE  \A m \in Machine : Agrees(m) => Agrees(m)'
  <2>1. known[upsert[s].machine] = upsert[s].state
    BY <1>2, UpsertMoved DEF Cache!CarriesMac
  <2>2. row' = row \/ row' = [row EXCEPT ![upsert[s].machine] = upsert[s].state]
    BY <1>2, UpsertMoved
  <2> QED
    BY <1>0, <2>1, <2>2 DEF Agrees
<1>3. CASE Cache!DeleteOrphans
  <2>1. /\ refresher = "orphans"
        /\ row' = row \/ row' = [m \in Machine |-> IF m \in todo THEN NONE ELSE row[m]]
    BY <1>3 DEF Cache!DeleteOrphans
  <2>2. \A m \in todo : known[m] = NONE
    BY <2>1, TypesAre DEF Cache!CarriesMac, RefreshOK, Cache!Listed
  <2> QED
    BY <2>1, <2>2 DEF Agrees
<1>4. \/ row' = row \/ Cache!DeleteOrphans \/ \E s \in Cache!Session : Cache!UpsertStep(s)
  <2>1. CASE UNCHANGED Cache!vars
    BY <2>1 DEF Cache!vars
  <2>2. CASE Cache!Interruption
    BY <2>2 DEF Cache!Interruption, Cache!Change, Cache!Unlist, Cache!HandlerDies,
                Cache!FetchFails, Cache!WorkerDies, Cache!NewProcess
  <2>3. ASSUME NEW h \in Handler, Cache!HandlerStep(h)
        PROVE  row' = row \/ \E s \in Cache!Session : Cache!UpsertStep(s)
    BY <1>0, <2>3 DEF Cache!HandlerStep, Cache!Receive, Cache!Answer, Cache!Refuse
  <2>4. CASE Cache!WorkerStep
    BY <1>0, <2>4
    DEF Cache!WorkerStep, Cache!Fetch, Cache!UpsertNext, Cache!UpsertDone,
        Cache!UpsertError, Cache!ReadOrphans, Cache!StaticRefresh,
        Cache!Autoheal, Cache!NewProcess
  <2> QED
    BY <2>1, <2>2, <2>3, <2>4 DEF Cache!Next
<1> QED
  BY <1>1, <1>2, <1>3, <1>4

\* Nothing outdated comes up while MAC stays as it is.
LEMMA CarriesOn ==
  ASSUME Cache!CacheConstants, CacheTypes, [Cache!Next]_Cache!vars, Cache!CarriesMac,
         known' = known
  PROVE  Cache!CarriesMac'
<1>0. /\ upsert \in [Cache!Session -> Upsert] /\ Handler \subseteq Cache!Session
      /\ Cache!Worker \in Cache!Session
      /\ known \in [Machine -> State \cup {NONE}]
      /\ posts \subseteq [machine : Machine, state : State]
      /\ Cache!NoUpsert \in Upsert /\ Cache!NoUpsert.step = "idle"
  BY TypesAre, NoUpsertIs DEF UpsertOK
<1>1. \A p \in posts' : known[p.machine] = p.state
  <2>1. ASSUME NEW m \in Machine, Cache!Change(m)
        PROVE  \A p \in posts' : known[p.machine] = p.state
    <3>1. /\ known' = [known EXCEPT ![m] = changes']
          /\ posts' = posts \cup {[machine |-> m, state |-> changes']}
      BY <2>1 DEF Cache!Change
    <3>2. known[m] = changes'
      BY <1>0, <3>1
    <3> QED
      BY <3>1, <3>2 DEF Cache!CarriesMac
  <2>2. (\E m \in Machine : Cache!Change(m)) \/ posts' \subseteq posts
    <3>1. CASE UNCHANGED Cache!vars
      BY <3>1 DEF Cache!vars
    <3>2. CASE Cache!Interruption
      BY <3>2 DEF Cache!Interruption, Cache!Unlist, Cache!HandlerDies,
                  Cache!FetchFails, Cache!WorkerDies, Cache!NewProcess
    <3>3. ASSUME NEW s \in Cache!Session, Cache!UpsertStep(s)
          PROVE  posts' \subseteq posts
      BY <3>3, UpsertMoved
    <3>4. ASSUME NEW h \in Handler, Cache!HandlerStep(h)
          PROVE  posts' \subseteq posts
      BY <1>0, <3>3, <3>4 DEF Cache!HandlerStep, Cache!Receive, Cache!Answer,
        Cache!Refuse
    <3>5. CASE Cache!WorkerStep
      BY <1>0, <3>3, <3>5
      DEF Cache!WorkerStep, Cache!Fetch, Cache!UpsertNext, Cache!UpsertDone,
          Cache!UpsertError, Cache!ReadOrphans, Cache!DeleteOrphans,
          Cache!StaticRefresh, Cache!Autoheal, Cache!NewProcess
    <3> QED
      BY <3>1, <3>2, <3>4, <3>5 DEF Cache!Next
  <2> QED
    BY <2>1, <2>2 DEF Cache!CarriesMac
<1>2. \A s \in Cache!Session :
        upsert'[s].step # "idle" => known[upsert'[s].machine] = upsert'[s].state
  <2>1. CASE upsert' = upsert
    BY <2>1 DEF Cache!CarriesMac
  <2>2. ASSUME NEW s \in Cache!Session, Cache!UpsertStep(s)
        PROVE  \A t \in Cache!Session :
                 upsert'[t].step # "idle" => known[upsert'[t].machine] = upsert'[t].state
    BY <2>2, UpsertMoved DEF Cache!CarriesMac
  <2>3. ASSUME NEW s \in Cache!Session, Cache!EndUpsert(s)
        PROVE  \A t \in Cache!Session :
                 upsert'[t].step # "idle" => known[upsert'[t].machine] = upsert'[t].state
    <3>1. /\ upsert'[s] = Cache!NoUpsert
          /\ \A t \in Cache!Session \ {s} : upsert'[t] = upsert[t]
      BY <1>0, <2>3 DEF Cache!EndUpsert
    <3> QED
      BY <1>0, <3>1 DEF Cache!CarriesMac
  <2>4. ASSUME NEW s \in Cache!Session, NEW m, NEW x, Cache!BeginUpsert(s, m, x),
               known[m] = x
        PROVE  \A t \in Cache!Session :
                 upsert'[t].step # "idle" => known[upsert'[t].machine] = upsert'[t].state
    <3>1. /\ upsert'[s].machine = m /\ upsert'[s].state = x
          /\ \A t \in Cache!Session \ {s} : upsert'[t] = upsert[t]
      BY <1>0, <2>4 DEF Cache!BeginUpsert
    <3> QED
      BY <2>4, <3>1 DEF Cache!CarriesMac
  <2>5. ASSUME NEW h \in Handler, Cache!Receive(h)
        PROVE  \A t \in Cache!Session :
                 upsert'[t].step # "idle" => known[upsert'[t].machine] = upsert'[t].state
    <3>1. PICK p \in posts : Cache!BeginUpsert(h, p.machine, p.state)
      BY <2>5 DEF Cache!Receive
    <3> QED
      BY <1>0, <2>4, <3>1 DEF Cache!CarriesMac
  <2>6. CASE Cache!UpsertNext
    <3>1. PICK m \in todo :
            refresher = "upserts" /\ Cache!BeginUpsert(Cache!Worker, m, fetched[m])
      BY <2>6 DEF Cache!UpsertNext
    <3>2. fetched = known
      BY <3>1 DEF Cache!CarriesMac
    <3> QED
      BY <1>0, <2>4, <3>1, <3>2
  <2>7. CASE Cache!Interruption
    <3>1. CASE upsert' = upsert
      BY <2>1, <3>1
    <3>2. CASE \E s \in Cache!Session : Cache!EndUpsert(s)
      BY <2>3, <3>2
    <3> QED
      BY <1>0, <2>7, <3>1, <3>2
      DEF Cache!Interruption, Cache!Change, Cache!Unlist, Cache!HandlerDies,
          Cache!FetchFails, Cache!WorkerDies, Cache!NewProcess
  <2>8. ASSUME NEW h \in Handler, Cache!HandlerStep(h)
        PROVE  \A t \in Cache!Session :
                 upsert'[t].step # "idle" => known[upsert'[t].machine] = upsert'[t].state
    BY <1>0, <2>2, <2>3, <2>5, <2>8 DEF Cache!HandlerStep, Cache!Answer, Cache!Refuse
  <2>9. CASE Cache!WorkerStep
    <3>1. CASE upsert' = upsert
      BY <2>1, <3>1
    <3>2. CASE Cache!EndUpsert(Cache!Worker)
      BY <1>0, <2>3, <3>2
    <3>3. CASE Cache!UpsertStep(Cache!Worker) \/ Cache!UpsertNext
      BY <1>0, <2>2, <2>6, <3>3
    <3> QED
      BY <2>9, <3>1, <3>2, <3>3
      DEF Cache!WorkerStep, Cache!Fetch, Cache!UpsertDone, Cache!UpsertError,
          Cache!ReadOrphans, Cache!DeleteOrphans,
          Cache!StaticRefresh, Cache!Autoheal, Cache!NewProcess
  <2>10. CASE UNCHANGED Cache!vars
    BY <2>1, <2>10 DEF Cache!vars
  <2> QED
    BY <2>7, <2>8, <2>9, <2>10 DEF Cache!Next
<1>3. refresher' \in {"upserts", "orphans"} => fetched' = known
  <2>1. CASE Cache!Fetch
    BY <2>1 DEF Cache!Fetch
  <2>2. ASSUME NEW s \in Cache!Session, Cache!UpsertStep(s)
        PROVE  UNCHANGED <<refresher, fetched>>
    BY <2>2, UpsertMoved
  <2>3. CASE ~Cache!Fetch
    <3>1. \/ UNCHANGED <<refresher, fetched>>
          \/ refresher = "upserts" /\ fetched' = fetched
          \/ refresher' \notin {"upserts", "orphans"}
      <4>1. CASE UNCHANGED Cache!vars
        BY <4>1 DEF Cache!vars
      <4>2. CASE Cache!Interruption
        BY <4>2 DEF Cache!Interruption, Cache!Change, Cache!Unlist, Cache!HandlerDies,
                    Cache!FetchFails, Cache!WorkerDies, Cache!NewProcess
      <4>3. ASSUME NEW h \in Handler, Cache!HandlerStep(h)
            PROVE  UNCHANGED <<refresher, fetched>>
        BY <1>0, <2>2, <4>3 DEF Cache!HandlerStep, Cache!Receive, Cache!Answer,
          Cache!Refuse
      <4>4. CASE Cache!WorkerStep
        BY <1>0, <2>2, <2>3, <4>4
        DEF Cache!WorkerStep, Cache!UpsertNext, Cache!UpsertDone, Cache!UpsertError,
            Cache!ReadOrphans, Cache!DeleteOrphans,
            Cache!StaticRefresh, Cache!Autoheal, Cache!NewProcess
      <4> QED
        BY <4>1, <4>2, <4>3, <4>4 DEF Cache!Next
    <3> QED
      BY <3>1 DEF Cache!CarriesMac
  <2> QED
    BY <2>1, <2>3
<1> QED
  BY <1>1, <1>2, <1>3 DEF Cache!CarriesMac

\* Steps that leave the refresher and its upsert where they are.
LEMMA BesideRefresh ==
  ASSUME Cache!CacheConstants, CacheTypes,
         (\E m \in Machine : Cache!Change(m) \/ Cache!Unlist(m))
           \/ (\E h \in Handler : Cache!HandlerStep(h) \/ Cache!HandlerDies(h))
  PROVE  upsert'[Cache!Worker] = upsert[Cache!Worker] /\ UNCHANGED <<refresher, todo>>
<1>0. /\ upsert \in [Cache!Session -> Upsert] /\ Cache!Worker \in Cache!Session
      /\ Handler \subseteq Cache!Session \ {Cache!Worker}
  BY TypesAre, NoUpsertIs DEF UpsertOK
<1>1. ASSUME NEW m \in Machine, Cache!Change(m) \/ Cache!Unlist(m)
      PROVE  upsert'[Cache!Worker] = upsert[Cache!Worker] /\ UNCHANGED <<refresher, todo>>
  BY <1>1 DEF Cache!Change, Cache!Unlist
<1>2. ASSUME NEW h \in Handler, Cache!UpsertStep(h)
      PROVE  upsert'[Cache!Worker] = upsert[Cache!Worker] /\ UNCHANGED <<refresher, todo>>
  BY <1>0, <1>2, UpsertMoved
<1>3. ASSUME NEW h \in Handler,
             Cache!Receive(h) \/ Cache!Answer(h) \/ Cache!Refuse(h) \/ Cache!HandlerDies(h)
      PROVE  upsert'[Cache!Worker] = upsert[Cache!Worker] /\ UNCHANGED <<refresher, todo>>
  BY <1>0, <1>3 DEF Cache!Receive, Cache!Answer, Cache!Refuse, Cache!HandlerDies,
                    Cache!BeginUpsert, Cache!EndUpsert
<1> QED
  BY <1>1, <1>2, <1>3 DEF Cache!HandlerStep

\* A refresh in progress that nothing outdated disturbs has dealt with what is not ahead.
LEMMA StepRefreshing ==
  ASSUME Cache!CacheConstants, CacheInv, [Cache!Next]_Cache!vars
  PROVE  RefreshingOK'
<1> SUFFICES ASSUME undisturbed'
             PROVE  /\ Cache!CarriesMac'
                    /\ refresher' = "upserts" =>
                         \A m \in Cache!Listed(known') : Ahead(m)' \/ Agrees(m)'
                    /\ refresher' = "orphans" =>
                         /\ \A m \in Cache!Listed(known') : Agrees(m)'
                         /\ OrphansAhead'
  BY DEF RefreshingOK, OrphansAhead
<1>0. /\ CacheTypes
      /\ upsert \in [Cache!Session -> Upsert] /\ Cache!Worker \in Cache!Session
      /\ Handler \subseteq Cache!Session \ {Cache!Worker}
      /\ row \in [Machine -> State \cup {NONE}]
  BY TypesAre, NoUpsertIs DEF CacheInv, CacheTypes, UpsertOK
<1>1. CASE UNCHANGED Cache!vars
  BY <1>1 DEF Cache!vars, CacheInv, RefreshingOK, OrphansAhead, Cache!CarriesMac, Ahead, Agrees,
              Cache!Listed
<1>2. CASE Cache!Next
  <2>1. Cache!Note
    BY <1>2 DEF Cache!Next, Cache!HandlerStep, Cache!WorkerStep, Cache!Interruption
  <2>2. Cache!CarriesMac' /\ (refresher = "poll" \/ undisturbed)
    BY <2>1 DEF Cache!Note
  <2>3. CASE refresher' \notin {"upserts", "orphans"}
    BY <2>2, <2>3
  <2>4. CASE Cache!Fetch
    BY <2>2, <2>4 DEF Cache!Fetch, Ahead
  <2>5. CASE refresher' \in {"upserts", "orphans"} /\ ~Cache!Fetch
    <3>1. \/ (\E m \in Machine : Cache!Change(m) \/ Cache!Unlist(m))
               \/ (\E h \in Handler : Cache!HandlerStep(h) \/ Cache!HandlerDies(h))
          \/ Cache!UpsertStep(Cache!Worker) \/ Cache!UpsertNext
          \/ Cache!UpsertDone \/ Cache!ReadOrphans
      BY <1>2, <2>5
      DEF Cache!Next, Cache!WorkerStep, Cache!Interruption, Cache!UpsertError,
          Cache!DeleteOrphans, Cache!StaticRefresh, Cache!Autoheal,
          Cache!FetchFails, Cache!WorkerDies, Cache!NewProcess
    <3>2. refresher \in {"upserts", "orphans"} /\ fetched' = fetched
      <4>1. CASE \E m \in Machine : Cache!Change(m) \/ Cache!Unlist(m)
        BY <1>0, <2>5, <4>1, BesideRefresh DEF Cache!Change, Cache!Unlist
      <4>2. ASSUME NEW h \in Handler, Cache!HandlerStep(h) \/ Cache!HandlerDies(h)
            PROVE  refresher \in {"upserts", "orphans"} /\ fetched' = fetched
        BY <1>0, <2>5, <4>2, BesideRefresh, UpsertMoved
        DEF Cache!HandlerStep, Cache!Receive, Cache!Answer, Cache!Refuse,
            Cache!HandlerDies
      <4>3. CASE Cache!UpsertStep(Cache!Worker)
        BY <1>0, <2>5, <4>3, UpsertMoved
      <4>4. CASE Cache!UpsertNext \/ Cache!UpsertDone \/ Cache!ReadOrphans
        BY <2>5, <4>4 DEF Cache!UpsertNext, Cache!UpsertDone, Cache!ReadOrphans
      <4> QED
        BY <3>1, <4>1, <4>2, <4>3, <4>4
    <3>3. /\ undisturbed /\ Cache!CarriesMac /\ known' = known /\ fetched = known
          /\ refresher = "upserts" => \A m \in Cache!Listed(known) : Ahead(m) \/ Agrees(m)
          /\ refresher = "orphans" =>
               /\ \A m \in Cache!Listed(known) : Agrees(m)
               /\ OrphansAhead
      BY <2>2, <2>5, <3>2 DEF CacheInv, RefreshingOK, Cache!CarriesMac
    <3>4. \A m \in Machine : Agrees(m) => Agrees(m)'
      BY <1>0, <3>3, RowWritten
    <3>5. /\ Cache!Listed(known') = Cache!Listed(known)
          /\ Cache!Listed(known) \subseteq Machine
      BY <3>3 DEF Cache!Listed
    <3>6. CASE (\E m \in Machine : Cache!Change(m) \/ Cache!Unlist(m))
               \/ (\E h \in Handler : Cache!HandlerStep(h) \/ Cache!HandlerDies(h))
      <4>1. upsert'[Cache!Worker] = upsert[Cache!Worker] /\ UNCHANGED <<refresher, todo>>
        BY <1>0, <3>6, BesideRefresh
      <4>2. \A m : Ahead(m)' = Ahead(m)
        BY <4>1 DEF Ahead
      <4>3. refresher = "orphans" => OrphansAhead'
        BY <3>3, <3>4, <3>5, <4>1 DEF OrphansAhead
      <4> QED
        BY <2>2, <3>3, <3>4, <3>5, <4>1, <4>2, <4>3
    <3>7. CASE Cache!UpsertStep(Cache!Worker)
      <4>1. /\ upsert[Cache!Worker].step \in {"read", "write", "reread"}
            /\ refresher = "upserts"
            /\ UNCHANGED <<refresher, todo>>
            /\ upsert[Cache!Worker].machine \in Machine
        BY <1>0, <3>7, UpsertMoved DEF CacheTypes, RefreshOK, UpsertOK
      <4>2. known[upsert[Cache!Worker].machine] = upsert[Cache!Worker].state
        BY <1>0, <3>3, <4>1 DEF Cache!CarriesMac
      <4>3. ASSUME NEW m \in Cache!Listed(known)
            PROVE  Ahead(m)' \/ Agrees(m)'
        <5>1. CASE m # upsert[Cache!Worker].machine \/ m \in todo
          <6>1. Ahead(m) => Ahead(m)'
            BY <1>0, <3>7, <4>1, <5>1, UpsertMoved DEF Ahead
          <6> QED
            BY <3>3, <3>4, <3>5, <4>1, <6>1
        <5>2. CASE /\ m = upsert[Cache!Worker].machine
                   /\ upsert'[Cache!Worker].step \in {"write", "reread", "error"}
          BY <1>0, <3>7, <5>2, UpsertMoved DEF Ahead
        <5>3. CASE /\ m = upsert[Cache!Worker].machine
                   /\ upsert'[Cache!Worker].step = "done"
          <6>1. row' = [row EXCEPT ![m] = upsert[Cache!Worker].state]
            BY <1>0, <3>7, <5>3, UpsertMoved
          <6> QED
            BY <1>0, <3>3, <3>5, <4>2, <5>3, <6>1 DEF Agrees
        <5> QED
          BY <1>0, <3>7, <5>1, <5>2, <5>3, UpsertMoved
      <4> QED
        BY <2>2, <3>5, <4>1, <4>3
    <3>8. CASE Cache!UpsertNext
      <4>1. PICK n \in todo : /\ refresher = "upserts" /\ refresher' = refresher
                              /\ upsert[Cache!Worker].step = "idle"
                              /\ Cache!BeginUpsert(Cache!Worker, n, fetched[n])
                              /\ todo' = todo \ {n}
        BY <3>8 DEF Cache!UpsertNext
      <4>2. upsert'[Cache!Worker].step = "read" /\ upsert'[Cache!Worker].machine = n
        BY <1>0, <4>1 DEF Cache!BeginUpsert
      <4>3. \A m : Ahead(m) => Ahead(m)'
        BY <4>1, <4>2 DEF Ahead
      <4> QED
        BY <2>2, <3>3, <3>4, <3>5, <4>1, <4>3
    <3>9. CASE Cache!UpsertDone
      <4>1. /\ upsert[Cache!Worker].step = "done" /\ UNCHANGED <<refresher, todo>>
            /\ refresher = "upserts"
        BY <1>0, <3>9 DEF Cache!UpsertDone, CacheTypes, RefreshOK
      <4>2. \A m : Ahead(m) => Ahead(m)'
        BY <4>1 DEF Ahead
      <4> QED
        BY <2>2, <3>3, <3>4, <3>5, <4>1, <4>2
    <3>10. CASE Cache!ReadOrphans
      <4>1. /\ refresher = "upserts" /\ refresher' = "orphans" /\ row' = row
            /\ todo = {} /\ upsert[Cache!Worker].step = "idle"
            /\ Cache!Listed(known) # {} => todo' = Cache!Listed(row) \ Cache!Listed(known)
        BY <3>3, <3>10 DEF Cache!ReadOrphans
      <4>2. \A m \in Cache!Listed(known) : Agrees(m)
        BY <3>3, <4>1 DEF Ahead
      <4>3. ASSUME Cache!Listed(known) # {}, NEW m \in Machine \ Cache!Listed(known)
            PROVE  m \in todo' \/ Agrees(m)'
        BY <3>3, <4>1, <4>3 DEF Agrees, Cache!Listed
      <4>4. OrphansAhead'
        BY <3>5, <4>3 DEF OrphansAhead
      <4> QED
        BY <2>2, <3>4, <3>5, <4>1, <4>2, <4>4
    <3> QED
      BY <3>1, <3>6, <3>7, <3>8, <3>9, <3>10
  <2> QED
    BY <2>3, <2>4, <2>5
<1> QED
  BY <1>1, <1>2

LEMMA StepCache == Cache!CacheConstants /\ CacheInv /\ [Cache!Next]_Cache!vars => CacheInv'
<1> SUFFICES ASSUME Cache!CacheConstants, CacheInv, [Cache!Next]_Cache!vars
             PROVE  CacheInv'
  OBVIOUS
<1> QED
  BY StepTypes, StepRefreshing DEF CacheInv, CacheTypes

\* What each state of a behaviour of MachineStatusCache satisfies.
THEOREM CacheInvariant ==
  ASSUME Cache!CacheConstants
  PROVE  Cache!Spec => []CacheInv
  BY CacheInit, StepCache, PTL DEF Cache!Spec

\* The cached states, the webhooks and the upserts of machine_status are states of listed
\* machines, or nothing where MAC has listed none.
THEOREM CacheTypeCorrect ==
  ASSUME Cache!CacheConstants
  PROVE  Cache!Spec => []Cache!TypeOK
<1>1. CacheInv => Cache!TypeOK
  BY DEF CacheInv
<1> QED
  BY <1>1, CacheInvariant, PTL

\* While webhooks, upserts and the refresh carry what MAC says, a row that agrees with it
\* stays as it is, whatever session writes (upsert_machine_status, reconcile_orphans).
THEOREM AgreementIsKept ==
  ASSUME Cache!CacheConstants
  PROVE  Cache!Spec => Cache!AgreementStays
<1>1. CacheInv /\ [Cache!Next]_Cache!vars =>
        [Cache!CarriesMac /\ UNCHANGED known =>
           /\ Cache!CarriesMac'
           /\ \A m \in Machine : row[m] = known[m] => row'[m] = known[m]]_Cache!vars
  <2> SUFFICES ASSUME CacheInv, [Cache!Next]_Cache!vars, Cache!CarriesMac, known' = known
               PROVE  /\ Cache!CarriesMac'
                      /\ \A m \in Machine : row[m] = known[m] => row'[m] = known[m]
    OBVIOUS
  <2>1. CacheTypes
    BY DEF CacheInv, CacheTypes
  <2> QED
    BY <2>1, RowWritten, CarriesOn DEF Agrees
<1> QED
  BY <1>1, CacheInvariant, PTL DEF Cache!Spec, Cache!AgreementStays

\* A refresh that reaches its reconciliation while nothing outdated is under way leaves the
\* table with what MAC says, for any number of machines and webhooks (_do_mac_refresh).
THEOREM RefreshIsComplete ==
  ASSUME Cache!CacheConstants
  PROVE  Cache!Spec => Cache!RefreshCompletes
<1>1. CacheInv /\ [Cache!Next]_Cache!vars =>
        [/\ Cache!DeleteOrphans /\ undisturbed
         /\ Cache!Worker \notin stale /\ Cache!Listed(known) # {}
         => row' = known]_Cache!vars
  <2> SUFFICES ASSUME CacheInv, Cache!DeleteOrphans, undisturbed, Cache!Worker \notin stale,
                      Cache!Listed(known) # {}
               PROVE  row' = known
    OBVIOUS
  <2>1. /\ row' = [m \in Machine |-> IF m \in todo THEN NONE ELSE row[m]]
        /\ refresher = "orphans"
    BY DEF Cache!DeleteOrphans
  <2>2. known \in [Machine -> State \cup {NONE}]
    BY TypesAre DEF CacheInv, CacheTypes
  <2>3. /\ fetched = known /\ todo \cap Cache!Listed(known) = {}
        /\ \A m \in Cache!Listed(known) : Agrees(m)
        /\ \A m \in Machine \ Cache!Listed(known) : m \in todo \/ Agrees(m)
    BY <2>1 DEF CacheInv, RefreshOK, RefreshingOK, OrphansAhead, Cache!CarriesMac
  <2>4. \A m \in Machine : row'[m] = known[m]
    BY <2>1, <2>3 DEF Agrees, Cache!Listed
  <2> QED
    BY <2>1, <2>2, <2>4
<1> QED
  BY <1>1, CacheInvariant, PTL DEF Cache!Spec, Cache!RefreshCompletes
=============================================================================

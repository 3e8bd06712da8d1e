----------------------------- MODULE MachineLoop -----------------------------
(***************************************************************************)
(* The loop between the machine access controller (MAC) and the repairs:   *)
(*                                                                         *)
(*   oops on a machine -> webhook -> repair -> closed -> mac_clear row     *)
(*     -> worker -> the machine's oops and lockout are cleared             *)
(*                                                                         *)
(* MAC delivers a webhook until it is answered with 204, and may deliver   *)
(* it again while an earlier delivery is still being handled (its call has *)
(* timed out).  Webhook handlers, the requests that close repairs and the  *)
(* worker interleave, and each may fail or die between its transactions.   *)
(*                                                                         *)
(* A repair is open or closed here, and opened or closed in one step:      *)
(* RepairLifecycle has the detail.  Every machine is linked to one piece   *)
(* of equipment that is not archived, and the integration is enabled.      *)
(***************************************************************************)
EXTENDS Naturals, Sequences

CONSTANTS
  Machine,
  Event,        \* presses of the oops button, each with its own timestamp
  Handler,      \* webhook deliveries that can be in progress at once
  Closer,       \* requests that can be closing a repair at once
  NONE,
  MAX_RETRIES,  \* 10 in the code
  MaxReports,   \* bound: reports by people
  MaxClosings,  \* bound: closings of repairs
  MaxFailures   \* bound: calls and requests that fail or die

ASSUME LoopAssumption ==
  /\ NONE \notin Event \cup Machine
  /\ MAX_RETRIES \in Nat \ {0}
  /\ MaxReports \in Nat /\ MaxClosings \in Nat /\ MaxFailures \in Nat

VARIABLES
  oops, locked_out,  \* MAC: the machines with the flag
  event,      \* MAC, per event: "unused", "owed" or "answered", and its machine
  activity,   \* machine_activity_events: the events recorded
  repair,     \* repair_records, in order of their ids: machine, and whether it is open
  handler,    \* per webhook handler: its step and event
  closer,     \* per closing request: its step and repair
  clear,      \* pending_notifications, the mac_clear rows in order of their ids
  worker,     \* the worker: its step and row
  reports, closings, failures,
  repaired,   \* history: events during whose delivery their machine had an open repair
  due,        \* history: machines whose last open repair was closed to unlock them
  lost,       \* history: machines whose unlocking died, or was given up
  overtaken   \* history: closings and mac_clear rows since which their machine got an
              \* open repair

mac == <<oops, locked_out>>
bounds == <<reports, closings, failures>>
history == <<repaired, due, lost, overtaken>>
vars ==
  <<mac, event, activity, repair, handler, closer, clear, worker, bounds, history>>

OpenRepairs(m) == {r \in DOMAIN repair : repair[r].machine = m /\ repair[r].open}

\* What is under way to unlock m: closings, and the rows they have queued.
Unlocking(m) ==
  {<<"closing", c>> : c \in {d \in Closer : /\ closer[d].step # "idle"
                                           /\ repair[closer[d].of].machine = m}}
    \cup {<<"row", i>> : i \in {j \in DOMAIN clear : /\ clear[j].status = "pending"
                                                     /\ clear[j].machine = m}}

\* The history of m getting an open repair.
UnderRepair(m) ==
  /\ repaired' =
       repaired \cup {v \in Event : event[v].state = "owed" /\ event[v].machine = m}
  /\ due' = due \ {m}
  /\ overtaken' = overtaken \cup Unlocking(m)

\* A new open repair of m.
Opened(m) ==
  /\ repair' = Append(repair, [machine |-> m, open |-> TRUE])
  /\ UnderRepair(m)

Idle == [step |-> "idle", of |-> NONE]

Init ==
  /\ oops = {} /\ locked_out = {}
  /\ event = [v \in Event |-> [state |-> "unused", machine |-> NONE]]
  /\ activity = {}
  /\ repair = <<>>
  /\ handler = [h \in Handler |-> Idle]
  /\ closer = [c \in Closer |-> Idle]
  /\ clear = <<>>
  /\ worker = Idle
  /\ reports = 0 /\ closings = 0 /\ failures = 0
  /\ repaired = {} /\ due = {} /\ lost = {} /\ overtaken = {}

-----------------------------------------------------------------------------
(* The machine.                                                            *)

\* A member presses oops, or staff does on the equipment page (set_oops).
PressOops(m) ==
  \E v \in Event :
    /\ event[v].state = "unused"
    /\ event' = [event EXCEPT ![v] = [state |-> "owed", machine |-> m]]
    /\ oops' = oops \cup {m}
    /\ repaired' = repaired \cup {w \in {v} : OpenRepairs(m) # {}}
    /\ UNCHANGED <<locked_out, activity, repair, handler, closer, clear, worker,
                   bounds, due, lost, overtaken>>

\* Staff locks the machine out (set_lockout).
LockOut(m) ==
  /\ m \notin locked_out
  /\ locked_out' = locked_out \cup {m}
  /\ due' = due \ {m}
  /\ UNCHANGED <<oops, event, activity, repair, handler, closer, clear, worker,
                 bounds, repaired, lost, overtaken>>

-----------------------------------------------------------------------------
(* The webhook handler (views/webhooks.py, mac_status).                    *)

MoveHandler(h, step, v) == handler' = [handler EXCEPT ![h] = [step |-> step, of |-> v]]

\* Mutant: a delivery whose activity is already recorded is answered at once.
ReceiveDeduped(h) ==
  \E v \in Event :
    /\ handler[h].step = "idle" /\ event[v].state = "owed"
    /\ activity' = activity \cup {v}
    /\ MoveHandler(h, IF v \in activity THEN "answer" ELSE "guard", v)
    /\ UNCHANGED <<mac, event, repair, closer, clear, worker, bounds, history>>

\* A delivery: the status and the activity are recorded, the activity once per event.
Receive(h) ==
  \E v \in Event :
    /\ handler[h].step = "idle" /\ event[v].state = "owed"
    /\ activity' = activity \cup {v}
    /\ MoveHandler(h, "guard", v)
    /\ UNCHANGED <<mac, event, repair, closer, clear, worker, bounds, history>>

\* Mutant: any repair of the machine will do, closed or not.
GuardAnyRepair(h) ==
  LET v == handler[h].of
      known == {r \in DOMAIN repair : repair[r].machine = event[v].machine}
  IN  /\ handler[h].step = "guard"
      /\ MoveHandler(h, IF known = {} THEN "create" ELSE "answer", v)
      /\ UNCHANGED <<mac, event, activity, repair, closer, clear, worker, bounds,
                     history>>

\* maybe_create_oops_repair looks for an open repair.
Guard(h) ==
  LET v == handler[h].of IN
  /\ handler[h].step = "guard"
  /\ IF OpenRepairs(event[v].machine) = {} THEN MoveHandler(h, "create", v)
                                           ELSE MoveHandler(h, "answer", v)
  /\ UNCHANGED <<mac, event, activity, repair, closer, clear, worker, bounds,
                 history>>

\* It found none, and creates one.
CreateRepair(h) ==
  LET v == handler[h].of IN
  /\ handler[h].step = "create"
  /\ Opened(event[v].machine)
  /\ MoveHandler(h, "answer", v)
  /\ UNCHANGED <<mac, event, activity, closer, clear, worker, bounds, lost>>

\* 204: MAC is satisfied.
Answer(h) ==
  /\ handler[h].step = "answer"
  /\ event' = [event EXCEPT ![handler[h].of].state = "answered"]
  /\ MoveHandler(h, "idle", NONE)
  /\ UNCHANGED <<mac, activity, repair, closer, clear, worker, bounds, history>>

Failing == failures < MaxFailures /\ failures' = failures + 1

\* Anything raises (500), the process dies, or the answer is lost: MAC tries again.
HandlerFails(h) ==
  /\ handler[h].step # "idle"
  /\ Failing
  /\ MoveHandler(h, "idle", NONE)
  /\ UNCHANGED <<mac, event, activity, repair, closer, clear, worker, reports,
                 closings, history>>

-----------------------------------------------------------------------------
(* People and repairs.                                                     *)

MoveCloser(c, step, r) == closer' = [closer EXCEPT ![c] = [step |-> step, of |-> r]]

\* A report.
Report(m) ==
  /\ reports < MaxReports /\ reports' = reports + 1
  /\ Opened(m)
  /\ UNCHANGED <<mac, event, activity, handler, closer, clear, worker, closings,
                 failures, lost>>

\* An edit opens a closed repair again.
Reopen(r) ==
  /\ ~repair[r].open
  /\ repair' = [repair EXCEPT ![r].open = TRUE]
  /\ UnderRepair(repair[r].machine)
  /\ UNCHANGED <<mac, event, activity, handler, closer, clear, worker, bounds, lost>>

\* Closing commits with a status that unlocks, or as a duplicate, which does not.
Close(c, r) ==
  LET m == repair[r].machine IN
  /\ closer[c].step = "idle" /\ repair[r].open
  /\ closings < MaxClosings /\ closings' = closings + 1
  /\ repair' = [repair EXCEPT ![r].open = FALSE]
  /\ \/ /\ MoveCloser(c, "check", r)
        /\ due' = due \cup {n \in {m} : OpenRepairs(m) = {r}}
     \/ UNCHANGED <<closer, due>>
  /\ overtaken' = overtaken \ {<<"closing", c>>}
  /\ UNCHANGED <<mac, event, activity, handler, clear, worker, reports, failures,
                 repaired, lost>>

\* Mutant: the machine's other repairs are not looked at.
CheckNothing(c) ==
  /\ closer[c].step = "check"
  /\ MoveCloser(c, "queue", closer[c].of)
  /\ UNCHANGED <<mac, event, activity, repair, handler, clear, worker, bounds, history>>

\* _maybe_queue_mac_clear reads the machine's other repairs.
Check(c) ==
  LET r == closer[c].of
      others == OpenRepairs(repair[r].machine) \ {r}
  IN  /\ closer[c].step = "check"
      /\ IF others = {} THEN MoveCloser(c, "queue", r) ELSE MoveCloser(c, "idle", NONE)
      /\ UNCHANGED <<mac, event, activity, repair, handler, clear, worker, bounds,
                     history>>

\* It found none open, and queues the unlocking.
QueueClear(c) ==
  /\ closer[c].step = "queue"
  /\ clear' = Append(clear, [status |-> "pending", retry_count |-> 0,
                             machine |-> repair[closer[c].of].machine])
  /\ MoveCloser(c, "idle", NONE)
  /\ overtaken' =
       overtaken \cup {<<"row", i>> : i \in {j \in {Len(clear')} : <<"closing", c>> \in overtaken}}
  /\ UNCHANGED <<mac, event, activity, repair, handler, worker, bounds, repaired, due,
                 lost>>

CloserDies(c) ==
  /\ closer[c].step # "idle"
  /\ Failing
  /\ lost' = lost \cup {repair[closer[c].of].machine}
  /\ MoveCloser(c, "idle", NONE)
  /\ UNCHANGED <<mac, event, activity, repair, handler, clear, worker, reports,
                 closings, repaired, due, overtaken>>

-----------------------------------------------------------------------------
(* The worker delivers a mac_clear row: mac_service.clear, two calls.      *)

MoveWorker(step, i) == worker' = [step |-> step, of |-> i]

Take(i) ==
  /\ worker.step = "idle" /\ clear[i].status = "pending"
  /\ MoveWorker("clear_oops", i)
  /\ UNCHANGED <<mac, event, activity, repair, handler, closer, clear, bounds,
                 history>>

\* Mutant: the second call is left out.
ClearOopsOnly ==
  /\ worker.step = "clear_oops"
  /\ oops' = oops \ {clear[worker.of].machine}
  /\ MoveWorker("mark", worker.of)
  /\ UNCHANGED <<locked_out, event, activity, repair, handler, closer, clear, bounds,
                 history>>

ClearOops ==
  /\ worker.step = "clear_oops"
  /\ oops' = oops \ {clear[worker.of].machine}
  /\ MoveWorker("clear_lockout", worker.of)
  /\ UNCHANGED <<locked_out, event, activity, repair, handler, closer, clear, bounds,
                 history>>

ClearLockout ==
  /\ worker.step = "clear_lockout"
  /\ locked_out' = locked_out \ {clear[worker.of].machine}
  /\ MoveWorker("mark", worker.of)
  /\ UNCHANGED <<oops, event, activity, repair, handler, closer, clear, bounds,
                 history>>

\* Mutant: a call that failed counts as delivered.
FailedDelivered(row) ==
  [row EXCEPT !.retry_count = @ + 1, !.status = "delivered"]

\* mark_failed
Failed(row) ==
  [row EXCEPT !.retry_count = @ + 1,
              !.status = IF row.retry_count + 1 >= MAX_RETRIES THEN "failed" ELSE @]

\* One of the two calls has its effect or not, and raises.
ClearRaises ==
  LET i == worker.of
      m == clear[i].machine
  IN  /\ worker.step \in {"clear_oops", "clear_lockout"}
      /\ Failing
      /\ \/ UNCHANGED mac
         \/ worker.step = "clear_oops" /\ oops' = oops \ {m} /\ UNCHANGED locked_out
         \/ worker.step = "clear_lockout" /\ locked_out' = locked_out \ {m} /\ UNCHANGED oops
      /\ clear' = [clear EXCEPT ![i] = Failed(@)]
      /\ lost' = lost \cup {n \in {m} : Failed(clear[i]).status = "failed"}
      /\ MoveWorker("idle", NONE)
      /\ UNCHANGED <<event, activity, repair, handler, closer, reports, closings,
                     repaired, due, overtaken>>

\* mark_delivered
MarkDelivered ==
  /\ worker.step = "mark"
  /\ clear' = [clear EXCEPT ![worker.of].status = "delivered"]
  /\ MoveWorker("idle", NONE)
  /\ UNCHANGED <<mac, event, activity, repair, handler, closer, bounds, history>>

\* Killed and started again; the row is still pending.
WorkerRestarts ==
  /\ worker.step # "idle"
  /\ Failing
  /\ MoveWorker("idle", NONE)
  /\ UNCHANGED <<mac, event, activity, repair, handler, closer, clear, reports,
                 closings, history>>

\* Staff presses Clear: the same two calls from a web request.
StaffClears(m) ==
  /\ m \in oops \cup locked_out
  /\ oops' = oops \ {m}
  /\ locked_out' \in {locked_out \ {m}, locked_out}
  /\ UNCHANGED <<event, activity, repair, handler, closer, clear, worker, bounds,
                 history>>

-----------------------------------------------------------------------------
HandlerStep(h) == Receive(h) \/ Guard(h) \/ CreateRepair(h) \/ Answer(h)
CloserStep(c) == Check(c) \/ QueueClear(c)
WorkerStep ==
  (\E i \in DOMAIN clear : Take(i)) \/ ClearOops \/ ClearLockout \/ MarkDelivered

Next ==
  \/ \E m \in Machine : PressOops(m) \/ LockOut(m) \/ Report(m) \/ StaffClears(m)
  \/ \E r \in DOMAIN repair : Reopen(r) \/ \E c \in Closer : Close(c, r)
  \/ \E h \in Handler : HandlerStep(h) \/ HandlerFails(h)
  \/ \E c \in Closer : CloserStep(c) \/ CloserDies(c)
  \/ WorkerStep \/ ClearRaises \/ WorkerRestarts

\* MAC keeps delivering, requests and the worker go on.
Fairness ==
  /\ \A h \in Handler : WF_vars(HandlerStep(h))
  /\ \A c \in Closer : WF_vars(CloserStep(c))
  /\ WF_vars(WorkerStep)

Spec == Init /\ [][Next]_vars /\ Fairness

-----------------------------------------------------------------------------
TypeOK ==
  /\ oops \subseteq Machine /\ locked_out \subseteq Machine
  /\ activity \subseteq Event /\ repaired \subseteq Event
  /\ due \subseteq Machine /\ lost \subseteq Machine
  /\ \A v \in Event : event[v].state = "unused" <=> event[v].machine \notin Machine
  /\ repair \in Seq([machine : Machine, open : BOOLEAN])
  /\ clear \in Seq([status : {"pending", "delivered", "failed"},
                    machine : Machine, retry_count : 0..MAX_RETRIES])
  /\ \A i \in DOMAIN clear :
       clear[i].status = "failed" <=> clear[i].retry_count = MAX_RETRIES
  /\ worker.step # "idle" => clear[worker.of].status = "pending"

\* MAC is told that an oops is taken care of only if its machine had an open repair at
\* some time since: whatever fails between the activity log and the repair, whatever
\* delivery of the same event came first.
AnsweredMeansRepaired ==
  \A v \in Event : event[v].state = "answered" => v \in repaired

\* A machine is unlocked as it was decided when its last open repair was closed: it has
\* none open, unless one was opened since that closing, whatever was closed and checked
\* meanwhile and however often the row was tried.
UnlockedOnlyAsDecided ==
  [][ClearOops \/ ClearLockout =>
       \/ OpenRepairs(clear[worker.of].machine) = {}
       \/ <<"row", worker.of>> \in overtaken]_vars

\* Why DueIsUnlocked: a machine that is due has no open repair, and until it is unlocked
\* there is a closing or a row that will unlock it, or a press of oops that will bring a
\* repair, or its loss is on record.
DueIsUnderWay ==
  \A m \in due :
    /\ OpenRepairs(m) = {}
    /\ \/ m \in lost \/ m \notin oops \cup locked_out
       \/ Unlocking(m) # {}
       \/ \E v \in Event \ repaired : event[v].state = "owed" /\ event[v].machine = m

\* Every oops has its machine under repair in the end.
OopsBringsRepair ==
  \A v \in Event : event[v].state = "owed" ~> v \in repaired

\* A machine whose last open repair was closed to unlock it is unlocked in the end,
\* unless a new repair comes in, staff locks it out, the request that closed the repair
\* died or the worker gave up.
DueIsUnlocked ==
  \A m \in Machine :
    m \in due ~> m \notin due \/ m \notin oops \cup locked_out \/ m \in lost

-----------------------------------------------------------------------------
(* What the documentation says of the loop, and its races refute.          *)

\* _maybe_queue_mac_clear: its conditions "prevent physically unlocking a machine
\* whose real repair is still open".
NotUnlockedWhileOpen ==
  [][ClearOops \/ ClearLockout => OpenRepairs(clear[worker.of].machine) = {}]_vars

\* staff.md: an oops opens a repair "if one isn't already open".
OopsRepairsOnlyOnce ==
  [][\A h \in Handler :
       CreateRepair(h) => OpenRepairs(event[handler[h].of].machine) = {}]_vars
=============================================================================

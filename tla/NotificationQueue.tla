-------------------------- MODULE NotificationQueue --------------------------
(***************************************************************************)
(* The table pending_notifications and the worker that drains it           *)
(* (esb/services/notification_service.py, run_worker_loop).  Web requests  *)
(* and the worker itself insert rows; only the worker, one process, changes*)
(* them.  It polls for the rows that are due, and for each one calls the   *)
(* external system and then commits what came of it, so that a crash, a    *)
(* restart or a database error can fall between the two.                   *)
(*                                                                         *)
(* What a row says (its type, target and payload) is left out: each call   *)
(* works, or raises with or without having had its effect.  Ids follow     *)
(* created_at.                                                             *)
(***************************************************************************)
EXTENDS Naturals, FiniteSets

CONSTANTS
  MaxRows,       \* bound: rows ever queued
  MAX_RETRIES,   \* 10 in the code
  BATCH_SIZE,    \* 100 in the code
  MaxStops,      \* bound: signals and crashes
  MaxDbErrors    \* bound: statements of the worker that fail

ASSUME QueueAssumption ==
  /\ MaxRows \in Nat /\ MaxStops \in Nat /\ MaxDbErrors \in Nat
  /\ MAX_RETRIES \in Nat \ {0} /\ BATCH_SIZE \in Nat \ {0}

Row == 1..MaxRows
None == 0

VARIABLES
  status,       \* per row: "none" (not inserted), "pending", "delivered", "failed"
  retry_count,
  waiting,      \* rows whose next_retry_at is still to come
  worker,       \* "down", "polling", "draining", and with a call behind it
                \* "succeeded" or "raised"
  batch,        \* the rows polled and not yet processed
  current,      \* the row just processed
  shutdown,     \* _shutdown: a signal came
  wedged,       \* the session refuses statements until a rollback nobody issues
  stops, dbErrors,
  calls,        \* history: calls made for each row
  unrecorded,   \* history: calls whose outcome was never committed
  sent,         \* history: calls that had their effect
  doubtful      \* history: those among them not recorded as deliveries

rows == <<status, retry_count, waiting>>
bounds == <<stops, dbErrors>>
history == <<calls, unrecorded, sent, doubtful>>
vars == <<rows, worker, batch, current, shutdown, wedged, bounds, history>>

Init ==
  /\ status = [i \in Row |-> "none"]
  /\ retry_count = [i \in Row |-> 0]
  /\ waiting = {}
  /\ worker = "down" /\ batch = {} /\ current = None
  /\ shutdown = FALSE /\ wedged = FALSE
  /\ stops = 0 /\ dbErrors = 0
  /\ calls = [i \in Row |-> 0] /\ unrecorded = [i \in Row |-> 0]
  /\ sent = [i \in Row |-> 0] /\ doubtful = [i \in Row |-> 0]

-----------------------------------------------------------------------------
(* The table.                                                              *)

\* queue_notification, by anyone, at any time.
Queue(i) ==
  /\ status[i] = "none"
  /\ \A j \in 1..(i - 1) : status[j] # "none"
  /\ status' = [status EXCEPT ![i] = "pending"]
  /\ UNCHANGED <<retry_count, waiting, worker, batch, current, shutdown, wedged,
                 bounds, history>>

\* The next_retry_at of row i passes.
BackoffPasses(i) ==
  /\ i \in waiting
  /\ waiting' = waiting \ {i}
  /\ UNCHANGED <<status, retry_count, worker, batch, current, shutdown, wedged,
                 bounds, history>>

\* Mutant: only rows without a next_retry_at are taken.
DueFirstTime ==
  {i \in Row : status[i] = "pending" /\ i \notin waiting /\ retry_count[i] = 0}

Due == {i \in Row : status[i] = "pending" /\ i \notin waiting}

\* get_pending_notifications: the oldest BATCH_SIZE of the rows that are due.
Polled == {i \in Due : Cardinality({j \in Due : j < i}) < BATCH_SIZE}

\* Mutant: delivered_at is set and the status is not.
DeliveredNotMarked(i) == UNCHANGED rows /\ i \in Row

\* mark_delivered(i)
Delivered(i) ==
  /\ status' = [status EXCEPT ![i] = "delivered"]
  /\ UNCHANGED <<retry_count, waiting>>

\* Mutant: one retry too many.
FailedOneMore(i) ==
  /\ retry_count' = [retry_count EXCEPT ![i] = @ + 1]
  /\ IF retry_count[i] + 1 > MAX_RETRIES
       THEN status' = [status EXCEPT ![i] = "failed"] /\ UNCHANGED waiting
       ELSE waiting' = waiting \cup {i} /\ UNCHANGED status

\* Mutant: the last failure also sets a next_retry_at.
FailedStillWaiting(i) ==
  /\ retry_count' = [retry_count EXCEPT ![i] = @ + 1]
  /\ status' = [status EXCEPT ![i] = IF retry_count[i] + 1 >= MAX_RETRIES
                                       THEN "failed" ELSE @]
  /\ waiting' = waiting \cup {i}

\* mark_failed(i): another retry after a backoff, or none.
Failed(i) ==
  /\ retry_count' = [retry_count EXCEPT ![i] = @ + 1]
  /\ IF retry_count[i] + 1 >= MAX_RETRIES
       THEN status' = [status EXCEPT ![i] = "failed"] /\ UNCHANGED waiting
       ELSE waiting' = waiting \cup {i} /\ UNCHANGED status

Recorded(i) ==
  \/ worker = "succeeded" /\ Delivered(i)
  \/ worker = "raised" /\ Failed(i)

-----------------------------------------------------------------------------
(* The worker.                                                             *)

\* A new process; restart: unless-stopped, or autoheal, or an operator.
Start ==
  /\ worker = "down"
  /\ worker' = "polling"
  /\ UNCHANGED <<rows, batch, current, shutdown, wedged, bounds, history>>

Poll ==
  /\ worker = "polling" /\ ~shutdown /\ ~wedged
  /\ worker' = "draining"
  /\ batch' = Polled
  /\ UNCHANGED <<rows, current, shutdown, wedged, bounds, history>>

\* process_notification returns, or raises before or after the effect.
Process(i) ==
  /\ worker = "draining" /\ ~shutdown
  /\ i \in batch /\ \A j \in batch : i <= j
  /\ batch' = batch \ {i}
  /\ current' = i
  /\ calls' = [calls EXCEPT ![i] = @ + 1]
  /\ \/ /\ worker' = "succeeded"
        /\ sent' = [sent EXCEPT ![i] = @ + 1]
        /\ UNCHANGED doubtful
     \/ /\ worker' = "raised"
        /\ UNCHANGED <<sent, doubtful>>
     \/ /\ worker' = "raised"
        /\ sent' = [sent EXCEPT ![i] = @ + 1]
        /\ doubtful' = [doubtful EXCEPT ![i] = @ + 1]
  /\ UNCHANGED <<rows, shutdown, wedged, bounds, unrecorded>>

\* mark_delivered or mark_failed, each a transaction of its own.
Mark ==
  /\ ~wedged
  /\ Recorded(current)
  /\ worker' = "draining"
  /\ current' = None
  /\ UNCHANGED <<batch, shutdown, wedged, bounds, history>>

\* The batch is done, or broken off after a signal; the rest of the iteration (the
\* metric, the MAC cache, the hourly reservation page) rolls back what fails in it.
EndIteration ==
  /\ worker = "draining"
  /\ batch = {} \/ shutdown
  /\ worker' = "polling"
  /\ batch' = {}
  /\ UNCHANGED <<rows, current, shutdown, wedged, bounds, history>>

\* The process has gone, with what it had in memory.
Gone ==
  /\ worker' = "down" /\ batch' = {} /\ current' = None
  /\ shutdown' = FALSE /\ wedged' = FALSE

\* `while not _shutdown' ends.
Leave ==
  /\ worker = "polling" /\ shutdown
  /\ Gone
  /\ UNCHANGED <<rows, bounds, history>>

-----------------------------------------------------------------------------
(* What interrupts it.                                                     *)

\* The outcome of the current call is lost.
Forgotten ==
  /\ unrecorded' = [i \in Row |-> IF i = current THEN unrecorded[i] + 1
                                  ELSE unrecorded[i]]
  /\ doubtful' = [i \in Row |-> IF i = current /\ worker = "succeeded"
                                  THEN doubtful[i] + 1 ELSE doubtful[i]]
  /\ UNCHANGED <<calls, sent>>

\* SIGTERM or SIGINT: the handler sets a flag the loop tests between rows.
Signal ==
  /\ worker # "down" /\ ~shutdown
  /\ stops < MaxStops /\ stops' = stops + 1
  /\ shutdown' = TRUE
  /\ UNCHANGED <<rows, worker, batch, current, wedged, dbErrors, history>>

\* The process is killed, also by autoheal when a call hangs and the heartbeat is old.
Crash ==
  /\ worker # "down"
  /\ stops < MaxStops /\ stops' = stops + 1
  /\ Gone
  /\ Forgotten
  /\ UNCHANGED <<rows, dbErrors>>

DbError ==
  /\ ~wedged /\ dbErrors < MaxDbErrors
  /\ dbErrors' = dbErrors + 1
  /\ worker' = "polling"
  /\ batch' = {} /\ current' = None
  /\ UNCHANGED <<shutdown, stops>>

\* The poll fails.  The outer except clause sleeps and does not roll back: unless the
\* error left the session usable, every later poll of this process fails as well.
PollError ==
  /\ worker = "polling" /\ ~shutdown
  /\ DbError
  /\ wedged' \in BOOLEAN
  /\ UNCHANGED <<rows, history>>

\* Marking fails: mark_failed, called in turn, fails in the same session, and the
\* exception leaves the batch.  Nothing is committed, or the commit was made and only
\* its acknowledgement was lost.
MarkError ==
  /\ worker \in {"succeeded", "raised"}
  /\ DbError
  /\ wedged' = TRUE
  /\ \/ UNCHANGED rows /\ Forgotten
     \/ Recorded(current) /\ UNCHANGED history

\* No heartbeat for 180 s: the health check fails and autoheal restarts the container.
Autoheal ==
  /\ wedged
  /\ Gone
  /\ UNCHANGED <<rows, bounds, history>>

-----------------------------------------------------------------------------
WorkerStep ==
  \/ Start \/ Poll \/ Mark \/ EndIteration \/ Leave
  \/ \E i \in Row : Process(i)

Next ==
  \/ WorkerStep \/ Signal \/ Crash \/ PollError \/ MarkError \/ Autoheal
  \/ \E i \in Row : Queue(i) \/ BackoffPasses(i)

\* The worker's process runs and is started again (restart: unless-stopped), a wedged
\* one is noticed, and time passes.
Fairness ==
  /\ WF_vars(WorkerStep) /\ WF_vars(Autoheal)
  /\ \A i \in Row : WF_vars(BackoffPasses(i))

Spec == Init /\ [][Next]_vars /\ Fairness

-----------------------------------------------------------------------------
TypeOK ==
  /\ status \in [Row -> {"none", "pending", "delivered", "failed"}]
  /\ retry_count \in [Row -> 0..MAX_RETRIES]
  /\ waiting \subseteq {i \in Row : status[i] = "pending"}
  /\ worker \in {"down", "polling", "draining", "succeeded", "raised"}
  /\ batch \subseteq Due
  /\ current \in Row \cup {None}
  /\ shutdown \in BOOLEAN /\ wedged \in BOOLEAN
  /\ stops \in 0..MaxStops /\ dbErrors \in 0..MaxDbErrors
  /\ calls \in [Row -> Nat] /\ unrecorded \in [Row -> Nat]
  /\ sent \in [Row -> Nat] /\ doubtful \in [Row -> Nat]

\* A row is given up after exactly MAX_RETRIES recorded failures, and a call is made
\* at most MAX_RETRIES times for it, plus once for every call whose outcome a crash or
\* a database error kept from being recorded.
CallsBounded ==
  \A i \in Row :
    /\ status[i] = "failed" <=> retry_count[i] = MAX_RETRIES
    /\ calls[i] <= MAX_RETRIES + unrecorded[i]

\* Nobody is notified twice of one row, except when a call had its effect and the
\* worker could not know it or record it.
SentOnceUnlessDoubtful == \A i \in Row : sent[i] <= 1 + doubtful[i]

\* The queue delivers as NotificationDelivery promises: nothing is called delivered
\* that was not sent, nothing settled is sent again across restarts, and every row
\* is delivered or failed in the end.
Delivery == INSTANCE NotificationDelivery WITH
  state <- [i \in Row |-> CASE status[i] = "pending" -> "owed"
                            [] status[i] = "failed"  -> "abandoned"
                            [] OTHER                 -> status[i]]

ImplementsDelivery == Delivery!Spec
=============================================================================

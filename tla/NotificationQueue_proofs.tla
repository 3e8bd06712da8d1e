---------------------- MODULE NotificationQueue_proofs ----------------------
(***************************************************************************)
(* The safety of NotificationQueue, for any number of rows, retries, stops *)
(* and database errors, and that it implements the safety of               *)
(* NotificationDelivery.  Its liveness is checked by TLC only.             *)
(***************************************************************************)
EXTENDS NotificationQueue, TLAPS

InCall == worker \in {"succeeded", "raised"}

One(b) == IF b THEN 1 ELSE 0

\* The row of the current call is still pending and due, and not in the batch.
CurrentOK ==
  /\ current \in Row <=> InCall
  /\ current \in Row => current \in Due \ batch
  /\ worker \in {"down", "polling"} => batch = {}
  /\ wedged => worker = "polling"

RetriesOK ==
  \A i \in Row :
    /\ status[i] = "none" => retry_count[i] = 0
    /\ status[i] = "failed" <=> retry_count[i] = MAX_RETRIES

\* Every call is accounted for: recorded as a failure, as the delivery, lost, or the
\* current one.
CallsOK ==
  \A i \in Row :
    calls[i] = retry_count[i] + unrecorded[i]
                 + One(status[i] = "delivered") + One(i = current)

\* So is every sending; Known: it worked and the worker knows or the table says it.
Known(i) == status[i] = "delivered" \/ (i = current /\ worker = "succeeded")

SendingsOK ==
  \A i \in Row : /\ sent[i] <= doubtful[i] + One(Known(i))
                 /\ Known(i) => sent[i] > 0

IInv == TypeOK /\ CurrentOK /\ RetriesOK /\ CallsOK /\ SendingsOK

\* No call is no row.
LEMMA NoneIsNoRow == None \notin Row
  BY DEF None, Row

USE NoneIsNoRow

-----------------------------------------------------------------------------
(* The database writes of mark_delivered and mark_failed, which Mark and   *)
(* MarkError share.                                                        *)

\* Recording keeps the table well-formed, and gives up a row exactly when its retries
\* are used up.
LEMMA RecordedRows ==
  ASSUME TypeOK, CurrentOK, RetriesOK, InCall, Recorded(current)
  PROVE  /\ status' \in [Row -> {"none", "pending", "delivered", "failed"}]
         /\ retry_count' \in [Row -> 0..MAX_RETRIES]
         /\ waiting' \subseteq {i \in Row : status'[i] = "pending"}
         /\ \A j \in Row \ {current} : /\ status'[j] = status[j]
                                       /\ j \in waiting' <=> j \in waiting
         /\ RetriesOK'
<1>1. /\ current \in Row /\ status[current] = "pending" /\ current \notin waiting
      /\ retry_count[current] \in 0..(MAX_RETRIES - 1)
  BY QueueAssumption DEF TypeOK, CurrentOK, RetriesOK, Due
<1>2. CASE Delivered(current)
  BY <1>1, <1>2 DEF Delivered, TypeOK, RetriesOK
<1>3. CASE Failed(current)
  <2>1. /\ retry_count' = [retry_count EXCEPT ![current] = @ + 1]
        /\ retry_count[current] + 1 \in 0..MAX_RETRIES
    BY <1>1, <1>3, QueueAssumption DEF Failed
  <2>2. retry_count' \in [Row -> 0..MAX_RETRIES]
    BY <1>1, <2>1 DEF TypeOK
  <2>3. CASE retry_count[current] + 1 >= MAX_RETRIES
    <3>1. /\ status' = [status EXCEPT ![current] = "failed"] /\ waiting' = waiting
          /\ retry_count[current] + 1 = MAX_RETRIES
      BY <1>3, <2>1, <2>3, QueueAssumption DEF Failed
    <3>2. RetriesOK'
      BY <1>1, <2>1, <3>1 DEF TypeOK, RetriesOK
    <3> QED
      BY <1>1, <2>2, <3>1, <3>2 DEF TypeOK
  <2>4. CASE ~(retry_count[current] + 1 >= MAX_RETRIES)
    <3>1. /\ status' = status /\ waiting' = waiting \cup {current}
          /\ retry_count[current] + 1 # MAX_RETRIES
      BY <1>3, <2>1, <2>4, QueueAssumption DEF Failed
    <3>2. RetriesOK'
      BY <1>1, <2>1, <3>1 DEF TypeOK, RetriesOK
    <3> QED
      BY <1>1, <2>2, <3>1, <3>2 DEF TypeOK
  <2> QED
    BY <2>3, <2>4
<1> QED
  BY <1>2, <1>3 DEF Recorded

\* Recording turns the current call into a failure or the delivery, whichever it was.
LEMMA RecordedCall ==
  ASSUME TypeOK, CurrentOK, RetriesOK, InCall, Recorded(current), NEW i \in Row
  PROVE  /\ retry_count'[i] + One(status'[i] = "delivered")
              = retry_count[i] + One(status[i] = "delivered") + One(i = current)
         /\ status'[i] = "delivered"
              <=> status[i] = "delivered" \/ (i = current /\ worker = "succeeded")
<1>1. current \in Row /\ status[current] = "pending"
  BY DEF CurrentOK, Due
<1>2. retry_count[i] \in Nat
  BY QueueAssumption DEF TypeOK
<1>3. CASE worker = "succeeded" /\ Delivered(current)
  BY <1>1, <1>2, <1>3 DEF Delivered, TypeOK, One
<1>4. CASE worker = "raised" /\ Failed(current)
  <2>1. /\ retry_count' = [retry_count EXCEPT ![current] = @ + 1]
        /\ status' \in {status, [status EXCEPT ![current] = "failed"]}
    BY <1>4 DEF Failed
  <2>2. status'[i] = "delivered" <=> status[i] = "delivered"
    BY <1>1, <2>1 DEF TypeOK
  <2>3. retry_count'[i] = retry_count[i] + One(i = current)
    BY <1>1, <1>2, <2>1 DEF TypeOK, One
  <2>4. One(i = current) \in Nat
    BY DEF One
  <2> QED
    BY <1>2, <1>4, <2>2, <2>3, <2>4 DEF One
<1> QED
  BY <1>3, <1>4 DEF Recorded

-----------------------------------------------------------------------------
(* One lemma per part of the invariant: first the steps that disturb it,   *)
(* then those that leave alone what it speaks of.                          *)

\* A row in a call is still pending, so its retries are not used up.
LEMMA TypeStep ==
  ASSUME TypeOK, CurrentOK, RetriesOK, [Next]_vars PROVE TypeOK'
<1>1. CASE Start
  BY <1>1, QueueAssumption DEF Start, TypeOK, Due, rows, bounds, history
<1>2. CASE Poll
  BY <1>2 DEF Poll, Polled, TypeOK, Due, rows, bounds, history
<1>3. ASSUME NEW i \in Row, Process(i) PROVE TypeOK'
  <2>1. Due' = Due /\ rows' = rows
    BY <1>3 DEF Process, Due, rows
  <2> QED
    BY <1>3, <2>1, QueueAssumption DEF Process, TypeOK, rows, bounds, history
<1>4. CASE Mark
  <2>1. Recorded(current) /\ InCall
    BY <1>4 DEF Mark, Recorded, InCall
  <2>2. batch' \subseteq Due'
    BY <1>4, <2>1, RecordedRows DEF Mark, TypeOK, CurrentOK, Due
  <2> QED
    BY <1>4, <2>1, <2>2, RecordedRows DEF Mark, TypeOK, bounds, history
<1>5. CASE EndIteration
  BY <1>5, QueueAssumption DEF EndIteration, TypeOK, Due, rows, bounds,
      history
<1>6. CASE Leave
  BY <1>6, QueueAssumption DEF Leave, Gone, TypeOK, Due, rows, bounds,
      history
<1>7. CASE Signal
  <2>1. Due' = Due /\ rows' = rows
    BY <1>7 DEF Signal, Due, rows
  <2> QED
    BY <1>7, <2>1, QueueAssumption DEF Signal, TypeOK, rows, bounds, history
<1>8. CASE Crash
  <2>1. Due' = Due /\ rows' = rows
    BY <1>8 DEF Crash, Gone, Forgotten, Due, rows
  <2>2. /\ unrecorded' \in [Row -> Nat] /\ doubtful' \in [Row -> Nat]
        /\ calls' = calls /\ sent' = sent
    BY <1>8 DEF Crash, Forgotten, TypeOK
  <2>3. stops' \in 0..MaxStops /\ dbErrors' = dbErrors
    BY <1>8, QueueAssumption DEF Crash, TypeOK
  <2> QED
    BY <1>8, <2>1, <2>2, <2>3 DEF Crash, Gone, TypeOK, rows
<1>9. CASE PollError
  <2>1. Due' = Due /\ rows' = rows
    BY <1>9 DEF PollError, DbError, Due, rows
  <2> QED
    BY <1>9, <2>1, QueueAssumption DEF PollError, DbError, TypeOK, rows, bounds, history
<1>10. CASE MarkError
  <2>1. CASE UNCHANGED rows /\ Forgotten
    BY <1>10, <2>1, QueueAssumption DEF MarkError, DbError, Forgotten, TypeOK, Due, rows
  <2>2. CASE Recorded(current) /\ UNCHANGED history
    <3>1. InCall
      BY <1>10 DEF MarkError, InCall
    <3>2. /\ worker' = "polling" /\ batch' = {} /\ current' = None
          /\ shutdown' \in BOOLEAN /\ wedged' \in BOOLEAN
          /\ stops' \in 0..MaxStops /\ dbErrors' \in 0..MaxDbErrors
      BY <1>10, QueueAssumption DEF MarkError, DbError, TypeOK
    <3> QED
      BY <2>2, <3>1, <3>2, RecordedRows DEF TypeOK, history, Due
  <2> QED
    BY <1>10, <2>1, <2>2 DEF MarkError
<1>11. CASE Autoheal
  BY <1>11, QueueAssumption DEF Autoheal, Gone, TypeOK, Due, rows,
      bounds, history
<1>12. ASSUME NEW i \in Row, Queue(i) PROVE TypeOK'
  BY <1>12, QueueAssumption DEF Queue, TypeOK, Due, rows, bounds,
      history
<1>13. ASSUME NEW i \in Row, BackoffPasses(i) PROVE TypeOK'
  BY <1>13, QueueAssumption DEF BackoffPasses, TypeOK, Due, rows,
      bounds, history
<1>14. CASE UNCHANGED vars
  BY <1>14 DEF TypeOK, Due, vars, rows, bounds, history
<1> QED
  BY <1>1, <1>2, <1>3, <1>4, <1>5, <1>6, <1>7, <1>8, <1>9, <1>10, <1>11,
      <1>12, <1>13, <1>14 DEF Next, WorkerStep, vars, rows, bounds, history

\* The row of a call stays pending and due until the call is marked or forgotten.
LEMMA CurrentStep ==
  ASSUME TypeOK, CurrentOK, [Next]_vars PROVE CurrentOK'
<1>1. ASSUME NEW i \in Row, Process(i) PROVE CurrentOK'
  <2>1. i \in Due \ batch' /\ current' = i /\ i \in Row
    BY <1>1 DEF Process, TypeOK
  <2>2. Due' = Due
    BY <1>1 DEF Process, Due, rows
  <2> QED
    BY <1>1, <2>1, <2>2 DEF Process, CurrentOK, InCall
<1>2. ASSUME NEW i \in Row, Queue(i) PROVE CurrentOK'
  <2>1. Due \subseteq Due'
    BY <1>2 DEF Queue, Due, TypeOK
  <2> QED
    BY <1>2, <2>1 DEF Queue, CurrentOK, InCall
<1>3. ASSUME NEW i \in Row, BackoffPasses(i) PROVE CurrentOK'
  <2>1. Due \subseteq Due'
    BY <1>3 DEF BackoffPasses, Due
  <2> QED
    BY <1>3, <2>1 DEF BackoffPasses, CurrentOK, InCall
<1>4. CASE Start
  BY <1>4, QueueAssumption DEF Start, CurrentOK, InCall, Due, rows, bounds,
      history
<1>5. CASE Poll
  BY <1>5, QueueAssumption DEF Poll, CurrentOK, InCall, Due, rows, bounds,
      history
<1>6. CASE Mark
  BY <1>6, QueueAssumption DEF Mark, CurrentOK, InCall, Due, rows, bounds,
      history
<1>7. CASE EndIteration
  BY <1>7, QueueAssumption DEF EndIteration, CurrentOK, InCall, Due, rows,
      bounds, history
<1>8. CASE Leave
  BY <1>8, QueueAssumption DEF Leave, Gone, CurrentOK, InCall, Due, rows,
      bounds, history
<1>9. CASE Crash
  BY <1>9, QueueAssumption DEF Crash, Gone, Forgotten, CurrentOK, InCall, Due,
      rows, bounds, history
<1>10. CASE PollError
  BY <1>10, QueueAssumption DEF PollError, DbError, CurrentOK, InCall, Due,
      rows, bounds, history
<1>11. CASE MarkError
  BY <1>11, QueueAssumption DEF MarkError, DbError, Forgotten, CurrentOK,
      InCall, Due, rows, bounds, history
<1>12. CASE Autoheal
  BY <1>12, QueueAssumption DEF Autoheal, Gone, CurrentOK, InCall, Due, rows,
      bounds, history
<1>13. CASE UNCHANGED <<status, waiting, worker, batch, current, wedged>>
  BY <1>13 DEF CurrentOK, InCall, Due, rows
<1> QED
  BY <1>1, <1>2, <1>3, <1>4, <1>5, <1>6, <1>7, <1>8, <1>9, <1>10, <1>11,
      <1>12, <1>13 DEF Next, WorkerStep, vars, rows, bounds, history, Signal

\* A row fails exactly when its retries are used up.
LEMMA RetriesStep ==
  ASSUME TypeOK, CurrentOK, RetriesOK, [Next]_vars PROVE RetriesOK'
<1>1. ASSUME NEW i \in Row, Queue(i) PROVE RetriesOK'
  BY <1>1, QueueAssumption DEF Queue, RetriesOK, TypeOK, rows, bounds, history
<1>2. CASE Mark
  BY <1>2, RecordedRows DEF Mark, Recorded, InCall
<1>3. CASE MarkError
  <2>1. CASE UNCHANGED rows
    BY <2>1 DEF RetriesOK, rows
  <2>2. CASE Recorded(current)
    BY <1>3, <2>2, RecordedRows DEF MarkError, InCall
  <2> QED
    BY <1>3, <2>1, <2>2 DEF MarkError
<1>4. CASE UNCHANGED <<status, retry_count>>
  BY <1>4 DEF RetriesOK, TypeOK, rows
<1> QED
  BY <1>1, <1>2, <1>3, <1>4 DEF Next, WorkerStep, vars, rows, bounds, history,
      Start, Poll, EndIteration, Leave, Gone, Process, Signal, Crash,
      Forgotten, PollError, DbError, Autoheal, BackoffPasses

\* No call goes unaccounted for.
LEMMA CallsStep ==
  ASSUME TypeOK, CurrentOK, RetriesOK, CallsOK, [Next]_vars PROVE CallsOK'
<1>1. ASSUME NEW i \in Row, Queue(i) PROVE CallsOK'
  BY <1>1, QueueAssumption DEF Queue, CallsOK, TypeOK, One, rows, bounds,
      history
<1>2. ASSUME NEW i \in Row, Process(i) PROVE CallsOK'
  <2>1. current = None /\ i # None
    BY <1>2 DEF Process, CurrentOK, InCall, TypeOK
  <2>2. calls[i] \in Nat /\ retry_count[i] \in Nat /\ unrecorded[i] \in Nat
    BY QueueAssumption DEF TypeOK
  <2> QED
    BY <1>2, <2>1, <2>2 DEF Process, CallsOK, One, TypeOK, rows
<1>3. CASE Mark
  <2>1. Recorded(current) /\ InCall /\ current' = None
    BY <1>3 DEF Mark, Recorded, InCall
  <2> SUFFICES ASSUME NEW i \in Row
               PROVE  calls'[i] = retry_count'[i] + unrecorded'[i]
                        + One(status'[i] = "delivered") + One(i = current')
    BY DEF CallsOK
  <2>2. /\ retry_count[i] \in Nat /\ calls[i] \in Nat /\ unrecorded[i] \in Nat
    BY QueueAssumption DEF TypeOK
  <2>3. retry_count'[i] \in Nat
    BY <2>1, RecordedRows, QueueAssumption
  <2> QED
    BY <1>3, <2>1, <2>2, <2>3, RecordedCall DEF Mark, CallsOK, One, history
<1>4. CASE Crash
  <2> SUFFICES ASSUME NEW i \in Row
               PROVE  calls'[i] = retry_count'[i] + unrecorded'[i]
                        + One(status'[i] = "delivered") + One(i = current')
    BY DEF CallsOK
  <2>1. /\ retry_count[i] \in Nat /\ calls[i] \in Nat /\ unrecorded[i] \in Nat
    BY QueueAssumption DEF TypeOK
  <2> QED
    BY <1>4, <2>1 DEF Crash, Gone, Forgotten, CallsOK, One, rows
<1>5. CASE MarkError
  <2> SUFFICES ASSUME NEW i \in Row
               PROVE  calls'[i] = retry_count'[i] + unrecorded'[i]
                        + One(status'[i] = "delivered") + One(i = current')
    BY DEF CallsOK
  <2>1. /\ retry_count[i] \in Nat /\ calls[i] \in Nat /\ unrecorded[i] \in Nat
        /\ current' = None /\ InCall
    BY <1>5, QueueAssumption DEF TypeOK, MarkError, DbError, InCall
  <2>2. CASE UNCHANGED rows /\ Forgotten
    BY <2>1, <2>2 DEF Forgotten, CallsOK, One, rows
  <2>3. CASE Recorded(current) /\ UNCHANGED history
    <3>1. retry_count'[i] \in Nat
      BY <2>1, <2>3, RecordedRows, QueueAssumption
    <3> QED
      BY <2>1, <2>3, <3>1, RecordedCall DEF CallsOK, One, history
  <2> QED
    BY <1>5, <2>2, <2>3 DEF MarkError
<1>6. CASE UNCHANGED <<status, retry_count, calls, unrecorded, current>>
  BY <1>6 DEF CallsOK, One
<1>7. CASE Leave \/ PollError \/ Autoheal
  <2>1. current \notin Row /\ current' \notin Row
    BY <1>7 DEF CurrentOK, InCall, Leave, PollError, Autoheal, Gone, DbError, TypeOK
  <2> QED
    BY <1>7, <2>1
       DEF CallsOK, One, Leave, PollError, Autoheal, Gone, DbError, rows, history
<1> QED
  BY <1>1, <1>2, <1>3, <1>4, <1>5, <1>6, <1>7
     DEF Next, WorkerStep, vars, rows, history, Start, Poll, EndIteration, Signal,
         BackoffPasses

\* A sending is the delivery, or doubtful, or still waiting to be recorded.
LEMMA SendingsStep ==
  ASSUME TypeOK, CurrentOK, RetriesOK, SendingsOK, [Next]_vars PROVE SendingsOK'
<1>1. ASSUME NEW i \in Row, Queue(i) PROVE SendingsOK'
  BY <1>1, QueueAssumption DEF Queue, SendingsOK, Known, One, CurrentOK,
      InCall, TypeOK, rows, bounds, history
<1>2. ASSUME NEW i \in Row, Process(i) PROVE SendingsOK'
  <2>1. current = None /\ i # None /\ status[i] = "pending"
    BY <1>2 DEF Process, CurrentOK, InCall, TypeOK, Due
  <2>2. sent[i] \in Nat /\ doubtful[i] \in Nat
    BY DEF TypeOK
  <2> QED
    <3>1. CASE worker' = "raised" /\ UNCHANGED <<sent, doubtful>>
      BY <1>2, <2>1, <2>2, <3>1 DEF Process, SendingsOK, Known, One, TypeOK, rows
    <3>2. CASE worker' = "succeeded" /\ sent' = [sent EXCEPT ![i] = @ + 1] /\ UNCHANGED doubtful
      BY <1>2, <2>1, <2>2, <3>2 DEF Process, SendingsOK, Known, One, TypeOK, rows
    <3>3. CASE /\ worker' = "raised" /\ sent' = [sent EXCEPT ![i] = @ + 1]
               /\ doubtful' = [doubtful EXCEPT ![i] = @ + 1]
      BY <1>2, <2>1, <2>2, <3>3 DEF Process, SendingsOK, Known, One, TypeOK, rows
    <3> QED
      BY <1>2, <3>1, <3>2, <3>3 DEF Process
<1>3. CASE Mark
  <2>1. Recorded(current) /\ InCall /\ current' = None
    BY <1>3 DEF Mark, Recorded, InCall
  <2>2. \A i \in Row : Known(i)' <=> Known(i)
    BY <2>1, RecordedCall DEF Known
  <2> QED
    BY <1>3, <2>2 DEF Mark, SendingsOK, One, history
<1>4. CASE Crash
  BY <1>4, QueueAssumption DEF Crash, Gone, Forgotten, SendingsOK, Known, One,
      CurrentOK, InCall, TypeOK, rows, bounds, history
<1>5. CASE MarkError
  <2>1. InCall /\ current' = None
    BY <1>5 DEF MarkError, DbError, InCall
  <2>2. CASE UNCHANGED rows /\ Forgotten
    BY <2>1, <2>2 DEF Forgotten, SendingsOK, Known, One, TypeOK, rows
  <2>3. CASE Recorded(current) /\ UNCHANGED history
    <3>1. \A i \in Row : Known(i)' <=> Known(i)
      BY <2>1, <2>3, RecordedCall DEF Known
    <3> QED
      BY <2>3, <3>1 DEF SendingsOK, One, history
  <2> QED
    BY <1>5, <2>2, <2>3 DEF MarkError
<1>6. CASE Start
  BY <1>6, QueueAssumption DEF Start, SendingsOK, Known, One, CurrentOK,
      InCall, TypeOK, rows, bounds, history
<1>7. CASE Poll
  BY <1>7, QueueAssumption DEF Poll, SendingsOK, Known, One, CurrentOK,
      InCall, TypeOK, rows, bounds, history
<1>8. CASE EndIteration
  BY <1>8, QueueAssumption DEF EndIteration, SendingsOK, Known, One,
      CurrentOK, InCall, TypeOK, rows, bounds, history
<1>9. CASE Leave
  BY <1>9, QueueAssumption DEF Leave, Gone, SendingsOK, Known, One, CurrentOK,
      InCall, TypeOK, rows, bounds, history
<1>10. CASE PollError
  BY <1>10, QueueAssumption DEF PollError, DbError, SendingsOK, Known, One,
      CurrentOK, InCall, TypeOK, rows, bounds, history
<1>11. CASE Autoheal
  BY <1>11, QueueAssumption DEF Autoheal, Gone, SendingsOK, Known, One,
      CurrentOK, InCall, TypeOK, rows, bounds, history
<1>12. CASE UNCHANGED <<status, sent, doubtful, current, worker>>
  BY <1>12 DEF SendingsOK, Known, One, CurrentOK, InCall, TypeOK, rows
<1> QED
  BY <1>1, <1>2, <1>3, <1>4, <1>5, <1>6, <1>7, <1>8, <1>9, <1>10, <1>11, <1>12
      DEF Next, WorkerStep, vars, rows, bounds, history, Signal, BackoffPasses

-----------------------------------------------------------------------------
\* The worker starts with nothing accounted for.
LEMMA InitIInv == Init => IInv
<1> SUFFICES ASSUME Init PROVE IInv
  OBVIOUS
<1>1. TypeOK /\ CurrentOK
  <2>1. 0 \in 0..MAX_RETRIES /\ 0 \in 0..MaxStops /\ 0 \in 0..MaxDbErrors
    BY QueueAssumption
  <2>2. TypeOK
    BY <2>1 DEF Init, TypeOK
  <2> QED
    BY <2>2 DEF Init, CurrentOK, InCall
<1>2. RetriesOK
  BY QueueAssumption DEF Init, RetriesOK
<1>3. CallsOK /\ SendingsOK
  BY DEF Init, CallsOK, SendingsOK, Known, One
<1> QED
  BY <1>1, <1>2, <1>3 DEF IInv

\* The inductive invariant holds in every reachable state.
THEOREM Inductive == Spec => []IInv
<1>1. IInv /\ [Next]_vars => IInv'
  BY TypeStep, CurrentStep, RetriesStep, CallsStep, SendingsStep DEF IInv
<1> QED
  BY <1>1, InitIInv, PTL DEF Spec

\* The table and the worker's state keep their types; in particular a batch holds only
\* rows that are pending and due, and no row is retried more than MAX_RETRIES times.
THEOREM TypeCorrect == Spec => []TypeOK
<1>1. IInv => TypeOK
  BY DEF IInv
<1> QED
  BY <1>1, Inductive, PTL

\* Retries are bounded and exhausted before a row is given up, and the calls made for
\* a row exceed its retries by no more than the calls whose outcome was lost.
THEOREM CallsAreBounded == Spec => []CallsBounded
<1>1. IInv => CallsBounded
  <2> SUFFICES ASSUME IInv, NEW i \in Row
               PROVE  /\ status[i] = "failed" <=> retry_count[i] = MAX_RETRIES
                      /\ calls[i] <= MAX_RETRIES + unrecorded[i]
    BY DEF CallsBounded
  <2>1. status[i] = "failed" <=> retry_count[i] = MAX_RETRIES
    BY DEF IInv, RetriesOK
  <2>2. calls[i] = retry_count[i] + unrecorded[i]
                     + One(status[i] = "delivered") + One(i = current)
    BY DEF IInv, CallsOK
  <2>3. retry_count[i] \in 0..MAX_RETRIES /\ unrecorded[i] \in Nat
    BY DEF IInv, TypeOK
  <2>4. ~(status[i] = "delivered" /\ i = current)
    BY DEF IInv, CurrentOK, Due
  <2>5. status[i] = "delivered" \/ i = current => status[i] # "failed"
    BY DEF IInv, CurrentOK, Due
  <2> QED
    BY <2>1, <2>2, <2>3, <2>4, <2>5, QueueAssumption DEF One
<1> QED
  BY <1>1, Inductive, PTL

\* A row is sent once at most, but for the sendings the worker could not know of or
\* could not record.
THEOREM SentOnce == Spec => []SentOnceUnlessDoubtful
<1>1. IInv => SentOnceUnlessDoubtful
  BY DEF IInv, SendingsOK, SentOnceUnlessDoubtful, One, TypeOK
<1> QED
  BY <1>1, Inductive, PTL

-----------------------------------------------------------------------------
(* The worker's steps are steps of NotificationDelivery.                   *)

\* What NotificationDelivery sees of the table.
State == [i \in Row |-> CASE status[i] = "pending" -> "owed"
                          [] status[i] = "failed"  -> "abandoned"
                          [] OTHER                 -> status[i]]

\* mark_delivered confirms a sending, mark_failed gives up or changes nothing there.
LEMMA RecordedRefines ==
  ASSUME IInv, InCall, Recorded(current), UNCHANGED history
  PROVE  [Delivery!Next]_(Delivery!vars)
<1>1. current \in Row /\ status[current] = "pending"
  BY DEF IInv, CurrentOK, Due
<1>2. CASE worker = "succeeded" /\ Delivered(current)
  <2>1. sent[current] > 0
    BY <1>1, <1>2 DEF IInv, SendingsOK, Known
  <2>2. State[current] = "owed" /\ State' = [State EXCEPT ![current] = "delivered"]
    BY <1>1, <1>2 DEF State, Delivered, IInv, TypeOK
  <2> QED
    BY <1>1, <2>1, <2>2
       DEF Delivery!Next, Delivery!Confirm, Delivery!Settle, State, history
<1>3. CASE worker = "raised" /\ Failed(current)
  <2>1. CASE status' = status
    BY <2>1 DEF Delivery!vars, history
  <2>2. CASE status' = [status EXCEPT ![current] = "failed"]
    <3>1. State[current] = "owed" /\ State' = [State EXCEPT ![current] = "abandoned"]
      BY <1>1, <2>2 DEF State, IInv, TypeOK
    <3> QED
      BY <1>1, <3>1
         DEF Delivery!Next, Delivery!GiveUp, Delivery!Settle, State, history
  <2> QED
    BY <1>3, <2>1, <2>2 DEF Failed
<1> QED
  BY <1>2, <1>3 DEF Recorded

\* Every step of the worker and of those who queue is a step there, or none.
LEMMA StepRefines ==
  ASSUME IInv, [Next]_vars PROVE [Delivery!Next]_(Delivery!vars)
<1>1. ASSUME NEW i \in Row, Queue(i) PROVE Delivery!Next
  <2>1. State[i] = "none" /\ State' = [State EXCEPT ![i] = "owed"]
    BY <1>1 DEF Queue, State, IInv, TypeOK
  <2> QED
    BY <1>1, <2>1
       DEF Queue, Delivery!Next, Delivery!Queue, Delivery!Settle, State, history
<1>2. ASSUME NEW i \in Row, Process(i) PROVE [Delivery!Next]_(Delivery!vars)
  <2>1. status[i] = "pending" /\ status' = status
    BY <1>2 DEF Process, IInv, TypeOK, Due, rows
  <2>2. State[i] = "owed" /\ State' = State
    BY <2>1 DEF State
  <2>3. CASE UNCHANGED sent
    BY <2>2, <2>3 DEF Delivery!vars, State
  <2>4. CASE sent' = [sent EXCEPT ![i] = @ + 1]
    BY <2>2, <2>4 DEF Delivery!Next, Delivery!Send, State
  <2> QED
    BY <1>2, <2>3, <2>4 DEF Process
<1>3. CASE Mark
  <2>1. InCall /\ Recorded(current) /\ UNCHANGED history
    BY <1>3 DEF Mark, Recorded, InCall
  <2> QED
    BY <2>1, RecordedRefines
<1>4. CASE MarkError
  <2>1. CASE UNCHANGED rows /\ Forgotten
    BY <2>1 DEF Forgotten, rows, Delivery!vars
  <2>2. CASE Recorded(current) /\ UNCHANGED history
    BY <1>4, <2>2, RecordedRefines DEF MarkError, InCall
  <2> QED
    BY <1>4, <2>1, <2>2 DEF MarkError
<1>5. CASE UNCHANGED <<status, sent>>
  BY <1>5 DEF Delivery!vars
<1> QED
  BY <1>1, <1>2, <1>3, <1>4, <1>5
     DEF Next, WorkerStep, vars, rows, history, Start, Poll, EndIteration, Leave, Gone,
         Signal, Crash, Forgotten, PollError, DbError, Autoheal, BackoffPasses

\* The queue implements the safety of NotificationDelivery: nothing is called delivered
\* that was not sent, and nothing settled is ever sent again.
THEOREM Refines == Spec => Delivery!Safety
<1>1. Init => Delivery!Init
  BY DEF Init, Delivery!Init
<1> QED
  BY <1>1, StepRefines, Inductive, PTL DEF Spec, Delivery!Safety
=============================================================================

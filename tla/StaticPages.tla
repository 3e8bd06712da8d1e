----------------------------- MODULE StaticPages -----------------------------
(***************************************************************************)
(* How the two published pages follow the tables.  The web application     *)
(* changes the tables and afterwards, in a transaction of its own, queues  *)
(* a push; the worker generates the page from the tables and uploads it; a *)
(* CDN may stand between the storage and the viewers.                      *)
(*                                                                         *)
(* Changes of the tables are numbered, from 1, the state at the start.     *)
(* What they are is in PublicStatus; here counts which page each of them   *)
(* may put out of date, and which it queues a push for.  A page is known   *)
(* by the last change that the tables had when it was generated.           *)
(*                                                                         *)
(* The rows of the queue are as in NotificationQueue, but only those that  *)
(* push pages and are still pending.                                       *)
(***************************************************************************)
EXTENDS Integers, Sublists, PageChanges

CONSTANTS
  Destinations,   \* values of STATIC_PAGE_PUSH_METHOD; "cdn" is s3 with a distribution
  MaxChanges,     \* bound: changes committed
  MaxFaults       \* bound: generations and uploads that fail, requests and workers that die

ASSUME StaticPagesAssumption ==
  /\ Destinations \subseteq {"local", "s3", "cdn", "gcs"}
  /\ MaxChanges \in Nat /\ MaxFaults \in Nat

VARIABLES
  now,         \* the number of the last change
  altered,     \* for each page the last change that altered what it ought to say
  todo,        \* pushes that requests still have to queue
  rows,        \* pending rows of static_page_push, oldest first
  destination, \* how this installation publishes
  step,        \* of the worker: "poll", "take", "put", "write", "purge", "mark"
  batch,       \* the rows the poll returned that are still to be processed
  session,     \* the change the worker's transaction sees, 0: no transaction
  page,        \* the change from which the page in hand was generated
  origin,      \* the storage: from which change each page is, and is it torn
  edge,        \* the copy of the CDN: from which change, 0: none
  faults,      \* how many there were
  excused,     \* history: for each page the last change that no push will tell of
  givenUp      \* history: pages whose last push was given up

web == <<now, altered>>
worker == <<step, batch, session, page>>
vars == <<web, todo, rows, destination, worker, origin, edge, faults, excused, givenUp>>

-----------------------------------------------------------------------------
\* A row: the page it is for, the change that made it due, and what queued it.
\* The key tells pending rows apart.
Number == 1 .. (MaxChanges + 1)
Key == [page : Page, since : Number, by : {"change", "hour"}]
Row == [page : Page, since : Number, by : {"change", "hour"}, waiting : BOOLEAN]
KeyOf(row) == [page |-> row.page, since |-> row.since, by |-> row.by]
NewRow(key) == [page |-> key.page, since |-> key.since, by |-> key.by, waiting |-> FALSE]

Init ==
  /\ now = 1 /\ altered = [p \in Page |-> 1]
  /\ todo = {} /\ rows = <<>>
  /\ destination \in Destinations
  /\ step = "poll" /\ batch = <<>> /\ session = 0 /\ page = 0
  /\ origin = [p \in Page |-> [from |-> 1, torn |-> FALSE]]
  /\ edge = [p \in Page |-> 0]
  /\ faults = 0
  /\ excused = [p \in Page |-> 0]
  /\ givenUp = [p \in Page |-> FALSE]

-----------------------------------------------------------------------------
\* A change is committed; the pushes for it are still to be queued.
Change(kind) ==
  /\ now <= MaxChanges
  /\ now' = now + 1
  /\ altered' = [p \in Page |-> IF p \in kind.alters THEN now + 1 ELSE altered[p]]
  /\ todo' = todo \cup {[page |-> p, since |-> now + 1, by |-> "change"] : p \in kind.tells}
  /\ excused' = [p \in Page |-> IF p \in kind.alters \ kind.tells THEN now + 1
                                                                 ELSE excused[p]]
  /\ UNCHANGED <<rows, destination, worker, origin, edge, faults, givenUp>>

\* Mutant: the row is never committed.
QueuePushUncommitted ==
  \E key \in todo :
    /\ todo' = todo \ {key}
    /\ UNCHANGED <<web, rows, destination, worker, origin, edge, faults, excused, givenUp>>

\* queue_notification, the transaction after the commit.
QueuePush ==
  \E key \in todo :
    /\ todo' = todo \ {key}
    /\ rows' = Append(rows, NewRow(key))
    /\ UNCHANGED <<web, destination, worker, origin, edge, faults, excused, givenUp>>

Larger(a, b) == IF a < b THEN b ELSE a
Fault == faults < MaxFaults /\ faults' = faults + 1

\* The request dies before it, or it fails: an error for repairs, a line in the log
\* for reservations and equipment.
PushNotQueued ==
  \E key \in todo :
    /\ Fault
    /\ todo' = todo \ {key}
    /\ excused' = [excused EXCEPT ![key.page] = Larger(@, key.since)]
    /\ UNCHANGED <<web, rows, destination, worker, origin, edge, givenUp>>

-----------------------------------------------------------------------------
(* The worker.                                                             *)

Due(keys) ==
  LET due == Only(rows, {row \in Row : ~row.waiting /\ KeyOf(row) \in keys})
  IN  [i \in DOMAIN due |-> KeyOf(due[i])]
Keys == {KeyOf(rows[i]) : i \in DOMAIN rows}

InHand == Head(batch)

\* The pending rows when one is settled.
Without(key) == Only(rows, {row \in Row : KeyOf(row) # key})

\* get_pending_notifications: the rows that are due, as the open transaction sees them.
Poll ==
  /\ step = "poll"
  /\ batch' = Due(IF session = 0 THEN Keys ELSE {batch[i] : i \in DOMAIN batch})
  /\ session' = IF session = 0 THEN now ELSE session
  /\ step' = "take"
  /\ UNCHANGED <<web, todo, rows, destination, page, origin, edge, faults, excused,
                 givenUp>>

\* Mutant: the page is what it was when the push was queued.
GenerateAsQueued ==
  /\ step = "take" /\ batch # <<>>
  /\ page' = InHand.since
  /\ step' = "put"
  /\ UNCHANGED <<web, todo, rows, destination, batch, session, origin, edge, faults,
                 excused, givenUp>>

\* generate and generate_reservations, for the next row of the batch.
Generate ==
  /\ step = "take" /\ batch # <<>>
  /\ page' = session
  /\ step' = "put"
  /\ UNCHANGED <<web, todo, rows, destination, batch, session, origin, edge, faults,
                 excused, givenUp>>

\* _push_local opens the file, which empties it, and writes it.
OpenFile ==
  /\ step = "put" /\ destination = "local"
  /\ origin' = [origin EXCEPT ![InHand.page].torn = TRUE]
  /\ step' = "write"
  /\ UNCHANGED <<web, todo, rows, destination, batch, session, page, edge, faults,
                 excused, givenUp>>

WriteFile ==
  /\ step = "write"
  /\ origin' = [origin EXCEPT ![InHand.page] = [from |-> page, torn |-> FALSE]]
  /\ step' = "mark"
  /\ UNCHANGED <<web, todo, rows, destination, batch, session, page, edge, faults,
                 excused, givenUp>>

\* Mutant: the distribution is not told when the storage has the page already.
PutObjectIfNew ==
  /\ step = "put" /\ destination # "local"
  /\ origin' = [origin EXCEPT ![InHand.page] = [from |-> page, torn |-> FALSE]]
  /\ step' = IF destination = "cdn" /\ origin[InHand.page].from # page
               THEN "purge" ELSE "mark"
  /\ UNCHANGED <<web, todo, rows, destination, batch, session, page, edge, faults,
                 excused, givenUp>>

\* _push_s3 and _push_gcs replace the object in one piece.
PutObject ==
  /\ step = "put" /\ destination # "local"
  /\ origin' = [origin EXCEPT ![InHand.page] = [from |-> page, torn |-> FALSE]]
  /\ step' = IF destination = "cdn" THEN "purge" ELSE "mark"
  /\ UNCHANGED <<web, todo, rows, destination, batch, session, page, edge, faults,
                 excused, givenUp>>

\* _create_cloudfront_invalidation
Purge ==
  /\ step = "purge"
  /\ edge' = [edge EXCEPT ![InHand.page] = 0]
  /\ step' = "mark"
  /\ UNCHANGED <<web, todo, rows, destination, batch, session, page, origin, faults,
                 excused, givenUp>>

\* The row in hand is settled or put off in a transaction; the line in the log about
\* it reads the row again, which opens the next one.
NextRow == step' = "take" /\ batch' = Tail(batch) /\ session' = now /\ page' = 0

\* Mutant: one delivery settles all pending pushes of the page.
MarkPageDelivered ==
  /\ step = "mark"
  /\ rows' = Only(rows, {row \in Row : row.page # InHand.page})
  /\ givenUp' = [givenUp EXCEPT ![InHand.page] = FALSE]
  /\ step' = "take" /\ session' = now /\ page' = 0
  /\ batch' = Only(batch, {key \in Key : key.page # InHand.page})
  /\ UNCHANGED <<web, todo, destination, origin, edge, faults, excused>>

\* mark_delivered.  Before it, the page around the data of the reservation page is
\* pushed, which does not change.
MarkDelivered ==
  /\ step = "mark"
  /\ rows' = Without(InHand)
  /\ givenUp' = [givenUp EXCEPT ![InHand.page] = FALSE]
  /\ NextRow
  /\ UNCHANGED <<web, todo, destination, origin, edge, faults, excused>>

\* mark_failed: the generation or an upload raised.  The row waits for its next turn, or
\* it is given up; how many turns there are is NotificationQueue's.
MarkFailed ==
  /\ step # "poll" /\ batch # <<>>
  /\ step = "mark" => InHand.page = "json"
  /\ Fault
  /\ \/ /\ rows' = [i \in DOMAIN rows |->
                      [rows[i] EXCEPT !.waiting = @ \/ KeyOf(rows[i]) = InHand]]
        /\ UNCHANGED <<excused, givenUp>>
     \/ /\ rows' = Without(InHand)
        /\ excused' = [excused EXCEPT ![InHand.page] = Larger(@, InHand.since)]
        /\ givenUp' = [givenUp EXCEPT ![InHand.page] = TRUE]
  /\ NextRow
  /\ UNCHANGED <<web, todo, destination, origin, edge>>

\* The batch is done, and no refresh is due: _record_iteration_timestamp ends the
\* transaction.
Idle ==
  /\ step = "take" /\ batch = <<>>
  /\ step' = "poll" /\ session' = 0
  /\ UNCHANGED <<web, todo, rows, destination, batch, page, origin, edge, faults,
                 excused, givenUp>>

\* What leaves a transaction open after a refresh: its query or, if it queued a row, the
\* line in the log about it.  The next poll sees the queue of that time.
LeaveOpen(queue) ==
  /\ step' = "poll" /\ session' = now
  /\ batch' = [i \in DOMAIN queue |-> KeyOf(queue[i])]

HourlyRow == NewRow([page |-> "json", since |-> now, by |-> "hour"])

\* Mutant: rows that were delivered long ago count as pending.
RefreshNever ==
  /\ step = "take" /\ batch = <<>>
  /\ LeaveOpen(rows)
  /\ UNCHANGED <<web, todo, rows, destination, page, origin, edge, faults, excused,
                 givenUp>>

\* _refresh_static_reservations after the batch, when the worker has just been started
\* or an hour has passed: a push is queued unless one is pending.
Refresh ==
  /\ step = "take" /\ batch = <<>>
  /\ rows' = IF \E key \in Keys : key.page = "json" THEN rows ELSE Append(rows, HourlyRow)
  /\ LeaveOpen(rows')
  /\ UNCHANGED <<web, todo, destination, page, origin, edge, faults, excused, givenUp>>

\* The worker is killed, and started again.
WorkerDies ==
  /\ Fault
  /\ step' = "poll" /\ batch' = <<>> /\ session' = 0 /\ page' = 0
  /\ UNCHANGED <<web, todo, rows, destination, origin, edge, excused, givenUp>>

-----------------------------------------------------------------------------
(* The clock and the CDN.                                                  *)

BackoffPasses ==
  /\ \E i \in DOMAIN rows :
       rows[i].waiting /\ rows' = [rows EXCEPT ![i].waiting = FALSE]
  /\ UNCHANGED <<web, todo, destination, worker, origin, edge, faults, excused,
                 givenUp>>

\* A viewer asks the CDN for a page it has no copy of.
EdgeFetches(p) ==
  /\ destination = "cdn" /\ edge[p] = 0
  /\ edge' = [edge EXCEPT ![p] = origin[p].from]
  /\ UNCHANGED <<web, todo, rows, destination, worker, origin, faults, excused,
                 givenUp>>

WorkerStep ==
  \/ Poll \/ Generate \/ OpenFile \/ WriteFile \/ PutObject \/ Purge \/ MarkDelivered
  \/ Idle \/ Refresh

Next ==
  \/ \E kind \in ChangeKinds : Change(kind)
  \/ QueuePush \/ PushNotQueued
  \/ WorkerStep \/ MarkFailed \/ WorkerDies
  \/ BackoffPasses
  \/ \E p \in Page : EdgeFetches(p)

Fairness ==
  /\ WF_vars(QueuePush) /\ WF_vars(WorkerStep)
  /\ WF_vars(BackoffPasses) /\ SF_vars(Refresh)

Spec == Init /\ [][Next]_vars /\ Fairness

-----------------------------------------------------------------------------
\* The change from which what viewers get was generated.
Served(p) == IF edge[p] # 0 THEN edge[p] ELSE origin[p].from

TypeOK ==
  /\ now \in Number /\ altered \in [Page -> 1 .. now]
  /\ todo \subseteq Key
  /\ rows \in Seq(Row)
  /\ destination \in Destinations
  /\ step \in {"poll", "take", "put", "write", "purge", "mark"}
  /\ batch \in Seq(Key)
  /\ session \in 0 .. now /\ page \in 0 .. now
  /\ origin \in [Page -> [from : 1 .. now, torn : BOOLEAN]]
  /\ edge \in [Page -> 0 .. now]
  /\ faults \in 0 .. MaxFaults
  /\ excused \in [Page -> 0 .. now] /\ givenUp \in [Page -> BOOLEAN]

\* A page in the storage that is out of date will be replaced: a push is pending or
\* about to be queued.  If not, the last change it misses is one for which the code
\* queues no push, or whose push was lost with its request or given up; a torn page
\* without a pending push is one whose push was given up.
BehindIsOwed ==
  \A p \in Page :
    LET owed == \E key \in todo \cup Keys : key.page = p IN
    /\ altered[p] > origin[p].from => owed \/ excused[p] > origin[p].from
    /\ origin[p].torn => owed \/ givenUp[p]

\* When a push is marked delivered, viewers get a page that has the change it was
\* queued for, whatever was retried, and whatever the CDN still had.
DeliveredMeansServed ==
  [][MarkDelivered => Served(InHand.page) >= InHand.since]_vars

\* Viewers never get an older page after a newer one.
ViewersNeverGoBack == [][\A p \in Page : Served(p)' >= Served(p)]_vars

\* Once nothing changes any more, viewers get the status page as it ought to be, unless
\* the last change it misses is one that no push tells of.
StatusPageFollows ==
  <>[](Served("index") >= altered["index"] \/ excused["index"] > Served("index"))

\* Once nothing changes any more, the reservation page becomes right and stays so,
\* even if requests died before they queued a push, or pushes were given up: the
\* hourly refresh makes up for them.
ReservationPageHeals == <>[](Served("json") >= altered["json"])
=============================================================================

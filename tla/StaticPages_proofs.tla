--------------------------- MODULE StaticPages_proofs ---------------------------
(***************************************************************************)
(* The proofs about the published pages, for any number of changes and     *)
(* faults and every destination.  CopiesInOrder orders the copies of a     *)
(* page by age: the copy of the CDN is no newer than the storage, which is *)
(* no newer than the tables as the worker sees them, from which the page   *)
(* in hand was generated.  The other parts of the invariant follow a push  *)
(* from the change that owes it, through the queue and the batch, to the   *)
(* page in hand.                                                           *)
(***************************************************************************)
EXTENDS StaticPages, Sublists_proofs

\* What the worker would generate now: from its transaction, or from a new one.
Snapshot == IF session = 0 THEN now ELSE session

CopiesInOrder ==
  /\ now \in Nat \ {0}
  /\ origin \in [Page -> [from : Nat \ {0}, torn : BOOLEAN]]
  /\ edge \in [Page -> Nat]
  /\ session \in 0 .. now
  /\ \A p \in Page : edge[p] <= origin[p].from /\ origin[p].from <= Snapshot
  /\ step # "poll" => session # 0
  /\ step \notin {"poll", "take"} => page = session

\* The step of the action property.
Forward == \A p \in Page : Served(p)' >= Served(p)

\* Steps that generate nothing and publish nothing.
LEMMA NothingPublished ==
  ASSUME CopiesInOrder, UNCHANGED <<origin, edge>>, now' \in Nat, now' >= now,
         \/ session' = session \/ session' = now' \/ session' = 0,
         step' # "poll" => session' # 0,
         step' \notin {"poll", "take"} => page' = session'
  PROVE  CopiesInOrder' /\ Forward
<1>1. Forward
  BY DEF CopiesInOrder, Forward, Served
<1>2. Snapshot' >= Snapshot /\ session' \in 0 .. now' /\ now' \in Nat \ {0}
  <2>1. now \in Nat \ {0} /\ session \in 0 .. now
    BY DEF CopiesInOrder
  <2>2. now' \in Nat \ {0} /\ session' \in 0 .. now'
    BY <2>1
  <2>3. CASE session' = 0
    BY <2>1, <2>2, <2>3 DEF Snapshot
  <2>4. CASE session' # 0 /\ session' = session
    BY <2>1, <2>2, <2>4 DEF Snapshot
  <2>5. CASE session' # 0 /\ session' = now'
    BY <2>1, <2>2, <2>5 DEF Snapshot
  <2> QED
    BY <2>3, <2>4, <2>5
<1>3. \A p \in Page : edge'[p] <= origin'[p].from /\ origin'[p].from <= Snapshot'
  BY <1>2 DEF CopiesInOrder, Snapshot
<1> QED
  BY <1>1, <1>2, <1>3 DEF CopiesInOrder

\* The page in hand reaches the storage.
LEMMA Published ==
  ASSUME CopiesInOrder, step \notin {"poll", "take"}, UNCHANGED <<now, session, page, edge>>,
         origin' = [origin EXCEPT ![InHand.page] = [from |-> page, torn |-> FALSE]],
         step' \notin {"poll", "take"}
  PROVE  CopiesInOrder' /\ Forward
<1>1. page = session /\ session \in Nat \ {0} /\ page = Snapshot
  BY DEF CopiesInOrder, Snapshot
<1>2. /\ origin' \in [Page -> [from : Nat \ {0}, torn : BOOLEAN]]
      /\ \A p \in Page : origin'[p].from \in {origin[p].from, page}
  BY <1>1 DEF CopiesInOrder
<1>3. \A p \in Page : origin[p].from <= origin'[p].from /\ origin'[p].from <= Snapshot
  BY <1>1, <1>2 DEF CopiesInOrder
<1>4. \A p \in Page : edge'[p] <= origin'[p].from
  BY <1>2, <1>3 DEF CopiesInOrder
<1>5. CopiesInOrder'
  BY <1>1, <1>2, <1>3, <1>4 DEF CopiesInOrder, Snapshot
<1>6. Forward
  BY <1>2, <1>3 DEF CopiesInOrder, Forward, Served
<1> QED
  BY <1>5, <1>6

LEMMA FileOpened ==
  ASSUME CopiesInOrder, OpenFile
  PROVE  CopiesInOrder' /\ Forward
<1>1. /\ origin' \in [Page -> [from : Nat \ {0}, torn : BOOLEAN]]
      /\ \A p \in Page : origin'[p].from = origin[p].from
  BY DEF CopiesInOrder, OpenFile
<1>2. UNCHANGED <<now, session, page, edge>> /\ step = "put" /\ step' = "write"
  BY DEF OpenFile, web
<1>3. CopiesInOrder'
  BY <1>1, <1>2 DEF CopiesInOrder, Snapshot
<1>4. Forward
  BY <1>1, <1>2 DEF CopiesInOrder, Forward, Served
<1> QED
  BY <1>3, <1>4

\* The copy of the CDN is dropped, or taken from the storage.
LEMMA EdgeRenewed ==
  ASSUME CopiesInOrder, Purge \/ \E p \in Page : EdgeFetches(p)
  PROVE  CopiesInOrder' /\ Forward
<1>1. CASE Purge
  <2>1. /\ UNCHANGED <<now, session, page, origin>> /\ step = "purge" /\ step' = "mark"
        /\ edge' = [edge EXCEPT ![InHand.page] = 0]
    BY <1>1 DEF Purge, web
  <2>2. edge' \in [Page -> Nat] /\ \A p \in Page : edge'[p] \in {edge[p], 0}
    BY <2>1 DEF CopiesInOrder
  <2>3. CopiesInOrder'
    BY <2>1, <2>2 DEF CopiesInOrder, Snapshot
  <2>4. Forward
    BY <2>1, <2>2 DEF CopiesInOrder, Forward, Served
  <2> QED
    BY <2>3, <2>4
<1>2. ASSUME NEW q \in Page, EdgeFetches(q)
      PROVE  CopiesInOrder' /\ Forward
  <2>1. /\ UNCHANGED <<now, session, page, origin, step>> /\ edge[q] = 0
        /\ edge' = [edge EXCEPT ![q] = origin[q].from]
    BY <1>2 DEF EdgeFetches, web, worker
  <2>2. /\ edge' \in [Page -> Nat]
        /\ \A p \in Page : edge'[p] = IF p = q THEN origin[q].from ELSE edge[p]
    BY <2>1 DEF CopiesInOrder
  <2>3. CopiesInOrder'
    BY <2>1, <2>2 DEF CopiesInOrder, Snapshot
  <2>4. Forward
    BY <2>1, <2>2 DEF CopiesInOrder, Forward, Served
  <2> QED
    BY <2>3, <2>4
<1> QED
  BY <1>1, <1>2

LEMMA CopiesStayInOrder == CopiesInOrder /\ [Next]_vars => CopiesInOrder' /\ Forward
<1> SUFFICES ASSUME CopiesInOrder, [Next]_vars PROVE CopiesInOrder' /\ Forward
  OBVIOUS
<1>0. now \in Nat \ {0} /\ session \in 0 .. now
  BY DEF CopiesInOrder
<1>1. CASE \E kind \in ChangeKinds : Change(kind)
  BY <1>0, <1>1, NothingPublished DEF Change, worker, CopiesInOrder
<1>2. CASE QueuePush \/ PushNotQueued \/ BackoffPasses \/ UNCHANGED vars
  BY <1>0, <1>2, NothingPublished
  DEF QueuePush, PushNotQueued, BackoffPasses, vars, web, worker, CopiesInOrder
<1>3. CASE Poll
  BY <1>0, <1>3, NothingPublished DEF Poll, web, CopiesInOrder
<1>4. CASE Generate
  BY <1>0, <1>4, NothingPublished DEF Generate, web, CopiesInOrder
<1>5. CASE WriteFile \/ PutObject
  <2>1. /\ step \in {"write", "put"} /\ step' \in {"purge", "mark"}
        /\ UNCHANGED <<now, session, page, edge>>
        /\ origin' = [origin EXCEPT ![InHand.page] = [from |-> page, torn |-> FALSE]]
    BY <1>5 DEF WriteFile, PutObject, web
  <2> QED
    BY <2>1, Published
<1>6. CASE MarkDelivered \/ MarkFailed
  <2>1. step' = "take" /\ session' = now /\ UNCHANGED <<now, origin, edge>>
    BY <1>6 DEF MarkDelivered, MarkFailed, NextRow, web
  <2> QED
    BY <1>0, <2>1, NothingPublished
<1>7. CASE Idle \/ Refresh \/ WorkerDies
  <2>1. step' = "poll" /\ session' \in {0, now} /\ UNCHANGED <<now, origin, edge>>
    BY <1>7 DEF Idle, Refresh, LeaveOpen, WorkerDies, web
  <2> QED
    BY <1>0, <2>1, NothingPublished
<1> QED
  BY <1>1, <1>2, <1>3, <1>4, <1>5, <1>6, <1>7, FileOpened, EdgeRenewed
  DEF Next, WorkerStep

\* Viewers never get an older page after a newer one, whatever is retried, lost, killed,
\* or still held by the CDN.
THEOREM PagesNeverGoBack == Spec => ViewersNeverGoBack
<1>1. Init => CopiesInOrder
  BY DEF Init, CopiesInOrder, Snapshot
<1>2. CopiesInOrder /\ [Next]_vars => CopiesInOrder' /\ [Forward]_vars
  BY CopiesStayInOrder
<1> QED
  BY <1>1, <1>2, PTL DEF Spec, ViewersNeverGoBack, Forward

-----------------------------------------------------------------------------
(* The queue.                                                              *)

\* The key tells pending rows apart.
RowsOK ==
  /\ rows \in Seq(Row)
  /\ \A i, j \in DOMAIN rows : KeyOf(rows[i]) = KeyOf(rows[j]) => i = j

LEMMA RowKeys ==
  ASSUME NEW row \in Row
  PROVE  KeyOf(row) \in Key
BY DEF Row, KeyOf, Key

LEMMA NewRowKey ==
  ASSUME NEW key \in Key
  PROVE  NewRow(key) \in Row /\ KeyOf(NewRow(key)) = key
BY DEF Row, KeyOf, Key, NewRow

LEMMA KeysAreKeys ==
  ASSUME RowsOK
  PROVE  Keys \subseteq Key /\ \A i \in DOMAIN rows : rows[i] \in Row /\ KeyOf(rows[i]) \in Keys
<1>1. \A i \in DOMAIN rows : rows[i] \in Row
  BY ElementOfSeq DEF RowsOK
<1> QED
  BY <1>1, RowKeys DEF Keys

\* A push is queued.
LEMMA Appended ==
  ASSUME RowsOK, NEW key \in Key \ Keys, rows' = Append(rows, NewRow(key))
  PROVE  RowsOK' /\ Keys' = Keys \cup {key}
<1> DEFINE n == Len(rows) + 1
<1>1. /\ rows' \in Seq(Row) /\ Len(rows') = n /\ rows'[n] = NewRow(key)
      /\ \A i \in 1 .. Len(rows) : rows'[i] = rows[i]
  BY NewRowKey, AppendProperties DEF RowsOK
<1>2. DOMAIN rows = 1 .. Len(rows) /\ DOMAIN rows' = 1 .. n /\ Len(rows) \in Nat
  BY <1>1, LenProperties DEF RowsOK
<1>3. \A i \in DOMAIN rows' : i \in DOMAIN rows \/ i = n
  BY <1>2
<1>4. \A i \in DOMAIN rows : i \in DOMAIN rows' /\ KeyOf(rows'[i]) = KeyOf(rows[i])
  BY <1>1, <1>2
<1>5. n \in DOMAIN rows' /\ KeyOf(rows'[n]) = key
  BY <1>1, <1>2, NewRowKey
<1>6. \A i \in DOMAIN rows : KeyOf(rows[i]) # key
  BY DEF Keys
<1> HIDE DEF n
<1>7. RowsOK'
  BY <1>1, <1>3, <1>4, <1>5, <1>6 DEF RowsOK
<1>8. Keys' = Keys \cup {key}
  BY <1>3, <1>4, <1>5 DEF Keys
<1> QED
  BY <1>7, <1>8

\* A row is settled.
LEMMA Removed ==
  ASSUME RowsOK, NEW key, rows' = Without(key)
  PROVE  RowsOK' /\ Keys' = Keys \ {key}
<1> DEFINE K == {row \in Row : KeyOf(row) # key}
<1>1. rows' \in Seq(Row \cap K) /\ Elements(rows') = Elements(rows) \cap K
  BY OnlyPicks, OnlyElements DEF RowsOK, Without
<1>2. PICK p : Picks(p, rows', rows, K, Len(rows))
  BY OnlyPicks DEF RowsOK, Without
<1>3. /\ DOMAIN rows = 1 .. Len(rows) /\ DOMAIN rows' = 1 .. Len(rows')
      /\ Len(rows) \in Nat /\ Len(rows') \in Nat
  BY <1>1, LenProperties DEF RowsOK
<1>4. rows' \in Seq(Row)
  <2>1. \A i \in 1 .. Len(rows') : rows'[i] \in Row
    BY <1>1, ElementOfSeq
  <2> QED
    BY <1>1, <2>1, <1>3
<1>5. \A i, j \in DOMAIN rows' : KeyOf(rows'[i]) = KeyOf(rows'[j]) => i = j
  <2> SUFFICES ASSUME NEW i \in DOMAIN rows', NEW j \in DOMAIN rows',
                      KeyOf(rows'[i]) = KeyOf(rows'[j])
               PROVE  i = j
    OBVIOUS
  <2>1. p[i] = p[j]
    BY <1>2, <1>3 DEF Picks, RowsOK
  <2> QED
    BY <1>2, <1>3, <2>1 DEF Picks
<1>6. Keys' = Keys \ {key}
  <2>1. Keys = {KeyOf(r) : r \in Elements(rows)} /\ Keys' = {KeyOf(r) : r \in Elements(rows')}
    BY DEF Keys, Elements
  <2>2. Elements(rows) \subseteq Row
    BY ElementOfSeq DEF RowsOK, Elements
  <2> QED
    BY <1>1, <2>1, <2>2
<1> QED
  BY <1>4, <1>5, <1>6 DEF RowsOK

\* Rows wait, or no longer.
LEMMA Marked ==
  ASSUME RowsOK, rows' \in Seq(Row), DOMAIN rows' = DOMAIN rows,
         \A i \in DOMAIN rows : KeyOf(rows'[i]) = KeyOf(rows[i])
  PROVE  RowsOK' /\ Keys' = Keys
BY DEF RowsOK, Keys

\* What the poll returns.
LEMMA DueAre ==
  ASSUME RowsOK, NEW keys
  PROVE  /\ Due(keys) \in Seq(Key)
         /\ \A i \in DOMAIN Due(keys) : Due(keys)[i] \in keys \cap Keys
         /\ \A i, j \in DOMAIN Due(keys) : Due(keys)[i] = Due(keys)[j] => i = j
<1> DEFINE K == {row \in Row : ~row.waiting /\ KeyOf(row) \in keys}
<1>1. PICK due : due = Only(rows, K)
  OBVIOUS
<1>2. due \in Seq(Row \cap K)
  BY <1>1, OnlyPicks DEF RowsOK
<1>3. PICK p : Picks(p, due, rows, K, Len(rows))
  BY <1>1, OnlyPicks DEF RowsOK
<1>4. Due(keys) = [i \in DOMAIN due |-> KeyOf(due[i])]
  BY <1>1 DEF Due
<1>5. DOMAIN due = 1 .. Len(due) /\ Len(due) \in Nat /\ DOMAIN rows = 1 .. Len(rows)
  BY <1>2, LenProperties DEF RowsOK
<1>6. \A i \in DOMAIN due : /\ due[i] \in Row \cap K /\ p[i] \in DOMAIN rows
                            /\ due[i] = rows[p[i]]
  BY <1>2, <1>3, <1>5, ElementOfSeq DEF Picks
<1> HIDE DEF K
<1>7. \A i \in DOMAIN due : KeyOf(due[i]) \in Key /\ KeyOf(due[i]) \in keys \cap Keys
  BY <1>6, RowKeys DEF K, Keys
<1>8. Due(keys) \in Seq(Key)
  BY <1>4, <1>5, <1>7
<1>9. \A i, j \in DOMAIN due : KeyOf(due[i]) = KeyOf(due[j]) => i = j
  <2> SUFFICES ASSUME NEW i \in DOMAIN due, NEW j \in DOMAIN due, KeyOf(due[i]) = KeyOf(due[j])
               PROVE  i = j
    OBVIOUS
  <2>1. p[i] = p[j]
    BY <1>6 DEF RowsOK
  <2> QED
    BY <1>3, <1>5, <2>1 DEF Picks
<1> QED
  BY <1>4, <1>7, <1>8, <1>9

-----------------------------------------------------------------------------
(* The invariant.                                                          *)

\* A push is for a change that was made, and it is queued once.
KeysOK ==
  /\ RowsOK
  /\ \A key \in todo : key.by = "change" /\ key.since <= now
  /\ \A key \in Keys : key.since <= now
  /\ todo \cap Keys = {}

\* The worker only has rows that are pending, which its transaction saw.
BatchOK ==
  /\ \A i \in DOMAIN batch : batch[i] \in Keys /\ (session # 0 => batch[i].since <= session)
  /\ \A i, j \in DOMAIN batch : batch[i] = batch[j] => i = j
  /\ step \notin {"poll", "take"} => batch # <<>>

\* After the upload the storage has the page in hand, and the CDN has it or nothing
\* when it has been told.
HandOK ==
  /\ step \in {"purge", "mark"} => origin[InHand.page] = [from |-> page, torn |-> FALSE]
  /\ step = "write" => destination = "local"
  /\ destination # "cdn" => \A p \in Page : edge[p] = 0
  /\ step = "mark" => edge[InHand.page] \in {0, page}

\* Whatever the storage lacks, a push will bring or its loss is on record.
OwedOK ==
  \A p \in Page :
    /\ \/ origin[p].from >= altered[p] \/ excused[p] >= altered[p]
       \/ \E key \in todo \cup Keys : key.page = p /\ key.since >= altered[p]
    /\ origin[p].torn => givenUp[p] \/ \E key \in Keys : key.page = p

IInv == TypeOK /\ CopiesInOrder /\ KeysOK /\ BatchOK /\ HandOK /\ OwedOK

\* What the row in hand is.
LEMMA HandIsPending ==
  ASSUME IInv, batch # <<>>
  PROVE  /\ InHand \in Keys /\ InHand \in Key /\ InHand.page \in Page
         /\ InHand.since \in 1 .. now /\ InHand \notin todo
         /\ session # 0 => InHand.since <= session
         /\ Tail(batch) \in Seq(Key)
         /\ DOMAIN Tail(batch) = 1 .. Len(batch) - 1
         /\ \A i \in DOMAIN Tail(batch) : /\ i + 1 \in DOMAIN batch
                                          /\ Tail(batch)[i] = batch[i + 1]
         /\ \A i \in DOMAIN Tail(batch) : Tail(batch)[i] \in Keys \ {InHand}
         /\ \A i, j \in DOMAIN Tail(batch) : Tail(batch)[i] = Tail(batch)[j] => i = j
<1>1. batch \in Seq(Key) /\ Len(batch) \in Nat \ {0} /\ DOMAIN batch = 1 .. Len(batch)
  BY LenProperties, EmptySeq DEF IInv, TypeOK
<1>2. InHand = batch[1] /\ 1 \in DOMAIN batch
  BY <1>1 DEF InHand
<1>3. InHand \in Keys /\ InHand \in Key /\ (session # 0 => InHand.since <= session)
  BY <1>1, <1>2, ElementOfSeq DEF IInv, BatchOK
<1>4. InHand.page \in Page /\ InHand.since \in 1 .. now /\ InHand \notin todo
  BY <1>3 DEF IInv, KeysOK, Key, Number, TypeOK
<1>5. /\ Tail(batch) \in Seq(Key) /\ Len(Tail(batch)) = Len(batch) - 1
      /\ \A i \in 1 .. Len(batch) - 1 : Tail(batch)[i] = batch[i + 1]
  BY <1>1, HeadTailProperties
<1>6. DOMAIN Tail(batch) = 1 .. Len(batch) - 1
  BY <1>5, LenProperties
<1>7. \A i \in DOMAIN Tail(batch) : /\ i \in Nat \ {0} /\ i + 1 \in DOMAIN batch
                                    /\ Tail(batch)[i] = batch[i + 1]
  BY <1>1, <1>5, <1>6
<1>8. \A i \in DOMAIN Tail(batch) : Tail(batch)[i] \in Keys \ {InHand}
  BY <1>1, <1>2, <1>7 DEF IInv, BatchOK
<1>9. \A i, j \in DOMAIN Tail(batch) : Tail(batch)[i] = Tail(batch)[j] => i = j
  BY <1>1, <1>7 DEF IInv, BatchOK
<1> QED
  BY <1>3, <1>4, <1>5, <1>6, <1>7, <1>8, <1>9

\* What the steps do to the pushes.
LEMMA RowsUnchanged ==
  ASSUME RowsOK, rows' = rows
  PROVE  RowsOK' /\ Keys' = Keys
BY DEF RowsOK, Keys

LEMMA PushQueued ==
  ASSUME IInv, QueuePush
  PROVE  /\ RowsOK'
         /\ \E key \in todo : todo' = todo \ {key} /\ Keys' = Keys \cup {key}
<1>1. PICK key \in todo : todo' = todo \ {key} /\ rows' = Append(rows, NewRow(key))
  BY DEF QueuePush
<1>2. RowsOK /\ key \in Key \ Keys
  BY DEF IInv, KeysOK, TypeOK
<1> QED
  BY <1>1, <1>2, Appended

LEMMA PushDelivered ==
  ASSUME IInv, MarkDelivered
  PROVE  RowsOK' /\ Keys' = Keys \ {InHand}
BY Removed DEF IInv, KeysOK, MarkDelivered

LEMMA PushFailed ==
  ASSUME IInv, MarkFailed
  PROVE  /\ RowsOK'
         /\ \/ Keys' = Keys /\ UNCHANGED <<excused, givenUp>>
            \/ /\ Keys' = Keys \ {InHand}
               /\ excused' = [excused EXCEPT ![InHand.page] = Larger(@, InHand.since)]
               /\ givenUp' = [givenUp EXCEPT ![InHand.page] = TRUE]
<1>0. RowsOK
  BY DEF IInv, KeysOK
<1>1. CASE /\ rows' = [i \in DOMAIN rows |->
                         [rows[i] EXCEPT !.waiting = @ \/ KeyOf(rows[i]) = InHand]]
           /\ UNCHANGED <<excused, givenUp>>
  <2>1. \A i \in DOMAIN rows : rows[i] \in Row
    BY <1>0, KeysAreKeys
  <2>2. \A i \in DOMAIN rows : rows'[i] \in Row /\ KeyOf(rows'[i]) = KeyOf(rows[i])
    BY <1>1, <2>1 DEF Row, KeyOf
  <2>3. DOMAIN rows = 1 .. Len(rows) /\ Len(rows) \in Nat
    BY <1>0, LenProperties DEF RowsOK
  <2>4. rows' \in Seq(Row) /\ DOMAIN rows' = DOMAIN rows
    BY <1>1, <2>2, <2>3
  <2> QED
    BY <1>0, <1>1, <2>2, <2>4, Marked
<1>2. CASE /\ rows' = Without(InHand)
           /\ excused' = [excused EXCEPT ![InHand.page] = Larger(@, InHand.since)]
           /\ givenUp' = [givenUp EXCEPT ![InHand.page] = TRUE]
  BY <1>0, <1>2, Removed
<1> QED
  BY <1>1, <1>2 DEF MarkFailed

LEMMA Refreshed ==
  ASSUME IInv, Refresh
  PROVE  /\ RowsOK'
         /\ \/ Keys' = Keys
            \/ \E key \in Key \ Keys : /\ key.since = now /\ key.by = "hour"
                                       /\ Keys' = Keys \cup {key}
<1>0. RowsOK /\ now \in Number
  BY DEF IInv, KeysOK, TypeOK
<1>1. CASE \E key \in Keys : key.page = "json"
  BY <1>0, <1>1, RowsUnchanged DEF Refresh
<1>2. CASE ~\E key \in Keys : key.page = "json"
  <2> DEFINE key == [page |-> "json", since |-> now, by |-> "hour"]
  <2>1. key \in Key \ Keys /\ key.since = now /\ key.by = "hour"
    BY <1>0, <1>2 DEF Key, Page
  <2>2. rows' = Append(rows, NewRow(key))
    BY <1>2 DEF Refresh, HourlyRow
  <2> HIDE DEF key
  <2> QED
    BY <1>0, <2>1, <2>2, Appended
<1> QED
  BY <1>1, <1>2

LEMMA BackoffPassed ==
  ASSUME IInv, BackoffPasses
  PROVE  RowsOK' /\ Keys' = Keys
<1>0. RowsOK
  BY DEF IInv, KeysOK
<1>1. PICK n \in DOMAIN rows : rows' = [rows EXCEPT ![n].waiting = FALSE]
  BY DEF BackoffPasses
<1>2. \A i \in DOMAIN rows : rows[i] \in Row
  BY <1>0, KeysAreKeys
<1>3. \A i \in DOMAIN rows : rows'[i] \in Row /\ KeyOf(rows'[i]) = KeyOf(rows[i])
  BY <1>1, <1>2 DEF Row, KeyOf
<1>4. /\ DOMAIN rows = 1 .. Len(rows) /\ Len(rows) \in Nat
      /\ rows \in [1 .. Len(rows) -> Row]
  BY <1>0, LenProperties DEF RowsOK
<1>5. DOMAIN rows' = DOMAIN rows /\ rows' \in [1 .. Len(rows) -> Row]
  <2>1. rows' = [i \in DOMAIN rows |-> rows'[i]]
    BY <1>1
  <2> QED
    BY <1>3, <1>4, <2>1
<1> QED
  BY <1>0, <1>3, <1>4, <1>5, Marked

\* Steps that leave the queue alone.
LEMMA QueueUntouched ==
  ASSUME IInv,
         \/ \E kind \in ChangeKinds : Change(kind)
         \/ PushNotQueued \/ WorkerDies \/ UNCHANGED vars
         \/ Poll \/ Generate \/ OpenFile \/ WriteFile \/ PutObject \/ Purge \/ Idle
         \/ \E p \in Page : EdgeFetches(p)
  PROVE  RowsOK' /\ Keys' = Keys
<1>1. rows' = rows
  BY DEF Change, PushNotQueued, WorkerDies, vars, Poll, Generate, OpenFile, WriteFile,
         PutObject, Purge, Idle, EdgeFetches
<1> QED
  BY <1>1, RowsUnchanged DEF IInv, KeysOK

LEMMA KeysStep ==
  ASSUME IInv, [Next]_vars
  PROVE  KeysOK'
<1>0. /\ KeysOK /\ todo \subseteq Key /\ now \in Nat /\ Keys \subseteq Key
      /\ \A key \in Key : key.since \in Nat
  BY KeysAreKeys DEF IInv, KeysOK, TypeOK, Key, Number
<1>1. ASSUME NEW kind \in ChangeKinds, Change(kind)
      PROVE  KeysOK'
  <2> DEFINE new == {[page |-> p, since |-> now + 1, by |-> "change"] : p \in kind.tells}
  <2>1. todo' = todo \cup new /\ now' = now + 1
    BY <1>1 DEF Change
  <2>2. \A key \in new : key.by = "change" /\ key.since = now + 1
    OBVIOUS
  <2> HIDE DEF new
  <2>3. new \cap Keys = {}
    BY <1>0, <2>2 DEF KeysOK
  <2>4. RowsOK' /\ Keys' = Keys
    BY <1>1, QueueUntouched
  <2> QED
    BY <1>0, <2>1, <2>2, <2>3, <2>4 DEF KeysOK
<1>2. CASE QueuePush
  <2>1. now' = now
    BY <1>2 DEF QueuePush, web
  <2> QED
    BY <1>0, <1>2, <2>1, PushQueued DEF KeysOK
<1>3. CASE todo' \subseteq todo /\ now' = now /\ RowsOK' /\ Keys' \subseteq Keys
  BY <1>0, <1>3 DEF KeysOK
<1>4. CASE PushNotQueued \/ WorkerDies \/ UNCHANGED vars \/ Poll \/ Generate \/ OpenFile
           \/ WriteFile \/ PutObject \/ Purge \/ Idle \/ \E p \in Page : EdgeFetches(p)
  <2>1. todo' \subseteq todo /\ now' = now
    BY <1>4 DEF PushNotQueued, WorkerDies, vars, web, Poll, Generate, OpenFile, WriteFile,
                PutObject, Purge, Idle, EdgeFetches
  <2> QED
    BY <1>3, <1>4, <2>1, QueueUntouched
<1>5. CASE MarkDelivered \/ MarkFailed \/ BackoffPasses
  <2>1. todo' = todo /\ now' = now
    BY <1>5 DEF MarkDelivered, MarkFailed, BackoffPasses, web
  <2> QED
    BY <1>3, <1>5, <2>1, PushDelivered, PushFailed, BackoffPassed
<1>6. CASE Refresh
  <2>1. todo' = todo /\ now' = now
    BY <1>6 DEF Refresh, web
  <2> QED
    BY <1>0, <1>6, <2>1, Refreshed DEF KeysOK
<1> QED
  BY <1>1, <1>2, <1>4, <1>5, <1>6 DEF Next, WorkerStep

LEMMA BatchStep ==
  ASSUME IInv, [Next]_vars
  PROVE  BatchOK' /\ batch' \in Seq(Key)
<1>0. /\ RowsOK /\ BatchOK /\ batch \in Seq(Key) /\ now \in Nat /\ session \in Nat
      /\ Keys \subseteq Key /\ \A key \in Keys : key.since \in Nat /\ key.since <= now
  BY KeysAreKeys DEF IInv, KeysOK, TypeOK, Key, Number
<1>1. CASE /\ batch' = batch /\ session' = session /\ Keys \subseteq Keys'
           /\ step' \notin {"poll", "take"} => batch # <<>>
  BY <1>0, <1>1 DEF BatchOK
<1>2. CASE (\E kind \in ChangeKinds : Change(kind)) \/ QueuePush \/ PushNotQueued
           \/ BackoffPasses \/ (\E p \in Page : EdgeFetches(p)) \/ UNCHANGED vars
  <2>1. batch' = batch /\ session' = session /\ step' = step
    BY <1>2 DEF Change, QueuePush, PushNotQueued, BackoffPasses, EdgeFetches, vars, worker
  <2>2. Keys \subseteq Keys'
    BY <1>2, QueueUntouched, PushQueued, BackoffPassed
  <2> QED
    BY <1>0, <1>1, <2>1, <2>2 DEF BatchOK
<1>3. CASE Generate \/ OpenFile \/ WriteFile \/ PutObject \/ Purge
  <2>1. batch' = batch /\ session' = session /\ batch # <<>>
    BY <1>0, <1>3 DEF Generate, OpenFile, WriteFile, PutObject, Purge, BatchOK
  <2> QED
    BY <1>1, <1>3, <2>1, QueueUntouched
<1>4. CASE Poll
  <2> DEFINE keys == IF session = 0 THEN Keys ELSE {batch[i] : i \in DOMAIN batch}
  <2>1. /\ batch' = Due(keys) /\ Keys' = Keys /\ step' = "take"
        /\ session' = IF session = 0 THEN now ELSE session
    BY <1>4, QueueUntouched DEF Poll
  <2>2. \A key \in keys \cap Keys : session' # 0 => key.since <= session'
    BY <1>0, <2>1 DEF BatchOK
  <2> HIDE DEF keys
  <2> QED
    BY <1>0, <2>1, <2>2, DueAre DEF BatchOK
<1>5. CASE MarkDelivered \/ MarkFailed
  <2>1. batch # <<>>
    BY <1>0, <1>5 DEF MarkDelivered, MarkFailed, BatchOK
  <2>2. batch' = Tail(batch) /\ session' = now /\ step' = "take"
    BY <1>5 DEF MarkDelivered, MarkFailed, NextRow
  <2>3. Keys \ {InHand} \subseteq Keys'
    BY <1>5, PushDelivered, PushFailed
  <2> QED
    BY <1>0, <2>1, <2>2, <2>3, HandIsPending DEF BatchOK
<1>6. CASE Idle \/ WorkerDies
  <2>1. batch' = <<>> /\ step' = "poll"
    BY <1>6 DEF Idle, WorkerDies
  <2> QED
    BY <2>1 DEF BatchOK
<1>7. CASE Refresh
  <2>1. /\ batch' = [i \in DOMAIN rows' |-> KeyOf(rows'[i])] /\ session' = now
        /\ step' = "poll"
    BY <1>7 DEF Refresh, LeaveOpen
  <2>2. RowsOK' /\ \A key \in Keys' : key \in Key /\ key.since <= now
    BY <1>0, <1>7, Refreshed
  <2>3. DOMAIN rows' = 1 .. Len(rows') /\ Len(rows') \in Nat
    BY <2>2, LenProperties DEF RowsOK
  <2>4. \A i \in DOMAIN rows' : batch'[i] = KeyOf(rows'[i]) /\ batch'[i] \in Keys'
    BY <2>1 DEF Keys
  <2>5. batch' \in Seq(Key)
    BY <2>1, <2>2, <2>3, <2>4
  <2>6. BatchOK'
    BY <2>1, <2>2, <2>4 DEF BatchOK, RowsOK
  <2> QED
    BY <2>5, <2>6
<1> QED
  BY <1>2, <1>3, <1>4, <1>5, <1>6, <1>7 DEF Next, WorkerStep

\* The page in hand, the storage and the CDN.
LEMMA HandStep ==
  ASSUME IInv, [Next]_vars
  PROVE  HandOK'
<1>0. /\ HandOK
      /\ batch # <<>> => InHand.page \in Page
      /\ step \notin {"poll", "take"} => batch # <<>>
      /\ origin \in [Page -> [from : 1 .. now, torn : BOOLEAN]] /\ edge \in [Page -> 0 .. now]
  BY HandIsPending DEF IInv, BatchOK, TypeOK
<1>1. InHand' = Head(batch')
  BY DEF InHand
<1>2. CASE (\E kind \in ChangeKinds : Change(kind)) \/ QueuePush \/ PushNotQueued
           \/ BackoffPasses \/ UNCHANGED vars
  <2>1. UNCHANGED <<step, origin, edge, destination, page, batch>>
    BY <1>2 DEF Change, QueuePush, PushNotQueued, BackoffPasses, vars, worker
  <2> QED
    BY <1>0, <2>1 DEF HandOK, InHand
<1>3. CASE Poll \/ Generate \/ Idle \/ Refresh \/ WorkerDies \/ MarkDelivered \/ MarkFailed
  <2>1. step' \in {"take", "put", "poll"} /\ UNCHANGED <<edge, destination>>
    BY <1>3 DEF Poll, Generate, Idle, Refresh, LeaveOpen, WorkerDies, MarkDelivered,
                MarkFailed, NextRow
  <2> QED
    BY <1>0, <2>1 DEF HandOK
<1>4. CASE OpenFile
  <2>1. step' = "write" /\ destination = "local" /\ UNCHANGED <<edge, destination>>
    BY <1>4 DEF OpenFile
  <2> QED
    BY <1>0, <2>1 DEF HandOK
<1>5. CASE WriteFile \/ PutObject
  <2>1. /\ origin' = [origin EXCEPT ![InHand.page] = [from |-> page, torn |-> FALSE]]
        /\ UNCHANGED <<edge, destination, page, batch>> /\ batch # <<>>
        /\ step' \in {"purge", "mark"} /\ (step' = "mark" => destination # "cdn")
    BY <1>0, <1>5 DEF WriteFile, PutObject, HandOK
  <2>2. InHand' = InHand /\ InHand.page \in Page
    BY <1>0, <2>1 DEF InHand
  <2> QED
    BY <1>0, <2>1, <2>2 DEF HandOK
<1>6. CASE Purge
  <2>1. /\ edge' = [edge EXCEPT ![InHand.page] = 0] /\ step = "purge" /\ step' = "mark"
        /\ UNCHANGED <<origin, destination, page, batch>> /\ batch # <<>>
    BY <1>0, <1>6 DEF Purge
  <2>2. InHand' = InHand /\ InHand.page \in Page
    BY <1>0, <2>1 DEF InHand
  <2>3. edge'[InHand.page] = 0 /\ \A p \in Page : edge[p] = 0 => edge'[p] = 0
    BY <1>0, <2>1, <2>2
  <2> QED
    BY <1>0, <2>1, <2>2, <2>3 DEF HandOK
<1>7. ASSUME NEW p \in Page, EdgeFetches(p)
      PROVE  HandOK'
  <2>1. /\ edge' = [edge EXCEPT ![p] = origin[p].from] /\ destination = "cdn"
        /\ UNCHANGED <<step, origin, destination, page, batch>>
    BY <1>7 DEF EdgeFetches, worker
  <2>2. InHand' = InHand
    BY <2>1 DEF InHand
  <2>3. \A q \in Page : edge'[q] = edge[q] \/ edge'[q] = origin[q].from
    BY <1>0, <2>1
  <2> QED
    BY <1>0, <2>1, <2>2, <2>3 DEF HandOK
<1> QED
  BY <1>2, <1>3, <1>4, <1>5, <1>6, <1>7 DEF Next, WorkerStep

\* For one page: what it lacks is owed, or its loss is on record; and so when it is torn.
Owed(p) ==
  /\ \/ origin[p].from >= altered[p] \/ excused[p] >= altered[p]
     \/ \E key \in todo \cup Keys : key.page = p /\ key.since >= altered[p]
  /\ origin[p].torn => givenUp[p] \/ \E key \in Keys : key.page = p

LEMMA OwedStep ==
  ASSUME IInv, [Next]_vars, NEW p \in Page
  PROVE  Owed(p)'
<1>0. /\ Owed(p) /\ now \in Nat /\ altered \in [Page -> 1 .. now]
      /\ excused \in [Page -> 0 .. now] /\ givenUp \in [Page -> BOOLEAN]
      /\ origin \in [Page -> [from : 1 .. now, torn : BOOLEAN]]
      /\ altered[p] \in Nat /\ excused[p] \in Nat /\ origin[p].from \in Nat
  <2>1. Owed(p)
    BY DEF IInv, OwedOK, Owed
  <2>2. now \in Nat
    BY DEF IInv, CopiesInOrder
  <2> QED
    BY <2>1, <2>2 DEF IInv, TypeOK
<1>1. \A key \in todo \cup Keys : key.since \in 1 .. now
  BY KeysAreKeys DEF IInv, KeysOK, TypeOK, Key, Number
<1>2. ASSUME NEW kind \in ChangeKinds, Change(kind)
      PROVE  Owed(p)'
  <2>1. /\ now' = now + 1 /\ UNCHANGED <<origin, givenUp>> /\ Keys' = Keys
        /\ todo' = todo \cup {[page |-> q, since |-> now + 1, by |-> "change"] :
                                q \in kind.tells}
        /\ altered'[p] = IF p \in kind.alters THEN now + 1 ELSE altered[p]
        /\ excused'[p] = IF p \in kind.alters \ kind.tells THEN now + 1 ELSE excused[p]
    BY <1>2, QueueUntouched DEF Change
  <2>2. CASE p \in kind.alters /\ p \in kind.tells
    <3> DEFINE key == [page |-> p, since |-> now + 1, by |-> "change"]
    <3>1. key \in todo' /\ key.page = p /\ key.since = now + 1
      BY <2>1, <2>2
    <3> HIDE DEF key
    <3> QED
      BY <1>0, <2>1, <2>2, <3>1 DEF Owed
  <2>3. CASE p \in kind.alters /\ p \notin kind.tells
    BY <1>0, <2>1, <2>3 DEF Owed
  <2>4. CASE p \notin kind.alters
    BY <1>0, <2>1, <2>4 DEF Owed
  <2> QED
    BY <2>2, <2>3, <2>4
<1>3. CASE QueuePush
  <2>1. UNCHANGED <<origin, altered, excused, givenUp>>
    BY <1>3 DEF QueuePush, web
  <2> QED
    BY <1>0, <1>3, <2>1, PushQueued DEF Owed
<1>4. CASE PushNotQueued
  <2>1. PICK key \in todo : /\ todo' = todo \ {key}
                            /\ excused' = [excused EXCEPT ![key.page] = Larger(@, key.since)]
    BY <1>4 DEF PushNotQueued
  <2>2. UNCHANGED <<origin, altered, givenUp>> /\ Keys' = Keys
    BY <1>4, QueueUntouched DEF PushNotQueued, web
  <2>3. excused'[p] = IF p = key.page THEN Larger(excused[p], key.since) ELSE excused[p]
    BY <1>0, <2>1
  <2>4. key.since \in Nat
    BY <1>1
  <2> QED
    BY <1>0, <2>1, <2>2, <2>3, <2>4 DEF Owed, Larger
<1>5. CASE Poll \/ Generate \/ Purge \/ Idle \/ WorkerDies \/ BackoffPasses
           \/ UNCHANGED vars \/ (\E q \in Page : EdgeFetches(q))
  <2>1. UNCHANGED <<todo, origin, altered, excused, givenUp>>
    BY <1>5 DEF Poll, Generate, Purge, Idle, WorkerDies, BackoffPasses, vars, EdgeFetches, web
  <2>2. Keys' = Keys
    BY <1>5, QueueUntouched, BackoffPassed
  <2> QED
    BY <1>0, <2>1, <2>2 DEF Owed
<1>6. CASE OpenFile
  <2>1. batch # <<>>
    BY <1>6 DEF IInv, BatchOK, OpenFile
  <2>2. InHand \in Keys /\ InHand.page \in Page
    BY <2>1, HandIsPending
  <2>3. UNCHANGED <<todo, altered, excused, givenUp>> /\ Keys' = Keys
    BY <1>6, QueueUntouched DEF OpenFile, web
  <2>4. /\ origin'[p].from = origin[p].from
        /\ p # InHand.page => origin'[p].torn = origin[p].torn
    BY <1>0, <1>6 DEF OpenFile
  <2> QED
    BY <1>0, <2>2, <2>3, <2>4 DEF Owed
<1>7. CASE WriteFile \/ PutObject
  <2>1. /\ UNCHANGED <<todo, altered, excused, givenUp>> /\ Keys' = Keys
        /\ origin' = [origin EXCEPT ![InHand.page] = [from |-> page, torn |-> FALSE]]
    BY <1>7, QueueUntouched DEF WriteFile, PutObject, web
  <2>2. page \in Nat /\ origin[p].from <= page
    BY <1>0, <1>7 DEF IInv, CopiesInOrder, Snapshot, WriteFile, PutObject
  <2>3. origin'[p] \in {origin[p], [from |-> page, torn |-> FALSE]}
    BY <1>0, <2>1
  <2> QED
    BY <1>0, <2>1, <2>2, <2>3 DEF Owed
<1>8. CASE MarkDelivered
  <2>1. step = "mark" /\ batch # <<>>
    BY <1>8 DEF MarkDelivered, IInv, BatchOK
  <2>2. InHand.page \in Page /\ InHand.since \in Nat /\ InHand.since <= page
    BY <1>0, <2>1, HandIsPending DEF IInv, CopiesInOrder
  <2>3. origin[InHand.page].from = page /\ ~origin[InHand.page].torn
    BY <2>1 DEF IInv, HandOK
  <2>4. /\ UNCHANGED <<todo, origin, altered, excused>> /\ Keys' = Keys \ {InHand}
        /\ givenUp' = [givenUp EXCEPT ![InHand.page] = FALSE]
    BY <1>8, PushDelivered DEF MarkDelivered, web
  <2>5. CASE p = InHand.page
    <3>1. page \in Nat
      BY <1>0, <2>3, <2>5
    <3>2. \A key \in todo \cup Keys : key \in todo' \cup Keys' \/ key = InHand
      BY <2>4
    <3> QED
      BY <1>0, <1>1, <2>2, <2>3, <2>4, <2>5, <3>1, <3>2 DEF Owed
  <2>6. CASE p # InHand.page
    <3>1. \A key \in Keys : key.page = p => key \in Keys'
      BY <2>4, <2>6
    <3>2. givenUp'[p] = givenUp[p]
      BY <2>4, <2>6
    <3> QED
      BY <1>0, <2>4, <3>1, <3>2 DEF Owed
  <2> QED
    BY <2>5, <2>6
<1>9. CASE MarkFailed
  <2>1. batch # <<>> /\ UNCHANGED <<todo, origin, altered>>
    BY <1>9 DEF MarkFailed, web
  <2>2. InHand.page \in Page /\ InHand.since \in Nat
    BY <1>0, <2>1, HandIsPending
  <2>3. CASE Keys' = Keys /\ UNCHANGED <<excused, givenUp>>
    BY <1>0, <2>1, <2>3 DEF Owed
  <2>4. CASE /\ Keys' = Keys \ {InHand}
             /\ excused' = [excused EXCEPT ![InHand.page] = Larger(@, InHand.since)]
             /\ givenUp' = [givenUp EXCEPT ![InHand.page] = TRUE]
    <3>1. /\ excused'[p] = IF p = InHand.page THEN Larger(excused[p], InHand.since)
                           ELSE excused[p]
          /\ givenUp'[p] = IF p = InHand.page THEN TRUE ELSE givenUp[p]
      BY <1>0, <2>4
    <3>2. \A key \in Keys : key \in Keys' \/ key = InHand
      BY <2>4
    <3> QED
      BY <1>0, <2>1, <2>2, <3>1, <3>2 DEF Owed, Larger
  <2> QED
    BY <1>9, <2>3, <2>4, PushFailed
<1>10. CASE Refresh
  <2>1. UNCHANGED <<todo, origin, altered, excused, givenUp>>
    BY <1>10 DEF Refresh, web
  <2>2. Keys \subseteq Keys'
    BY <1>10, Refreshed
  <2> QED
    BY <1>0, <2>1, <2>2 DEF Owed
<1> QED
  BY <1>2, <1>3, <1>4, <1>5, <1>6, <1>7, <1>8, <1>9, <1>10 DEF Next, WorkerStep

LEMMA TypeStep ==
  ASSUME IInv, [Next]_vars
  PROVE  TypeOK'
<1>0. /\ TypeOK /\ KeysOK' /\ BatchOK' /\ batch' \in Seq(Key) /\ CopiesInOrder'
      /\ MaxChanges \in Nat /\ now \in Nat \ {0} /\ session \in Nat
  BY KeysStep, BatchStep, CopiesStayInOrder, StaticPagesAssumption DEF IInv, CopiesInOrder
<1>1. rows' \in Seq(Row) /\ session' \in 0 .. now'
  BY <1>0 DEF KeysOK, RowsOK, CopiesInOrder
<1>2. /\ now' \in Number /\ now' >= now /\ altered' \in [Page -> 1 .. now']
      /\ destination' \in Destinations
      /\ step' \in {"poll", "take", "put", "write", "purge", "mark"}
      /\ faults' \in 0 .. MaxFaults
  <2>1. CASE UNCHANGED <<now, altered>>
    <3>1. /\ destination' \in Destinations
          /\ step' \in {"poll", "take", "put", "write", "purge", "mark"}
          /\ faults' = faults \/ Fault
      BY <2>1, <1>0 DEF TypeOK, Next, WorkerStep, QueuePush, PushNotQueued, Poll, Generate,
           OpenFile, WriteFile, PutObject, Purge, MarkDelivered, Idle, Refresh, MarkFailed,
           WorkerDies, BackoffPasses, EdgeFetches, Change, NextRow, LeaveOpen, vars, worker
    <3>2. faults' \in 0 .. MaxFaults
      BY <1>0, <3>1, StaticPagesAssumption DEF TypeOK, Fault
    <3> QED
      BY <1>0, <2>1, <3>1, <3>2 DEF TypeOK
  <2>2. ASSUME NEW kind \in ChangeKinds, Change(kind)
        PROVE  /\ now' \in Number /\ now' >= now /\ altered' \in [Page -> 1 .. now']
               /\ destination' \in Destinations
               /\ step' \in {"poll", "take", "put", "write", "purge", "mark"}
               /\ faults' \in 0 .. MaxFaults
    <3>1. now' = now + 1 /\ now' \in Number
      BY <1>0, <2>2 DEF Change, Number
    <3>2. altered' \in [Page -> 1 .. now']
      BY <1>0, <2>2, <3>1 DEF Change, TypeOK
    <3> QED
      BY <1>0, <2>2, <3>1, <3>2 DEF Change, TypeOK, worker
  <2> QED
    BY <2>1, <2>2 DEF Next, WorkerStep, QueuePush, PushNotQueued, Poll, Generate, OpenFile,
         WriteFile, PutObject, Purge, MarkDelivered, Idle, Refresh, MarkFailed, WorkerDies,
         BackoffPasses, EdgeFetches, vars, web
<1>n. now' \in Nat
  BY <1>0, <1>2 DEF Number
<1>3. todo' \subseteq Key
  <2>1. ASSUME NEW kind \in ChangeKinds, Change(kind)
        PROVE  todo' \subseteq Key
    <3>1. now + 1 \in Number /\ kind.tells \subseteq Page
      BY <1>0, <2>1 DEF Change, Number, ChangeKinds, Repairs, Bookings, Reservables,
                        OtherEdits, Window, Page
    <3> QED
      BY <1>0, <2>1, <3>1 DEF Change, TypeOK, Key
  <2>2. CASE todo' \subseteq todo
    BY <1>0, <2>2 DEF TypeOK
  <2> QED
    BY <2>1, <2>2 DEF Next, WorkerStep, QueuePush, PushNotQueued, Poll, Generate, OpenFile,
         WriteFile, PutObject, Purge, MarkDelivered, Idle, Refresh, MarkFailed, WorkerDies,
         BackoffPasses, EdgeFetches, vars
<1>4. page' \in 0 .. now'
  <2>1. page' \in {page, session, 0}
    BY DEF Next, WorkerStep, QueuePush, PushNotQueued, Poll, Generate, OpenFile, WriteFile,
         PutObject, Purge, MarkDelivered, Idle, Refresh, MarkFailed, WorkerDies,
         BackoffPasses, EdgeFetches, Change, NextRow, LeaveOpen, vars, worker
  <2> QED
    BY <1>0, <1>2, <1>n, <2>1 DEF TypeOK
<1>5. origin' \in [Page -> [from : 1 .. now', torn : BOOLEAN]] /\ edge' \in [Page -> 0 .. now']
  <2>1. origin' \in [Page -> [from : Nat \ {0}, torn : BOOLEAN]] /\ edge' \in [Page -> Nat]
        /\ \A p \in Page : edge'[p] <= origin'[p].from /\ origin'[p].from <= Snapshot'
    BY <1>0 DEF CopiesInOrder
  <2>2. Snapshot' <= now' /\ Snapshot' \in Nat
    BY <1>1, <1>n DEF Snapshot
  <2>3. \A p \in Page : /\ origin'[p] \in [from : 1 .. now', torn : BOOLEAN]
                        /\ edge'[p] \in 0 .. now'
    BY <1>n, <2>1, <2>2
  <2> QED
    BY <2>1, <2>3
<1>6. excused' \in [Page -> 0 .. now'] /\ givenUp' \in [Page -> BOOLEAN]
  <2>0. excused \in [Page -> 0 .. now'] /\ givenUp \in [Page -> BOOLEAN]
    BY <1>0, <1>2, <1>n DEF TypeOK
  <2>1. CASE UNCHANGED <<excused, givenUp>>
    BY <2>0, <2>1
  <2>2. ASSUME NEW kind \in ChangeKinds, Change(kind)
        PROVE  excused' \in [Page -> 0 .. now'] /\ givenUp' \in [Page -> BOOLEAN]
    <3>1. now + 1 \in 0 .. now' /\ givenUp' = givenUp
      BY <1>0, <2>2 DEF Change
    <3> QED
      BY <2>0, <2>2, <3>1 DEF Change
  <2>3. CASE PushNotQueued
    <3>1. PICK key \in todo : excused' = [excused EXCEPT ![key.page] = Larger(@, key.since)]
      BY <2>3 DEF PushNotQueued
    <3>2. key.page \in Page /\ key.since \in 0 .. now' /\ givenUp' = givenUp
      <4>1. key \in Key /\ key.since <= now /\ key.since \in Nat /\ now' = now
        BY <1>0, <2>3 DEF IInv, KeysOK, TypeOK, Key, Number, PushNotQueued, web
      <4> QED
        BY <1>0, <2>3, <4>1 DEF Key, PushNotQueued
    <3> QED
      BY <2>0, <3>1, <3>2 DEF Larger
  <2>4. CASE MarkDelivered
    BY <2>0, <2>4 DEF MarkDelivered
  <2>5. CASE MarkFailed
    <3>1. InHand.page \in Page /\ InHand.since \in 0 .. now'
      <4>1. batch # <<>> /\ now' = now
        BY <2>5 DEF MarkFailed, web
      <4> QED
        BY <1>0, <4>1, HandIsPending
    <3> QED
      BY <2>0, <2>1, <2>5, <3>1, PushFailed DEF Larger
  <2> QED
    BY <2>1, <2>2, <2>3, <2>4, <2>5 DEF Next, WorkerStep, QueuePush, Poll, Generate, OpenFile,
         WriteFile, PutObject, Purge, Idle, Refresh, WorkerDies, BackoffPasses, EdgeFetches,
         vars
<1> QED
  BY <1>0, <1>1, <1>2, <1>3, <1>4, <1>5, <1>6 DEF TypeOK

LEMMA Initially == Init => IInv
<1> SUFFICES ASSUME Init PROVE IInv
  OBVIOUS
<1>1. TypeOK
  BY StaticPagesAssumption DEF Init, TypeOK, Number
<1>2. CopiesInOrder
  BY DEF Init, CopiesInOrder, Snapshot
<1>3. DOMAIN rows = {} /\ DOMAIN batch = {} /\ Keys = {} /\ rows \in Seq(Row)
  BY DEF Init, Keys
<1>4. KeysOK /\ BatchOK
  BY <1>3 DEF Init, KeysOK, RowsOK, BatchOK
<1>5. HandOK /\ OwedOK
  BY DEF Init, HandOK, OwedOK
<1> QED
  BY <1>1, <1>2, <1>4, <1>5 DEF IInv

LEMMA Inductive == IInv /\ [Next]_vars => IInv'
<1> SUFFICES ASSUME IInv, [Next]_vars PROVE IInv'
  OBVIOUS
<1>1. OwedOK'
  BY OwedStep DEF OwedOK, Owed
<1>2. CopiesInOrder'
  BY CopiesStayInOrder DEF IInv
<1> QED
  BY <1>1, <1>2, TypeStep, KeysStep, BatchStep, HandStep DEF IInv

\* Every step of the requests, the worker and the CDN keeps the invariant.
THEOREM Invariant == Spec => []IInv
BY Initially, Inductive, PTL DEF Spec

\* The queue, the worker and the copies of the pages are well-formed.
THEOREM TypeCorrect == Spec => []TypeOK
<1>1. IInv => TypeOK
  BY DEF IInv
<1> QED
  BY <1>1, Invariant, PTL

\* A page of the storage that is out of date or torn will be replaced by a push that is
\* pending or about to be queued, unless the loss of that push is on record, whatever
\* is retried, given up or killed (push, mark_failed).
THEOREM OutOfDateIsOwed == Spec => []BehindIsOwed
<1>1. IInv => BehindIsOwed
  <2> SUFFICES ASSUME IInv, NEW p \in Page
               PROVE  LET owed == \E key \in todo \cup Keys : key.page = p IN
                      /\ altered[p] > origin[p].from => owed \/ excused[p] > origin[p].from
                      /\ origin[p].torn => owed \/ givenUp[p]
    BY DEF BehindIsOwed
  <2>1. altered[p] \in Nat /\ origin[p].from \in Nat /\ excused[p] \in Nat
    BY DEF IInv, TypeOK, Number
  <2> QED
    BY <2>1 DEF IInv, OwedOK
<1> QED
  BY <1>1, Invariant, PTL

\* What is marked delivered is what viewers get, with the change the push was queued for
\* (mark_delivered, _create_cloudfront_invalidation).
THEOREM DeliveredIsServed == Spec => DeliveredMeansServed
<1>1. IInv /\ [Next]_vars => [MarkDelivered => Served(InHand.page) >= InHand.since]_vars
  <2> SUFFICES ASSUME IInv, MarkDelivered
               PROVE  Served(InHand.page) >= InHand.since
    OBVIOUS
  <2>1. step = "mark" /\ batch # <<>>
    BY DEF MarkDelivered, IInv, BatchOK
  <2>2. /\ InHand.page \in Page /\ InHand.since \in Nat /\ page = session
        /\ InHand.since <= page
    BY <2>1, HandIsPending DEF IInv, CopiesInOrder
  <2>3. origin[InHand.page].from = page /\ edge[InHand.page] \in {0, page}
    BY <2>1 DEF IInv, HandOK
  <2> QED
    BY <2>2, <2>3 DEF Served
<1> QED
  BY <1>1, Invariant, PTL DEF Spec, DeliveredMeansServed
=============================================================================

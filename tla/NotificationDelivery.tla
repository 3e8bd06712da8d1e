------------------------ MODULE NotificationDelivery ------------------------
(***************************************************************************)
(* What the notification queue promises, whatever happens to its worker:   *)
(* a queued notification is sent until one sending is known to have worked *)
(* or the worker gives up; it is never sent after that; and one of the two *)
(* comes about.  NotificationQueue implements this.                        *)
(***************************************************************************)
EXTENDS Naturals

CONSTANT Row

VARIABLES
  state,   \* "none", "owed", "delivered" or "abandoned", per row
  sent     \* how often each was really sent

vars == <<state, sent>>

Init == state = [i \in Row |-> "none"] /\ sent = [i \in Row |-> 0]

Settle(i, from, to) ==
  /\ state[i] = from
  /\ state' = [state EXCEPT ![i] = to]
  /\ UNCHANGED sent

Queue(i) == Settle(i, "none", "owed")

Send(i) ==
  /\ state[i] = "owed"
  /\ sent' = [sent EXCEPT ![i] = @ + 1]
  /\ UNCHANGED state

Confirm(i) == sent[i] > 0 /\ Settle(i, "owed", "delivered")

GiveUp(i) == Settle(i, "owed", "abandoned")

Next == \E i \in Row : Queue(i) \/ Send(i) \/ Confirm(i) \/ GiveUp(i)

Safety == Init /\ [][Next]_vars

Settled == \A i \in Row : state[i] = "owed" ~> state[i] \in {"delivered", "abandoned"}

Spec == Safety /\ Settled
=============================================================================

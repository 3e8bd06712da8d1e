------------------------------ MODULE Requests ------------------------------
(***************************************************************************)
(* The requests of the web server, one thread each, as the administration  *)
(* modules share them.  A request reads one snapshot of the database when  *)
(* it begins (REPEATABLE READ), decides, and writes in a later step; a     *)
(* commit starts a new transaction with a new snapshot.  A refused request *)
(* changes nothing and has no step.  `changed' records what other requests *)
(* wrote since a request's snapshot: the database (MariaDB 12.2,           *)
(* innodb_snapshot_isolation) refuses to write such a row.                 *)
(*                                                                         *)
(* The pages of the administration fall into desks that share no table.    *)
(* A behaviour stays at one desk; MaxRequests bounds its requests.         *)
(***************************************************************************)
EXTENDS Integers

CONSTANTS
  NULL,
  Thread,       \* the server's threads
  Desk,         \* the desks a behaviour may be at
  MaxRequests   \* bound: the requests begun at each desk

ASSUME RequestsAssumption == MaxRequests \in [Desk -> Nat]

VARIABLES
  desk,
  request,      \* per thread: the request in progress, with what it decided
  changed,      \* per thread: <<row, column>> others wrote since its snapshot
  begun         \* number of requests begun

requestVars == <<desk, request, changed, begun>>

NoRequest == [op |-> "none"]

Idle(t) == request[t] = NoRequest

RequestsInit ==
  /\ desk \in Desk
  /\ request = [t \in Thread |-> NoRequest]
  /\ changed = [t \in Thread |-> {}]
  /\ begun = 0

\* A request whose first decision is r.
Begin(t, d, r) ==
  /\ desk = d
  /\ Idle(t)
  /\ begun < MaxRequests[d]
  /\ begun' = begun + 1
  /\ request' = [request EXCEPT ![t] = r]
  /\ changed' = [changed EXCEPT ![t] = {}]
  /\ UNCHANGED desk

\* A step of t outside the database.
Continue(t, r) ==
  /\ request' = [request EXCEPT ![t] = r]
  /\ UNCHANGED <<desk, changed, begun>>

\* The commit of t, which wrote `columns', and goes on as r.
Commit(t, r, columns) ==
  /\ request' = [request EXCEPT ![t] = r]
  /\ changed' = [u \in Thread |-> IF u = t \/ Idle(u) THEN {}
                                  ELSE changed[u] \cup columns]
  /\ UNCHANGED <<desk, begun>>

\* Nobody changed the row since the snapshot of t.
Unchanged(t, row) == \A c \in changed[t] : c[1] # row

\* Another request wrote that column since the snapshot of t.
Overtaken(t, row, column) == <<row, column>> \in changed[t]

\* The columns in which two rows differ.
Differing(row, old, new) ==
  {<<row, c>> : c \in {d \in DOMAIN new : d \notin DOMAIN old \/ old[d] # new[d]}}
=============================================================================

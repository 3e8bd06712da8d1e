------------------------- MODULE ReservationCalendar -------------------------
(***************************************************************************)
(* What the reservations promise, with the requests, their transactions    *)
(* and locks left out: each reservation is booked, canceled or replaced in *)
(* one step that sees all the others.  Reservations implements this.       *)
(***************************************************************************)
EXTENDS Integers, Sequences

CONSTANTS
  Equipment,
  Code,        \* the policy warnings that can be overridden, "conflict" among them
  NONE

VARIABLE reservation  \* the reservations, in order of their ids

Reservation ==
  [equipment : Equipment, starts_at : Int, ends_at : Int, active : BOOLEAN,
   via : {"slack", "admin"},
   codes : SUBSET Code,          \* the policy warnings that were overridden
   replaces : Nat \cup {NONE}]   \* the reservation it takes the place of

Overlaps(r, s) ==
  /\ r.equipment = s.equipment
  /\ r.starts_at < s.ends_at /\ s.starts_at < r.ends_at

Active == {r \in DOMAIN reservation : reservation[r].active}

\* The reservations when those in rs have been canceled.
Without(rs) ==
  [r \in DOMAIN reservation |->
     IF r \in rs THEN [reservation[r] EXCEPT !.active = FALSE] ELSE reservation[r]]

Init == reservation = <<>>

\* A new reservation, in the place of an active one or of none; one that overlaps
\* another says so, which members cannot.
Book ==
  LET new == reservation'[Len(reservation) + 1] IN
  /\ Len(reservation') = Len(reservation) + 1
  /\ new \in Reservation /\ new.active
  /\ new.via = "slack" => new.codes = {}
  /\ new.replaces \in Active \cup {NONE}
  /\ "conflict" \in new.codes
       <=> \E r \in Active \ {new.replaces} : Overlaps(reservation[r], new)
  /\ reservation' = Append(Without({new.replaces}), new)

Cancel(r) == reservation' = Without({r})

Next == Book \/ \E r \in Active : Cancel(r)

Spec == Init /\ [][Next]_reservation

-----------------------------------------------------------------------------
\* Of two active reservations that overlap, the later one was confirmed as a conflict,
\* which is to say by staff.
OverlapsWereOverridden ==
  \A r, s \in Active :
    r < s /\ Overlaps(reservation[r], reservation[s])
      => "conflict" \in reservation[s].codes /\ reservation[s].via = "admin"

\* A reservation is replaced once, and canceled by that.
ReplacedOnce ==
  \A s \in DOMAIN reservation :
    LET r == reservation[s].replaces IN
    r # NONE =>
      /\ r \in DOMAIN reservation /\ ~reservation[r].active
      /\ \A u \in DOMAIN reservation : reservation[u].replaces = r => u = s
=============================================================================

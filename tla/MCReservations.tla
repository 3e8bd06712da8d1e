--------------------------- MODULE MCReservations ---------------------------
(* A policy that asks for some notice, and the same switched off. *)
EXTENDS Reservations

Policy(enabled) ==
  [enabled |-> enabled, min_advance_notice |-> 1, max_advance_notice |-> 2,
   min_duration |-> 1, max_duration |-> 2, slot_granularity |-> 1]

MCSettings == {Policy(TRUE), Policy(FALSE)}
=============================================================================

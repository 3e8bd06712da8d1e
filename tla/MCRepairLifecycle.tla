------------------------- MODULE MCRepairLifecycle -------------------------
(***************************************************************************)
(* RepairLifecycle for TLC.  Threads are alike, and so are record ids: the *)
(* module only tests them for equality and picks a free id arbitrarily.    *)
(***************************************************************************)
EXTENDS RepairLifecycle, TLC

Symmetry == Permutations(Thread) \cup Permutations(Repair)
=============================================================================

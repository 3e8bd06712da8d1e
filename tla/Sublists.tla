------------------------------ MODULE Sublists ------------------------------
(***************************************************************************)
(* The elements of a list that are in a set, in their order: the list      *)
(* comprehensions and WHERE clauses of the services.  SelectSeq says the   *)
(* same, but nothing can be proved about it; Sublists_proofs says what     *)
(* this one keeps.                                                         *)
(***************************************************************************)
EXTENDS Naturals, Sequences

\* kept[i] is what is kept of the first i elements.
Only(list, keep) ==
  LET kept[i \in 0 .. Len(list)] ==
        IF i = 0 THEN <<>>
        ELSE IF list[i] \in keep THEN Append(kept[i - 1], list[i]) ELSE kept[i - 1]
  IN  kept[Len(list)]

\* The elements of a list.
Elements(list) == {list[i] : i \in DOMAIN list}
=============================================================================

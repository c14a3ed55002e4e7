------------------------------- MODULE Places -------------------------------
(***************************************************************************)
(* The elements of a list which a loop over it keeps.  It is SelectSeq     *)
(* with the places of the elements instead of a test of them, and without  *)
(* recursion, so that the proofs can speak of it.                          *)
(***************************************************************************)
EXTENDS Naturals, FiniteSets

\* The elements of a list at some of its places, in their order.
AtPlaces(list, places) ==
  [n \in 1..Cardinality(places) |-> list[CHOOSE i \in places : Cardinality({j \in places : j <= i}) = n]]
=============================================================================

-------------------------------- MODULE Places --------------------------------
(***************************************************************************)
(* The items of a sequence at some of its places: what a comprehension with *)
(* a condition makes of a list.                                             *)
(***************************************************************************)
EXTENDS Naturals, Sequences, FiniteSets

(* How many of the places come up to i. *)
Rank(places, i) == Cardinality({j \in places : j <= i})

(* The items of a sequence at these of its places, in their order. *)
Picked(seq, places) ==
    LET Nth(n) == CHOOSE i \in places : Rank(places, i) = n
    IN  [n \in 1..Cardinality(places) |-> seq[Nth(n)]]
=============================================================================

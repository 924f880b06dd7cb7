---------------------------- MODULE Subsequences -----------------------------
(***************************************************************************)
(* What is left of a list when some of its elements are taken out: by the  *)
(* places that stay, so that it can be reasoned about.                     *)
(***************************************************************************)
EXTENDS Naturals, Sequences, FiniteSets

\* The k-th of a set of places.
PlaceOf(keep, k) == CHOOSE i \in keep : Cardinality({j \in keep : j <= i}) = k

\* The elements of s at those places, in their order.
Kept(s, keep) ==
  IF keep = DOMAIN s THEN s ELSE [k \in 1..Cardinality(keep) |-> s[PlaceOf(keep, k)]]
=============================================================================

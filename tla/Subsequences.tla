--------------------------- MODULE Subsequences ---------------------------
(***************************************************************************)
(* What a loop that appends some of the elements it sees leaves behind, said  *)
(* by place rather than by recursion, so that it can be reasoned about.      *)
(***************************************************************************)
EXTENDS Naturals, Sequences, FiniteSets

\* Where s has an element of K.
Places(s, K) == {i \in DOMAIN s : s[i] \in K}

\* How many of them there are up to i.
PlaceOf(places, i) == Cardinality({j \in places : j <= i})

\* The elements of s that are in K, in their order.
Those(s, K) ==
  LET places == Places(s, K)
  IN  [n \in 1..Cardinality(places) |-> s[CHOOSE i \in places : PlaceOf(places, i) = n]]
=============================================================================

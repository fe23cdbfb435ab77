-------------------------------- MODULE InOrder --------------------------------
(***************************************************************************)
(* Numbers in increasing order, and the part of a sequence at some of its  *)
(* positions, in its order: what filter and sort do, written without       *)
(* recursion so that it can be reasoned about.                             *)
(***************************************************************************)
EXTENDS Naturals, FiniteSets

Rank(K, k) == Cardinality({j \in K : j <= k})

\* The n-th smallest member of K.
Nth(K, n) == CHOOSE k \in K : Rank(K, k) = n

Ascending(K) == [n \in 1 .. Cardinality(K) |-> Nth(K, n)]

\* The elements of s at the positions K.
Selected(s, K) == [n \in 1 .. Cardinality(K) |-> s[Nth(K, n)]]
=============================================================================

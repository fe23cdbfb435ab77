----------------------------- MODULE MCConnPool -----------------------------
(***************************************************************************)
(* Instances of ConnPool for TLC: two repository ids that may name the     *)
(* same database directory or different ones, in a pool of one.            *)
(***************************************************************************)
EXTENDS ConnPool, TLC

CONSTANTS r1, r2, p1, p2, c1, c2, c3, k1, k2, n1, n2, d1, d2

Symmetry ==
  Permutations({c1, c2, c3}) \cup Permutations({k1, k2})
    \cup Permutations({r1, r2}) \cup Permutations({p1, p2})
=============================================================================

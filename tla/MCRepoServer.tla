---------------------------- MODULE MCRepoServer ----------------------------
(***************************************************************************)
(* Instances of RepoServer for TLC.                                        *)
(***************************************************************************)
EXTENDS RepoServer, TLC

CONSTANTS j1, j2, e1, e2, p1, p2

Symmetry ==
  Permutations({j1, j2}) \cup Permutations({e1, e2}) \cup Permutations({p1, p2})

\* With one analysis job only the other two sets may be permuted.
EmbedSymmetry == Permutations({e1, e2}) \cup Permutations({p1, p2})
=============================================================================

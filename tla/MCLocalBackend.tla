--------------------------- MODULE MCLocalBackend ---------------------------
(***************************************************************************)
(* Instances of LocalBackend for TLC: two repositories of one name, so     *)
(* that their ids depend on who was known first.                           *)
(***************************************************************************)
EXTENDS LocalBackend

CONSTANTS p1, p2, n, c1, c2

SameName == [p \in Paths |-> n]

\* Paths that differ in their first bytes.
OwnHash == [p \in Paths |-> p]
=============================================================================

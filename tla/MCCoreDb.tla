------------------------------ MODULE MCCoreDb ------------------------------
(***************************************************************************)
(* An instance of CoreDb for TLC: a server whose requests use the database *)
(* or close it, and a second process.                                      *)
(***************************************************************************)
EXTENDS CoreDb

CONSTANTS server, worker, s1, s2, w, a, b, h1, h2, h3

\* A request for each database; the process beside the server works on one.
Demand == [u \in Users |-> IF u = s2 THEN {b} ELSE {a}]

Homes == [u \in Users |-> IF u = w THEN worker ELSE server]
=============================================================================

---------------------------- MODULE MCRunAnalyze ----------------------------
(***************************************************************************)
(* Instances of RunAnalyze for TLC.                                        *)
(***************************************************************************)
EXTENDS RunAnalyze, TLC

CONSTANTS self, other, runner, peer, f1, f2, a, b, c1, c2

\* The second commit changes one file and deletes the other.
TwoCommits == (c1 :> (f1 :> a @@ f2 :> a)) @@ (c2 :> (f1 :> b @@ f2 :> Absent))

\* An edited file; and no file at all.
TwoDrafts == {f1 :> b @@ f2 :> a, f1 :> Absent @@ f2 :> Absent}
=============================================================================

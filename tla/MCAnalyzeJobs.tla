--------------------------- MODULE MCAnalyzeJobs ---------------------------
(***************************************************************************)
(* Instances of AnalyzeJobs for TLC.                                       *)
(***************************************************************************)
EXTENDS AnalyzeJobs, TLC

CONSTANTS j1, j2, p1, p2

TwoJobs == {j1, j2}
OneJob  == {j1}
TwoPaths == {p1, p2}
OnePath  == {p1}

Everything     == Adversities
CancelOnly     == {"cancel"}
=============================================================================

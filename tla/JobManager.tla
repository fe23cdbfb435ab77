----------------------------- MODULE JobManager -----------------------------
(***************************************************************************)
(* The job table of gitnexus/src/server/analyze-job.ts as operators on a   *)
(* function  status : job ids -> Statuses.  The server owns two tables of  *)
(* this class, one for analysis and one for embedding; AnalyzeJobs and     *)
(* EmbedJobs each keep their own status variable and use these operators.  *)
(*                                                                         *)
(* A job id is a randomUUID and is never used twice: it goes from "unborn" *)
(* to a status of the program and, when the sweep drops it, to "gone".     *)
(* "queued" is left out, because every caller overwrites it in the step    *)
(* that creates the job; "loading" is never assigned anywhere.             *)
(***************************************************************************)

Active   == {"cloning", "analyzing"}
Terminal == {"complete", "failed"}
Absent   == {"unborn", "gone"}
Statuses == Active \cup Terminal \cup Absent

\* The jobs that block createJob.
ActiveJobs(status) == {j \in DOMAIN status : status[j] \in Active}

SlotFreeOnceCloned(status) == {j \in DOMAIN status : status[j] = "cloning"} = {}
SlotFreeOfAnalyses(status) == {j \in DOMAIN status : status[j] = "analyzing"} = {}

\* createJob: a request gets a new job only when no other is active.
SlotFree(status) == ActiveJobs(status) = {}

\* updateJob: the assignment is unconditional, a terminal job included; an id
\* that is not in the table is ignored.
UpdateJob(status, j, s) ==
  IF status[j] \in Absent THEN status ELSE [status EXCEPT ![j] = s]

\* One pass of the TTL sweep over one job.
Dropped(status, j) == [status EXCEPT ![j] = "gone"]
=============================================================================

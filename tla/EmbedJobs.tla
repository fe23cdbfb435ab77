----------------------------- MODULE EmbedJobs -----------------------------
(***************************************************************************)
(* POST and DELETE /api/embed of gitnexus/src/server/api/                  *)
(* lifecycle-streaming.ts: a second JobManager, whose jobs run the         *)
(* embedding pipeline inside the server process under the repository lock  *)
(* of RepoLocks.                                                           *)
(*                                                                         *)
(* A request that gets past the lock starts a pipeline of its own, even    *)
(* when createJob hands it the job of another one; pipelines and jobs are  *)
(* therefore told apart, and both take their identity from EmbedIds.       *)
(***************************************************************************)
EXTENDS JobManager, RepoLocks

CONSTANTS
  EmbedIds,       \* ids of embedding jobs and of their pipelines
  EmbedAdversity  \* subset of {"cancel", "timeout"}: see AnalyzeJobs

VARIABLES
  eStatus,    \* job table of embedJobManager
  ePath,      \* pipeline -> repository its request names (never changes)
  eJob,       \* pipeline -> job it reports to
  embedding,  \* pipelines in progress
  eTimer      \* pipelines whose 30-minute timer is armed

embedVars == <<eStatus, ePath, eJob, embedding, eTimer>>

EmbedInit ==
  /\ eStatus = [e \in EmbedIds |-> "unborn"]
  /\ ePath \in [EmbedIds -> Paths]
  /\ eJob = [e \in EmbedIds |-> e]
  /\ embedding = {} /\ eTimer = {}

-----------------------------------------------------------------------------
\* Lock first, then createJob: a new job, the active job of the same path, or,
\* when the slot is taken by another path, an exception that leaves the lock held.
EmbedRequest(e) ==
  /\ eStatus[e] = "unborn"
  /\ AcquireLock(ePath[e])
  /\ \/ /\ SlotFree(eStatus)
        /\ eStatus' = [eStatus EXCEPT ![e] = "analyzing"]
        /\ embedding' = embedding \cup {e}
        /\ eTimer' = eTimer \cup {e}
        /\ UNCHANGED eJob
     \/ \E d \in ActiveJobs(eStatus) :
          /\ ePath[d] = ePath[e]
          /\ eStatus' = [eStatus EXCEPT ![e] = "gone"]
          /\ eJob' = [eJob EXCEPT ![e] = d]
          /\ embedding' = embedding \cup {e}
          /\ eTimer' = eTimer \cup {e}
     \/ /\ ~SlotFree(eStatus)
        /\ \A d \in ActiveJobs(eStatus) : ePath[d] # ePath[e]
        /\ eStatus' = [eStatus EXCEPT ![e] = "gone"]
        /\ UNCHANGED <<eJob, embedding, eTimer>>
  /\ UNCHANGED ePath

EmbedTimeoutUnreported(e) ==
  /\ "timeout" \in EmbedAdversity
  /\ e \in eTimer
  /\ eTimer' = eTimer \ {e}
  /\ IF eStatus[eJob[e]] \in Active THEN ReleaseLock(ePath[e]) ELSE UNCHANGED locks
  /\ UNCHANGED <<eStatus, ePath, eJob, embedding>>

\* The timer frees the lock and fails the job; the pipeline goes on.
EmbedTimeout(e) ==
  /\ "timeout" \in EmbedAdversity
  /\ e \in eTimer
  /\ eTimer' = eTimer \ {e}
  /\ IF eStatus[eJob[e]] \in Active
     THEN /\ ReleaseLock(ePath[e])
          /\ eStatus' = UpdateJob(eStatus, eJob[e], "failed")
     ELSE UNCHANGED <<locks, eStatus>>
  /\ UNCHANGED <<ePath, eJob, embedding>>

\* The pipeline returns or throws: release, then report unless already failed.
PipelineEnds(e, s) ==
  /\ e \in embedding
  /\ embedding' = embedding \ {e}
  /\ eTimer' = eTimer \ {e}
  /\ ReleaseLock(ePath[e])
  /\ eStatus' = IF eStatus[eJob[e]] # "failed"
                THEN UpdateJob(eStatus, eJob[e], s) ELSE eStatus
  /\ UNCHANGED <<ePath, eJob>>

\* Cancelling has no child to signal: the pipeline goes on, and keeps the lock.
EmbedCancel(e) ==
  /\ "cancel" \in EmbedAdversity
  /\ eStatus[e] \in Active
  /\ eStatus' = UpdateJob(eStatus, e, "failed")
  /\ UNCHANGED <<ePath, eJob, embedding, eTimer, locks>>

EmbedExpire(e) ==
  /\ eStatus[e] \in Terminal
  /\ eStatus' = Dropped(eStatus, e)
  /\ UNCHANGED <<ePath, eJob, embedding, eTimer, locks>>

EmbedNext ==
  \E e \in EmbedIds :
    \/ EmbedRequest(e) \/ EmbedTimeout(e) \/ EmbedCancel(e) \/ EmbedExpire(e)
    \/ \E s \in Terminal : PipelineEnds(e, s)
=============================================================================

----------------------------- MODULE RepoServer -----------------------------
(***************************************************************************)
(* The handlers that work on a repository's files together: analysis jobs  *)
(* (AnalyzeJobs), embedding jobs (EmbedJobs) and DELETE /api/repo, in one  *)
(* server process that keeps them apart with activeRepoPaths (RepoLocks).  *)
(***************************************************************************)
EXTENDS AnalyzeJobs, EmbedJobs

VARIABLE deleting   \* repositories whose deletion is in progress

serverVars == <<vars, embedVars, deleting>>

ServerInit == Init /\ EmbedInit /\ deleting = {}

DeleteUnlocked(p) == deleting' = deleting \cup {p} /\ UNCHANGED locks

\* DELETE /api/repo: take the lock or answer 409, remove index and clone,
\* unregister, and release in the finally block.
DeleteStarts(p) ==
  /\ AcquireLock(p)
  /\ deleting' = deleting \cup {p}

DeleteEnds(p) ==
  /\ p \in deleting
  /\ deleting' = deleting \ {p}
  /\ ReleaseLock(p)

\* The variables of AnalyzeJobs but for the locks.
analyzeVars == <<jobVars, target, procVars, reloads>>

ServerNext ==
  \/ Next /\ UNCHANGED <<embedVars, deleting>>
  \/ EmbedNext /\ UNCHANGED <<analyzeVars, deleting>>
  \/ \E p \in Paths :
       /\ DeleteStarts(p) \/ DeleteEnds(p)
       /\ UNCHANGED <<analyzeVars, embedVars>>

ServerSpec == ServerInit /\ [][ServerNext]_serverVars

-----------------------------------------------------------------------------
(* Properties.                                                             *)

\* Who works on the files of repository p at this moment.
Users(p) ==
  {<<"analyze", w>> : w \in {v \in Workers : proc[v] = "running" /\ target[v[1]] = p}}
    \cup {<<"embed", e>> : e \in {d \in embedding : ePath[d] = p}}
    \cup {<<"delete", d>> : d \in deleting \cap {p}}

Parties ==
  ({"analyze"} \X Workers) \cup ({"embed"} \X EmbedIds) \cup ({"delete"} \X Paths)

Use == INSTANCE Exclusive
  WITH Resources <- Paths, users <- [p \in Paths |-> Users(p)]

\* Analysis, embedding and deletion never work on one repository together, nor
\* does one begin as another ends its work there (lifecycle-streaming.ts,
\* "prevents deleting while analyze/embed is in flight" and "prevent concurrent
\* analyze + embed on same repo"): the handlers implement exclusive use.
RepoMutex == Use!Spec

\* Whoever works on a repository does so under its lock: nobody else can start.
WorkUnderLock == \A p \in Paths : Users(p) # {} => p \in locks

\* The embedding manager, whose jobs never come back from a terminal status,
\* keeps its single slot, whatever happens to the repository locks.
EmbedSingleSlot ==
  \A d, e \in EmbedIds : eStatus[d] \in Active /\ eStatus[e] \in Active => d = e

\* No embedding job is stuck: an active one has a pipeline in progress that will
\* report to it, and a timer that fails it if the pipeline hangs.
EmbedNoLimbo ==
  \A d \in EmbedIds : eStatus[d] \in Active =>
    \E e \in embedding \cap eTimer : eJob[e] = d
=============================================================================

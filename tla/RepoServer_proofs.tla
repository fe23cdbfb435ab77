-------------------------- MODULE RepoServer_proofs --------------------------
(***************************************************************************)
(* Proofs about AnalyzeJobs and RepoServer, for every number of jobs,      *)
(* embeddings, retries and repositories.  For the analysis jobs: the       *)
(* inductive invariant IInv, the safety properties it carries, and the     *)
(* action property ForkUsesFreshRetry.  For the server: the embedding      *)
(* manager keeps its slot and loses no job, whatever happens; analysis,    *)
(* embedding and deletion use a repository exclusively, when nothing makes *)
(* a handler release a lock it does not hold.                              *)
(***************************************************************************)
EXTENDS RepoServer, SequenceTheorems, TLAPS

-----------------------------------------------------------------------------
(* updateJob and the step that forks a worker.                             *)

\* updateJob writes the status of one job at most, and never creates a job
\* (JobManager.updateJob ignores an id that is not in the table).
LEMMA UpdateJobEffect ==
  ASSUME NEW st \in [JobIds -> Statuses], NEW j \in JobIds,
         NEW s \in Active \cup Terminal
  PROVE  /\ UpdateJob(st, j, s) \in [JobIds -> Statuses]
         /\ \A i \in JobIds : i # j => UpdateJob(st, j, s)[i] = st[i]
         /\ st[j] \in Absent => UpdateJob(st, j, s)[j] = st[j]
         /\ st[j] \notin Absent => UpdateJob(st, j, s)[j] = s
  BY DEF UpdateJob, Statuses, Absent

\* Ending a job, or failing to because it is gone, leaves it at rest.
LEMMA RestingUpdate ==
  ASSUME NEW st \in [JobIds -> Statuses], NEW j \in JobIds, NEW s \in Terminal
  PROVE  /\ UpdateJob(st, j, s)[j] \notin Active
         /\ \A i \in JobIds : i # j => UpdateJob(st, j, s)[i] = st[i]
<1>1. /\ UpdateJob(st, j, s)[j] \in Terminal \cup Absent
      /\ \A i \in JobIds : i # j => UpdateJob(st, j, s)[i] = st[i]
  BY UpdateJobEffect
<1> QED
  BY <1>1 DEF Terminal, Absent, Active

\* What a step that reaches forkWorker for job j does, whichever way it ends:
\* a running worker that is the registered child, or none and a job at rest.
ForkEffect(j) ==
  /\ \A i \in JobIds : i # j => status'[i] = status[i] /\ children'[i] = children[i]
  /\ \A v \in Workers : v # <<j, retry[j]>> => proc'[v] = proc[v]
  /\ status'[j] # "unborn"
  /\ \/ /\ proc'[<<j, retry[j]>>] = "running" /\ children'[j] = <<j, retry[j]>>
        /\ status'[j] \in Active
     \/ proc'[<<j, retry[j]>>] \in {"none", "unspawned"} /\ status'[j] \notin Active

ForkTypes ==
  /\ status' \in [JobIds -> Statuses]
  /\ timer' \subseteq JobIds
  /\ children' \in [JobIds -> Workers \cup {None}]
  /\ proc' \in [Workers -> ProcStates]
  /\ locks' \subseteq Paths

\* forkWorker (analyze-runner.ts) on a job that has not used its retry number.
LEMMA ForkWorkerEffect ==
  ASSUME TypeOK, NEW j \in JobIds, NEW st \in [JobIds -> Statuses],
         NEW held \in SUBSET Paths,
         st[j] # "unborn", \A i \in JobIds : i # j => st[i] = status[i],
         proc[<<j, retry[j]>>] = "none",
         ForkWorker(j, st, held)
  PROVE  ForkEffect(j) /\ ForkTypes
<1> DEFINE w == <<j, retry[j]>>
<1>1. w \in Workers
  BY DEF TypeOK, Workers
<1>2. CASE st[j] \in Active
  <2>1. Fork(j, st, held)
    BY <1>2 DEF ForkWorker
  <2>2. /\ children' = [children EXCEPT ![j] = w]
        /\ timer' = timer \cup {j}
    BY <2>1 DEF Fork, RegisterChild
  <2>3. CASE /\ proc' = [proc EXCEPT ![w] = "running"]
             /\ status' = st
             /\ locks' = held
    BY <1>1, <1>2, <2>2, <2>3
       DEF ForkEffect, ForkTypes, TypeOK, ProcStates, Unreaped, Alive
  <2>4. CASE /\ proc' = [proc EXCEPT ![w] = "unspawned"]
             /\ status' = UpdateJob(st, j, "failed")
             /\ locks' = held \ {target[j]}
    <3>1. /\ status' \in [JobIds -> Statuses]
          /\ \A i \in JobIds : i # j => status'[i] = st[i]
          /\ status'[j] = "failed"
      BY <1>2, <2>4, UpdateJobEffect DEF Terminal, Active, Absent
    <3>2. status'[j] # "unborn" /\ status'[j] \notin Active
      BY <3>1 DEF Active
    <3> QED
      BY <1>1, <2>2, <2>4, <3>1, <3>2
         DEF ForkEffect, ForkTypes, TypeOK, ProcStates
  <2> QED
    BY <2>1, <2>3, <2>4 DEF Fork
<1>3. CASE st[j] \notin Active
  <2>1. status' = st /\ locks' = held /\ UNCHANGED <<children, timer, proc>>
    BY <1>3 DEF ForkWorker
  <2> QED
    BY <1>1, <1>3, <2>1 DEF ForkEffect, ForkTypes, TypeOK
<1> QED
  BY <1>2, <1>3

\* The runner from acquireRepoLock on: it may also give up on a held lock.
LEMMA StartAnalysisEffect ==
  ASSUME TypeOK, NEW j \in JobIds, NEW p \in Paths, NEW st \in [JobIds -> Statuses],
         st[j] # "unborn", \A i \in JobIds : i # j => st[i] = status[i],
         proc[<<j, retry[j]>>] = "none",
         StartAnalysis(j, p, st)
  PROVE  ForkEffect(j) /\ ForkTypes
<1>1. CASE ~Available(p)
  <2>1. /\ status' = UpdateJob(st, j, "failed")
        /\ UNCHANGED <<children, timer, proc, locks>>
    BY <1>1 DEF StartAnalysis
  <2>2. /\ status' \in [JobIds -> Statuses]
        /\ \A i \in JobIds : i # j => status'[i] = st[i]
        /\ status'[j] \in {"failed", "gone"}
    BY <2>1, UpdateJobEffect DEF Terminal, Absent
  <2> QED
    BY <2>1, <2>2 DEF ForkEffect, ForkTypes, TypeOK, Active
<1>2. CASE Available(p)
  <2> DEFINE upd == UpdateJob(st, j, "analyzing")
             held == locks \cup {p}
  <2>1. ForkWorker(j, upd, held)
    BY <1>2 DEF StartAnalysis
  <2>2. /\ upd \in [JobIds -> Statuses]
        /\ \A i \in JobIds : i # j => upd[i] = status[i]
        /\ upd[j] # "unborn"
    BY UpdateJobEffect DEF Active, Absent
  <2>3. held \in SUBSET Paths
    BY DEF TypeOK
  <2> HIDE DEF upd, held
  <2> QED
    BY <2>1, <2>2, <2>3, ForkWorkerEffect
<1> QED
  BY <1>1, <1>2

-----------------------------------------------------------------------------
(* The invariant, action by action.                                        *)

\* A fork keeps the invariant when job j was waiting for it: nothing else of j
\* was on its way, and its retry number was unused.
LEMMA ForkPreserves ==
  ASSUME IInv, NEW j \in JobIds, ForkEffect(j), ForkTypes,
         Unforked(j), \A k \in 0 .. MaxRetries : proc[<<j, k>>] \notin Unreaped,
         cloning' \in SUBSET cloning, backoff' \in SUBSET backoff,
         j \notin cloning', j \notin backoff',
         \A i \in JobIds : i # j => (i \in cloning' <=> i \in cloning)
                                    /\ (i \in backoff' <=> i \in backoff),
         UNCHANGED <<target, retry, signalled, chan, reloads>>
  PROVE  IInv'
<1> DEFINE w == <<j, retry[j]>>
<1> USE DEF IInv
<1>1. w \in Workers
  BY DEF TypeOK, Workers
<1>2. \A v \in Workers : v[1] \in JobIds /\ v[2] \in 0 .. MaxRetries /\ v = <<v[1], v[2]>>
  BY DEF Workers
<1>3. TypeOK'
  BY DEF TypeOK, ForkTypes
<1>4. \A v \in Workers : v[1] # j => proc'[v] = proc[v] /\ children'[v[1]] = children[v[1]]
  BY <1>2 DEF ForkEffect
<1>5. \A v \in Workers : v[1] = j => v = w \/ proc'[v] = proc[v]
  BY DEF ForkEffect
<1>6. NoLimbo'
  <2> SUFFICES ASSUME NEW i \in JobIds, (status[i] \in Active)'
               PROVE  HasDriver(i)'
    BY DEF NoLimbo
  <2>1. CASE i = j
    BY <1>1, <2>1 DEF ForkEffect, HasDriver, Unreaped, Alive
  <2>2. CASE i # j
    <3>1. HasDriver(i)
      BY <2>2 DEF ForkEffect, NoLimbo
    <3> QED
      BY <1>4, <2>2, <3>1 DEF HasDriver
  <2> QED
    BY <2>1, <2>2
<1>7. OneForkSource'
  <2> SUFFICES ASSUME NEW i \in JobIds
               PROVE  /\ (\A k \in 0 .. MaxRetries : k > retry[i] => proc[<<i, k>>] = "none")'
                      /\ (status[i] = "unborn" => i \notin cloning \cup backoff)'
                      /\ (i \notin cloning \cap backoff)'
                      /\ (status[i] = "unborn" \/ i \in cloning \cup backoff =>
                            /\ Unforked(i)
                            /\ \A k \in 0 .. MaxRetries : proc[<<i, k>>] \notin Unreaped)'
    BY DEF OneForkSource
  <2>1. CASE i = j
    <3>1. \A k \in 0 .. MaxRetries : k > retry[j] => <<j, k>> \in Workers /\ <<j, k>> # w
      BY DEF Workers, TypeOK
    <3> QED
      BY <2>1, <3>1 DEF ForkEffect, OneForkSource
  <2>2. CASE i # j
    <3>1. \A k \in 0 .. MaxRetries : proc'[<<i, k>>] = proc[<<i, k>>]
      BY <2>2 DEF ForkEffect, Workers
    <3> QED
      BY <2>2, <3>1 DEF ForkEffect, OneForkSource, Unforked
  <2> QED
    BY <2>1, <2>2
<1>8. UnreapedIsRegistered'
  <2> SUFFICES ASSUME NEW v \in Workers, proc'[v] \in Unreaped
               PROVE  children'[v[1]] = v
    BY DEF UnreapedIsRegistered
  <2>1. CASE v = w
    BY <2>1 DEF ForkEffect, Unreaped, Alive
  <2>2. CASE v # w
    BY <1>2, <1>4, <1>5, <2>2 DEF UnreapedIsRegistered
  <2> QED
    BY <2>1, <2>2
<1>9. ChannelsDrainFirst'
  <2>1. proc[w] = "none"
    BY DEF TypeOK, Unforked
  <2> QED
    BY <2>1 DEF ChannelsDrainFirst, ForkEffect, Unreaped, Alive
<1> QED
  BY <1>3, <1>6, <1>7, <1>8, <1>9

\* A callback that leaves job j at rest and moves no process keeps the invariant:
\* cancelling, expiry, a failed clone, a timer, the end of a reload.
LEMMA RestPreserves ==
  ASSUME IInv, NEW j \in JobIds,
         status' \in [JobIds -> Statuses],
         \A i \in JobIds : i # j => status'[i] = status[i],
         status'[j] \notin Active,
         status'[j] = "unborn" => status[j] = "unborn",
         cloning' \in SUBSET cloning,
         \A i \in JobIds : i # j => (i \in cloning' <=> i \in cloning),
         reloads' \in SUBSET reloads,
         \A v \in Workers : v[1] # j => (v \in reloads' <=> v \in reloads),
         timer' \subseteq JobIds, signalled' \subseteq Workers, locks' \subseteq Paths,
         UNCHANGED <<target, retry, backoff, children, proc, chan>>
  PROVE  IInv'
<1> USE DEF IInv
<1>1. TypeOK'
  BY DEF TypeOK
<1>2. NoLimbo'
  <2> SUFFICES ASSUME NEW i \in JobIds, (status[i] \in Active)'
               PROVE  HasDriver(i)'
    BY DEF NoLimbo
  <2>1. i # j /\ HasDriver(i)
    BY DEF NoLimbo
  <2> QED
    BY <2>1 DEF HasDriver
<1>3. OneForkSource'
  BY DEF OneForkSource, Unforked
<1>4. UnreapedIsRegistered'
  BY DEF UnreapedIsRegistered
<1>5. ChannelsDrainFirst'
  BY DEF ChannelsDrainFirst
<1> QED
  BY <1>1, <1>2, <1>3, <1>4, <1>5

\* cancelJob leaves job j at rest and signals nothing but workers.
LEMMA CancelJobEffect ==
  ASSUME TypeOK, NEW j \in JobIds, CancelJob(j)
  PROVE  /\ status' \in [JobIds -> Statuses]
         /\ \A i \in JobIds : i # j => status'[i] = status[i]
         /\ status'[j] = "failed"
         /\ signalled' \subseteq Workers
<1>1. status[j] \notin Absent /\ status' = UpdateJob(status, j, "failed")
  BY DEF CancelJob, SetStatus, Active, Absent
<1>2. status \in [JobIds -> Statuses]
  BY DEF TypeOK
<1>3. /\ status' \in [JobIds -> Statuses]
      /\ \A i \in JobIds : i # j => status'[i] = status[i]
      /\ status'[j] = "failed"
  BY <1>1, <1>2, UpdateJobEffect DEF Terminal
<1>4. signalled' \subseteq Workers
  BY DEF CancelJob, TypeOK
<1> QED
  BY <1>3, <1>4

\* A request, continuation or timer of job j keeps the invariant.
LEMMA JobStepPreserves ==
  ASSUME IInv, NEW j \in JobIds, JobStep(j)
  PROVE  IInv'
<1> USE DEF IInv
<1>1. /\ status \in [JobIds -> Statuses] /\ target[j] \in Paths
      /\ retry[j] \in 0 .. MaxRetries
  BY DEF TypeOK
<1>2. CASE RequestPath(j)
  <2> DEFINE st == [status EXCEPT ![j] = "cloning"]
  <2>1. /\ st \in [JobIds -> Statuses] /\ st[j] # "unborn"
        /\ \A i \in JobIds : i # j => st[i] = status[i]
    BY <1>1 DEF Statuses, Active
  <2>2. /\ Unforked(j) /\ j \notin cloning /\ j \notin backoff
        /\ \A k \in 0 .. MaxRetries : proc[<<j, k>>] \notin Unreaped
    BY <1>2 DEF RequestPath, OneForkSource
  <2>3. proc[<<j, retry[j]>>] = "none"
    BY <1>1, <2>2 DEF Unforked
  <2>4. StartAnalysis(j, target[j], st)
    BY <1>2 DEF RequestPath
  <2> HIDE DEF st
  <2>5. ForkEffect(j) /\ ForkTypes
    BY <1>1, <2>1, <2>3, <2>4, StartAnalysisEffect
  <2> QED
    BY <1>2, <2>2, <2>5, ForkPreserves DEF RequestPath
<1>3. CASE RequestUrl(j)
  <2>1. /\ status' = [status EXCEPT ![j] = "cloning"]
        /\ cloning' = cloning \cup {j}
        /\ UNCHANGED <<target, retry, backoff, children, timer, proc, signalled, chan,
                       reloads, locks>>
        /\ status[j] = "unborn"
    BY <1>3 DEF RequestUrl
  <2>2. TypeOK'
    BY <2>1 DEF TypeOK, Statuses, Active
  <2>3. NoLimbo'
    BY <1>1, <2>1 DEF NoLimbo, HasDriver
  <2>4. OneForkSource'
    BY <1>1, <2>1 DEF OneForkSource, Unforked
  <2>5. UnreapedIsRegistered' /\ ChannelsDrainFirst'
    BY <2>1 DEF UnreapedIsRegistered, ChannelsDrainFirst
  <2> QED
    BY <2>2, <2>3, <2>4, <2>5
<1>4. CASE Cancel(j)
  <2>1. CancelJob(j)
    BY <1>4 DEF Cancel
  <2> QED
    BY <1>4, <2>1, CancelJobEffect, RestPreserves DEF Cancel, TypeOK, Active
<1>5. CASE Expire(j)
  <2>1. status' = [status EXCEPT ![j] = "gone"]
    BY <1>5 DEF Expire, Dropped
  <2>2. /\ status' \in [JobIds -> Statuses] /\ status'[j] = "gone"
        /\ \A i \in JobIds : i # j => status'[i] = status[i]
    BY <1>1, <2>1 DEF Statuses, Absent
  <2> QED
    BY <1>5, <2>2, RestPreserves DEF Expire, TypeOK, Active
<1>6. CASE CloneDone(j)
  <2>1. /\ Unforked(j) /\ j \notin backoff /\ status[j] # "unborn"
        /\ \A k \in 0 .. MaxRetries : proc[<<j, k>>] \notin Unreaped
    BY <1>6 DEF CloneDone, OneForkSource
  <2>2. proc[<<j, retry[j]>>] = "none"
    BY <1>1, <2>1 DEF Unforked
  <2>3. StartAnalysis(j, target[j], status)
    BY <1>6 DEF CloneDone
  <2>4. ForkEffect(j) /\ ForkTypes
    BY <1>1, <2>1, <2>2, <2>3, StartAnalysisEffect
  <2> QED
    BY <1>6, <2>1, <2>4, ForkPreserves DEF CloneDone
<1>7. CASE CloneFails(j)
  <2>1. status[j] # "unborn" /\ status' = UpdateJob(status, j, "failed")
    BY <1>7 DEF CloneFails, OneForkSource, SetStatus
  <2>2. /\ status' \in [JobIds -> Statuses]
        /\ \A i \in JobIds : i # j => status'[i] = status[i]
        /\ status'[j] \in {"failed", "gone"}
    BY <1>1, <2>1, UpdateJobEffect DEF Terminal, Absent
  <2>3. locks' \subseteq Paths
    BY <1>7 DEF CloneFails, ReleaseLock, TypeOK
  <2> QED
    BY <1>7, <2>2, <2>3, RestPreserves DEF CloneFails, TypeOK, Active
<1>8. CASE BackoffFires(j)
  <2>1. /\ Unforked(j) /\ j \notin cloning /\ status[j] # "unborn"
        /\ \A k \in 0 .. MaxRetries : proc[<<j, k>>] \notin Unreaped
    BY <1>8 DEF BackoffFires, OneForkSource
  <2>2. proc[<<j, retry[j]>>] = "none" /\ locks \in SUBSET Paths
    BY <1>1, <2>1 DEF Unforked, TypeOK
  <2>3. ForkWorker(j, status, locks)
    BY <1>8 DEF BackoffFires
  <2>4. ForkEffect(j) /\ ForkTypes
    BY <1>1, <2>1, <2>2, <2>3, ForkWorkerEffect
  <2> QED
    BY <1>8, <2>1, <2>4, ForkPreserves DEF BackoffFires
<1>9. CASE TimerFires(j)
  <2>1. timer' \subseteq JobIds
    BY <1>9 DEF TimerFires, TypeOK
  <2>2. CASE status[j] \in Active
    <3>1. CancelJob(j)
      BY <1>9, <2>2 DEF TimerFires
    <3> QED
      BY <1>9, <2>1, <3>1, CancelJobEffect, RestPreserves DEF TimerFires, TypeOK, Active
  <2>3. CASE status[j] \notin Active
    BY <1>9, <2>1, <2>3, RestPreserves DEF TimerFires, TypeOK
  <2> QED
    BY <2>2, <2>3
<1> QED
  BY <1>2, <1>3, <1>4, <1>5, <1>6, <1>7, <1>8, <1>9 DEF JobStep
\* A step of worker w moves it from one unreaped state to another.
WorkerEffect(w) ==
  /\ UNCHANGED <<jobVars, target, reloads, locks>>
  /\ proc[w] \in Unreaped
  /\ proc' \in [Workers -> ProcStates]
  /\ proc'[w] \in Unreaped
  /\ \A v \in Workers : v # w => proc'[v] = proc[v]
  /\ signalled' \subseteq Workers

\* What a worker does keeps the invariant: it moves from one unreaped state to
\* another and only adds to its own channel.
LEMMA WorkerStepPreserves ==
  ASSUME IInv, NEW w \in Workers, WorkerStep(w)
  PROVE  IInv'
<1> USE DEF IInv
<1>1. WorkerEffect(w)
  <2>1. ASSUME WorkerProgress(w) PROVE WorkerEffect(w)
    BY <2>1 DEF WorkerProgress, WorkerEffect, TypeOK, Unreaped, Alive
  <2>2. ASSUME NEW m \in {"complete", "error"}, WorkerFinishes(w, m) PROVE WorkerEffect(w)
    BY <2>2 DEF WorkerFinishes, WorkerEffect, TypeOK, ProcStates, Unreaped, Alive
  <2>3. ASSUME WorkerStrayError(w) PROVE WorkerEffect(w)
    BY <2>3 DEF WorkerStrayError, WorkerEffect, TypeOK, ProcStates, Unreaped, Alive
  <2>4. ASSUME WorkerSigterm(w) PROVE WorkerEffect(w)
    BY <2>4 DEF WorkerSigterm, WorkerEffect, TypeOK, ProcStates, Unreaped, Alive
  <2>5. ASSUME WorkerDies(w) PROVE WorkerEffect(w)
    BY <2>5 DEF WorkerDies, WorkerEffect, TypeOK, ProcStates, Unreaped, Alive
  <2> QED
    BY <2>1, <2>2, <2>3, <2>4, <2>5 DEF WorkerStep
<1>2. \/ chan' = chan
      \/ \E m \in Messages : chan' = [chan EXCEPT ![w] = Append(@, m)]
  BY DEF WorkerStep, WorkerProgress, WorkerFinishes, WorkerStrayError, WorkerSigterm,
         WorkerDies, Send, Messages
<1>3. /\ chan' \in [Workers -> Seq(Messages)]
      /\ \A v \in Workers : v # w => chan'[v] = chan[v]
  <2>1. chan \in [Workers -> Seq(Messages)]
    BY DEF TypeOK
  <2>2. ASSUME NEW m \in Messages PROVE Append(chan[w], m) \in Seq(Messages)
    BY <2>1
  <2> QED
    BY <1>2, <2>1, <2>2
<1>4. TypeOK'
  BY <1>1, <1>3 DEF WorkerEffect, TypeOK, jobVars
<1>5. NoLimbo'
  <2> SUFFICES ASSUME NEW i \in JobIds, status[i] \in Active
               PROVE  HasDriver(i)'
    BY <1>1 DEF WorkerEffect, NoLimbo, jobVars
  <2> QED
    BY <1>1 DEF WorkerEffect, NoLimbo, HasDriver, jobVars
<1>6. OneForkSource'
  <2> SUFFICES ASSUME NEW i \in JobIds
               PROVE  /\ (\A k \in 0 .. MaxRetries : k > retry[i] => proc[<<i, k>>] = "none")'
                      /\ (status[i] = "unborn" => i \notin cloning \cup backoff)'
                      /\ (i \notin cloning \cap backoff)'
                      /\ (status[i] = "unborn" \/ i \in cloning \cup backoff =>
                            /\ Unforked(i)
                            /\ \A k \in 0 .. MaxRetries : proc[<<i, k>>] \notin Unreaped)'
    BY DEF OneForkSource
  <2>1. \A k \in 0 .. MaxRetries :
          <<i, k>> \in Workers /\ (proc[<<i, k>>] \notin Unreaped => proc'[<<i, k>>] = proc[<<i, k>>])
    BY <1>1 DEF WorkerEffect, Workers
  <2> QED
    BY <1>1, <2>1 DEF WorkerEffect, OneForkSource, Unforked, jobVars, Unreaped, Alive
<1>7. UnreapedIsRegistered'
  BY <1>1 DEF WorkerEffect, UnreapedIsRegistered, jobVars
<1>8. ChannelsDrainFirst'
  BY <1>1, <1>3 DEF WorkerEffect, ChannelsDrainFirst
<1> QED
  BY <1>4, <1>5, <1>6, <1>7, <1>8

\* The server's handlers of a worker's message, exit and reload.
LEMMA ServerStepPreserves ==
  ASSUME IInv, NEW w \in Workers, ServerStep(w)
  PROVE  IInv'
<1> USE DEF IInv
<1> DEFINE j == w[1]
<1>1. /\ j \in JobIds /\ status \in [JobIds -> Statuses]
      /\ proc \in [Workers -> ProcStates]
      /\ \A v \in Workers : /\ v[1] \in JobIds /\ v[2] \in 0 .. MaxRetries
                            /\ v = <<v[1], v[2]>>
  BY DEF Workers, TypeOK
<1>2. CASE Receive(w)
  <2>1. /\ UNCHANGED <<target, retry, cloning, backoff, children, timer, proc, signalled>>
        /\ chan[w] # <<>> /\ chan' = [chan EXCEPT ![w] = Tail(@)]
    BY <1>2 DEF Receive
  <2>2. proc[w] \in Unreaped
    BY <2>1 DEF ChannelsDrainFirst
  <2>3. status[j] # "unborn"
    BY <1>1, <2>2 DEF OneForkSource
  <2>4. /\ status' \in [JobIds -> Statuses] /\ status'[j] # "unborn"
        /\ \A i \in JobIds : i # j => status'[i] = status[i]
    <3>1. CASE SetStatus(j, "analyzing")
      BY <1>1, <2>3, <3>1, UpdateJobEffect DEF SetStatus, Active, Absent
    <3>2. CASE SetStatus(j, "failed")
      BY <1>1, <2>3, <3>2, UpdateJobEffect DEF SetStatus, Terminal, Absent
    <3>3. CASE UNCHANGED status
      BY <1>1, <2>3, <3>3
    <3> QED
      BY <1>2, <3>1, <3>2, <3>3 DEF Receive
  <2>5. /\ reloads \subseteq reloads' /\ reloads' \subseteq Workers
        /\ locks' \subseteq Paths
    BY <1>2 DEF Receive, ReleaseLock, TypeOK
  <2>6. /\ chan' \in [Workers -> Seq(Messages)]
        /\ \A v \in Workers : v # w => chan'[v] = chan[v]
    <3>1. chan \in [Workers -> Seq(Messages)]
      BY DEF TypeOK
    <3>2. Tail(chan[w]) \in Seq(Messages)
      BY <2>1, <3>1
    <3> QED
      BY <2>1, <3>1, <3>2
  <2>7. TypeOK'
    BY <2>1, <2>4, <2>5, <2>6 DEF TypeOK
  <2>8. NoLimbo'
    <3> SUFFICES ASSUME NEW i \in JobIds, (status[i] \in Active)'
                 PROVE  HasDriver(i)'
      BY DEF NoLimbo
    <3>1. CASE i = j
      BY <2>1, <2>2, <3>1 DEF HasDriver
    <3>2. CASE i # j
      BY <2>1, <2>4, <2>5, <3>2 DEF NoLimbo, HasDriver
    <3> QED
      BY <3>1, <3>2
  <2>9. OneForkSource'
    BY <2>1, <2>3, <2>4 DEF OneForkSource, Unforked
  <2>10. UnreapedIsRegistered' /\ ChannelsDrainFirst'
    BY <2>1, <2>2, <2>6 DEF UnreapedIsRegistered, ChannelsDrainFirst
  <2> QED
    BY <2>7, <2>8, <2>9, <2>10
<1>3. CASE ExitEvent(w)
  <2>1. /\ proc[w] = "dead" /\ chan[w] = <<>>
        /\ proc' = [proc EXCEPT ![w] = "reaped"]
        /\ children' = [children EXCEPT ![j] = None]
        /\ timer' = timer \ {j}
        /\ UNCHANGED <<target, cloning, signalled, chan, reloads>>
    BY <1>3 DEF ExitEvent
  <2>2. /\ proc' \in [Workers -> ProcStates] /\ proc'[w] = "reaped"
        /\ \A v \in Workers : v # w => proc'[v] = proc[v]
        /\ children' \in [JobIds -> Workers \cup {None}]
        /\ \A i \in JobIds : i # j => children'[i] = children[i]
    BY <1>1, <2>1 DEF TypeOK, ProcStates
  <2>3. status[j] # "unborn" /\ j \notin cloning /\ j \notin backoff
    BY <1>1, <2>1 DEF OneForkSource, Unreaped
  <2>4. \A v \in Workers : v[1] = j => proc'[v] \notin Unreaped
    <3> SUFFICES ASSUME NEW v \in Workers, v[1] = j, v # w PROVE proc[v] \notin Unreaped
      BY <2>2 DEF Unreaped, Alive
    <3> QED
      BY <2>1 DEF UnreapedIsRegistered, Unreaped
  <2>5. /\ status' \in [JobIds -> Statuses] /\ status'[j] # "unborn"
        /\ \A i \in JobIds : i # j => /\ status'[i] = status[i] /\ retry'[i] = retry[i]
                                      /\ (i \in backoff' <=> i \in backoff)
        /\ retry' \in [JobIds -> 0 .. MaxRetries] /\ backoff' \subseteq JobIds
        /\ \/ status'[j] \notin Active /\ j \notin backoff' /\ retry'[j] = retry[j]
           \/ j \in backoff' /\ retry'[j] = retry[j] + 1
        /\ locks' \subseteq Paths
    <3>1. /\ retry \in [JobIds -> 0 .. MaxRetries] /\ backoff \subseteq JobIds
          /\ locks \subseteq Paths
      BY DEF TypeOK
    <3>2. CASE status[j] \notin Active /\ UNCHANGED <<status, retry, backoff, locks>>
      BY <1>1, <2>3, <3>1, <3>2
    <3>3. CASE RetriesLeft(j) /\ ScheduleRetry(j) /\ SetStatus(j, "analyzing") /\ UNCHANGED locks
      <4>1. retry' \in [JobIds -> 0 .. MaxRetries] /\ retry'[j] = retry[j] + 1
        BY <1>1, <3>1, <3>3, AnalyzeAssumption DEF RetriesLeft, ScheduleRetry
      <4>2. /\ status' \in [JobIds -> Statuses] /\ status'[j] # "unborn"
            /\ \A i \in JobIds : i # j => status'[i] = status[i]
        BY <1>1, <2>3, <3>3, UpdateJobEffect DEF SetStatus, Active, Absent
      <4>3. \A i \in JobIds : i # j => retry'[i] = retry[i]
        BY <1>1, <3>1, <3>3 DEF ScheduleRetry
      <4>4. /\ backoff' \subseteq JobIds /\ j \in backoff'
            /\ \A i \in JobIds : i # j => (i \in backoff' <=> i \in backoff)
        BY <1>1, <3>1, <3>3 DEF ScheduleRetry
      <4> QED
        BY <3>1, <3>3, <4>1, <4>2, <4>3, <4>4
    <3>4. CASE /\ ReleaseLock(target[j]) /\ SetStatus(j, "failed")
               /\ UNCHANGED <<retry, backoff>>
      <4>1. /\ status' \in [JobIds -> Statuses] /\ status'[j] \in {"failed", "gone"}
            /\ \A i \in JobIds : i # j => status'[i] = status[i]
        BY <1>1, <2>3, <3>4, UpdateJobEffect DEF SetStatus, Terminal, Absent
      <4>2. locks' \subseteq Paths
        BY <3>1, <3>4 DEF ReleaseLock
      <4>3. status'[j] # "unborn" /\ status'[j] \notin Active
        BY <4>1 DEF Active
      <4> QED
        BY <1>1, <2>3, <3>1, <3>4, <4>1, <4>2, <4>3
    <3> QED
      BY <1>3, <3>2, <3>3, <3>4 DEF ExitEvent
  <2>6. TypeOK'
    BY <2>1, <2>2, <2>5 DEF TypeOK
  <2>7. NoLimbo'
    <3> SUFFICES ASSUME NEW i \in JobIds, (status[i] \in Active)'
                 PROVE  HasDriver(i)'
      BY DEF NoLimbo
    <3>1. CASE i = j
      BY <2>5, <3>1 DEF HasDriver
    <3>2. CASE i # j
      BY <2>1, <2>2, <2>5, <3>2 DEF NoLimbo, HasDriver
    <3> QED
      BY <3>1, <3>2
  <2>8. OneForkSource'
    <3> SUFFICES ASSUME NEW i \in JobIds
                 PROVE  /\ (\A k \in 0 .. MaxRetries : k > retry[i] => proc[<<i, k>>] = "none")'
                        /\ (status[i] = "unborn" => i \notin cloning \cup backoff)'
                        /\ (i \notin cloning \cap backoff)'
                        /\ (status[i] = "unborn" \/ i \in cloning \cup backoff =>
                              /\ Unforked(i)
                              /\ \A k \in 0 .. MaxRetries : proc[<<i, k>>] \notin Unreaped)'
      BY DEF OneForkSource
    <3>1. CASE i = j
      <4>1. \A k \in 0 .. MaxRetries : k > retry[j] => proc'[<<j, k>>] = "none"
        <5> SUFFICES ASSUME NEW k \in 0 .. MaxRetries, k > retry[j]
                     PROVE  proc'[<<j, k>>] = "none"
          OBVIOUS
        <5>1. proc[<<j, k>>] = "none" /\ <<j, k>> \in Workers
          BY <1>1 DEF OneForkSource, Workers
        <5> QED
          BY <2>1, <2>2, <5>1
      <4>2. \A k \in 0 .. MaxRetries : proc'[<<j, k>>] \notin Unreaped
        BY <1>1, <2>4 DEF Workers
      <4>3. retry[j] \in 0 .. MaxRetries /\ retry'[j] \in 0 .. MaxRetries
        BY <1>1, <2>5 DEF TypeOK
      <4> QED
        BY <2>1, <2>3, <2>5, <3>1, <4>1, <4>2, <4>3 DEF Unforked
    <3>2. CASE i # j
      <4>1. \A k \in 0 .. MaxRetries : proc'[<<i, k>>] = proc[<<i, k>>]
        BY <2>2, <3>2 DEF Workers
      <4> QED
        BY <2>1, <2>5, <3>2, <4>1 DEF OneForkSource, Unforked
    <3> QED
      BY <3>1, <3>2
  <2>9. UnreapedIsRegistered'
    <3> SUFFICES ASSUME NEW v \in Workers, proc'[v] \in Unreaped
                 PROVE  children'[v[1]] = v
      BY DEF UnreapedIsRegistered
    <3> QED
      BY <1>1, <2>2, <2>4 DEF UnreapedIsRegistered
  <2>10. ChannelsDrainFirst'
    BY <2>1, <2>2 DEF ChannelsDrainFirst
  <2> QED
    BY <2>6, <2>7, <2>8, <2>9, <2>10
<1>4. ASSUME NEW s \in Terminal, ReloadSettles(w, s) PROVE IInv'
  <2>1. status' = UpdateJob(status, j, s)
    BY <1>4 DEF ReloadSettles, SetStatus
  <2>2. /\ status' \in [JobIds -> Statuses]
        /\ \A i \in JobIds : i # j => status'[i] = status[i]
        /\ status'[j] \in Terminal \cup Absent
        /\ status'[j] = "unborn" => status[j] = "unborn"
    BY <1>1, <2>1, UpdateJobEffect DEF Terminal, Absent
  <2>3. status'[j] \notin Active
    BY <2>2 DEF Terminal, Absent, Active
  <2> QED
    BY <1>1, <1>4, <2>2, <2>3, RestPreserves DEF ReloadSettles, TypeOK
<1> QED
  BY <1>2, <1>3, <1>4 DEF ServerStep
-----------------------------------------------------------------------------
(* Theorems.                                                               *)

\* The invariant holds initially and survives stuttering.
LEMMA InitIInv == Init => IInv
<1> SUFFICES ASSUME Init PROVE IInv
  OBVIOUS
<1>1. TypeOK
  <2>1. \A j \in JobIds : "unborn" \in Statuses /\ 0 \in 0 .. MaxRetries
    BY AnalyzeAssumption DEF Statuses, Absent
  <2>2. "none" \in ProcStates /\ <<>> \in Seq(Messages)
    BY DEF ProcStates
  <2> QED
    BY <2>1, <2>2 DEF Init, TypeOK
<1>2. \A w \in Workers : proc[w] = "none" /\ chan[w] = <<>>
  BY DEF Init
<1>3. NoLimbo
  BY DEF Init, NoLimbo, Active
<1>4. OneForkSource
  BY <1>2 DEF Init, OneForkSource, Unforked, Workers, Unreaped, Alive
<1>5. UnreapedIsRegistered /\ ChannelsDrainFirst
  BY <1>2 DEF UnreapedIsRegistered, ChannelsDrainFirst, Unreaped, Alive
<1> QED
  BY <1>1, <1>3, <1>4, <1>5 DEF IInv

\* A step that changes nothing keeps the invariant.
LEMMA StutterIInv ==
  ASSUME IInv, UNCHANGED vars
  PROVE  IInv'
BY DEF vars, IInv, TypeOK, NoLimbo, HasDriver, OneForkSource, Unforked,
       UnreapedIsRegistered, ChannelsDrainFirst

\* IInv holds in every reachable state, whatever the environment does.
THEOREM InductiveInvariant == Spec => []IInv
<1>1. IInv /\ [Next]_vars => IInv'
  <2> SUFFICES ASSUME IInv, [Next]_vars PROVE IInv'
    OBVIOUS
  <2>1. ASSUME NEW j \in JobIds, JobStep(j) PROVE IInv'
    BY <2>1, JobStepPreserves
  <2>2. ASSUME NEW w \in Workers, WorkerStep(w) PROVE IInv'
    BY <2>2, WorkerStepPreserves
  <2>3. ASSUME NEW w \in Workers, ServerStep(w) PROVE IInv'
    BY <2>3, ServerStepPreserves
  <2>4. CASE UNCHANGED vars
    BY <2>4, StutterIInv
  <2> QED
    BY <2>1, <2>2, <2>3, <2>4 DEF Next
<1> QED
  BY <1>1, InitIInv, PTL DEF Spec

\* The variables of the job layer keep their types.
THEOREM TypeCorrect == Spec => []TypeOK
<1>1. IInv => TypeOK
  BY DEF IInv
<1> QED
  BY <1>1, InductiveInvariant, PTL

\* A job that occupies the slot always has something left that can end it
\* (a clone, a worker, a back-off, a reload): the slot is never wedged.
THEOREM SlotNeverWedged == Spec => []NoLimbo
<1>1. IInv => NoLimbo
  BY DEF IInv
<1> QED
  BY <1>1, InductiveInvariant, PTL

\* Every live worker is the child registered for its job (registerChild of
\* analyze-job.ts), through crashes, retries, cancellation and expiry.
THEOREM WorkersStayUnderControl == Spec => []WorkerUnderControl
<1>1. IInv => WorkerUnderControl
  BY DEF IInv, UnreapedIsRegistered, WorkerUnderControl, Unreaped
<1> QED
  BY <1>1, InductiveInvariant, PTL

\* A job has one source of new workers at a time.
THEOREM ForksAreExclusive == Spec => []OneForkSource
<1>1. IInv => OneForkSource
  BY DEF IInv
<1> QED
  BY <1>1, InductiveInvariant, PTL

\* A request, a continuation or a timer of job j leaves the processes alone or
\* forks the worker whose retry number is still unused.
LEMMA JobStepForks ==
  ASSUME IInv, NEW j \in JobIds, JobStep(j)
  PROVE  \/ UNCHANGED proc
         \/ /\ proc[<<j, retry[j]>>] = "none"
            /\ proc' \in [Workers -> ProcStates]
            /\ \A v \in Workers : v # <<j, retry[j]>> => proc'[v] = proc[v]
<1>1. /\ status \in [JobIds -> Statuses] /\ target[j] \in Paths
      /\ retry[j] \in 0 .. MaxRetries /\ TypeOK /\ locks \in SUBSET Paths
  BY DEF IInv, TypeOK
<1>2. (status[j] = "unborn" \/ j \in cloning \/ j \in backoff) => proc[<<j, retry[j]>>] = "none"
  BY <1>1 DEF IInv, OneForkSource, Unforked
<1>3. (j \in cloning \/ j \in backoff) => status[j] # "unborn"
  BY DEF IInv, OneForkSource
<1>4. CASE RequestPath(j)
  <2> DEFINE st == [status EXCEPT ![j] = "cloning"]
  <2>1. /\ st \in [JobIds -> Statuses] /\ st[j] # "unborn"
        /\ \A i \in JobIds : i # j => st[i] = status[i]
    BY <1>1 DEF Statuses, Active
  <2>2. StartAnalysis(j, target[j], st) /\ proc[<<j, retry[j]>>] = "none"
    BY <1>2, <1>4 DEF RequestPath
  <2> HIDE DEF st
  <2> QED
    BY <1>1, <2>1, <2>2, StartAnalysisEffect DEF ForkEffect, ForkTypes
<1>5. CASE CloneDone(j)
  BY <1>1, <1>2, <1>3, <1>5, StartAnalysisEffect DEF CloneDone, ForkEffect, ForkTypes
<1>6. CASE BackoffFires(j)
  BY <1>1, <1>2, <1>3, <1>6, ForkWorkerEffect DEF BackoffFires, ForkEffect, ForkTypes
<1> QED
  BY <1>4, <1>5, <1>6
     DEF JobStep, RequestUrl, Cancel, Expire, CloneFails, TimerFires

\* A worker's process only advances: no fork ever reuses the slot of an earlier
\* worker, so a job gets at most MaxRetries + 1 workers (retryCount).
THEOREM ForksAreCounted == Spec => ForkUsesFreshRetry
<1> DEFINE Advance == \A w \in Workers : Progression[proc'[w]] >= Progression[proc[w]]
<1>1. ASSUME IInv, [Next]_vars PROVE [Advance]_vars
  <2>1. proc \in [Workers -> ProcStates]
    BY <1>1 DEF IInv, TypeOK
  <2>2. /\ \A s \in ProcStates : Progression[s] \in Nat /\ Progression[s] >= 0
        /\ Progression["none"] = 0
    BY DEF ProcStates, Unreaped, Alive, Progression
  <2>3. CASE UNCHANGED proc
    BY <2>1, <2>2, <2>3
  <2>4. ASSUME NEW j \in JobIds, JobStep(j) PROVE Advance
    <3> SUFFICES ASSUME NEW w \in Workers
                 PROVE  Progression[proc'[w]] >= Progression[proc[w]]
      OBVIOUS
    <3>1. proc'[w] = proc[w] \/ (proc[w] = "none" /\ proc'[w] \in ProcStates)
      BY <1>1, <2>4, JobStepForks
    <3> QED
      BY <2>1, <2>2, <3>1
  <2>5. ASSUME NEW w \in Workers, WorkerStep(w) PROVE Advance
    <3>1. /\ Progression["dying"] >= Progression["running"]
          /\ \A s \in {"running", "dying"} : Progression["ending"] >= Progression[s]
          /\ \A s \in Alive : Progression["dead"] >= Progression[s]
          /\ \A s \in Alive : Progression[s] >= Progression[s]
      BY DEF Progression, Alive
    <3>2. \/ UNCHANGED proc
          \/ \E s \in {"dying", "ending", "dead"} :
               /\ proc' = [proc EXCEPT ![w] = s]
               /\ Progression[s] >= Progression[proc[w]]
      <4>1. CASE WorkerSigterm(w)
        <5>1. CASE proc[w] = "running"
          BY <3>1, <4>1, <5>1 DEF WorkerSigterm
        <5>2. CASE proc[w] # "running"
          BY <2>1, <4>1, <5>2 DEF WorkerSigterm
        <5> QED
          BY <5>1, <5>2
      <4>2. CASE WorkerStrayError(w)
        <5>1. CASE proc[w] = "running"
          BY <3>1, <4>2, <5>1 DEF WorkerStrayError
        <5>2. CASE proc[w] # "running"
          BY <2>1, <4>2, <5>2 DEF WorkerStrayError
        <5> QED
          BY <5>1, <5>2
      <4>3. ASSUME NEW m \in {"complete", "error"}, WorkerFinishes(w, m)
            PROVE  <3>2!2
        BY <3>1, <4>3 DEF WorkerFinishes
      <4>4. CASE WorkerDies(w)
        BY <3>1, <4>4 DEF WorkerDies
      <4>5. CASE WorkerProgress(w)
        BY <4>5 DEF WorkerProgress
      <4> QED
        BY <2>5, <4>1, <4>2, <4>3, <4>4, <4>5 DEF WorkerStep
    <3> QED
      BY <2>1, <2>2, <2>3, <3>2
  <2>6. ASSUME NEW w \in Workers, ServerStep(w) PROVE Advance
    <3>1. \/ UNCHANGED proc
          \/ proc[w] = "dead" /\ proc' = [proc EXCEPT ![w] = "reaped"]
      BY <2>6 DEF ServerStep, Receive, ExitEvent, ReloadSettles
    <3>2. Progression["reaped"] >= Progression["dead"]
      BY DEF Progression
    <3> QED
      BY <2>1, <2>2, <2>3, <3>1, <3>2
  <2> QED
    BY <1>1, <2>4, <2>5, <2>6 DEF Next
<1>2. IInv /\ [Next]_vars => [Advance]_vars
  BY <1>1
<1> QED
  BY <1>2, InductiveInvariant, PTL DEF Spec, ForkUsesFreshRetry
-----------------------------------------------------------------------------
(* The single slot, when nothing is cancelled, times out or reports late.  *)

\* The order of a worker's messages: progress, then one result.
LEMMA ChannelOrder ==
  ASSUME NEW s \in Seq(Messages)
  PROVE  /\ AllProgress(s) => /\ AllProgress(Append(s, "progress"))
                              /\ \A m \in Messages : ResultLast(Append(s, m))
         /\ s # <<>> => /\ AllProgress(s) => AllProgress(Tail(s))
                        /\ NoProgress(s) => NoProgress(Tail(s))
                        /\ ResultLast(s) => ResultLast(Tail(s))
                        /\ ResultLast(s) /\ Head(s) # "progress" => Tail(s) = <<>>
                        /\ NoProgress(s) => Head(s) # "progress"
                        /\ AllProgress(s) => Head(s) = "progress"
<1>1. ASSUME AllProgress(s)
      PROVE  /\ AllProgress(Append(s, "progress"))
             /\ \A m \in Messages : ResultLast(Append(s, m))
  BY <1>1 DEF AllProgress, ResultLast
<1>2. ASSUME s # <<>>
      PROVE  /\ Len(s) \in Nat /\ Len(s) >= 1 /\ Len(Tail(s)) = Len(s) - 1 /\ Head(s) = s[1]
             /\ \A i \in 1 .. Len(Tail(s)) : Tail(s)[i] = s[i + 1]
  BY <1>2
<1>3. ASSUME s # <<>>, ResultLast(s), Head(s) # "progress" PROVE Tail(s) = <<>>
  <2>1. /\ Len(s) \in Nat /\ Len(s) >= 1 /\ Len(Tail(s)) = Len(s) - 1
        /\ s[1] # "progress"
    BY <1>2, <1>3
  <2>2. ~ (1 < Len(s))
    BY <1>3, <2>1 DEF ResultLast
  <2>3. Len(Tail(s)) = 0
    BY <2>1, <2>2
  <2>4. Tail(s) \in Seq(Messages)
    BY <1>3, HeadTailProperties
  <2> QED
    BY <2>3, <2>4, EmptySeq
<1>4. ASSUME s # <<>>
      PROVE  /\ AllProgress(s) => AllProgress(Tail(s)) /\ Head(s) = "progress"
             /\ NoProgress(s) => NoProgress(Tail(s)) /\ Head(s) # "progress"
             /\ ResultLast(s) => ResultLast(Tail(s))
  BY <1>2, <1>4 DEF AllProgress, NoProgress, ResultLast
<1> QED
  BY <1>1, <1>3, <1>4

\* A job has at most one worker whose exit has not been delivered.
LEMMA OneUnreaped ==
  ASSUME IInv, NEW v \in Workers, NEW w \in Workers, v[1] = w[1],
         proc[v] \in Unreaped, v # w
  PROVE  proc[w] \notin Unreaped /\ chan[w] = <<>>
BY DEF IInv, UnreapedIsRegistered, ChannelsDrainFirst

\* A step that leaves the processes, channels and reloads of every job alone,
\* but for job j, and forks for j at most, keeps the order of reports.
LEMMA ForkKeepsOrder ==
  ASSUME IInv, SlotInv, IInv', NEW j \in JobIds, ForkEffect(j),
         proc[<<j, retry[j]>>] = "none", j \notin cloning',
         \A k \in 0 .. MaxRetries : proc[<<j, k>>] \notin Unreaped,
         status'[j] \in Active => status[j] \in Active \/ ActiveJobs(status) = {},
         cloning' \in SUBSET cloning,
         UNCHANGED <<signalled, chan, reloads>>
  PROVE  SlotInv'
<1> USE DEF SlotInv
<1> DEFINE w == <<j, retry[j]>>
<1>1. /\ w \in Workers /\ w[1] = j
      /\ \A v \in Workers : /\ v[1] \in JobIds /\ v[2] \in 0 .. MaxRetries
                            /\ v = <<v[1], v[2]>>
      /\ DOMAIN status = JobIds
  BY DEF Workers, IInv, TypeOK
<1>2. \A v \in Workers : v[1] = j => proc[v] \notin Unreaped /\ chan[v] = <<>>
  BY <1>1 DEF IInv, ChannelsDrainFirst
<1>3. \A v \in Workers : v # w => proc'[v] = proc[v]
  BY DEF ForkEffect
<1>4. proc'[w] \in {"running", "none", "unspawned"}
  BY DEF ForkEffect
<1>5. \A i \in JobIds : i # j => status'[i] = status[i]
  BY DEF ForkEffect
<1>6. SingleSlot'
  <2> SUFFICES ASSUME NEW i \in JobIds, status'[i] \in Active, status'[j] \in Active, i # j
               PROVE  FALSE
    BY <1>5 DEF SingleSlot
  <2> QED
    BY <1>1, <1>5 DEF SingleSlot, ActiveJobs
<1>7. WorkersReportOnce'
  <2> SUFFICES ASSUME NEW v \in Workers
               PROVE  /\ v \notin signalled'
                      /\ proc'[v] # "dying"
                      /\ proc'[v] = "running" => AllProgress(chan[v])
                      /\ ResultLast(chan[v])
                      /\ v \in reloads => proc'[v] \in {"ending", "dead"} /\ chan[v] = <<>>
    BY DEF WorkersReportOnce
  <2>1. CASE v = w
    BY <1>1, <1>2, <1>4, <2>1 DEF WorkersReportOnce, AllProgress, Unreaped, Alive
  <2>2. CASE v # w
    BY <1>3, <2>2 DEF WorkersReportOnce
  <2> QED
    BY <2>1, <2>2
<1>8. RestIsFinal'
  <2>1. \A i \in cloning' : status'[i] \in Active
    BY <1>5 DEF RestIsFinal, IInv, TypeOK
  <2> SUFFICES ASSUME NEW v \in Workers, status'[v[1]] \notin Active
               PROVE  proc'[v] # "running" /\ NoProgress(chan[v])
    BY <2>1 DEF RestIsFinal
  <2>2. CASE v[1] = j
    <3>1. proc'[v] # "running"
      BY <1>2, <1>3, <2>2 DEF ForkEffect, Unreaped, Alive
    <3> QED
      BY <1>2, <2>2, <3>1 DEF NoProgress
  <2>3. CASE v[1] # j
    BY <1>1, <1>3, <1>5, <2>3 DEF RestIsFinal
  <2> QED
    BY <2>2, <2>3
<1> QED
  BY <1>6, <1>7, <1>8

\* A step after which job j is at rest, with nothing of it left to report, keeps
\* the order of reports.
LEMMA RestKeepsOrder ==
  ASSUME SlotInv, IInv', NEW j \in JobIds,
         \A i \in JobIds : i # j => status'[i] = status[i],
         status'[j] \notin Active, j \notin cloning',
         \A v \in Workers : v[1] = j => proc[v] # "running" /\ NoProgress(chan[v]),
         cloning' \in SUBSET cloning, reloads' \in SUBSET reloads,
         UNCHANGED <<proc, chan, signalled>>
  PROVE  SlotInv'
<1> USE DEF SlotInv
<1>1. SingleSlot'
  BY DEF SingleSlot
<1>2. WorkersReportOnce'
  BY DEF WorkersReportOnce
<1>3. RestIsFinal'
  <2>1. \A i \in cloning' : status'[i] \in Active
    BY DEF RestIsFinal, IInv, TypeOK
  <2>2. \A v \in Workers : v[1] \in JobIds
    BY DEF Workers
  <2> QED
    BY <2>1, <2>2 DEF RestIsFinal
<1> QED
  BY <1>1, <1>2, <1>3

\* An orderly environment's steps of a job keep the order of reports.
LEMMA JobStepKeepsOrder ==
  ASSUME Orderly, SlotInv, NEW j \in JobIds, JobStep(j)
  PROVE  SlotInv'
<1>1. /\ IInv /\ IInv' /\ TypeOK
      /\ status \in [JobIds -> Statuses] /\ target[j] \in Paths
      /\ retry[j] \in 0 .. MaxRetries /\ locks \in SUBSET Paths
      /\ DOMAIN status = JobIds
  BY JobStepPreserves DEF SlotInv, IInv, TypeOK
<1>2. status[j] = "unborn" \/ j \in cloning \cup backoff =>
        /\ proc[<<j, retry[j]>>] = "none"
        /\ \A k \in 0 .. MaxRetries : proc[<<j, k>>] \notin Unreaped
  BY <1>1 DEF IInv, OneForkSource, Unforked
<1>3. \A v \in Workers : v = <<v[1], v[2]>> /\ v[1] \in JobIds /\ v[2] \in 0 .. MaxRetries
  BY DEF Workers
<1>4. status[j] = "unborn" \/ j \in cloning \cup backoff =>
        \A v \in Workers : v[1] = j => proc[v] # "running" /\ NoProgress(chan[v])
  BY <1>1, <1>2, <1>3 DEF IInv, ChannelsDrainFirst, NoProgress, Unreaped, Alive
<1>5. CASE RequestPath(j)
  <2> DEFINE st == [status EXCEPT ![j] = "cloning"]
  <2>1. /\ st \in [JobIds -> Statuses] /\ st[j] # "unborn"
        /\ \A i \in JobIds : i # j => st[i] = status[i]
    BY <1>1 DEF Statuses, Active
  <2>2. /\ StartAnalysis(j, target[j], st) /\ proc[<<j, retry[j]>>] = "none"
        /\ ActiveJobs(status) = {} /\ j \notin cloning
    BY <1>1, <1>2, <1>5 DEF RequestPath, SlotFree, IInv, OneForkSource
  <2> HIDE DEF st
  <2>3. ForkEffect(j)
    BY <1>1, <2>1, <2>2, StartAnalysisEffect
  <2> QED
    BY <1>1, <1>2, <1>5, <2>2, <2>3, ForkKeepsOrder DEF RequestPath
<1>6. CASE RequestUrl(j)
  <2>1. /\ status' = [status EXCEPT ![j] = "cloning"] /\ cloning' = cloning \cup {j}
        /\ status[j] = "unborn" /\ ActiveJobs(status) = {}
        /\ UNCHANGED <<proc, chan, signalled, reloads>>
    BY <1>6 DEF RequestUrl, SlotFree
  <2>2. SingleSlot'
    BY <1>1, <2>1 DEF SingleSlot, ActiveJobs
  <2>3. WorkersReportOnce'
    BY <2>1 DEF SlotInv, WorkersReportOnce
  <2>4. RestIsFinal'
    BY <1>1, <1>3, <2>1 DEF SlotInv, RestIsFinal, Active
  <2> QED
    BY <1>1, <2>2, <2>3, <2>4 DEF SlotInv
<1>7. CASE Expire(j)
  <2>1. /\ status' = [status EXCEPT ![j] = "gone"] /\ status[j] \notin Active
        /\ UNCHANGED <<cloning, proc, chan, signalled, reloads>>
    BY <1>7 DEF Expire, Dropped, Terminal, Active
  <2>2. \A v \in Workers : v[1] = j => proc[v] # "running" /\ NoProgress(chan[v])
    BY <2>1 DEF SlotInv, RestIsFinal
  <2>3. j \notin cloning'
    BY <2>1 DEF SlotInv, RestIsFinal
  <2>4. /\ status'[j] \notin Active
        /\ \A i \in JobIds : i # j => status'[i] = status[i]
    BY <1>1, <2>1 DEF Active
  <2> QED
    BY <1>1, <2>1, <2>2, <2>3, <2>4, RestKeepsOrder
<1>8. CASE CloneDone(j)
  <2>1. /\ StartAnalysis(j, target[j], status) /\ proc[<<j, retry[j]>>] = "none"
        /\ status[j] \in Active /\ j \notin cloning'
    BY <1>2, <1>8 DEF CloneDone, SlotInv, RestIsFinal
  <2>2. ForkEffect(j)
    BY <1>1, <2>1, StartAnalysisEffect DEF Active
  <2> QED
    BY <1>1, <1>2, <1>8, <2>1, <2>2, ForkKeepsOrder DEF CloneDone
<1>9. CASE CloneFails(j)
  <2>1. /\ status' = UpdateJob(status, j, "failed") /\ cloning' = cloning \ {j}
        /\ j \in cloning /\ UNCHANGED <<proc, chan, signalled, reloads>>
    BY <1>9 DEF CloneFails, SetStatus
  <2>2. status[j] \in Active
    BY <2>1 DEF SlotInv, RestIsFinal
  <2>3. /\ status'[j] \notin Active
        /\ \A i \in JobIds : i # j => status'[i] = status[i]
    BY <1>1, <2>1, <2>2, UpdateJobEffect DEF Terminal, Absent, Active
  <2> QED
    BY <1>1, <1>4, <2>1, <2>3, RestKeepsOrder
<1>10. CASE BackoffFires(j)
  <2>1. /\ ForkWorker(j, status, locks) /\ proc[<<j, retry[j]>>] = "none"
        /\ status[j] # "unborn" /\ j \notin cloning
    BY <1>1, <1>2, <1>10 DEF BackoffFires, IInv, OneForkSource
  <2>2. ForkEffect(j)
    BY <1>1, <2>1, ForkWorkerEffect
  <2>3. status'[j] \in Active => status[j] \in Active
    BY <1>1, <2>1 DEF ForkWorker
  <2> QED
    BY <1>1, <1>2, <1>10, <2>1, <2>2, <2>3, ForkKeepsOrder DEF BackoffFires
<1> QED
  BY <1>5, <1>6, <1>7, <1>8, <1>9, <1>10 DEF JobStep, Cancel, TimerFires, Orderly

\* Without cancellation and stray errors a worker reports progress, then one
\* result, then exits.
LEMMA WorkerStepKeepsOrder ==
  ASSUME Orderly, SlotInv, NEW w \in Workers, WorkerStep(w)
  PROVE  SlotInv'
<1>1. /\ IInv /\ IInv' /\ chan \in [Workers -> Seq(Messages)]
      /\ proc \in [Workers -> ProcStates] /\ w[1] \in JobIds
  BY WorkerStepPreserves DEF SlotInv, IInv, TypeOK, Workers
<1>2. /\ w \notin signalled /\ proc[w] # "dying"
      /\ ResultLast(chan[w]) /\ (proc[w] = "running" => AllProgress(chan[w]))
      /\ w \in reloads => proc[w] \in {"ending", "dead"} /\ chan[w] = <<>>
      /\ status[w[1]] \notin Active => proc[w] # "running" /\ NoProgress(chan[w])
  BY DEF SlotInv, WorkersReportOnce, RestIsFinal
<1>3. /\ UNCHANGED <<status, cloning, reloads>>
      /\ \A v \in Workers : v # w => proc'[v] = proc[v] /\ chan'[v] = chan[v]
      /\ signalled' \in SUBSET signalled
      /\ \/ /\ proc[w] = "running" /\ proc'[w] = "running"
            /\ chan'[w] = Append(chan[w], "progress")
         \/ /\ proc[w] = "running" /\ proc'[w] = "ending"
            /\ \E m \in Messages : chan'[w] = Append(chan[w], m)
         \/ proc[w] \in Alive /\ proc'[w] = "dead" /\ chan'[w] = chan[w]
  <2>1. CASE WorkerProgress(w)
    BY <1>1, <1>2, <2>1 DEF WorkerProgress, Send, jobVars
  <2>2. ASSUME NEW m \in {"complete", "error"}, WorkerFinishes(w, m) PROVE <1>3!:
    BY <1>1, <1>2, <2>2 DEF WorkerFinishes, Send, jobVars, Messages
  <2>3. CASE WorkerDies(w)
    BY <1>1, <1>2, <2>3 DEF WorkerDies, jobVars
  <2> QED
    BY <1>2, <2>1, <2>2, <2>3 DEF WorkerStep, WorkerStrayError, WorkerSigterm, Orderly
<1>4. /\ proc'[w] # "dying"
      /\ proc'[w] = "running" => AllProgress(chan'[w])
      /\ ResultLast(chan'[w])
      /\ w \in reloads => proc'[w] \in {"ending", "dead"} /\ chan'[w] = <<>>
      /\ status[w[1]] \notin Active => proc'[w] # "running" /\ NoProgress(chan'[w])
  <2>1. CASE proc[w] = "running"
    <3>1. /\ AllProgress(Append(chan[w], "progress"))
          /\ \A m \in Messages : ResultLast(Append(chan[w], m))
      BY <1>1, <1>2, <2>1, ChannelOrder
    <3>2. "progress" \in Messages
      BY DEF Messages
    <3> QED
      BY <1>2, <1>3, <2>1, <3>1, <3>2
  <2>2. CASE proc[w] # "running"
    BY <1>2, <1>3, <2>2
  <2> QED
    BY <2>1, <2>2
<1>5. WorkersReportOnce'
  BY <1>3, <1>4 DEF SlotInv, WorkersReportOnce
<1>6. SingleSlot' /\ RestIsFinal'
  BY <1>3, <1>4 DEF SlotInv, SingleSlot, RestIsFinal
<1> QED
  BY <1>1, <1>5, <1>6 DEF SlotInv

\* Receiving the last message of a worker, or its exit, is what ends its job.
LEMMA ServerStepKeepsOrder ==
  ASSUME Orderly, SlotInv, NEW w \in Workers, ServerStep(w)
  PROVE  SlotInv'
<1> DEFINE j == w[1]
<1>1. /\ IInv /\ IInv' /\ chan \in [Workers -> Seq(Messages)]
      /\ proc \in [Workers -> ProcStates] /\ j \in JobIds
      /\ status \in [JobIds -> Statuses]
      /\ \A v \in Workers : v[1] \in JobIds
  BY ServerStepPreserves DEF SlotInv, IInv, TypeOK, Workers
<1>2. \A v \in Workers :
        /\ v \notin signalled /\ proc[v] # "dying" /\ ResultLast(chan[v])
        /\ (proc[v] = "running" => AllProgress(chan[v]))
        /\ v \in reloads => proc[v] \in {"ending", "dead"} /\ chan[v] = <<>>
        /\ status[v[1]] \notin Active => proc[v] # "running" /\ NoProgress(chan[v])
  BY DEF SlotInv, WorkersReportOnce, RestIsFinal
<1>3. proc[w] \in Unreaped =>
        /\ j \notin cloning
        /\ \A v \in Workers : v[1] = j /\ v # w => proc[v] # "running" /\ chan[v] = <<>>
  <2> SUFFICES ASSUME proc[w] \in Unreaped
               PROVE  /\ j \notin cloning
                      /\ \A v \in Workers : v[1] = j /\ v # w =>
                           proc[v] # "running" /\ chan[v] = <<>>
    OBVIOUS
  <2>1. j \notin cloning
    BY <1>1 DEF IInv, OneForkSource, Workers
  <2> QED
    BY <1>1, <2>1, OneUnreaped DEF Unreaped, Alive
<1>4. CASE Receive(w)
  <2>1. /\ chan[w] # <<>> /\ chan' = [chan EXCEPT ![w] = Tail(@)]
        /\ UNCHANGED <<proc, cloning, signalled>>
    BY <1>4 DEF Receive
  <2>2. proc[w] \in Unreaped
    BY <1>1, <2>1 DEF IInv, ChannelsDrainFirst
  <2>3. /\ chan'[w] = Tail(chan[w])
        /\ \A v \in Workers : v # w => chan'[v] = chan[v]
    BY <1>1, <2>1
  <2>4. /\ (proc[w] = "running" => AllProgress(chan'[w])) /\ ResultLast(chan'[w])
        /\ (NoProgress(chan[w]) => NoProgress(chan'[w]))
        /\ Head(chan[w]) # "progress" => chan'[w] = <<>> /\ proc[w] # "running"
        /\ Head(chan[w]) = "progress" => ~NoProgress(chan[w])
    BY <1>1, <1>2, <2>1, <2>3, ChannelOrder
  <2>5. WorkersReportOnce'
    <3> SUFFICES ASSUME NEW v \in Workers
                 PROVE  /\ v \notin signalled' /\ proc[v] # "dying"
                        /\ proc[v] = "running" => AllProgress(chan'[v])
                        /\ ResultLast(chan'[v])
                        /\ v \in reloads' => proc[v] \in {"ending", "dead"} /\ chan'[v] = <<>>
      BY <2>1 DEF WorkersReportOnce
    <3>1. CASE v = w
      <4>1. w \in reloads' => Head(chan[w]) # "progress"
        BY <1>2, <1>4, <2>1 DEF Receive
      <4> QED
        BY <1>2, <2>1, <2>2, <2>4, <3>1, <4>1 DEF Unreaped, Alive
    <3>2. CASE v # w
      <4>1. v \in reloads' => v \in reloads
        BY <1>4, <3>2 DEF Receive
      <4> QED
        BY <1>2, <2>1, <2>3, <3>2, <4>1
    <3> QED
      BY <3>1, <3>2
  <2>6. CASE Head(chan[w]) = "progress"
    <3>1. status[j] \in Active /\ status' = UpdateJob(status, j, "analyzing")
      BY <1>2, <1>4, <2>4, <2>6 DEF Receive, SetStatus
    <3>2. /\ status'[j] \in Active
          /\ \A i \in JobIds : i # j => status'[i] = status[i]
      BY <1>1, <3>1, UpdateJobEffect DEF Active, Absent
    <3>3. SingleSlot'
      BY <3>1, <3>2 DEF SlotInv, SingleSlot
    <3>4. RestIsFinal'
      <4>1. \A i \in cloning' : status'[i] \in Active
        BY <1>1, <2>1, <3>2 DEF SlotInv, RestIsFinal, IInv, TypeOK
      <4>2. \A v \in Workers : status'[v[1]] \notin Active =>
              v[1] # j /\ v # w /\ status[v[1]] \notin Active
        BY <1>1, <3>2
      <4> QED
        BY <1>2, <2>1, <2>3, <4>1, <4>2 DEF RestIsFinal
    <3> QED
      BY <1>1, <2>5, <3>3, <3>4 DEF SlotInv
  <2>7. CASE Head(chan[w]) # "progress"
    <3>1. /\ status'[j] \in Active => status[j] \in Active
          /\ \A i \in JobIds : i # j => status'[i] = status[i]
      <4>1. \/ UNCHANGED status
            \/ status' = UpdateJob(status, j, "failed")
        BY <1>4, <2>7 DEF Receive, SetStatus
      <4>2. "failed" \in Terminal
        BY DEF Terminal
      <4> QED
        BY <1>1, <4>1, <4>2, RestingUpdate
    <3>2. SingleSlot'
      BY <1>1, <3>1 DEF SlotInv, SingleSlot
    <3>3. \A v \in Workers : v[1] = j => proc[v] # "running" /\ NoProgress(chan'[v])
      <4> SUFFICES ASSUME NEW v \in Workers, v[1] = j
                   PROVE  proc[v] # "running" /\ NoProgress(chan'[v])
        OBVIOUS
      <4>1. CASE v = w
        BY <2>4, <2>7, <4>1 DEF NoProgress
      <4>2. CASE v # w
        <5>1. proc[v] # "running" /\ chan[v] = <<>>
          BY <1>3, <2>2, <4>2
        <5>2. chan'[v] = <<>>
          BY <2>3, <4>2, <5>1
        <5> QED
          BY <5>1, <5>2 DEF NoProgress
      <4> QED
        BY <4>1, <4>2
    <3>4. RestIsFinal'
      <4>1. \A i \in cloning' : status'[i] \in Active
        BY <1>1, <1>3, <2>1, <2>2, <3>1 DEF SlotInv, RestIsFinal, IInv, TypeOK
      <4>2. ASSUME NEW v \in Workers, status'[v[1]] \notin Active
            PROVE  proc'[v] # "running" /\ NoProgress(chan'[v])
        <5>1. CASE v[1] = j
          BY <2>1, <3>3, <5>1
        <5>2. CASE v[1] # j
          BY <1>1, <1>2, <2>1, <2>3, <3>1, <4>2, <5>2
        <5> QED
          BY <5>1, <5>2
      <4> QED
        BY <4>1, <4>2 DEF RestIsFinal
    <3> QED
      BY <1>1, <2>5, <3>2, <3>4 DEF SlotInv
  <2> QED
    BY <2>6, <2>7
<1>5. CASE ExitEvent(w)
  <2>1. /\ proc[w] = "dead" /\ chan[w] = <<>> /\ w \notin reloads
        /\ proc' = [proc EXCEPT ![w] = "reaped"]
        /\ UNCHANGED <<cloning, signalled, chan, reloads>>
    BY <1>5 DEF ExitEvent, Orderly
  <2>2. /\ proc'[w] = "reaped" /\ proc[w] \in Unreaped
        /\ \A v \in Workers : v # w => proc'[v] = proc[v]
    BY <1>1, <2>1 DEF Unreaped
  <2>3. /\ status'[j] \in Active => status[j] \in Active
        /\ \A i \in JobIds : i # j => status'[i] = status[i]
    <3>1. \/ status[j] \notin Active /\ UNCHANGED status
          \/ status[j] \in Active /\ status' = UpdateJob(status, j, "analyzing")
          \/ status[j] \in Active /\ status' = UpdateJob(status, j, "failed")
      BY <1>5 DEF ExitEvent, SetStatus
    <3> QED
      BY <1>1, <3>1, UpdateJobEffect DEF Terminal, Active
  <2>4. SingleSlot'
    BY <1>1, <2>3 DEF SlotInv, SingleSlot
  <2>5. WorkersReportOnce'
    BY <1>2, <2>1, <2>2 DEF WorkersReportOnce
  <2>6. RestIsFinal'
    <3>1. \A i \in cloning' : status'[i] \in Active
      BY <1>1, <1>3, <2>1, <2>2, <2>3 DEF SlotInv, RestIsFinal, IInv, TypeOK
    <3>2. ASSUME NEW v \in Workers, status'[v[1]] \notin Active
          PROVE  proc'[v] # "running" /\ NoProgress(chan'[v])
      <4>1. CASE v[1] = j
        BY <1>3, <2>1, <2>2, <4>1 DEF NoProgress
      <4>2. CASE v[1] # j
        BY <1>1, <1>2, <2>1, <2>2, <2>3, <3>2, <4>2
      <4> QED
        BY <4>1, <4>2
    <3> QED
      BY <3>1, <3>2 DEF RestIsFinal
  <2> QED
    BY <1>1, <2>4, <2>5, <2>6 DEF SlotInv
<1>6. ASSUME NEW s \in Terminal, ReloadSettles(w, s) PROVE SlotInv'
  <2>1. /\ w \in reloads /\ reloads' = reloads \ {w}
        /\ status' = UpdateJob(status, j, s)
        /\ UNCHANGED <<cloning, proc, chan, signalled>>
    BY <1>6 DEF ReloadSettles, SetStatus
  <2>2. proc[w] \in Unreaped /\ proc[w] # "running" /\ chan[w] = <<>>
    BY <1>2, <2>1 DEF Unreaped, Alive
  <2>3. \A v \in Workers : v[1] = j => proc[v] # "running" /\ NoProgress(chan[v])
    BY <1>3, <2>2 DEF NoProgress
  <2>4. /\ status'[j] \notin Active
        /\ \A i \in JobIds : i # j => status'[i] = status[i]
    BY <1>1, <2>1, RestingUpdate
  <2> QED
    BY <1>1, <1>3, <2>1, <2>2, <2>3, <2>4, RestKeepsOrder
<1> QED
  BY <1>4, <1>5, <1>6 DEF ServerStep

\* "Single-slot concurrency (one active job at a time)" of analyze-job.ts holds
\* for any number of jobs and retries as long as nobody cancels, no timer fires,
\* no worker survives an error it reported and reloads are prompt.
THEOREM OrderlySingleSlot ==
  ASSUME Orderly
  PROVE  Spec => []SingleSlot
<1>1. Init => SlotInv
  <2> SUFFICES ASSUME Init, IInv PROVE SlotInv
    BY InitIInv
  <2>1. SingleSlot
    BY DEF Init, SingleSlot, Active
  <2>2. \A w \in Workers :
          proc[w] = "none" /\ chan[w] = <<>> /\ w \notin signalled /\ w \notin reloads
    BY DEF Init
  <2>3. WorkersReportOnce
    BY <2>2 DEF WorkersReportOnce, ResultLast
  <2>4. RestIsFinal
    BY <2>2 DEF RestIsFinal, NoProgress, Init
  <2> QED
    BY <2>1, <2>3, <2>4 DEF SlotInv
<1>2. SlotInv /\ [Next]_vars => SlotInv'
  <2> SUFFICES ASSUME SlotInv, [Next]_vars PROVE SlotInv'
    OBVIOUS
  <2>1. CASE UNCHANGED vars
    BY <2>1, StutterIInv DEF vars, SlotInv, SingleSlot, WorkersReportOnce, RestIsFinal
  <2> QED
    BY <2>1, JobStepKeepsOrder, WorkerStepKeepsOrder, ServerStepKeepsOrder DEF Next
<1>3. SlotInv => SingleSlot
  BY DEF SlotInv
<1> QED
  BY <1>1, <1>2, <1>3, PTL DEF Spec

-----------------------------------------------------------------------------
(* The embedding jobs.                                                     *)

EmbedTypes ==
  /\ eStatus \in [EmbedIds -> Statuses]
  /\ ePath \in [EmbedIds -> Paths] /\ eJob \in [EmbedIds -> EmbedIds]
  /\ embedding \subseteq EmbedIds /\ eTimer \subseteq EmbedIds

\* An id that is not used yet is the job of its own pipeline, which has not begun.
FreshIds == \A e \in EmbedIds : eStatus[e] = "unborn" => eJob[e] = e /\ e \notin embedding

EmbedInv == EmbedTypes /\ FreshIds /\ EmbedSingleSlot /\ EmbedNoLimbo

LEMMA InitEmbedInv == EmbedInit => EmbedInv
BY DEF EmbedInit, EmbedInv, EmbedTypes, FreshIds, EmbedSingleSlot, EmbedNoLimbo, Statuses, Absent,
       Active

\* A job that is updated to a terminal status is at rest, and no other changes.
LEMMA EmbedRests ==
  ASSUME EmbedTypes, NEW d \in EmbedIds, NEW s \in Terminal
  PROVE  LET t == UpdateJob(eStatus, d, s) IN
           /\ t \in [EmbedIds -> Statuses]
           /\ t[d] \notin Active
           /\ \A e \in EmbedIds \ {d} : t[e] = eStatus[e]
           /\ \A e \in EmbedIds : t[e] = "unborn" => eStatus[e] = "unborn"
BY DEF EmbedTypes, UpdateJob, Statuses, Active, Terminal, Absent

LEMMA EmbedStep ==
  ASSUME EmbedInv, EmbedNext
  PROVE  EmbedInv'
<1> USE DEF EmbedInv
<1>1. ASSUME NEW e \in EmbedIds, EmbedRequest(e) PROVE EmbedInv'
  <2>1. CASE /\ SlotFree(eStatus) /\ eStatus' = [eStatus EXCEPT ![e] = "analyzing"]
             /\ embedding' = embedding \cup {e} /\ eTimer' = eTimer \cup {e}
             /\ UNCHANGED eJob
    <3>1. \A d \in EmbedIds : eStatus[d] \notin Active
      BY <2>1 DEF SlotFree, ActiveJobs, EmbedTypes
    <3>2. eStatus' \in [EmbedIds -> Statuses] /\ eJob[e] = e
      BY <1>1, <2>1 DEF EmbedRequest, EmbedTypes, FreshIds, Statuses, Active
    <3> QED
      BY <1>1, <2>1, <3>1, <3>2
      DEF EmbedRequest, EmbedTypes, FreshIds, EmbedSingleSlot, EmbedNoLimbo
  <2>2. CASE /\ eStatus' = [eStatus EXCEPT ![e] = "gone"]
             /\ \/ /\ \E d \in ActiveJobs(eStatus) : eJob' = [eJob EXCEPT ![e] = d]
                   /\ embedding' = embedding \cup {e} /\ eTimer' = eTimer \cup {e}
                \/ UNCHANGED <<eJob, embedding, eTimer>>
    <3>1. eStatus[e] = "unborn" /\ eJob[e] = e /\ "unborn" \notin Active /\ "gone" \notin Active
      BY <1>1 DEF EmbedRequest, FreshIds, Active
    <3>2. /\ eStatus' \in [EmbedIds -> Statuses] /\ eJob' \in [EmbedIds -> EmbedIds]
          /\ \A d \in EmbedIds \ {e} : eStatus'[d] = eStatus[d] /\ eJob'[d] = eJob[d]
          /\ eStatus'[e] = "gone" /\ embedding \subseteq embedding' /\ eTimer \subseteq eTimer'
          /\ embedding' \subseteq embedding \cup {e} /\ eTimer' \subseteq EmbedIds
      BY <2>2 DEF EmbedTypes, ActiveJobs, Statuses, Absent
    <3>3. EmbedTypes' /\ FreshIds'
      BY <1>1, <3>2 DEF EmbedRequest, EmbedTypes, FreshIds
    <3>4. EmbedSingleSlot'
      BY <3>1, <3>2 DEF EmbedSingleSlot
    <3>5. EmbedNoLimbo'
      BY <3>1, <3>2 DEF EmbedNoLimbo, EmbedTypes
    <3> QED
      BY <3>3, <3>4, <3>5
  <2> QED
    BY <1>1, <2>1, <2>2 DEF EmbedRequest
<1>2. ASSUME NEW d \in EmbedIds, NEW s \in Terminal, eStatus' = UpdateJob(eStatus, d, s),
             embedding' \subseteq embedding, eTimer' \subseteq eTimer,
             \A e \in (embedding \cap eTimer) \ (embedding' \cap eTimer') : eJob[e] = d,
             UNCHANGED <<ePath, eJob>>
      PROVE  EmbedInv'
  <2>1. /\ eStatus' \in [EmbedIds -> Statuses] /\ eStatus'[d] \notin Active
        /\ \A e \in EmbedIds \ {d} : eStatus'[e] = eStatus[e]
        /\ \A e \in EmbedIds : eStatus'[e] = "unborn" => eStatus[e] = "unborn"
    BY <1>2, EmbedRests
  <2> QED
    BY <1>2, <2>1 DEF EmbedTypes, FreshIds, EmbedSingleSlot, EmbedNoLimbo
<1>3. ASSUME NEW e \in EmbedIds, eStatus[eJob[e]] \notin Active, UNCHANGED <<eStatus, ePath, eJob>>,
             embedding' \subseteq embedding, eTimer' \subseteq eTimer,
             embedding \ {e} \subseteq embedding', eTimer \ {e} \subseteq eTimer'
      PROVE  EmbedInv'
  BY <1>3 DEF EmbedTypes, FreshIds, EmbedSingleSlot, EmbedNoLimbo
<1>4. ASSUME NEW e \in EmbedIds, EmbedTimeout(e) PROVE EmbedInv'
  <2>1. CASE eStatus[eJob[e]] \in Active
    BY <1>2, <1>4, <2>1 DEF EmbedTimeout, EmbedTypes, Terminal
  <2>2. CASE eStatus[eJob[e]] \notin Active
    BY <1>3, <1>4, <2>2 DEF EmbedTimeout
  <2> QED
    BY <2>1, <2>2
<1>5. ASSUME NEW e \in EmbedIds, NEW s \in Terminal, PipelineEnds(e, s) PROVE EmbedInv'
  <2>1. CASE eStatus[eJob[e]] # "failed"
    BY <1>2, <1>5, <2>1 DEF PipelineEnds, EmbedTypes
  <2>2. CASE eStatus[eJob[e]] = "failed"
    BY <1>3, <1>5, <2>2 DEF PipelineEnds, Active
  <2> QED
    BY <2>1, <2>2
<1>6. ASSUME NEW e \in EmbedIds, EmbedCancel(e) PROVE EmbedInv'
  BY <1>2, <1>6 DEF EmbedCancel, Terminal
<1>7. ASSUME NEW e \in EmbedIds, EmbedExpire(e) PROVE EmbedInv'
  BY <1>7 DEF EmbedExpire, Dropped, EmbedTypes, FreshIds, EmbedSingleSlot, EmbedNoLimbo, Statuses,
              Active, Terminal, Absent
<1> QED
  BY <1>1, <1>4, <1>5, <1>6, <1>7 DEF EmbedNext

LEMMA EmbedAlways == ServerSpec => []EmbedInv
<1>1. ServerInit => EmbedInv
  BY InitEmbedInv DEF ServerInit
<1>2. EmbedInv /\ [ServerNext]_serverVars => EmbedInv'
  <2> SUFFICES ASSUME EmbedInv, [ServerNext]_serverVars PROVE EmbedInv'
    OBVIOUS
  <2>1. CASE EmbedNext
    BY <2>1, EmbedStep
  <2>2. CASE UNCHANGED embedVars
    BY <2>2 DEF embedVars, EmbedInv, EmbedTypes, FreshIds, EmbedSingleSlot, EmbedNoLimbo
  <2> QED
    BY <2>1, <2>2 DEF ServerNext, serverVars
<1> QED
  BY <1>1, <1>2, PTL DEF ServerSpec

\* At most one embedding job is active, whatever is cancelled or times out.
THEOREM EmbedSlot == ServerSpec => []EmbedSingleSlot
<1>1. EmbedInv => EmbedSingleSlot
  BY DEF EmbedInv
<1> QED
  BY <1>1, EmbedAlways, PTL

\* An active embedding job has a pipeline that will report to it, and its timer.
THEOREM EmbedNeverWedged == ServerSpec => []EmbedNoLimbo
<1>1. EmbedInv => EmbedNoLimbo
  BY DEF EmbedInv
<1> QED
  BY <1>1, EmbedAlways, PTL

-----------------------------------------------------------------------------
(* Who holds the lock of a repository.                                     *)

\* An analysis job holds the lock of its target from the first fork on, through
\* crashes and back-offs, until its worker's result is received.
Holder(j) == status[j] \in Active /\ j \notin cloning /\ \A w \in reloads : w[1] # j

\* What a holder works on is locked.
ClaimsLocked ==
  /\ \A j \in JobIds : Holder(j) => target[j] \in locks
  /\ \A e \in embedding : ePath[e] \in locks
  /\ deleting \subseteq locks

\* No two hold the same lock.
ClaimsDisjoint ==
  /\ \A j \in JobIds : Holder(j) => target[j] \notin deleting
  /\ \A j \in JobIds : \A e \in embedding : Holder(j) => target[j] # ePath[e]
  /\ \A e \in embedding : ePath[e] \notin deleting
  /\ \A d, e \in embedding : ePath[d] = ePath[e] => d = e

\* A worker that runs, or has still to be heard from, works for a job that holds.
WorkHolds == \A w \in Workers : proc[w] = "running" \/ chan[w] # <<>> => Holder(w[1])

\* What makes no handler release a lock that is not its own.
LocksAreOwn == Orderly /\ "clone_fail" \notin Adversity /\ "timeout" \notin EmbedAdversity

LockInv == SlotInv /\ EmbedInv /\ deleting \subseteq Paths /\ ClaimsLocked /\ ClaimsDisjoint /\ WorkHolds

-----------------------------------------------------------------------------
(* What a step of the analysis jobs does to locks and workers.             *)

\* The jobs but j keep what they hold.
Apart(j) == \A i \in JobIds : i # j => Holder(i)' = Holder(i)

\* A lock is taken, given up by its holder, or left alone.
LockEffect(j) ==
  /\ Apart(j)
  /\ \/ target[j] \notin locks /\ locks' = locks \cup {target[j]}
     \/ Holder(j) /\ ~Holder(j)' /\ locks' = locks \ {target[j]}
     \/ locks' = locks /\ (Holder(j)' => Holder(j))

\* A worker of j starts while j has none, or one stops, or neither.
RunEffect(j) ==
  \/ \A v \in Workers : proc'[v] = "running" <=> proc[v] = "running"
  \/ \E w \in Workers :
       /\ w[1] = j /\ proc'[w] = "running"
       /\ \A v \in Workers : v[1] = j => proc[v] # "running"
       /\ \A v \in Workers : v # w => (proc'[v] = "running" <=> proc[v] = "running")
       /\ Holder(j) \/ target[j] \notin locks
  \/ \E w \in Workers :
       /\ w[1] = j /\ proc[w] = "running" /\ proc'[w] # "running"
       /\ \A v \in Workers : v # w => (proc'[v] = "running" <=> proc[v] = "running")

Effect(j) == LockEffect(j) /\ RunEffect(j) /\ WorkHolds' /\ target' = target

\* A job that waits for its next fork has nothing on its way.
Waits(j) == \A w \in Workers : w[1] = j => proc[w] \notin Unreaped /\ chan[w] = <<>> /\ w \notin reloads

LEMMA WaitsForFork ==
  ASSUME SlotInv, NEW j \in JobIds, status[j] = "unborn" \/ j \in cloning \cup backoff
  PROVE  /\ Waits(j) /\ proc[<<j, retry[j]>>] = "none" /\ <<j, retry[j]>> \in Workers
         /\ TypeOK
<1>1. IInv /\ TypeOK /\ retry[j] \in 0 .. MaxRetries
  BY DEF SlotInv, IInv, TypeOK
<1>2. Unforked(j) /\ \A k \in 0 .. MaxRetries : proc[<<j, k>>] \notin Unreaped
  BY <1>1 DEF IInv, OneForkSource
<1>3. \A w \in Workers : w[1] = j => proc[w] \notin Unreaped
  BY <1>2 DEF Workers
<1>4. \A w \in Workers : w[1] = j => chan[w] = <<>> /\ w \notin reloads
  BY <1>1, <1>3 DEF IInv, ChannelsDrainFirst, SlotInv, WorkersReportOnce, Unreaped, Alive
<1>5. retry[j] >= retry[j]
  BY <1>1
<1> QED
  BY <1>1, <1>2, <1>3, <1>4, <1>5 DEF Unforked, Waits, Workers

\* The fork of a waiting job whose lock is held, or is taken with it.
LEMMA ForkTakesLock ==
  ASSUME SlotInv, WorkHolds, NEW j \in JobIds, Waits(j), TypeOK,
         proc[<<j, retry[j]>>] = "none", <<j, retry[j]>> \in Workers,
         NEW st \in [JobIds -> Statuses], \A i \in JobIds : i # j => st[i] = status[i],
         NEW held, ForkWorker(j, st, held),
         \/ target[j] \notin locks /\ held = locks \cup {target[j]} /\ st[j] \in Active
         \/ held = locks /\ (st[j] \in Active => Holder(j)),
         UNCHANGED <<reloads, chan, target>>, cloning' = cloning \ {j}
  PROVE  Effect(j)
<1> DEFINE w == <<j, retry[j]>>
<1>1. Apart(j)
  <2>1. \A i \in JobIds : i # j => status'[i] = status[i]
    BY UpdateJobEffect DEF ForkWorker, Fork, UpdateJob
  <2> QED
    BY <2>1 DEF Apart, Holder
<1>2. CASE st[j] \in Active /\ proc' = [proc EXCEPT ![w] = "running"] /\ status' = st /\ locks' = held
  <2>1. Holder(j)'
    BY <1>2 DEF Holder, Waits, TypeOK
  <2>2. \A v \in Workers : v # w => proc'[v] = proc[v]
    BY <1>2 DEF TypeOK
  <2>3. proc'[w] = "running"
    BY <1>2 DEF TypeOK
  <2>4. LockEffect(j)
    BY <1>1, <1>2 DEF LockEffect
  <2>5. RunEffect(j)
    <3>1. w[1] = j /\ \A v \in Workers : v[1] = j => proc[v] # "running"
      BY DEF Waits, Unreaped, Alive
    <3> QED
      BY <1>2, <2>2, <2>3, <3>1 DEF RunEffect
  <2>6. WorkHolds'
    BY <1>1, <2>1, <2>2 DEF WorkHolds, Apart, Workers
  <2> QED
    BY <2>4, <2>5, <2>6 DEF Effect
<1>3. CASE st[j] \in Active /\ proc' = [proc EXCEPT ![w] = "unspawned"]
           /\ status' = UpdateJob(st, j, "failed") /\ locks' = held \ {target[j]}
  <2>1. ~Holder(j)'
    <3>1. "failed" \in Terminal
      BY DEF Terminal
    <3>2. UpdateJob(st, j, "failed")[j] \notin Active
      BY <3>1, RestingUpdate
    <3> QED
      BY <1>3, <3>2 DEF Holder
  <2>2. \A v \in Workers : proc'[v] = "running" <=> proc[v] = "running"
    BY <1>3 DEF TypeOK
  <2>3. LockEffect(j)
    BY <1>1, <1>3, <2>1 DEF LockEffect
  <2>4. WorkHolds'
    BY <1>1, <2>2 DEF WorkHolds, Apart, Workers, Waits, Unreaped, Alive
  <2> QED
    BY <2>2, <2>3, <2>4 DEF Effect, RunEffect
<1>4. CASE st[j] \notin Active /\ status' = st /\ locks' = held /\ UNCHANGED proc
  <2>1. ~Holder(j)' /\ locks' = locks
    BY <1>4 DEF Holder
  <2>2. WorkHolds'
    BY <1>1, <1>4 DEF WorkHolds, Apart, Workers, Waits, Unreaped, Alive
  <2> QED
    BY <1>1, <1>4, <2>1, <2>2 DEF Effect, LockEffect, RunEffect
<1> QED
  BY <1>2, <1>3, <1>4 DEF ForkWorker, Fork

\* The other jobs, and what is on its way for them, stay as they are.
OthersStay(j) ==
  /\ \A i \in JobIds : i # j => status'[i] = status[i] /\ (i \in cloning' <=> i \in cloning)
  /\ \A w \in Workers : w[1] # j => chan'[w] = chan[w] /\ (w \in reloads' <=> w \in reloads)
  /\ reloads' \subseteq Workers /\ target' = target

\* Job j has nothing on its way but reloads.
Quiet(j) == \A w \in Workers : w[1] = j => proc'[w] # "running" /\ chan'[w] = <<>>

\* No worker starts or stops, and j does not hold, or gives up, its lock.
Lets(j) ==
  /\ ~Holder(j)'
  /\ \/ locks' = locks
     \/ Holder(j) /\ locks' = locks \ {target[j]}
  /\ \A w \in Workers : proc'[w] = "running" <=> proc[w] = "running"

\* A job comes to rest; its lock is released if it holds it.
LEMMA RestReleases ==
  ASSUME SlotInv, WorkHolds, NEW j \in JobIds, OthersStay(j), Quiet(j), Lets(j)
  PROVE  Effect(j)
<1> USE DEF Lets
<1>1. reloads \subseteq Workers
  BY DEF SlotInv, IInv, TypeOK
<1>2. Apart(j)
  BY <1>1 DEF Apart, Holder, OthersStay
<1>3. LockEffect(j)
  BY <1>2 DEF LockEffect
<1>4. WorkHolds'
  BY <1>2 DEF WorkHolds, Apart, Workers, OthersStay, Quiet
<1> QED
  BY <1>3, <1>4 DEF Effect, RunEffect, OthersStay

LEMMA JobStepEffect ==
  ASSUME LocksAreOwn, SlotInv, WorkHolds, NEW j \in JobIds, JobStep(j)
  PROVE  Effect(j)
<1>1. /\ IInv /\ TypeOK /\ status \in [JobIds -> Statuses] /\ reloads \subseteq Workers
      /\ DOMAIN status = JobIds
  BY DEF SlotInv, IInv, TypeOK
<1>2. ASSUME status[j] = "unborn" \/ j \in cloning,
             NEW st \in [JobIds -> Statuses], st[j] \in Active,
             \A i \in JobIds : i # j => st[i] = status[i],
             StartAnalysis(j, target[j], st),
             UNCHANGED <<reloads, chan, target>>, cloning' = cloning \ {j}
      PROVE  Effect(j)
  <2>1. /\ Waits(j) /\ proc[<<j, retry[j]>>] = "none" /\ <<j, retry[j]>> \in Workers
    BY <1>2, WaitsForFork
  <2>2. CASE ~Available(target[j])
    <3>1. status' = UpdateJob(st, j, "failed") /\ UNCHANGED <<proc, locks>>
      BY <1>2, <2>2 DEF StartAnalysis
    <3>2. "failed" \in Terminal
      BY DEF Terminal
    <3>3. status'[j] \notin Active /\ \A i \in JobIds : i # j => status'[i] = status[i]
      BY <1>2, <3>1, <3>2, RestingUpdate
    <3>4. Quiet(j)
      BY <1>2, <2>1, <3>1 DEF Waits, Unreaped, Alive, Quiet
    <3>5. ~Holder(j)'
      BY <3>3 DEF Holder
    <3>6. OthersStay(j)
      BY <1>1, <1>2, <3>3 DEF OthersStay
    <3>7. Lets(j)
      BY <3>1, <3>5 DEF Lets
    <3> QED
      BY <3>4, <3>6, <3>7, RestReleases
  <2>3. CASE Available(target[j])
    <3> DEFINE upd == UpdateJob(st, j, "analyzing")
    <3>1. ForkWorker(j, upd, locks \cup {target[j]}) /\ target[j] \notin locks
      BY <1>2, <2>3 DEF StartAnalysis, Available
    <3>2. /\ upd \in [JobIds -> Statuses] /\ upd[j] \in Active
          /\ \A i \in JobIds : i # j => upd[i] = status[i]
      BY <1>2, UpdateJobEffect DEF Active, Absent
    <3> DEFINE held == locks \cup {target[j]}
    <3>3. ForkWorker(j, upd, held) /\ held = locks \cup {target[j]}
      BY <3>1
    <3> HIDE DEF upd, held
    <3>4. \/ target[j] \notin locks /\ held = locks \cup {target[j]} /\ upd[j] \in Active
          \/ held = locks /\ (upd[j] \in Active => Holder(j))
      BY <3>1, <3>2, <3>3
    <3>5. UNCHANGED <<reloads, chan, target>> /\ cloning' = cloning \ {j}
      BY <1>2
    <3> QED
      BY <1>1, <2>1, <3>2, <3>3, <3>4, <3>5, ForkTakesLock
  <2> QED
    BY <2>2, <2>3
<1>3. CASE RequestPath(j)
  <2> DEFINE st == [status EXCEPT ![j] = "cloning"]
  <2>1. j \notin cloning
    BY <1>1, <1>3 DEF RequestPath, IInv, OneForkSource
  <2>2. /\ st \in [JobIds -> Statuses] /\ st[j] \in Active
        /\ \A i \in JobIds : i # j => st[i] = status[i]
    BY <1>1 DEF Statuses, Active
  <2> HIDE DEF st
  <2> QED
    BY <1>2, <1>3, <2>1, <2>2 DEF RequestPath, st
<1>4. CASE CloneDone(j)
  <2>1. status[j] \in Active /\ j \in cloning
    BY <1>4 DEF CloneDone, SlotInv, RestIsFinal
  <2> QED
    BY <1>1, <1>2, <1>4, <2>1 DEF CloneDone
<1>5. CASE RequestUrl(j)
  <2>1. Waits(j)
    BY <1>5, WaitsForFork DEF RequestUrl
  <2>2. ~Holder(j)' /\ UNCHANGED <<proc, chan, locks>> /\ OthersStay(j)
    BY <1>1, <1>5 DEF RequestUrl, Holder, OthersStay
  <2>3. Quiet(j)
    BY <2>1, <2>2 DEF Waits, Unreaped, Alive, Quiet
  <2>4. Lets(j)
    BY <2>2 DEF Lets
  <2> QED
    BY <2>2, <2>3, <2>4, RestReleases
<1>6. CASE Expire(j)
  <2>1. ~Holder(j) /\ ~Holder(j)' /\ UNCHANGED <<proc, chan, locks>> /\ OthersStay(j)
    BY <1>1, <1>6 DEF Expire, Dropped, Holder, Active, Terminal, OthersStay
  <2>2. Quiet(j)
    BY <2>1 DEF WorkHolds, Quiet
  <2>3. Lets(j)
    BY <2>1 DEF Lets
  <2> QED
    BY <2>1, <2>2, <2>3, RestReleases
<1>7. CASE BackoffFires(j)
  <2>1. /\ Waits(j) /\ proc[<<j, retry[j]>>] = "none" /\ <<j, retry[j]>> \in Workers
        /\ j \notin cloning
    BY <1>1, <1>7, WaitsForFork DEF BackoffFires, IInv, OneForkSource
  <2>2. status[j] \in Active => Holder(j)
    BY <1>1, <2>1 DEF Holder, Waits
  <2> QED
    BY <1>1, <1>7, <2>1, <2>2, cloning' = cloning \ {j}, ForkTakesLock DEF BackoffFires
<1> QED
  BY <1>3, <1>4, <1>5, <1>6, <1>7
  DEF JobStep, Cancel, TimerFires, CloneFails, LocksAreOwn, Orderly
LEMMA WorkerStepEffect ==
  ASSUME LocksAreOwn, SlotInv, WorkHolds, NEW w \in Workers, WorkerStep(w)
  PROVE  Effect(w[1])
<1>1. /\ w[1] \in JobIds /\ w \notin signalled /\ proc[w] # "dying"
      /\ proc \in [Workers -> ProcStates] /\ chan \in [Workers -> Seq(Messages)]
      /\ \A v \in Workers : v[1] \in JobIds
  BY DEF SlotInv, WorkersReportOnce, IInv, TypeOK, Workers
<1>2. /\ UNCHANGED <<status, cloning, reloads, locks, target>>
      /\ \A v \in Workers : v # w => proc'[v] = proc[v] /\ chan'[v] = chan[v]
      /\ proc'[w] = "running" => proc[w] = "running"
      /\ \/ proc[w] = "running"
         \/ proc'[w] = "dead" /\ chan'[w] = chan[w]
  <2>1. CASE WorkerProgress(w)
    BY <1>1, <2>1 DEF WorkerProgress, Send, jobVars
  <2>2. ASSUME NEW m \in {"complete", "error"}, WorkerFinishes(w, m) PROVE <1>2!:
    BY <1>1, <2>2 DEF WorkerFinishes, Send, jobVars
  <2>3. CASE WorkerDies(w)
    BY <1>1, <2>3 DEF WorkerDies, jobVars
  <2> QED
    BY <1>1, <2>1, <2>2, <2>3
    DEF WorkerStep, WorkerStrayError, WorkerSigterm, LocksAreOwn, Orderly
<1>3. \A i \in JobIds : Holder(i)' = Holder(i)
  BY <1>2 DEF Holder
<1>4. LockEffect(w[1])
  BY <1>1, <1>2, <1>3 DEF LockEffect, Apart
<1>5. RunEffect(w[1])
  BY <1>2 DEF RunEffect
<1>6. WorkHolds'
  <2>1. \A v \in Workers : proc'[v] = "running" \/ chan'[v] # <<>> =>
                             proc[v] = "running" \/ chan[v] # <<>>
    BY <1>2
  <2> QED
    BY <1>1, <1>3, <2>1 DEF WorkHolds
<1> QED
  BY <1>2, <1>4, <1>5, <1>6 DEF Effect

\* What is still to be heard from an unreaped worker is all there is of its job.
LEMMA OnlyWorker ==
  ASSUME SlotInv, NEW w \in Workers, proc[w] \in Unreaped
  PROVE  /\ w[1] \notin cloning
         /\ \A v \in Workers : v[1] = w[1] /\ v # w =>
              proc[v] \notin Unreaped /\ chan[v] = <<>> /\ v \notin reloads
<1>1. w[1] \notin cloning
  BY DEF SlotInv, IInv, OneForkSource, Workers
<1>2. ASSUME NEW v \in Workers, v[1] = w[1], v # w
      PROVE  proc[v] \notin Unreaped /\ chan[v] = <<>> /\ v \notin reloads
  <2>1. proc[v] \notin Unreaped /\ chan[v] = <<>>
    BY <1>2, OneUnreaped DEF SlotInv
  <2> QED
    BY <2>1 DEF SlotInv, WorkersReportOnce, Unreaped, Alive
<1> QED
  BY <1>1, <1>2

LEMMA ServerStepEffect ==
  ASSUME LocksAreOwn, SlotInv, WorkHolds, NEW w \in Workers, ServerStep(w)
  PROVE  Effect(w[1])
<1> DEFINE j == w[1]
<1>1. /\ j \in JobIds /\ reloads \subseteq Workers /\ status \in [JobIds -> Statuses]
      /\ proc \in [Workers -> ProcStates] /\ chan \in [Workers -> Seq(Messages)]
      /\ \A v \in Workers : v[1] \in JobIds
  BY DEF SlotInv, IInv, TypeOK, Workers
<1>2. CASE Receive(w)
  <2>1. /\ chan[w] # <<>> /\ chan'[w] = Tail(chan[w])
        /\ \A v \in Workers : v # w => chan'[v] = chan[v]
        /\ UNCHANGED <<proc, cloning, target>>
    BY <1>1, <1>2 DEF Receive
  <2>2. Holder(j) /\ proc[w] \in Unreaped
    BY <1>1, <2>1 DEF WorkHolds, SlotInv, IInv, ChannelsDrainFirst
  <2>3. CASE Head(chan[w]) = "progress"
    <3>1. status' = UpdateJob(status, j, "analyzing") /\ UNCHANGED <<locks, reloads>>
      BY <1>2, <2>3 DEF Receive, SetStatus
    <3>2. /\ status'[j] \in Active
          /\ \A i \in JobIds : i # j => status'[i] = status[i]
      BY <1>1, <2>2, <3>1, UpdateJobEffect DEF Holder, Active, Absent
    <3>3. \A i \in JobIds : Holder(i)' = Holder(i)
      BY <2>1, <2>2, <3>1, <3>2 DEF Holder
    <3>4. LockEffect(j) /\ RunEffect(j)
      BY <1>1, <2>1, <3>1, <3>3 DEF LockEffect, RunEffect, Apart
    <3>5. WorkHolds'
      BY <1>1, <2>1, <2>2, <3>3 DEF WorkHolds
    <3> QED
      BY <2>1, <3>4, <3>5 DEF Effect
  <2>4. CASE Head(chan[w]) # "progress"
    <3>1. locks' = locks \ {target[j]}
      BY <1>2, <2>4 DEF Receive, ReleaseLock
    <3>2. /\ \A i \in JobIds : i # j => status'[i] = status[i]
          /\ reloads' \in {reloads, reloads \cup {w}}
          /\ w \in reloads' \/ status'[j] \notin Active
      <4>1. \/ UNCHANGED status /\ reloads' = reloads \cup {w}
            \/ status' = UpdateJob(status, j, "failed") /\ UNCHANGED reloads
        BY <1>2, <2>4 DEF Receive, SetStatus
      <4>2. "failed" \in Terminal
        BY DEF Terminal
      <4> QED
        BY <1>1, <4>1, <4>2, RestingUpdate
    <3>3. proc[w] # "running" /\ chan'[w] = <<>>
      BY <1>1, <2>1, <2>4, ChannelOrder DEF SlotInv, WorkersReportOnce
    <3>4. Quiet(j)
      BY <2>1, <2>2, <3>3, OnlyWorker DEF Quiet, Unreaped, Alive
    <3>5. Lets(j)
      BY <2>1, <2>2, <3>1, <3>2 DEF Lets, Holder
    <3>6. OthersStay(j)
      BY <1>1, <2>1, <3>2 DEF OthersStay
    <3> QED
      BY <1>1, <3>4, <3>5, <3>6, RestReleases
  <2> QED
    BY <2>3, <2>4
<1>3. CASE ExitEvent(w)
  <2>1. /\ proc[w] = "dead" /\ chan[w] = <<>> /\ w \notin reloads /\ proc'[w] = "reaped"
        /\ \A v \in Workers : v # w => proc'[v] = proc[v]
        /\ UNCHANGED <<cloning, target, chan, reloads>>
    BY <1>1, <1>3 DEF ExitEvent, LocksAreOwn, Orderly
  <2>2. /\ j \notin cloning
        /\ \A v \in Workers : v[1] = j => proc[v] # "running" /\ chan[v] = <<>> /\ v \notin reloads
    BY <2>1, OnlyWorker DEF Unreaped, Alive
  <2>3. \/ UNCHANGED <<status, locks>>
        \/ /\ status[j] \in Active /\ status' = UpdateJob(status, j, "analyzing")
           /\ UNCHANGED locks
        \/ /\ status[j] \in Active /\ status' = UpdateJob(status, j, "failed")
           /\ locks' = locks \ {target[j]}
    BY <1>3 DEF ExitEvent, SetStatus, ReleaseLock
  <2>4. /\ \A i \in JobIds : i # j => status'[i] = status[i]
        /\ UpdateJob(status, j, "failed")[j] \notin Active
        /\ UpdateJob(status, j, "analyzing")[j] \in Active \cup Absent
        /\ status[j] \in Active => UpdateJob(status, j, "analyzing")[j] \in Active
    <3>1. "failed" \in Terminal /\ "analyzing" \in Active
      BY DEF Terminal, Active
    <3>2. /\ UpdateJob(status, j, "failed")[j] \notin Active
          /\ \A i \in JobIds : i # j => UpdateJob(status, j, "failed")[i] = status[i]
      BY <1>1, <3>1, RestingUpdate
    <3>3. /\ \A i \in JobIds : i # j => UpdateJob(status, j, "analyzing")[i] = status[i]
          /\ status[j] \in Absent => UpdateJob(status, j, "analyzing")[j] \in Absent
          /\ status[j] \notin Absent => UpdateJob(status, j, "analyzing")[j] \in Active
      BY <1>1, <3>1, UpdateJobEffect
    <3>4. status[j] \in Active => status[j] \notin Absent
      BY DEF Active, Absent
    <3> QED
      BY <2>3, <3>2, <3>3, <3>4
  <2>5. status[j] \in Active => Holder(j)
    BY <1>1, <2>2 DEF Holder
  <2>6. \A v \in Workers : proc'[v] = "running" <=> proc[v] = "running"
    BY <2>1
  <2>7. Apart(j)
    BY <2>1, <2>4 DEF Apart, Holder
  <2>8. \/ locks' = locks /\ (Holder(j)' => Holder(j))
        \/ Holder(j) /\ ~Holder(j)' /\ locks' = locks \ {target[j]}
    <3>1. Holder(j)' => status'[j] \in Active
      BY DEF Holder
    <3> QED
      BY <2>3, <2>4, <2>5, <3>1 DEF Holder
  <2>9. WorkHolds'
    <3> SUFFICES ASSUME NEW v \in Workers, proc'[v] = "running" \/ chan'[v] # <<>>
                 PROVE  Holder(v[1])'
      BY DEF WorkHolds
    <3>1. v[1] # j /\ Holder(v[1])
      BY <2>1, <2>2, <2>6 DEF WorkHolds
    <3> QED
      BY <1>1, <2>7, <3>1 DEF Apart
  <2> QED
    BY <2>1, <2>6, <2>7, <2>8, <2>9 DEF Effect, LockEffect, RunEffect
<1>4. ASSUME NEW s \in Terminal, ReloadSettles(w, s) PROVE Effect(j)
  <2>1. /\ w \in reloads /\ reloads' = reloads \ {w}
        /\ status' = UpdateJob(status, j, s)
        /\ UNCHANGED <<cloning, proc, chan, locks, target>>
    BY <1>4 DEF ReloadSettles, SetStatus
  <2>2. proc[w] \in {"ending", "dead"} /\ chan[w] = <<>>
    BY <2>1 DEF SlotInv, WorkersReportOnce
  <2>3. Quiet(j)
    BY <2>1, <2>2, OnlyWorker DEF Quiet, Unreaped, Alive
  <2>4. status'[j] \notin Active /\ \A i \in JobIds : i # j => status'[i] = status[i]
    BY <1>1, <2>1, RestingUpdate
  <2>5. Lets(j)
    BY <2>1, <2>4 DEF Lets, Holder
  <2>6. OthersStay(j)
    BY <1>1, <2>1, <2>4 DEF OthersStay
  <2> QED
    BY <1>1, <2>3, <2>5, <2>6, RestReleases
<1> QED
  BY <1>2, <1>3, <1>4 DEF ServerStep
-----------------------------------------------------------------------------
(* Every step keeps what is held locked, and by one holder only.           *)

LEMMA InitLockInv == ServerInit => LockInv
<1> SUFFICES ASSUME ServerInit PROVE LockInv
  OBVIOUS
<1>1. Init /\ EmbedInit /\ deleting = {}
  BY DEF ServerInit
<1>2. SlotInv
  <2>1. IInv
    BY <1>1, InitIInv
  <2>2. SingleSlot
    BY <1>1 DEF Init, SingleSlot, Active
  <2>3. \A w \in Workers :
          proc[w] = "none" /\ chan[w] = <<>> /\ w \notin signalled /\ w \notin reloads
    BY <1>1 DEF Init
  <2>4. WorkersReportOnce
    BY <2>3 DEF WorkersReportOnce, ResultLast
  <2>5. RestIsFinal
    BY <1>1, <2>3 DEF RestIsFinal, NoProgress, Init
  <2> QED
    BY <2>1, <2>2, <2>4, <2>5 DEF SlotInv
<1>3. EmbedInv /\ embedding = {}
  BY <1>1, InitEmbedInv DEF EmbedInit
<1>4. \A j \in JobIds : ~Holder(j)
  BY <1>1 DEF Init, Holder, Active
<1>5. WorkHolds
  BY <1>1 DEF Init, WorkHolds
<1> QED
  BY <1>1, <1>2, <1>3, <1>4, <1>5 DEF LockInv, ClaimsLocked, ClaimsDisjoint

\* A step of the analysis jobs is one of JobStep, WorkerStep or ServerStep.
LEMMA NextEffect ==
  ASSUME LocksAreOwn, SlotInv, WorkHolds, Next
  PROVE  SlotInv' /\ \E j \in JobIds : Effect(j)
<1>1. Orderly /\ \A w \in Workers : w[1] \in JobIds
  BY DEF LocksAreOwn, Workers
<1>2. ASSUME NEW j \in JobIds, JobStep(j) PROVE SlotInv' /\ Effect(j)
  BY <1>1, <1>2, JobStepKeepsOrder, JobStepEffect
<1>3. ASSUME NEW w \in Workers, WorkerStep(w) PROVE SlotInv' /\ Effect(w[1])
  BY <1>1, <1>3, WorkerStepKeepsOrder, WorkerStepEffect
<1>4. ASSUME NEW w \in Workers, ServerStep(w) PROVE SlotInv' /\ Effect(w[1])
  BY <1>1, <1>4, ServerStepKeepsOrder, ServerStepEffect
<1> QED
  BY <1>1, <1>2, <1>3, <1>4 DEF Next

\* Two jobs never hold together.
LEMMA HolderIsActive ==
  ASSUME SlotInv, NEW i \in JobIds, NEW j \in JobIds, Holder(i), Holder(j)
  PROVE  i = j
BY DEF SlotInv, SingleSlot, Holder

\* An analysis step changes what one job holds.
LEMMA AnalyzeKeepsLocks ==
  ASSUME LockInv, SlotInv', NEW j \in JobIds, Effect(j), UNCHANGED <<embedVars, deleting>>
  PROVE  LockInv'
<1> USE DEF LockInv
<1>1. /\ UNCHANGED <<eStatus, ePath, eJob, embedding, eTimer, deleting, target>>
      /\ Apart(j) /\ LockEffect(j) /\ WorkHolds' /\ target[j] \in Paths
  BY DEF Effect, LockEffect, embedVars, SlotInv, IInv, TypeOK
<1>2. EmbedInv'
  BY <1>1 DEF EmbedInv, EmbedTypes, FreshIds, EmbedSingleSlot, EmbedNoLimbo
<1>3. CASE target[j] \notin locks /\ locks' = locks \cup {target[j]}
  <2>1. \A e \in embedding : ePath[e] # target[j]
    BY <1>3 DEF ClaimsLocked
  <2>2. target[j] \notin deleting
    BY <1>3 DEF ClaimsLocked
  <2>3. \A i \in JobIds \ {j} : Holder(i)' = Holder(i)
    BY <1>1 DEF Apart
  <2>4. ClaimsLocked' /\ ClaimsDisjoint'
    BY <1>1, <1>3, <2>1, <2>2, <2>3 DEF ClaimsLocked, ClaimsDisjoint
  <2> QED
    BY <1>1, <1>2, <2>4
<1>4. CASE Holder(j) /\ ~Holder(j)' /\ locks' = locks \ {target[j]}
  <2>1. \A i \in JobIds : ~Holder(i)'
    BY <1>1, <1>4, HolderIsActive DEF Apart
  <2>2. ClaimsLocked' /\ ClaimsDisjoint'
    BY <1>1, <1>4, <2>1 DEF ClaimsLocked, ClaimsDisjoint
  <2> QED
    BY <1>1, <1>2, <2>2
<1>5. CASE locks' = locks /\ (Holder(j)' => Holder(j))
  <2>1. \A i \in JobIds : Holder(i)' => Holder(i)
    BY <1>1, <1>5 DEF Apart
  <2>2. ClaimsLocked' /\ ClaimsDisjoint'
    BY <1>1, <1>5, <2>1 DEF ClaimsLocked, ClaimsDisjoint
  <2> QED
    BY <1>1, <1>2, <2>2
<1> QED
  BY <1>1, <1>3, <1>4, <1>5 DEF LockEffect

\* Steps that leave the analysis jobs alone keep their invariants.
LEMMA JobsUntouched ==
  ASSUME SlotInv, WorkHolds, UNCHANGED analyzeVars, locks' \subseteq Paths
  PROVE  /\ SlotInv' /\ WorkHolds' /\ UNCHANGED <<proc, target>>
         /\ \A j \in JobIds : Holder(j)' = Holder(j)
<1> USE DEF analyzeVars, jobVars, procVars
<1>1. IInv'
  BY DEF SlotInv, IInv, TypeOK, NoLimbo, HasDriver, OneForkSource, Unforked, UnreapedIsRegistered,
         ChannelsDrainFirst
<1>2. SingleSlot' /\ WorkersReportOnce' /\ RestIsFinal'
  BY DEF SlotInv, SingleSlot, WorkersReportOnce, RestIsFinal
<1>3. \A j \in JobIds : Holder(j)' = Holder(j)
  BY DEF Holder
<1>4. WorkHolds'
  BY <1>3 DEF WorkHolds, Workers
<1> QED
  BY <1>1, <1>2, <1>3, <1>4 DEF SlotInv

\* An embedding request takes a lock; the end of a pipeline gives it back.
EmbedEffect ==
  \/ \E e \in EmbedIds :
       /\ e \notin embedding /\ ePath[e] \notin locks
       /\ locks' = locks \cup {ePath[e]}
       /\ embedding' \in {embedding, embedding \cup {e}}
  \/ \E e \in embedding : locks' = locks \ {ePath[e]} /\ embedding' = embedding \ {e}
  \/ UNCHANGED <<locks, embedding>>

LEMMA EmbedStepEffect ==
  ASSUME LocksAreOwn, EmbedInv, EmbedNext
  PROVE  EmbedEffect /\ UNCHANGED ePath
<1>1. ASSUME NEW e \in EmbedIds, EmbedRequest(e) PROVE EmbedEffect /\ UNCHANGED ePath
  BY <1>1 DEF EmbedRequest, EmbedEffect, AcquireLock, Available, EmbedInv, FreshIds
<1>2. ASSUME NEW e \in EmbedIds, NEW s \in Terminal, PipelineEnds(e, s)
      PROVE  EmbedEffect /\ UNCHANGED ePath
  BY <1>2 DEF PipelineEnds, ReleaseLock, EmbedEffect
<1>3. ASSUME NEW e \in EmbedIds, EmbedCancel(e) \/ EmbedExpire(e)
      PROVE  EmbedEffect /\ UNCHANGED ePath
  BY <1>3 DEF EmbedCancel, EmbedExpire, EmbedEffect
<1> QED
  BY <1>1, <1>2, <1>3 DEF EmbedNext, EmbedTimeout, LocksAreOwn

LEMMA EmbedKeepsLocks ==
  ASSUME LocksAreOwn, LockInv, EmbedNext, UNCHANGED <<analyzeVars, deleting>>
  PROVE  LockInv'
<1> USE DEF LockInv
<1>1. EmbedEffect /\ UNCHANGED ePath /\ EmbedInv' /\ UNCHANGED deleting
  BY EmbedStepEffect, EmbedStep
<1>2. locks \subseteq Paths /\ ePath \in [EmbedIds -> Paths] /\ embedding \subseteq EmbedIds
  BY DEF SlotInv, IInv, TypeOK, EmbedInv, EmbedTypes
<1>3. locks' \subseteq Paths
  BY <1>1, <1>2 DEF EmbedEffect
<1>4. /\ SlotInv' /\ WorkHolds' /\ target' = target
      /\ \A j \in JobIds : Holder(j)' = Holder(j)
  BY <1>3, JobsUntouched
<1>5. ClaimsLocked' /\ ClaimsDisjoint'
  <2>1. ASSUME NEW e \in EmbedIds, e \notin embedding, ePath[e] \notin locks,
               locks' = locks \cup {ePath[e]}, embedding' \in {embedding, embedding \cup {e}}
        PROVE  ClaimsLocked' /\ ClaimsDisjoint'
    BY <1>1, <1>4, <2>1 DEF ClaimsLocked, ClaimsDisjoint
  <2>2. ASSUME NEW e \in embedding, locks' = locks \ {ePath[e]}, embedding' = embedding \ {e}
        PROVE  ClaimsLocked' /\ ClaimsDisjoint'
    BY <1>1, <1>4, <2>2 DEF ClaimsLocked, ClaimsDisjoint
  <2>3. CASE UNCHANGED <<locks, embedding>>
    BY <1>1, <1>4, <2>3 DEF ClaimsLocked, ClaimsDisjoint
  <2> QED
    BY <1>1, <2>1, <2>2, <2>3 DEF EmbedEffect
<1> QED
  BY <1>1, <1>4, <1>5

LEMMA DeletionKeepsLocks ==
  ASSUME LockInv, NEW p \in Paths, DeleteStarts(p) \/ DeleteEnds(p),
         UNCHANGED <<analyzeVars, embedVars>>
  PROVE  LockInv'
<1> USE DEF LockInv
<1>1. UNCHANGED <<eStatus, ePath, eJob, embedding, eTimer>>
  BY DEF embedVars
<1>2. EmbedInv'
  BY <1>1 DEF EmbedInv, EmbedTypes, FreshIds, EmbedSingleSlot, EmbedNoLimbo
<1>3. locks' \subseteq Paths /\ deleting' \subseteq Paths
  BY DEF DeleteStarts, DeleteEnds, AcquireLock, ReleaseLock, SlotInv, IInv, TypeOK
<1>4. /\ SlotInv' /\ WorkHolds' /\ target' = target
      /\ \A j \in JobIds : Holder(j)' = Holder(j)
  BY <1>3, JobsUntouched
<1>5. CASE DeleteStarts(p)
  <2>1. p \notin locks /\ locks' = locks \cup {p} /\ deleting' = deleting \cup {p}
    BY <1>5 DEF DeleteStarts, AcquireLock, Available
  <2>2. ClaimsLocked' /\ ClaimsDisjoint'
    BY <1>1, <1>4, <2>1 DEF ClaimsLocked, ClaimsDisjoint
  <2> QED
    BY <1>2, <1>3, <1>4, <2>2
<1>6. CASE DeleteEnds(p)
  <2>1. p \in deleting /\ locks' = locks \ {p} /\ deleting' = deleting \ {p}
    BY <1>6 DEF DeleteEnds, ReleaseLock
  <2>2. ClaimsLocked' /\ ClaimsDisjoint'
    BY <1>1, <1>4, <2>1 DEF ClaimsLocked, ClaimsDisjoint
  <2> QED
    BY <1>2, <1>3, <1>4, <2>2
<1> QED
  BY <1>5, <1>6

LEMMA LocksAlways ==
  ASSUME LocksAreOwn
  PROVE  ServerSpec => []LockInv
<1>1. LockInv /\ [ServerNext]_serverVars => LockInv'
  <2> SUFFICES ASSUME LockInv, [ServerNext]_serverVars PROVE LockInv'
    OBVIOUS
  <2>1. CASE Next /\ UNCHANGED <<embedVars, deleting>>
    BY <2>1, NextEffect, AnalyzeKeepsLocks DEF LockInv
  <2>2. CASE UNCHANGED serverVars
    <3>1. UNCHANGED <<vars, analyzeVars, embedVars, deleting, locks>>
      BY <2>2 DEF serverVars, vars, analyzeVars, jobVars, procVars
    <3>2. locks' \subseteq Paths
      BY <3>1 DEF LockInv, SlotInv, IInv, TypeOK
    <3>3. SlotInv' /\ WorkHolds' /\ target' = target /\ \A j \in JobIds : Holder(j)' = Holder(j)
      BY <3>1, <3>2, JobsUntouched DEF LockInv
    <3>4. EmbedInv'
      BY <3>1 DEF LockInv, embedVars, EmbedInv, EmbedTypes, FreshIds, EmbedSingleSlot, EmbedNoLimbo
    <3>5. ClaimsLocked' /\ ClaimsDisjoint'
      BY <3>1, <3>3 DEF LockInv, embedVars, ClaimsLocked, ClaimsDisjoint
    <3> QED
      BY <3>1, <3>3, <3>4, <3>5 DEF LockInv
  <2> QED
    BY <2>1, <2>2, EmbedKeepsLocks, DeletionKeepsLocks DEF ServerNext
<1> QED
  BY <1>1, InitLockInv, PTL DEF ServerSpec
-----------------------------------------------------------------------------
(* Exclusive use of a repository.                                          *)

\* Whoever works on a repository does so under its lock.
LEMMA UsersAreLocked ==
  ASSUME LockInv
  PROVE  WorkUnderLock
<1> SUFFICES ASSUME NEW p \in Paths, Users(p) # {} PROVE p \in locks
  BY DEF WorkUnderLock
<1>1. \A w \in Workers : proc[w] = "running" => Holder(w[1]) /\ w[1] \in JobIds
  BY DEF LockInv, WorkHolds, Workers
<1> QED
  BY <1>1 DEF Users, LockInv, ClaimsLocked

\* Whoever works on a repository works on it alone.
LEMMA UsersAreAlone ==
  ASSUME LockInv, NEW p \in Paths, NEW u \in Users(p), NEW v \in Users(p)
  PROVE  u = v
<1> DEFINE A == {<<"analyze", w>> : w \in {x \in Workers : proc[x] = "running" /\ target[x[1]] = p}}
           E == {<<"embed", e>> : e \in {d \in embedding : ePath[d] = p}}
           D == {<<"delete", d>> : d \in deleting \cap {p}}
<1>1. u \in A \cup E \cup D /\ v \in A \cup E \cup D
  BY DEF Users
<1>2. \A w \in Workers : proc[w] = "running" => Holder(w[1]) /\ w[1] \in JobIds
  BY DEF LockInv, WorkHolds, Workers
<1>3. ASSUME NEW x \in Workers, NEW y \in Workers, proc[x] = "running", proc[y] = "running"
      PROVE  x = y
  <2>1. x[1] = y[1]
    BY <1>2, <1>3, HolderIsActive DEF LockInv
  <2> QED
    BY <1>3, <2>1, OneUnreaped DEF LockInv, SlotInv, Unreaped, Alive
<1>4. A = {} \/ E \cup D = {}
  BY <1>2 DEF LockInv, ClaimsDisjoint
<1>5. E = {} \/ D = {}
  BY DEF LockInv, ClaimsDisjoint
<1>6. \A x, y \in A : x = y
  BY <1>3
<1>7. \A x, y \in E : x = y
  BY DEF LockInv, ClaimsDisjoint
<1>8. \A x, y \in D : x = y
  OBVIOUS
<1> HIDE DEF A, E, D
<1> QED
  BY <1>1, <1>4, <1>5, <1>6, <1>7, <1>8

using == [p \in Paths |-> Users(p)]

\* A repository gets its only user, or loses its last one; no other changes.
UseTurns(p) ==
  /\ \A q \in Paths \ {p} : Users(q)' = Users(q)
  /\ \/ Users(p) = {} /\ \E u \in Parties : Users(p)' = {u}
     \/ Users(p)' = {}

\* That is Take or Leave.
LEMMA TakeOrLeave ==
  ASSUME NEW p \in Paths, UseTurns(p)
  PROVE  [Use!Next]_using
<1>1. CASE Users(p) = {} /\ \E u \in Parties : Users(p)' = {u}
  <2>1. PICK u \in Parties : Users(p)' = {u}
    BY <1>1
  <2>2. using[p] = {} /\ using' = [using EXCEPT ![p] = {u}]
    BY <1>1, <2>1 DEF using, UseTurns
  <2>3. Use!Take(p)
    BY <2>2 DEF Use!Take, using
  <2> QED
    BY <2>3 DEF Use!Next
<1>2. CASE Users(p)' = {}
  <2>1. using' = [q \in Paths |-> IF q \in {p} THEN {} ELSE using[q]]
    BY <1>2 DEF using, UseTurns
  <2>2. Use!Leave({p})
    BY <2>1 DEF Use!Leave, using
  <2> QED
    BY <2>2 DEF Use!Next
<1> QED
  BY <1>1, <1>2 DEF UseTurns

LEMMA AnalyzeUses ==
  ASSUME LockInv, NEW j \in JobIds, Effect(j), UNCHANGED <<embedVars, deleting>>
  PROVE  [Use!Next]_using
<1>1. UNCHANGED <<ePath, embedding, deleting, target>> /\ RunEffect(j)
  BY DEF Effect, embedVars
<1> DEFINE p == target[j]
<1>2. p \in Paths
  BY DEF LockInv, SlotInv, IInv, TypeOK
<1>3. CASE \A v \in Workers : proc'[v] = "running" <=> proc[v] = "running"
  <2>1. \A q \in Paths : Users(q)' = Users(q)
    BY <1>1, <1>3 DEF Users
  <2> QED
    BY <2>1 DEF using
<1>4. ASSUME NEW w \in Workers, w[1] = j, proc'[w] = "running",
             \A v \in Workers : v[1] = j => proc[v] # "running",
             \A v \in Workers : v # w => (proc'[v] = "running" <=> proc[v] = "running"),
             Holder(j) \/ p \notin locks
      PROVE  [Use!Next]_using
  <2>1. Users(p) = {}
    <3>1. \A v \in Workers : proc[v] = "running" => target[v[1]] # p
      <4> SUFFICES ASSUME NEW v \in Workers, proc[v] = "running", target[v[1]] = p PROVE FALSE
        OBVIOUS
      <4>1. v[1] \in JobIds /\ Holder(v[1]) /\ v[1] # j
        BY <1>4 DEF LockInv, WorkHolds, Workers
      <4>2. p \in locks
        BY <4>1 DEF LockInv, ClaimsLocked
      <4> QED
        BY <1>4, <4>1, <4>2, HolderIsActive DEF LockInv
    <3>2. \A e \in embedding : ePath[e] # p
      BY <1>4 DEF LockInv, ClaimsLocked, ClaimsDisjoint
    <3>3. p \notin deleting
      BY <1>4 DEF LockInv, ClaimsLocked, ClaimsDisjoint
    <3> QED
      BY <3>1, <3>2, <3>3 DEF Users
  <2>2. \A v \in Workers : proc[v] = "running" => target[v[1]] # p
    BY <2>1 DEF Users
  <2>3. Users(p)' = {<<"analyze", w>>}
    BY <1>1, <1>4, <2>1, <2>2 DEF Users
  <2>4. \A q \in Paths \ {p} : Users(q)' = Users(q)
    BY <1>1, <1>4 DEF Users
  <2>5. <<"analyze", w>> \in Parties
    BY DEF Parties
  <2>6. UseTurns(p)
    BY <2>1, <2>3, <2>4, <2>5 DEF UseTurns
  <2> QED
    BY <1>2, <2>6, TakeOrLeave
<1>5. ASSUME NEW w \in Workers, w[1] = j, proc[w] = "running", proc'[w] # "running",
             \A v \in Workers : v # w => (proc'[v] = "running" <=> proc[v] = "running")
      PROVE  [Use!Next]_using
  <2>1. <<"analyze", w>> \in Users(p)
    BY <1>5 DEF Users
  <2>2. <<"analyze", w>> \notin Users(p)' /\ Users(p)' \subseteq Users(p)
    BY <1>1, <1>5 DEF Users
  <2>3. Users(p)' = {}
    BY <1>2, <2>1, <2>2, UsersAreAlone
  <2>4. \A q \in Paths \ {p} : Users(q)' = Users(q)
    BY <1>1, <1>5 DEF Users
  <2>5. UseTurns(p)
    BY <2>3, <2>4 DEF UseTurns
  <2> QED
    BY <1>2, <2>5, TakeOrLeave
<1> QED
  BY <1>1, <1>3, <1>4, <1>5 DEF RunEffect

LEMMA EmbedUses ==
  ASSUME LocksAreOwn, LockInv, EmbedNext, UNCHANGED <<analyzeVars, deleting>>
  PROVE  [Use!Next]_using
<1>1. EmbedEffect /\ UNCHANGED <<ePath, deleting, proc, target>>
  BY EmbedStepEffect DEF LockInv, analyzeVars, procVars
<1>2. \A e \in EmbedIds : ePath[e] \in Paths
  BY DEF LockInv, EmbedInv, EmbedTypes
<1>3. ASSUME NEW e \in EmbedIds, ePath[e] \notin locks, embedding' = embedding \cup {e}
      PROVE  [Use!Next]_using
  <2>1. Users(ePath[e]) = {}
    BY <1>2, <1>3, UsersAreLocked DEF WorkUnderLock
  <2>2. \A d \in embedding : ePath[d] # ePath[e]
    BY <2>1 DEF Users
  <2>3. Users(ePath[e])' = {<<"embed", e>>}
    BY <1>1, <1>3, <2>1, <2>2 DEF Users
  <2>4. \A q \in Paths \ {ePath[e]} : Users(q)' = Users(q)
    BY <1>1, <1>3 DEF Users
  <2>5. <<"embed", e>> \in Parties
    BY DEF Parties
  <2>6. UseTurns(ePath[e])
    BY <2>1, <2>3, <2>4, <2>5 DEF UseTurns
  <2> QED
    BY <1>2, <2>6, TakeOrLeave
<1>4. ASSUME NEW e \in embedding, embedding' = embedding \ {e}
      PROVE  [Use!Next]_using
  <2>1. e \in EmbedIds
    BY DEF LockInv, EmbedInv, EmbedTypes
  <2>2. <<"embed", e>> \in Users(ePath[e])
    BY <1>4 DEF Users
  <2>3. <<"embed", e>> \notin Users(ePath[e])' /\ Users(ePath[e])' \subseteq Users(ePath[e])
    BY <1>1, <1>4 DEF Users
  <2>4. Users(ePath[e])' = {}
    BY <1>2, <2>1, <2>2, <2>3, UsersAreAlone
  <2>5. \A q \in Paths \ {ePath[e]} : Users(q)' = Users(q)
    BY <1>1, <1>4 DEF Users
  <2>6. UseTurns(ePath[e])
    BY <2>4, <2>5 DEF UseTurns
  <2> QED
    BY <1>2, <2>1, <2>6, TakeOrLeave
<1>5. CASE UNCHANGED embedding
  BY <1>1, <1>5 DEF using, Users
<1> QED
  BY <1>1, <1>3, <1>4, <1>5 DEF EmbedEffect

LEMMA DeletionUses ==
  ASSUME LockInv, NEW p \in Paths, DeleteStarts(p) \/ DeleteEnds(p),
         UNCHANGED <<analyzeVars, embedVars>>
  PROVE  [Use!Next]_using
<1>1. UNCHANGED <<ePath, embedding, proc, target>>
  BY DEF embedVars, analyzeVars, procVars
<1>2. CASE DeleteStarts(p)
  <2>1. p \notin locks /\ deleting' = deleting \cup {p}
    BY <1>2 DEF DeleteStarts, AcquireLock, Available
  <2>2. Users(p) = {}
    BY <2>1, UsersAreLocked DEF WorkUnderLock
  <2>3. Users(p)' = {<<"delete", p>>}
    BY <1>1, <2>1, <2>2 DEF Users
  <2>4. \A q \in Paths \ {p} : Users(q)' = Users(q)
    BY <1>1, <2>1 DEF Users
  <2>5. <<"delete", p>> \in Parties
    BY DEF Parties
  <2>6. UseTurns(p)
    BY <2>2, <2>3, <2>4, <2>5 DEF UseTurns
  <2> QED
    BY <2>6, TakeOrLeave
<1>3. CASE DeleteEnds(p)
  <2>1. p \in deleting /\ deleting' = deleting \ {p}
    BY <1>3 DEF DeleteEnds
  <2>2. <<"delete", p>> \in Users(p)
    BY <2>1 DEF Users
  <2>3. <<"delete", p>> \notin Users(p)' /\ Users(p)' \subseteq Users(p)
    BY <1>1, <2>1 DEF Users
  <2>4. Users(p)' = {}
    BY <2>2, <2>3, UsersAreAlone
  <2>5. \A q \in Paths \ {p} : Users(q)' = Users(q)
    BY <1>1, <2>1 DEF Users
  <2>6. UseTurns(p)
    BY <2>4, <2>5 DEF UseTurns
  <2> QED
    BY <2>6, TakeOrLeave
<1> QED
  BY <1>2, <1>3

\* Analysis, embedding and deletion use a repository exclusively, for every
\* number of each, when no job is cancelled, timed out or fails to clone and
\* workers report in order: the server implements Exclusive.
THEOREM ExclusiveUse ==
  ASSUME LocksAreOwn
  PROVE  ServerSpec => RepoMutex
<1>1. ServerInit => Use!Init
  <2> SUFFICES ASSUME ServerInit PROVE Use!Init
    OBVIOUS
  <2>1. \A p \in Paths : Users(p) = {}
    BY DEF ServerInit, Init, EmbedInit, Users
  <2> QED
    BY <2>1 DEF Use!Init
<1>2. LockInv /\ [ServerNext]_serverVars => [Use!Next]_using
  <2> SUFFICES ASSUME LockInv, [ServerNext]_serverVars PROVE [Use!Next]_using
    OBVIOUS
  <2>1. CASE Next /\ UNCHANGED <<embedVars, deleting>>
    BY <2>1, NextEffect, AnalyzeUses DEF LockInv
  <2>2. CASE UNCHANGED serverVars
    <3>1. UNCHANGED <<proc, target, embedding, ePath, deleting>>
      BY <2>2 DEF serverVars, vars, embedVars
    <3>2. \A p \in Paths : Users(p)' = Users(p)
      BY <3>1 DEF Users
    <3> QED
      BY <3>2 DEF using
  <2> QED
    BY <2>1, <2>2, EmbedUses, DeletionUses DEF ServerNext
<1> QED
  BY <1>1, <1>2, LocksAlways, PTL DEF ServerSpec, RepoMutex, Use!Spec, using

\* Under the same assumption nobody works on a repository without its lock.
THEOREM WorkIsLocked ==
  ASSUME LocksAreOwn
  PROVE  ServerSpec => []WorkUnderLock
BY LocksAlways, UsersAreLocked, PTL

\* And the server, like the analysis jobs alone, analyzes one repository at a time.
THEOREM ServerSingleSlot ==
  ASSUME LocksAreOwn
  PROVE  ServerSpec => []SingleSlot
<1>1. LockInv => SingleSlot
  BY DEF LockInv, SlotInv
<1> QED
  BY <1>1, LocksAlways, PTL
=============================================================================

---------------------------- MODULE AnalyzeJobs ----------------------------
(***************************************************************************)
(* Server-side analysis: the job table, the asynchronous runner of each    *)
(* job, the worker processes it forks, the IPC channel from a worker to    *)
(* the server, and the in-memory set of repository locks.                  *)
(*                                                                         *)
(* Sources: server/analyze-job.ts, server/nexus/analyze-runner.ts (the     *)
(* same runner is inlined in POST /api/analyze of                          *)
(* server/api/lifecycle-streaming.ts) and server/analyze-worker.ts.        *)
(*                                                                         *)
(* The server is one event loop: an action is one callback, run to its     *)
(* next await.  The operating system delivers a worker's messages in the   *)
(* order sent, and its exit after the messages it managed to send.         *)
(***************************************************************************)
EXTENDS JobManager, RepoLocks, Naturals, Sequences

CONSTANTS
  JobIds,      \* ids createJob may hand out (bounds the jobs of a behaviour)
  MaxRetries,  \* MAX_WORKER_RETRIES
  MaxBacklog,  \* model bound: behind this many messages a worker sends no progress
               \* and raises no stray error
  None,        \* no child registered
  Adversity    \* what the environment may do besides the ordinary, see Adversities

\* "cancel"        a client sends DELETE /api/analyze/:jobId
\* "timeout"       a worker reaches the 30-minute limit
\* "clone_fail"    git, or the checks before it, reject a clone or pull
\* "stray_error"   uncaught exceptions in a worker that goes on for 500 ms
\* "spawn_error"   the operating system refuses to start a worker
\* "slow_reload"   backend.init() outlasts the worker that reported completion
Adversities ==
  {"cancel", "timeout", "clone_fail", "stray_error", "spawn_error", "slow_reload"}

ASSUME AnalyzeAssumption ==
  /\ MaxRetries \in Nat
  /\ MaxBacklog \in Nat
  /\ None \notin JobIds \X (0 .. MaxRetries)
  /\ Adversity \subseteq Adversities

\* The k-th retry of job j runs in the worker process <<j, k>>.
Workers == JobIds \X (0 .. MaxRetries)

VARIABLES
  status,    \* job table: status of each job
  target,    \* job -> the path named by the request that gets this id (never changes)
  retry,     \* job -> retryCount
  cloning,   \* jobs whose runner awaits cloneOrPull
  backoff,   \* jobs with a pending setTimeout(forkWorker)
  children,  \* JobManager.children: job -> registered worker
  timer,     \* jobs whose 30-minute timer is armed
  proc,      \* worker -> state of the process, see ProcStates
  signalled, \* workers with an undelivered SIGTERM
  chan,      \* worker -> messages sent and not yet received by the server
  reloads    \* workers whose completion awaits backend.init()

vars == <<status, target, retry, cloning, backoff, children, timer, proc,
          signalled, chan, reloads, locks>>
jobVars  == <<status, retry, cloning, backoff, children, timer>>
procVars == <<proc, signalled, chan>>

\* "none"     not forked                    "running"  runFullAnalysis in progress
\* "dying"    reported an error but still executing, exit scheduled
\* "ending"   reported its result, exits in 500 ms
\* "dead"     the process is gone, its exit event is not yet delivered
\* "reaped"   exit delivered                "unspawned" fork failed: no exit event
Alive      == {"running", "dying", "ending"}
Unreaped   == Alive \cup {"dead"}
ProcStates == Unreaped \cup {"none", "reaped", "unspawned"}

Messages == {"progress", "complete", "error"}

Init ==
  /\ status = [j \in JobIds |-> "unborn"]
  /\ target \in [JobIds -> Paths]
  /\ retry = [j \in JobIds |-> 0]
  /\ cloning = {} /\ backoff = {} /\ timer = {}
  /\ children = [j \in JobIds |-> None]
  /\ proc = [w \in Workers |-> "none"]
  /\ signalled = {} /\ reloads = {}
  /\ chan = [w \in Workers |-> <<>>]
  /\ locks = {}

-----------------------------------------------------------------------------
(* Helpers of the server's callbacks.                                      *)

SetStatus(j, s) == status' = UpdateJob(status, j, s)

\* registerChild: the child becomes the one that cancelJob signals, and its
\* timer starts.
UnregisteredChild(j, w) == UNCHANGED children /\ timer' = timer \cup {j}
RegisterChild(j, w) ==
  /\ children' = [children EXCEPT ![j] = w]
  /\ timer' = timer \cup {j}

\* fork, registerChild and the start message, for a job known to be active.
\* A refused spawn raises 'error' on the child before any other callback runs.
Fork(j, updated, held) ==
  LET w == <<j, retry[j]>> IN
  /\ RegisterChild(j, w)
  /\ \/ /\ proc' = [proc EXCEPT ![w] = "running"]
        /\ status' = updated
        /\ locks' = held
     \/ /\ "spawn_error" \in Adversity
        /\ proc' = [proc EXCEPT ![w] = "unspawned"]
        /\ status' = UpdateJob(updated, j, "failed")
        /\ locks' = held \ {target[j]}

\* forkWorker returns at once when the job is missing or terminal.
ForkWorker(j, updated, held) ==
  IF updated[j] \in Active
  THEN Fork(j, updated, held)
  ELSE /\ status' = updated
       /\ locks' = held
       /\ UNCHANGED <<children, timer, proc>>

\* The runner from acquireRepoLock to its end; s is the table before it.
StartAnalysis(j, p, s) ==
  IF ~Available(p)
  THEN /\ status' = UpdateJob(s, j, "failed")
       /\ UNCHANGED <<children, timer, proc, locks>>
  ELSE ForkWorker(j, UpdateJob(s, j, "analyzing"), locks \cup {p})

-----------------------------------------------------------------------------
(* Requests.                                                               *)

\* A repository given by path: createJob, then the whole runner, in one step.
\* A request that meets an active job gets its id or a 409 and changes nothing.
RequestPath(j) ==
  /\ status[j] = "unborn"
  /\ SlotFree(status)
  /\ StartAnalysis(j, target[j], [status EXCEPT ![j] = "cloning"])
  /\ UNCHANGED <<target, retry, cloning, backoff, signalled, chan, reloads>>

\* A repository given by URL: the runner awaits cloneOrPull first.
RequestUrl(j) ==
  /\ status[j] = "unborn"
  /\ SlotFree(status)
  /\ status' = [status EXCEPT ![j] = "cloning"]
  /\ cloning' = cloning \cup {j}
  /\ UNCHANGED <<target, retry, backoff, children, timer, proc, signalled, chan,
                 reloads, locks>>

CancelUnsignalled(j) ==
  /\ status[j] \in Active
  /\ SetStatus(j, "failed")
  /\ UNCHANGED signalled

\* Cancelling marks the job and signals its child; it does not reach a clone,
\* a back-off or a reload in progress.
CancelJob(j) ==
  /\ status[j] \in Active
  /\ SetStatus(j, "failed")
  /\ signalled' = IF children[j] # None /\ proc[children[j]] \in Alive
                  THEN signalled \cup {children[j]} ELSE signalled

Cancel(j) ==
  /\ "cancel" \in Adversity
  /\ CancelJob(j)
  /\ UNCHANGED <<target, retry, cloning, backoff, children, timer, proc, chan,
                 reloads, locks>>

\* cleanup: a terminal job leaves the table an hour after it ended.
Expire(j) ==
  /\ status[j] \in Terminal
  /\ status' = Dropped(status, j)
  /\ UNCHANGED <<target, retry, cloning, backoff, children, timer, proc, signalled,
                 chan, reloads, locks>>

-----------------------------------------------------------------------------
(* Continuations of the runner.                                            *)

CloneDone(j) ==
  /\ j \in cloning
  /\ cloning' = cloning \ {j}
  /\ StartAnalysis(j, target[j], status)
  /\ UNCHANGED <<target, retry, backoff, signalled, chan, reloads>>

\* The catch of the runner, which releases the lock although the runner has
\* not acquired it yet.
CloneFails(j) ==
  /\ "clone_fail" \in Adversity
  /\ j \in cloning
  /\ cloning' = cloning \ {j}
  /\ ReleaseLock(target[j])
  /\ SetStatus(j, "failed")
  /\ UNCHANGED <<target, retry, backoff, children, timer, proc, signalled, chan,
                 reloads>>

BackoffFires(j) ==
  /\ j \in backoff
  /\ backoff' = backoff \ {j}
  /\ ForkWorker(j, status, locks)
  /\ UNCHANGED <<target, retry, cloning, signalled, chan, reloads>>

TimerFires(j) ==
  /\ "timeout" \in Adversity
  /\ j \in timer
  /\ timer' = timer \ {j}
  /\ IF status[j] \in Active THEN CancelJob(j) ELSE UNCHANGED <<status, signalled>>
  /\ UNCHANGED <<target, retry, cloning, backoff, children, proc, chan, reloads,
                 locks>>

\* backend.init() settles: its outcome is written over whatever status is there.
ReloadSettles(w, s) ==
  /\ w \in reloads
  /\ reloads' = reloads \ {w}
  /\ SetStatus(w[1], s)
  /\ UNCHANGED <<target, retry, cloning, backoff, children, timer, proc, signalled,
                 chan, locks>>

-----------------------------------------------------------------------------
(* The worker process.                                                     *)

Send(w, m) == chan' = [chan EXCEPT ![w] = Append(@, m)]

\* onProgress and onLog of runFullAnalysis.
WorkerProgress(w) ==
  /\ proc[w] \in {"running", "dying"}
  /\ Len(chan[w]) < MaxBacklog
  /\ Send(w, "progress")
  /\ UNCHANGED <<jobVars, target, proc, signalled, reloads, locks>>

\* runFullAnalysis returns or throws.
WorkerFinishes(w, m) ==
  /\ proc[w] \in {"running", "dying"}
  /\ proc' = [proc EXCEPT ![w] = "ending"]
  /\ Send(w, m)
  /\ UNCHANGED <<jobVars, target, signalled, reloads, locks>>

\* uncaughtException or unhandledRejection beside runFullAnalysis, or after it.
WorkerStrayError(w) ==
  /\ "stray_error" \in Adversity
  /\ proc[w] \in Alive
  /\ Len(chan[w]) < MaxBacklog
  /\ proc' = [proc EXCEPT ![w] = IF @ = "running" THEN "dying" ELSE @]
  /\ Send(w, "error")
  /\ UNCHANGED <<jobVars, target, signalled, reloads, locks>>

\* The SIGTERM handler: report, close the database, exit.
WorkerSigterm(w) ==
  /\ w \in signalled
  /\ proc[w] \in Alive
  /\ signalled' = signalled \ {w}
  /\ proc' = [proc EXCEPT ![w] = IF @ = "running" THEN "dying" ELSE @]
  /\ Send(w, "error")
  /\ UNCHANGED <<jobVars, target, reloads, locks>>

\* process.exit, or a crash that reports nothing (segfault, OOM, SIGKILL).
WorkerDies(w) ==
  /\ proc[w] \in Alive
  /\ proc' = [proc EXCEPT ![w] = "dead"]
  /\ signalled' = signalled \ {w}
  /\ UNCHANGED <<jobVars, target, chan, reloads, locks>>

-----------------------------------------------------------------------------
(* The server's handlers of a child's events.                              *)

Receive(w) ==
  /\ chan[w] # <<>>
  /\ chan' = [chan EXCEPT ![w] = Tail(@)]
  /\ \/ /\ Head(chan[w]) = "progress"
        /\ SetStatus(w[1], "analyzing")
        /\ UNCHANGED <<locks, reloads>>
     \/ /\ Head(chan[w]) = "complete"
        /\ ReleaseLock(target[w[1]])
        /\ reloads' = reloads \cup {w}
        /\ UNCHANGED status
     \/ /\ Head(chan[w]) = "error"
        /\ ReleaseLock(target[w[1]])
        /\ SetStatus(w[1], "failed")
        /\ UNCHANGED reloads
  /\ UNCHANGED <<target, retry, cloning, backoff, children, timer, proc, signalled>>

RetriesLeft(j) == retry[j] < MaxRetries

\* The retry of a crashed worker: count it, and fork again after a delay.
RetryUncounted(j) == UNCHANGED retry /\ backoff' = backoff \cup {j}
RetryUnscheduled(j) == retry' = [retry EXCEPT ![j] = @ + 1] /\ UNCHANGED backoff
ScheduleRetry(j) ==
  /\ retry' = [retry EXCEPT ![j] = @ + 1]
  /\ backoff' = backoff \cup {j}

\* Both exit listeners: the runner's (retry or give up, unless the job is
\* missing or terminal) and the job manager's (forget the child, clear its timer).
ExitEvent(w) ==
  LET j == w[1] IN
  /\ proc[w] = "dead"
  /\ chan[w] = <<>>
  /\ "slow_reload" \in Adversity \/ w \notin reloads
  /\ proc' = [proc EXCEPT ![w] = "reaped"]
  /\ children' = [children EXCEPT ![j] = None]
  /\ timer' = timer \ {j}
  /\ \/ /\ status[j] \notin Active
        /\ UNCHANGED <<status, retry, backoff, locks>>
     \/ /\ status[j] \in Active
        /\ RetriesLeft(j)
        /\ ScheduleRetry(j)
        /\ SetStatus(j, "analyzing")
        /\ UNCHANGED locks
     \/ /\ status[j] \in Active
        /\ ~RetriesLeft(j)
        /\ ReleaseLock(target[j])
        /\ SetStatus(j, "failed")
        /\ UNCHANGED <<retry, backoff>>
  /\ UNCHANGED <<target, cloning, signalled, chan, reloads>>

-----------------------------------------------------------------------------
JobStep(j) ==
  \/ RequestPath(j) \/ RequestUrl(j) \/ Cancel(j) \/ Expire(j)
  \/ CloneDone(j) \/ CloneFails(j) \/ BackoffFires(j) \/ TimerFires(j)

WorkerStep(w) ==
  \/ WorkerProgress(w)
  \/ \E m \in {"complete", "error"} : WorkerFinishes(w, m)
  \/ WorkerStrayError(w) \/ WorkerSigterm(w) \/ WorkerDies(w)

ServerStep(w) ==
  \/ Receive(w) \/ ExitEvent(w)
  \/ \E s \in Terminal : ReloadSettles(w, s)

Next ==
  \/ \E j \in JobIds : JobStep(j)
  \/ \E w \in Workers : WorkerStep(w) \/ ServerStep(w)

Spec == Init /\ [][Next]_vars

\* The event loop runs every callback that is due; git ends; timers fire; a
\* signalled worker runs its handler; a worker that scheduled its exit exits.
\* Nothing says that runFullAnalysis ends: a hung worker is left to the timer.
Fairness ==
  /\ \A j \in JobIds : WF_vars(CloneDone(j) \/ CloneFails(j))
  /\ \A j \in JobIds : WF_vars(BackoffFires(j)) /\ WF_vars(TimerFires(j))
  /\ \A w \in Workers :
       /\ WF_vars(Receive(w)) /\ WF_vars(ExitEvent(w))
       /\ WF_vars(\E s \in Terminal : ReloadSettles(w, s))
       /\ WF_vars(WorkerSigterm(w))
       /\ WF_vars(proc[w] \in {"dying", "ending"} /\ WorkerDies(w))

FairSpec == Spec /\ Fairness

-----------------------------------------------------------------------------
(* Properties.                                                             *)

TypeOK ==
  /\ status \in [JobIds -> Statuses]
  /\ target \in [JobIds -> Paths]
  /\ retry \in [JobIds -> 0 .. MaxRetries]
  /\ cloning \subseteq JobIds /\ backoff \subseteq JobIds /\ timer \subseteq JobIds
  /\ children \in [JobIds -> Workers \cup {None}]
  /\ proc \in [Workers -> ProcStates]
  /\ signalled \subseteq Workers /\ reloads \subseteq Workers
  /\ chan \in [Workers -> Seq(Messages)]
  /\ locks \subseteq Paths

\* What can still move job j to a terminal status.
HasDriver(j) ==
  \/ j \in cloning
  \/ j \in backoff
  \/ \E w \in Workers : w[1] = j /\ (proc[w] \in Unreaped \/ w \in reloads)

\* No job is stuck: as long as a job blocks the slot of createJob, a clone, a
\* worker, a back-off or a reload of it is still to be heard from.
NoLimbo == \A j \in JobIds : status[j] \in Active => HasDriver(j)

\* A live worker is the child registered for its job, so that cancelling and
\* timing out reach it; hence a job never has two live workers.
WorkerUnderControl ==
  \A w \in Workers : proc[w] \in Alive => children[w[1]] = w

\* The states of a process in the order it goes through them.
Progression == [none |-> 0, running |-> 1, dying |-> 2, ending |-> 3, dead |-> 4,
                reaped |-> 5, unspawned |-> 5]

\* Every fork of a job uses a retry number no earlier worker of it has used: a
\* process is never replaced in its slot, so a job gets at most MaxRetries + 1.
ForkUsesFreshRetry ==
  [][\A w \in Workers : Progression[proc'[w]] >= Progression[proc[w]]]_vars

-----------------------------------------------------------------------------
(* The inductive invariant behind these, proved in AnalyzeJobs_proofs.     *)

\* A worker that has not been forked for the retry count a job has reached.
Unforked(j) == \A k \in 0 .. MaxRetries : k >= retry[j] => proc[<<j, k>>] = "none"

\* At most one thing can fork the next worker of a job: its first request, the
\* clone it awaits, a pending back-off, or the exit of the worker it has.
OneForkSource ==
  \A j \in JobIds :
    /\ \A k \in 0 .. MaxRetries : k > retry[j] => proc[<<j, k>>] = "none"
    /\ status[j] = "unborn" => j \notin cloning \cup backoff
    /\ j \notin cloning \cap backoff
    /\ status[j] = "unborn" \/ j \in cloning \cup backoff =>
         /\ Unforked(j)
         /\ \A k \in 0 .. MaxRetries : proc[<<j, k>>] \notin Unreaped

\* Until its exit is delivered a worker is the registered child of its job.
UnreapedIsRegistered ==
  \A w \in Workers : proc[w] \in Unreaped => children[w[1]] = w

\* The exit of a worker is delivered after its messages.
ChannelsDrainFirst ==
  \A w \in Workers : chan[w] # <<>> => proc[w] \in Unreaped

\* What Next preserves, and the properties above follow from.
IInv ==
  /\ TypeOK
  /\ NoLimbo
  /\ OneForkSource
  /\ UnreapedIsRegistered
  /\ ChannelsDrainFirst

-----------------------------------------------------------------------------
\* One active job at a time (analyze-job.ts, "Single-slot concurrency").
SingleSlot ==
  \A i, j \in JobIds : status[i] \in Active /\ status[j] \in Active => i = j

\* What the single slot rests on when nothing is cancelled, times out, or reports
\* out of order: a job leaves the active statuses only when its last worker has
\* reported its last message, so that nothing brings it back.
Orderly == Adversity \cap {"cancel", "timeout", "stray_error", "slow_reload"} = {}

AllProgress(s) == \A i \in 1 .. Len(s) : s[i] = "progress"
NoProgress(s)  == \A i \in 1 .. Len(s) : s[i] # "progress"
ResultLast(s)  == \A i \in 1 .. Len(s) : i < Len(s) => s[i] = "progress"

\* A worker sends progress, then one result, and reloads the server only with it.
WorkersReportOnce ==
  \A w \in Workers :
    /\ w \notin signalled
    /\ proc[w] # "dying"
    /\ proc[w] = "running" => AllProgress(chan[w])
    /\ ResultLast(chan[w])
    /\ w \in reloads => proc[w] \in {"ending", "dead"} /\ chan[w] = <<>>

\* A job at rest has nothing left that could update it to an active status.
RestIsFinal ==
  /\ \A j \in cloning : status[j] \in Active
  /\ \A w \in Workers :
       status[w[1]] \notin Active => proc[w] # "running" /\ NoProgress(chan[w])

\* Inductive when Orderly holds.
SlotInv == IInv /\ SingleSlot /\ WorkersReportOnce /\ RestIsFinal

\* No worker's exit is delivered while the reload its result started is pending:
\* the 500 ms before the exit were enough for backend.init().
ReloadsArePrompt == [](\A w \in reloads : proc[w] # "reaped")

\* Every job that gets the slot gives it back for good, whatever was cancelled,
\* timed out, crashed or hung on the way, if reloads are prompt.
JobSettles ==
  ReloadsArePrompt =>
    \A j \in JobIds : status[j] \in Active ~> [](status[j] \notin Active)
=============================================================================

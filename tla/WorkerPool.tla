----------------------------- MODULE WorkerPool -----------------------------
(***************************************************************************)
(* Parsing with worker threads: core/ingestion/workers/worker-pool.ts, the *)
(* threads (workers/parse-worker/dispatch.ts) and the loop over chunks of  *)
(* pipeline-phases/parse-impl.ts with its sequential fallback.             *)
(*                                                                         *)
(* A dispatch cuts a chunk into jobs; each worker takes one, is told to    *)
(* flush when it has parsed, and its result is kept with the position of   *)
(* the job.  A worker that is silent for too long is replaced and its job  *)
(* is split or tried again.  Any other trouble fails the pool for good.    *)
(*                                                                         *)
(* Abstracted: times (an idle timer may fire whenever it is set; progress  *)
(* messages only reset it), bytes (they may end a job anywhere), progress. *)
(* "result before flush" is left out: no thread sends it.  An idle thread  *)
(* ends without an "error" event, which nobody would be listening to.      *)
(***************************************************************************)
EXTENDS Integers, InOrder, SequencesExt

CONSTANTS
  Chunks,        \* the chunks, each a sequence of files
  PoolSize,
  SubBatchSize,
  MaxTimeoutRetries,
  NoJob,
  Adversity

Files == UNION {Range(Chunks[k]) : k \in DOMAIN Chunks}

ASSUME WorkerAssumption ==
  /\ PoolSize \in Nat \ {0} /\ SubBatchSize \in Nat \ {0}
  /\ MaxTimeoutRetries \in Nat
  /\ Chunks \in Seq(Seq(Files) \ {<<>>})

\* "crash"       a thread that has work dies
\* "idle_crash"  one without work dies
\* "throw"       a file makes the parser throw
\* "start_fail"  a replacement does not start
Adversities == {"crash", "idle_crash", "throw", "start_fail"}

ASSUME AdversityAssumption == Adversity \subseteq Adversities

VARIABLES
  phase,       \* what the loop over the chunks awaits
  chunk,       \* the chunk it is at
  graph,       \* the files merged into the graph
  jobs,        \* the queue of the dispatch
  slot,        \* what runWorker is at, per worker
  thread,      \* the thread in workers[i]
  results,
  active,      \* activeWorkers
  stopped,
  poolBroken

dispatchVars == <<jobs, slot, results, active, stopped>>
vars == <<phase, chunk, graph, dispatchVars, thread, poolBroken>>

Indices == 1 .. PoolSize

Idle == [at |-> "idle", job |-> NoJob]
Fresh == [at |-> "ready", acc |-> <<>>, dying |-> FALSE]
Gone == [at |-> "gone", acc |-> <<>>, dying |-> FALSE]

Busy(i) == slot[i].at \in {"parsing", "flushing"}
Sent(i) == thread[i].at \in {"done", "result", "error"}

\* A message posted to a thread that is ending has no effect.
Post(t, label) == IF t.at = "gone" THEN t ELSE [t EXCEPT !.at = label]

Init ==
  /\ phase = "next" /\ chunk = 1 /\ graph = <<>>
  /\ jobs = <<>> /\ results = <<>> /\ active = 0 /\ stopped = TRUE
  /\ slot = [i \in Indices |-> Idle]
  /\ thread = [i \in Indices |-> Fresh]
  /\ poolBroken = FALSE

-----------------------------------------------------------------------------
(* The loop over the chunks.                                               *)

\* createJobs: consecutive jobs of at most SubBatchSize files, cut earlier where
\* the bytes demand it.
JobsAt(items, starts) ==
  [k \in DOMAIN starts |->
    LET end == IF k = Len(starts) THEN Len(items) ELSE starts[k + 1] - 1 IN
    [start |-> starts[k], items |-> SubSeq(items, starts[k], end), attempt |-> 0]]

CreateJobs(items) ==
  {js \in {JobsAt(items, Ascending(cuts \cup {1})) : cuts \in SUBSET DOMAIN items} :
     \A k \in DOMAIN js : Len(js[k].items) <= SubBatchSize}

\* dispatch: every worker takes a job while there are any.
Dispatch ==
  /\ phase = "next"
  /\ chunk <= Len(Chunks)
  /\ ~poolBroken
  /\ \E all \in CreateJobs(Chunks[chunk]) :
       LET Takes(i) == i <= Len(all) IN
       /\ jobs' = SubSeq(all, PoolSize + 1, Len(all))
       /\ slot' = [i \in Indices |->
            IF Takes(i) THEN [at |-> "parsing", job |-> all[i]] ELSE Idle]
       /\ thread' = [i \in Indices |->
            IF Takes(i) THEN Post(thread[i], "parsing") ELSE thread[i]]
       /\ active' = Cardinality({i \in Indices : Takes(i)})
  /\ results' = <<>>
  /\ stopped' = FALSE
  /\ phase' = "dispatch"
  /\ UNCHANGED <<chunk, graph, poolBroken>>

ParsedSequentially ==
  /\ graph' = graph \o Chunks[chunk]
  /\ chunk' = chunk + 1
  /\ phase' = "next"

\* A dispatch on a broken pool is rejected at once; processParsing falls back.
DispatchBroken ==
  /\ phase = "next"
  /\ chunk <= Len(Chunks)
  /\ poolBroken
  /\ ParsedSequentially
  /\ UNCHANGED <<dispatchVars, thread, poolBroken>>

\* fail has terminated every worker and rejects.
Reject ==
  /\ phase = "dispatch"
  /\ stopped
  /\ \A i \in Indices : thread[i] = Gone
  /\ ParsedSequentially
  /\ UNCHANGED <<dispatchVars, thread, poolBroken>>

\* The "finally" of the loop: terminate.
CloseStarts ==
  /\ phase = "next"
  /\ chunk > Len(Chunks)
  /\ phase' = "closing"
  /\ UNCHANGED <<chunk, graph, dispatchVars, thread, poolBroken>>

CloseEnds ==
  /\ phase = "closing"
  /\ \A i \in Indices : thread[i] = Gone
  /\ phase' = "closed"
  /\ UNCHANGED <<chunk, graph, dispatchVars, thread, poolBroken>>

-----------------------------------------------------------------------------
(* The end of a dispatch.                                                  *)

CompletionOrder(rs) == rs

\* The results by the positions of their jobs.
SortedResults(rs) ==
  LET Before(j, k) == rs[j].start < rs[k].start \/ (rs[j].start = rs[k].start /\ j <= k)
      Place(k) == Cardinality({j \in DOMAIN rs : Before(j, k)})
  IN  [n \in DOMAIN rs |-> rs[CHOOSE k \in DOMAIN rs : Place(k) = n]]

\* resolve, and the merge of the results into the graph.
Resolve(rs) ==
  /\ stopped' = TRUE
  /\ graph' = graph \o FlattenSeq([k \in DOMAIN rs |-> SortedResults(rs)[k].data])
  /\ chunk' = chunk + 1
  /\ phase' = "next"

\* fail, up to its await.
Fail ==
  /\ poolBroken' = TRUE
  /\ stopped' = TRUE
  /\ UNCHANGED <<phase, chunk, graph>>

\* A dispatch that ends with its queue, whoever is still at work.
NothingLeftQueued(queue, count) == queue = <<>>
NothingLeft(queue, count) == queue = <<>> /\ count = 0

\* runWorker(i) and maybeDone, with count workers at work beside i, whose thread
\* is t.
RunWorker(i, queue, count, t, rs) ==
  /\ results' = rs
  /\ UNCHANGED poolBroken
  /\ IF stopped \/ queue = <<>>
     THEN /\ slot' = [slot EXCEPT ![i] = Idle]
          /\ thread' = [thread EXCEPT ![i] = t]
          /\ active' = count
          /\ jobs' = queue
     ELSE /\ slot' = [slot EXCEPT ![i] = [at |-> "parsing", job |-> Head(queue)]]
          /\ thread' = [thread EXCEPT ![i] = Post(t, "parsing")]
          /\ active' = count + 1
          /\ jobs' = Tail(queue)
  /\ IF ~stopped /\ NothingLeft(queue, count)
     THEN Resolve(rs)
     ELSE UNCHANGED <<phase, chunk, graph, stopped>>

-----------------------------------------------------------------------------
(* The threads.                                                            *)

\* processBatch, merged into what the thread has accumulated since its last flush.
ThreadParses(i) ==
  /\ Busy(i)
  /\ thread[i].at = "parsing" /\ ~thread[i].dying
  /\ thread' = [thread EXCEPT ![i].at = "done", ![i].acc = @ \o slot[i].job.items]
  /\ UNCHANGED <<phase, chunk, graph, dispatchVars, poolBroken>>

ThreadThrows(i) ==
  /\ "throw" \in Adversity
  /\ Busy(i)
  /\ thread[i].at = "parsing" /\ ~thread[i].dying
  /\ thread' = [thread EXCEPT ![i].at = "error"]
  /\ UNCHANGED <<phase, chunk, graph, dispatchVars, poolBroken>>

ThreadFlushes(i) ==
  /\ thread[i].at = "flushing" /\ ~thread[i].dying
  /\ thread' = [thread EXCEPT ![i].at = "result"]
  /\ UNCHANGED <<phase, chunk, graph, dispatchVars, poolBroken>>

\* Its exit is heard after what it has sent.
ThreadDies(i) ==
  /\ thread[i] # Gone /\ ~thread[i].dying
  /\ (IF Busy(i) THEN "crash" ELSE "idle_crash") \in Adversity
  /\ thread' = [thread EXCEPT ![i].dying = TRUE]
  /\ UNCHANGED <<phase, chunk, graph, dispatchVars, poolBroken>>

-----------------------------------------------------------------------------
(* The events of a dispatch.                                               *)

\* "sub-batch-done"
HandleDone(i) ==
  /\ ~stopped
  /\ slot[i].at = "parsing"
  /\ thread[i].at = "done"
  /\ slot' = [slot EXCEPT ![i].at = "flushing"]
  /\ thread' = [thread EXCEPT ![i].at = "flushing"]
  /\ UNCHANGED <<phase, chunk, graph, jobs, results, active, stopped, poolBroken>>

\* "result": the thread starts a new accumulation.
HandleResult(i) ==
  /\ ~stopped
  /\ slot[i].at = "flushing"
  /\ thread[i].at = "result"
  /\ RunWorker(i, jobs, active - 1, [thread[i] EXCEPT !.at = "ready", !.acc = <<>>],
       Append(results, [start |-> slot[i].job.start, data |-> thread[i].acc]))

\* "error"
HandleError(i) ==
  /\ ~stopped
  /\ Busy(i)
  /\ thread[i].at = "error"
  /\ slot' = [slot EXCEPT ![i] = Idle]
  /\ thread' = [thread EXCEPT ![i].at = "ready"]
  /\ Fail
  /\ UNCHANGED <<jobs, results, active>>

\* The exit event of a thread that died; nobody listens to an idle one.
HandleExit(i) ==
  /\ thread[i].dying /\ (Sent(i) => ~Busy(i) \/ stopped)
  /\ thread' = [thread EXCEPT ![i] = Gone]
  /\ IF Busy(i)
     THEN slot' = [slot EXCEPT ![i] = Idle] /\ Fail
     ELSE UNCHANGED <<slot, phase, chunk, graph, stopped, poolBroken>>
  /\ UNCHANGED <<jobs, results, active>>

\* The first half of a job, and the second.
Halves(job) ==
  LET middle == (Len(job.items) + 1) \div 2 IN
  <<[job EXCEPT !.items = SubSeq(@, 1, middle)],
    [job EXCEPT !.start = @ + middle, !.items = SubSeq(@, middle + 1, Len(@))]>>

RetryAllowed(job) == job.attempt < MaxTimeoutRetries

\* A retry that loses the second half.
RequeuedFirst(job) ==
  IF Len(job.items) > 1 THEN <<Halves(job)[1]>> ELSE <<[job EXCEPT !.attempt = @ + 1]>>

\* requeueAfterTimeout
Requeued(job) ==
  IF Len(job.items) > 1 THEN Halves(job) ELSE <<[job EXCEPT !.attempt = @ + 1]>>

\* The idle timer: the job goes back to the queue and the worker is replaced, or
\* the pool fails.
IdleTimeout(i) ==
  /\ Busy(i)
  /\ LET job == slot[i].job IN
     IF Len(job.items) > 1 \/ RetryAllowed(job)
     THEN /\ jobs' = Requeued(job) \o jobs
          /\ slot' = [slot EXCEPT ![i] = [at |-> "terminating", job |-> NoJob]]
          /\ UNCHANGED <<phase, chunk, graph, active, stopped, poolBroken>>
     ELSE /\ slot' = [slot EXCEPT ![i] = Idle]
          /\ active' = active - 1
          /\ Fail
          /\ UNCHANGED jobs
  /\ UNCHANGED <<thread, results>>

\* worker.terminate() by replaceWorker, fail or terminate takes effect.  To the
\* handlers of a job it is an exit.
Terminated(i) ==
  /\ thread[i] # Gone
  /\ \/ slot[i].at = "terminating"
     \/ phase = "dispatch" /\ stopped
     \/ phase = "closing"
  /\ thread' = [thread EXCEPT ![i] = Gone]
  /\ slot' = [slot EXCEPT ![i] = IF Busy(i) THEN Idle ELSE @]
  /\ UNCHANGED <<phase, chunk, graph, jobs, results, active, stopped, poolBroken>>

\* replaceWorker after that: a new thread, unless the dispatch has stopped.
Replace(i) ==
  /\ slot[i].at = "terminating"
  /\ thread[i] = Gone
  /\ IF stopped
     THEN slot' = [slot EXCEPT ![i] = Idle] /\ active' = active - 1
     ELSE slot' = [slot EXCEPT ![i].at = "starting"] /\ UNCHANGED active
  /\ UNCHANGED <<phase, chunk, graph, jobs, thread, results, stopped, poolBroken>>

\* A replaced worker that is counted twice.
OnlineUncounted(i) ==
  /\ slot[i].at = "starting"
  /\ RunWorker(i, jobs, active, IF stopped THEN thread[i] ELSE Fresh, results)

\* A replacement that is put to its place whatever has happened.
OnlineUnchecked(i) ==
  /\ slot[i].at = "starting"
  /\ RunWorker(i, jobs, active - 1, Fresh, results)

\* The replacement is online: it takes the place and a job; it is terminated when
\* the dispatch has stopped meanwhile.
Online(i) ==
  /\ slot[i].at = "starting"
  /\ RunWorker(i, jobs, active - 1, IF stopped THEN thread[i] ELSE Fresh, results)

StartFails(i) ==
  /\ "start_fail" \in Adversity
  /\ slot[i].at = "starting"
  /\ slot' = [slot EXCEPT ![i] = Idle]
  /\ active' = active - 1
  /\ Fail
  /\ UNCHANGED <<jobs, thread, results>>

-----------------------------------------------------------------------------
LoopStep == Dispatch \/ DispatchBroken \/ Reject \/ CloseStarts \/ CloseEnds
Event(i) ==
  \/ HandleDone(i) \/ HandleResult(i) \/ HandleError(i) \/ HandleExit(i)
  \/ Terminated(i) \/ Replace(i)
Started(i) == Online(i) \/ StartFails(i)
ThreadStep(i) == ThreadParses(i) \/ ThreadThrows(i) \/ ThreadFlushes(i) \/ ThreadDies(i)

Next ==
  \/ LoopStep
  \/ \E i \in Indices : ThreadStep(i) \/ Event(i) \/ IdleTimeout(i) \/ Started(i)

\* The event loop goes on, timers fire, threads can be terminated and started.
\* Nothing makes a thread answer.
Fairness ==
  /\ WF_vars(LoopStep)
  /\ \A i \in Indices :
       WF_vars(Event(i)) /\ WF_vars(IdleTimeout(i)) /\ WF_vars(Started(i))

Spec == Init /\ [][Next]_vars
FairSpec == Spec /\ Fairness

-----------------------------------------------------------------------------
(* Properties.                                                             *)

Running == phase = "dispatch" /\ ~stopped

\* The places where the k-th file of the chunk is: queued, with a worker, done.
Covers(start, items, k) == start <= k /\ k < start + Len(items)
QueuedAt(k) == {q \in DOMAIN jobs : Covers(jobs[q].start, jobs[q].items, k)}
HeldBy(k) ==
  {i \in Indices : Busy(i) /\ Covers(slot[i].job.start, slot[i].job.items, k)}
DoneIn(k) == {r \in DOMAIN results : Covers(results[r].start, results[r].data, k)}

\* While a dispatch runs every file of its chunk is in one place, whatever was
\* split, tried again or handed to another worker.
WorkConserved ==
  Running =>
    \A k \in DOMAIN Chunks[chunk] :
      Cardinality(QueuedAt(k)) + Cardinality(HeldBy(k)) + Cardinality(DoneIn(k)) = 1

\* activeWorkers counts the workers that have a job or are being replaced: it is
\* what keeps maybeDone from ending a dispatch under them.
ActiveCounts ==
  Running => active = Cardinality({i \in Indices : slot[i].at # "idle"})

\* Between dispatches no thread is at work, holds files it has parsed, or has a
\* message on its way that the next dispatch would take for its own.
CleanHandover ==
  phase = "next" /\ ~poolBroken =>
    \A i \in Indices : slot[i] = Idle /\ thread[i].at \in {"ready", "gone"} /\ thread[i].acc = <<>>

\* Every chunk is in the graph once, in order, and all of them in the end: results
\* that come in any order, splits, retries and the sequential fallback included.
Promise == INSTANCE ParseChunks WITH parsed <- chunk - 1
ParsesChunks == Promise!ParseSpec

\* No thread outlives the parse phase, a replacement that was starting when the
\* pool failed included ("Must be called when done", of terminate).
ThreadsEnd ==
  <>[](phase = "closed" /\ \A i \in Indices : thread[i] = Gone /\ slot[i].at = "idle")
=============================================================================

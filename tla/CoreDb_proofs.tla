---------------------------- MODULE CoreDb_proofs ----------------------------
(***************************************************************************)
(* Proofs about CoreDb, for every number of users, processes, databases    *)
(* and attempts.                                                           *)
(***************************************************************************)
EXTENDS CoreDb, TLAPS

-----------------------------------------------------------------------------
(* What a call of withLbugDb or closeLbug carries.                         *)

CallStates == {"idle", "queued", "close_conn", "close_db", "init", "opened", "failed",
               "schema", "operation", "backoff"}

Calls == [at : CallStates, for : {None, "run", "reset", "close"}, path : Paths \cup {None},
          attempt : Nat, handle : Handles \cup {None}]

Acquisitions == [at : {"no", "create", "write", "inspect", "unlink", "held", "failed"},
                 path : Paths \cup {None}, attempt : Nat]

\* Whoever is in a session, or waits for one, has asked for a database.
PathKnown ==
  \A u \in Users :
    \/ call[u].at = "idle"
    \/ call[u].at \in {"close_conn", "close_db"} /\ call[u].for = "close"
    \/ call[u].path \in Paths /\ call[u].for \in {"run", "reset"}

\* A call acquires the lock, holds it or has failed to when it initialises.
LockPhase ==
  \A u \in Users :
    /\ acq[u].at # "no" => call[u].at \in {"init", "opened", "failed"} /\ acq[u].path \in Paths
    /\ call[u].at \in {"opened", "failed"} => acq[u].at = "held"

CallInv ==
  /\ call \in [Users -> Calls]
  /\ acq \in [Users -> Acquisitions]
  /\ PathKnown
  /\ LockPhase

LEMMA InitCallInv == Init => CallInv
BY DEF Init, LockInit, CallInv, Calls, Acquisitions, CallStates, NoCall, NotAcquiring,
       PathKnown, LockPhase

-----------------------------------------------------------------------------
(* What a step does to the lock files and to who acquires them.            *)

Abandon(u) ==
  /\ acq[u].at = "failed"
  /\ acq' = [acq EXCEPT ![u] = NotAcquiring]
  /\ UNCHANGED lock

LockNext ==
  \/ \E u \in Users :
       \/ LockStep(u) \/ ReleaseInitLock(u) \/ Abandon(u)
       \/ acq[u].at = "no" /\ \E p \in Paths : AcquireInitLock(u, p)
  \/ \E q \in Procs : LockOwnerDies(q)
  \/ \E p \in Paths : LockAges(p)

\* What an action of user u does to its call and to the lock, when it is given
\* that the rest of the calls stay.
Sound(u) ==
  /\ [LockNext]_lockVars
  /\ CallInv'

\* A call that moves on keeps the fields of a call.
LEMMA CallMoves ==
  ASSUME call \in [Users -> Calls], NEW u \in Users, NEW s \in CallStates,
         NEW h \in Handles \cup {None}
  PROVE  [call EXCEPT ![u].at = s, ![u].handle = h] \in [Users -> Calls]
<1>1. call[u] \in Calls
  OBVIOUS
<1>2. [call[u] EXCEPT !.at = s, !.handle = h] \in Calls
  BY <1>1 DEF Calls
<1>3. [call EXCEPT ![u].at = s, ![u].handle = h]
        = [call EXCEPT ![u] = [call[u] EXCEPT !.at = s, !.handle = h]]
  OBVIOUS
<1> QED
  BY <1>2, <1>3

LEMMA CallAt ==
  ASSUME call \in [Users -> Calls], NEW u \in Users, NEW s \in CallStates, At(u, s)
  PROVE  /\ call' \in [Users -> Calls]
         /\ call'[u].at = s /\ call'[u].for = call[u].for /\ call'[u].path = call[u].path
         /\ \A v \in Users \ {u} : call'[v] = call[v]
<1>1. call[u] \in Calls
  OBVIOUS
<1>2. [call[u] EXCEPT !.at = s] \in Calls
  BY <1>1 DEF Calls
<1>3. call' = [call EXCEPT ![u] = [call[u] EXCEPT !.at = s]]
  BY DEF At
<1> QED
  BY <1>1, <1>2, <1>3 DEF Calls

\* The same with the locks left alone, for a call that acquires none afterwards.
LEMMA AtSound ==
  ASSUME CallInv, NEW u \in Users, NEW s \in CallStates, At(u, s), UNCHANGED lockVars,
         call[u].at \notin {"idle", "close_conn", "close_db"},
         s \notin {"idle"},
         acq[u].at # "no" => s \in {"init", "opened", "failed"},
         s \in {"opened", "failed"} => acq[u].at = "held"
  PROVE  Sound(u)
<1>1. /\ call' \in [Users -> Calls] /\ call'[u].at = s /\ call'[u].for = call[u].for
      /\ call'[u].path = call[u].path /\ \A v \in Users \ {u} : call'[v] = call[v]
  BY CallAt DEF CallInv
<1>2. acq' = acq /\ lock' = lock
  BY DEF lockVars
<1>3. PathKnown'
  BY <1>1 DEF CallInv, PathKnown
<1>4. LockPhase'
  BY <1>1, <1>2 DEF CallInv, LockPhase
<1> QED
  BY <1>1, <1>2, <1>3, <1>4 DEF CallInv, Sound, lockVars

LEMMA CallTurns ==
  ASSUME call \in [Users -> Calls], NEW u \in Users, NEW s \in CallStates,
         NEW f \in {"run", "reset", "close"}
  PROVE  [call EXCEPT ![u].at = s, ![u].for = f] \in [Users -> Calls]
<1>1. call[u] \in Calls
  OBVIOUS
<1>2. [call[u] EXCEPT !.at = s, !.for = f] \in Calls
  BY <1>1 DEF Calls
<1>3. [call EXCEPT ![u].at = s, ![u].for = f]
        = [call EXCEPT ![u] = [call[u] EXCEPT !.at = s, !.for = f]]
  OBVIOUS
<1> QED
  BY <1>2, <1>3

LEMMA ClosedSound ==
  ASSUME CallInv, NEW u \in Users, Closed(u),
         call[u].at \in {"queued", "close_conn", "close_db"}
  PROVE  Sound(u)
<1> USE DEF CallInv, Calls, CallStates, Acquisitions, PathKnown, LockPhase
<1>1. acq[u].at = "no" /\ call[u].at # "idle"
  OBVIOUS
<1>2. CASE call[u].for = "run" /\ AcquireInitLock(u, call[u].path)
           /\ call' = [call EXCEPT ![u].at = "init", ![u].handle = None]
  <2>1. call[u].path \in Paths
    BY <1>1, <1>2
  <2>2. [LockNext]_lockVars
    BY <1>1, <1>2, <2>1 DEF LockNext
  <2>3. call' \in [Users -> Calls]
    BY <1>2, CallMoves
  <2>4. acq' \in [Users -> Acquisitions]
    BY <1>2, <2>1 DEF AcquireInitLock
  <2>5. PathKnown'
    BY <1>1, <1>2, <2>1
  <2>6. LockPhase'
    BY <1>1, <1>2, <2>1 DEF AcquireInitLock
  <2> QED
    BY <2>2, <2>3, <2>4, <2>5, <2>6 DEF Sound
<1>3. CASE call[u].for = "reset" /\ UNCHANGED lockVars
           /\ call' = [call EXCEPT ![u].at = "backoff", ![u].handle = None]
  <2>1. call' \in [Users -> Calls]
    BY <1>3, CallMoves
  <2> QED
    BY <2>1, <1>1, <1>3 DEF Sound, lockVars
<1>4. CASE call[u].for = "close" /\ UNCHANGED lockVars
           /\ call' = [call EXCEPT ![u] = NoCall]
  BY <1>1, <1>4 DEF Sound, lockVars, NoCall
<1> QED
  BY <1>2, <1>3, <1>4 DEF Closed

LEMMA CloseDbSound ==
  ASSUME CallInv, NEW u \in Users, CloseDb(u),
         call[u].at \in {"queued", "close_conn"},
         db[ProcOf[u]] \in Handles \cup {None}
  PROVE  Sound(u)
<1>1. CASE db[ProcOf[u]] # None
  BY <1>1 DEF CloseDb, CallInv, Calls, CallStates, Acquisitions, PathKnown, LockPhase, Sound, lockVars
<1>2. CASE db[ProcOf[u]] = None
  BY <1>2, ClosedSound DEF CloseDb
<1> QED
  BY <1>1, <1>2

LEMMA SafeCloseSound ==
  ASSUME CallInv, NEW u \in Users, SafeClose(u), call[u].at = "queued",
         db[ProcOf[u]] \in Handles \cup {None}
  PROVE  Sound(u)
<1>1. CASE conn[ProcOf[u]] # None
  <2> USE DEF CallInv, Calls, CallStates, Acquisitions
  <2>1. call' = [call EXCEPT ![u].at = "close_conn"] /\ UNCHANGED lockVars
    BY <1>1 DEF SafeClose
  <2>2. call' \in [Users -> Calls]
    BY <2>1
  <2> QED
    BY <2>1, <2>2 DEF PathKnown, LockPhase, Sound, lockVars
<1>2. CASE conn[ProcOf[u]] = None
  BY <1>2, CloseDbSound DEF SafeClose
<1> QED
  BY <1>1, <1>2

LEMMA ThrowsSound ==
  ASSUME CallInv, NEW u \in Users, NEW busy \in BOOLEAN, Throws(u, busy),
         call[u].at \in {"init", "failed", "schema", "operation"},
         \/ call[u].at \in {"schema", "operation"} /\ UNCHANGED lockVars
         \/ call[u].at = "init" /\ Abandon(u)
         \/ call[u].at = "failed" /\ ReleaseInitLock(u)
  PROVE  Sound(u)
<1> USE DEF CallInv, Calls, CallStates, Acquisitions, PathKnown, LockPhase
<1>1. [LockNext]_lockVars
  BY DEF LockNext
<1>2. acq' \in [Users -> Acquisitions] /\ acq'[u].at = "no" /\ \A v \in Users \ {u} : acq'[v] = acq[v]
  BY DEF lockVars, Abandon, ReleaseInitLock, NotAcquiring
<1>3. CASE call' = [call EXCEPT ![u].at = "queued", ![u].for = "reset"]
  <2>1. call' \in [Users -> Calls]
    BY <1>3, CallTurns
  <2> QED
    BY <1>1, <1>2, <1>3, <2>1 DEF Sound
<1>4. CASE call' = [call EXCEPT ![u] = NoCall]
  BY <1>1, <1>2, <1>4 DEF Sound, NoCall
<1> QED
  BY <1>3, <1>4 DEF Throws

\* The fields of the module state, and the databases.
StateTypes ==
  /\ conn \in [Procs -> Handles \cup {None}] /\ db \in [Procs -> Handles \cup {None}]
  /\ currentPath \in [Procs -> Paths \cup {None}]
  /\ open \in [Handles -> {None} \cup [proc : Procs, path : Paths]]

\* Acquiring the lock leaves the calls alone.
LEMMA LockStepSound ==
  ASSUME CallInv, NEW u \in Users, LockStep(u), UNCHANGED call
  PROVE  Sound(u)
<1> USE DEF CallInv, Acquisitions
<1>1. [LockNext]_lockVars
  BY DEF LockNext
<1> DEFINE Goes ==
             /\ acq' \in [Users -> Acquisitions]
             /\ acq[u].at \in {"create", "write", "inspect", "unlink"} /\ acq'[u].at # "no"
             /\ acq'[u].path = acq[u].path
             /\ \A v \in Users \ {u} : acq'[v] = acq[v]
<1>2. Goes
  <2>1. CASE CreateLock(u)
    BY <2>1 DEF CreateLock
  <2>2. CASE WriteLock(u)
    BY <2>2 DEF WriteLock
  <2>3. ASSUME TryAgain(u), acq[u].at \in {"inspect", "unlink"} PROVE Goes
    BY <2>3 DEF TryAgain
  <2>4. CASE InspectLock(u)
    BY <2>3, <2>4 DEF InspectLock
  <2>5. CASE BreakLock(u)
    BY <2>3, <2>5 DEF BreakLock
  <2> QED
    BY <2>1, <2>2, <2>4, <2>5 DEF LockStep
<1> QED
  BY <1>1, <1>2 DEF Sound, PathKnown, LockPhase

LEMMA StepCallInv ==
  ASSUME CallInv, StateTypes, [Next]_vars
  PROVE  [LockNext]_lockVars /\ CallInv'
<1> USE LockAssumption, CoreDbAssumption DEF StateTypes
<1>1. ASSUME NEW u \in Users PROVE ProcOf[u] \in Procs /\ db[ProcOf[u]] \in Handles \cup {None}
  OBVIOUS
<1>2. ASSUME NEW u \in Users, NEW p \in Wants[u], WithLbugDb(u, p) PROVE Sound(u)
  <2>1. p \in Paths
    BY <1>2
  <2>2. call' \in [Users -> Calls]
    BY <1>2, <2>1 DEF WithLbugDb, NoCall, CallInv, Calls, CallStates
  <2> QED
    BY <1>2, <2>1, <2>2
    DEF WithLbugDb, NoCall, CallInv, Calls, CallStates, PathKnown, LockPhase, Sound, lockVars
<1>3. ASSUME NEW u \in Users, CloseLbug(u) PROVE Sound(u)
  <2>1. call' \in [Users -> Calls]
    BY <1>1, <1>3 DEF CloseLbug, NoCall, CallInv, Calls, CallStates
  <2> QED
    BY <1>3, <2>1
    DEF CloseLbug, NoCall, CallInv, Calls, CallStates, PathKnown, LockPhase, Sound, lockVars
<1>4. ASSUME NEW u \in Users, EnterSession(u) PROVE Sound(u)
  <2> USE DEF CallInv, Calls, CallStates, Acquisitions, PathKnown, LockPhase, Sound
  <2>1. CASE At(u, "operation") /\ UNCHANGED lockVars /\ call[u].for = "run"
    BY <1>4, <2>1, AtSound DEF EnterSession
  <2>2. CASE /\ At(u, "init") /\ AcquireInitLock(u, call[u].path) /\ call[u].for = "run"
    <3>1. acq[u].at = "no" /\ call[u].path \in Paths /\ call[u].at = "queued"
      BY <1>4 DEF EnterSession
    <3>2. call' \in [Users -> Calls]
      BY <2>2, CallAt
    <3>3. acq' \in [Users -> Acquisitions]
      BY <2>2, <3>1 DEF AcquireInitLock
    <3>4. /\ call'[u].at = "init" /\ call'[u].for = call[u].for
          /\ call'[u].path = call[u].path /\ \A v \in Users \ {u} : call'[v] = call[v]
      BY <2>2, CallAt
    <3>5. PathKnown'
      BY <2>2, <3>1, <3>4
    <3>6. LockPhase'
      BY <2>2, <3>1, <3>4 DEF AcquireInitLock
    <3> QED
      BY <2>2, <3>1, <3>2, <3>3, <3>5, <3>6 DEF LockNext
  <2>3. CASE SafeClose(u)
    BY <1>1, <1>4, <2>3, SafeCloseSound DEF EnterSession
  <2> QED
    BY <1>4, <2>1, <2>2, <2>3 DEF EnterSession
<1>5. ASSUME NEW u \in Users, ConnClosed(u) PROVE Sound(u)
  BY <1>1, <1>5, CloseDbSound DEF ConnClosed
<1>6. ASSUME NEW u \in Users, DbClosed(u) PROVE Sound(u)
  BY <1>6, ClosedSound DEF DbClosed
<1>7. ASSUME NEW u \in Users, Backoff(u) PROVE Sound(u)
  <2> USE DEF CallInv
  <2>1. call[u] \in Calls
    OBVIOUS
  <2>2. PICK n \in Nat : call' = [call EXCEPT ![u] = [call[u] EXCEPT !.at = "queued", !.for = "run",
                                                                   !.attempt = n]]
    <3>1. call[u].attempt + 1 \in Nat
      BY <2>1 DEF Calls
    <3>2. [call EXCEPT ![u].at = "queued", ![u].for = "run", ![u].attempt = call[u].attempt + 1]
            = [call EXCEPT ![u] = [call[u] EXCEPT !.at = "queued", !.for = "run",
                                                  !.attempt = call[u].attempt + 1]]
      OBVIOUS
    <3> QED
      BY <1>7, <3>1, <3>2 DEF Backoff
  <2>3. [call[u] EXCEPT !.at = "queued", !.for = "run", !.attempt = n] \in Calls
    BY <2>1 DEF Calls, CallStates
  <2>4. /\ call' \in [Users -> Calls] /\ call'[u].at = "queued" /\ call'[u].for = "run"
        /\ call'[u].path = call[u].path /\ \A v \in Users \ {u} : call'[v] = call[v]
    BY <2>1, <2>2, <2>3 DEF Calls
  <2>5. acq[u].at = "no" /\ acq' = acq /\ call[u].path \in Paths
    BY <1>7 DEF Backoff, lockVars, PathKnown, LockPhase
  <2> QED
    BY <1>7, <2>4, <2>5 DEF Backoff, PathKnown, LockPhase, Sound, lockVars
<1>8. ASSUME NEW u \in Users, LockAcquisition(u) PROVE Sound(u)
  BY <1>8, LockStepSound DEF LockAcquisition
<1>9. ASSUME NEW u \in Users, LockFailed(u) PROVE Sound(u)
  BY <1>9, ThrowsSound DEF LockFailed, Abandon
<1>10. ASSUME NEW u \in Users, OpenDb(u) \/ OpenFails(u) \/ Initialized(u) PROVE Sound(u)
  <2>1. CASE OpenDb(u)
    BY <2>1, AtSound DEF OpenDb, CallStates
  <2>2. CASE OpenFails(u)
    BY <2>2, AtSound DEF OpenFails, CallStates
  <2>3. CASE Initialized(u)
    <3>1. acq[u].at = "no"
      BY <2>3 DEF Initialized, CallInv, LockPhase
    <3> QED
      BY <2>3, <3>1, AtSound DEF Initialized, CallStates
  <2> QED
    BY <1>10, <2>1, <2>2, <2>3
<1>11. ASSUME NEW u \in Users, ReleaseLock(u) PROVE Sound(u)
  <2>1. CASE call[u].at = "failed" /\ Throws(u, FALSE)
    BY <1>11, <2>1, ThrowsSound DEF ReleaseLock
  <2>2. CASE call[u].at = "opened" /\ At(u, "schema")
    <3>1. [LockNext]_lockVars
      BY <1>11 DEF ReleaseLock, LockNext
    <3>2. /\ acq' \in [Users -> Acquisitions] /\ acq'[u].at = "no"
          /\ \A v \in Users \ {u} : acq'[v] = acq[v]
      BY <1>11 DEF ReleaseLock, ReleaseInitLock, NotAcquiring, CallInv, Acquisitions
    <3>3. /\ call' \in [Users -> Calls] /\ call'[u].at = "schema" /\ call'[u].for = call[u].for
          /\ call'[u].path = call[u].path /\ \A v \in Users \ {u} : call'[v] = call[v]
      BY <2>2, CallAt DEF CallInv, CallStates
    <3> QED
      BY <2>2, <3>1, <3>2, <3>3 DEF CallInv, PathKnown, LockPhase, Sound
  <2> QED
    BY <1>11, <2>1, <2>2 DEF ReleaseLock
<1>12. ASSUME NEW u \in Users, SchemaFails(u) \/ QueryFails(u) PROVE Sound(u)
  BY <1>12, ThrowsSound DEF SchemaFails, QueryFails
<1>13. ASSUME NEW u \in Users, Query(u) PROVE Sound(u)
  BY <1>13 DEF Query, NoCall, CallInv, Calls, CallStates, PathKnown, LockPhase, Sound, lockVars
<1>14. ASSUME NEW q \in Mortal, Crash(q) PROVE [LockNext]_lockVars /\ CallInv'
  BY <1>14 DEF Crash, LockOwnerDies, LockNext, NoCall, NotAcquiring, CallInv, Calls, CallStates,
               Acquisitions, PathKnown, LockPhase
<1>15. ASSUME NEW p \in Paths, Ages(p) PROVE [LockNext]_lockVars /\ CallInv'
  BY <1>15 DEF Ages, LockAges, LockNext, CallInv, PathKnown, LockPhase
<1>16. CASE UNCHANGED <<lockVars, call>>
  BY <1>16 DEF lockVars, CallInv, PathKnown, LockPhase
<1> QED
  BY <1>2, <1>3, <1>4, <1>5, <1>6, <1>7, <1>8, <1>9, <1>10, <1>11, <1>12, <1>13, <1>14, <1>15,
     <1>16 DEF Next, UserStep, Collect, Sound, vars

-----------------------------------------------------------------------------
(* The lock files.                                                         *)

LockTypes == lock \in [Paths -> Locks \cup {None}]

\* Whoever holds the lock of a database has its file there, in its name.
HeldIsThere ==
  \A u \in Users : Holds(u) =>
    /\ lock[acq[u].path] # None
    /\ lock[acq[u].path].by = u /\ lock[acq[u].path].owner = ProcOf[u]

\* Only the locks of the dead grow old.
LivingAreYoung == \A p \in Paths : lock[p] # None /\ lock[p].owner # None => lock[p].age = "young"

\* What is about to be broken is the lock of a dead process, or gone.
BreaksTheDead ==
  \A u \in Users : acq[u].at = "unlink" =>
    lock[acq[u].path] = None \/ lock[acq[u].path].owner = None

LockInv == LockTypes /\ HeldIsThere /\ LivingAreYoung /\ BreaksTheDead

\* A lock that is not written yet has its creator about to write it.
UnwrittenIsBeingWritten ==
  \A p \in Paths : lock[p] # None /\ lock[p].text = "empty" =>
    /\ lock[p].owner # None /\ lock[p].owner = ProcOf[lock[p].by]
    /\ acq[lock[p].by].at = "write" /\ acq[lock[p].by].path = p

LEMMA InitLocks == Init => LockInv /\ UnwrittenIsBeingWritten
BY DEF Init, LockInit, LockInv, LockTypes, HeldIsThere, Holds, LivingAreYoung, BreaksTheDead,
       UnwrittenIsBeingWritten, NotAcquiring

\* TryAgain leaves neither a holder nor a breaker.
LEMMA TryAgainEffect ==
  ASSUME CallInv, NEW u \in Users, TryAgain(u)
  PROVE  /\ acq'[u].at \in {"create", "failed"} /\ acq'[u].path = acq[u].path
         /\ \A v \in Users \ {u} : acq'[v] = acq[v]
BY DEF TryAgain, CallInv, Acquisitions

\* A lock that is written, and one that grows old.
LEMMA LockMarked ==
  ASSUME NEW l \in Locks
  PROVE  /\ [l EXCEPT !.text = "payload"] \in Locks /\ [l EXCEPT !.age = "old"] \in Locks
         /\ [l EXCEPT !.text = "payload"].owner = l.owner /\ [l EXCEPT !.text = "payload"].by = l.by
         /\ [l EXCEPT !.text = "payload"].age = l.age /\ [l EXCEPT !.age = "old"].owner = l.owner
         /\ [l EXCEPT !.text = "payload"].text = "payload"
         /\ [l EXCEPT !.age = "old"].text = l.text
         /\ [l EXCEPT !.age = "old"].by = l.by
BY DEF Locks

\* Writing the payload changes nothing else about a lock.
LEMMA WriteEffect ==
  ASSUME CallInv, LockTypes, NEW u \in Users, WriteLock(u)
  PROVE  \A p \in Paths :
           /\ lock'[p] = None <=> lock[p] = None
           /\ lock[p] # None => /\ lock'[p].owner = lock[p].owner /\ lock'[p].by = lock[p].by
                                /\ lock'[p].age = lock[p].age
                                /\ \/ p = acq[u].path /\ lock[p].by = u
                                   \/ lock'[p].text = lock[p].text
           /\ p = acq[u].path /\ lock'[p] # None /\ lock'[p].by = u => lock'[p].text = "payload"
<1> DEFINE q == acq[u].path
<1> USE NoLockAssumption
<1>1. q \in Paths
  BY DEF WriteLock, CallInv, LockPhase
<1>2. CASE lock[q] # None /\ lock[q].by = u
  <2> DEFINE l == [lock[q] EXCEPT !.text = "payload"]
  <2>1. lock' = [lock EXCEPT ![q] = l]
    BY <1>2 DEF WriteLock
  <2>2. lock[q] \in Locks
    BY <1>1, <1>2 DEF LockTypes
  <2>3. l \in Locks /\ l.owner = lock[q].owner /\ l.by = lock[q].by /\ l.age = lock[q].age
        /\ l.text = "payload"
    BY <2>2, LockMarked
  <2> HIDE DEF l
  <2> QED
    BY <1>1, <1>2, <2>1, <2>3 DEF LockTypes
<1>3. CASE ~(lock[q] # None /\ lock[q].by = u)
  BY <1>1, <1>3 DEF WriteLock
<1> QED
  BY <1>2, <1>3

LEMMA StepLockTypes ==
  ASSUME CallInv, LockTypes, [LockNext]_lockVars
  PROVE  LockTypes'
<1> USE LockAssumption, NoLockAssumption DEF LockTypes, Locks, CallInv, LockPhase
<1>1. ASSUME NEW u \in Users, CreateLock(u) PROVE LockTypes'
  BY <1>1 DEF CreateLock
<1>2. ASSUME NEW u \in Users, WriteLock(u) PROVE LockTypes'
  <2> DEFINE p == acq[u].path
  <2>1. CASE UNCHANGED lock
    BY <2>1
  <2>2. CASE lock[p] # None /\ lock' = [lock EXCEPT ![p] = [lock[p] EXCEPT !.text = "payload"]]
    <3>1. p \in Paths => [lock[p] EXCEPT !.text = "payload"] \in Locks
      BY <2>2, LockMarked DEF LockTypes
    <3> HIDE DEF Locks
    <3> QED
      BY <2>2, <3>1
  <2> QED
    BY <1>2, <2>1, <2>2 DEF WriteLock
<1>3. ASSUME NEW p \in Paths, LockAges(p) PROVE LockTypes'
  <2>1. [lock[p] EXCEPT !.age = "old"] \in Locks
    BY <1>3, LockMarked DEF LockAges
  <2> HIDE DEF Locks
  <2> QED
    BY <1>3, <2>1 DEF LockAges
<1>4. ASSUME NEW q \in Procs, LockOwnerDies(q) PROVE LockTypes'
  BY <1>4 DEF LockOwnerDies
<1>5. ASSUME NEW u \in Users, BreakLock(u) \/ ReleaseInitLock(u) PROVE LockTypes'
  BY <1>5 DEF BreakLock, ReleaseInitLock
<1>6. CASE UNCHANGED lock
  BY <1>6
<1> QED
  BY <1>1, <1>2, <1>3, <1>4, <1>5, <1>6
  DEF LockNext, LockStep, InspectLock, Abandon, AcquireInitLock, lockVars

LEMMA StepLockInv ==
  ASSUME CallInv, LockInv, [LockNext]_lockVars,
         "racing_break" \notin Adversity, "slow_holder" \notin Adversity
  PROVE  LockInv'
<1> USE LockAssumption, NoLockAssumption
<1>1. LockTypes'
  BY StepLockTypes DEF LockInv
<1> USE DEF LockInv, HeldIsThere, LivingAreYoung, BreaksTheDead, Holds
<1>2. ASSUME NEW u \in Users, CreateLock(u) PROVE LockInv'
  <2>1. CASE lock[acq[u].path] # None
    BY <1>1, <1>2, <2>1 DEF CreateLock, CallInv, Acquisitions
  <2>2. CASE lock[acq[u].path] = None
    <3>1. /\ acq'[u].at = "write" /\ acq'[u].path = acq[u].path
          /\ \A v \in Users \ {u} : acq'[v] = acq[v]
      BY <1>2, <2>2 DEF CreateLock, CallInv, Acquisitions
    <3>2. /\ acq[u].path \in Paths
          /\ \A v \in Users : Holds(v) => acq[v].path # acq[u].path
          /\ \A v \in Users : acq[v].at = "unlink" => acq[v].path # acq[u].path
      BY <1>2, <2>2 DEF CreateLock, BreakPending, CallInv, LockPhase
    <3>3. \A p \in Paths :
            IF p = acq[u].path
            THEN lock'[p] \in Locks /\ lock'[p].by = u /\ lock'[p].owner = ProcOf[u]
                 /\ lock'[p].age = "young"
            ELSE lock'[p] = lock[p]
      BY <1>2, <2>2 DEF CreateLock, LockTypes, Locks
    <3>4. \A v \in Users : acq[v].at # "no" => acq[v].path \in Paths
      BY DEF CallInv, LockPhase
    <3>5. HeldIsThere'
      BY <3>1, <3>2, <3>3, <3>4
    <3>6. LivingAreYoung'
      BY <3>3
    <3>7. BreaksTheDead'
      BY <3>1, <3>2, <3>3, <3>4
    <3> QED
      BY <1>1, <3>5, <3>6, <3>7
  <2> QED
    BY <2>1, <2>2
<1>3. ASSUME NEW u \in Users, WriteLock(u) PROVE LockInv'
  <2>1. /\ acq[u].at = "write" /\ acq'[u].at = "held" /\ acq'[u].path = acq[u].path
        /\ \A v \in Users \ {u} : acq'[v] = acq[v]
    BY <1>3 DEF WriteLock, CallInv, Acquisitions
  <2>2. \A p \in Paths : (lock'[p] = None <=> lock[p] = None)
    BY <1>3, WriteEffect
  <2>3. \A p \in Paths : lock[p] # None =>
          lock'[p].owner = lock[p].owner /\ lock'[p].by = lock[p].by /\ lock'[p].age = lock[p].age
    BY <1>3, WriteEffect
  <2>4. \A v \in Users : acq[v].at # "no" => acq[v].path \in Paths
    BY DEF CallInv, LockPhase
  <2>5. HeldIsThere'
    BY <2>1, <2>2, <2>3, <2>4
  <2>6. LivingAreYoung'
    BY <2>2, <2>3
  <2>7. BreaksTheDead'
    BY <2>1, <2>2, <2>3, <2>4
  <2> QED
    BY <1>1, <2>5, <2>6, <2>7
<1>4. ASSUME NEW u \in Users, InspectLock(u) PROVE LockInv'
  <2>1. CASE TryAgain(u)
    BY <1>1, <1>4, <2>1, TryAgainEffect DEF InspectLock, CallInv
  <2>2. CASE Stale(lock[acq[u].path]) /\ acq' = [acq EXCEPT ![u].at = "unlink"]
    BY <1>1, <1>4, <2>2 DEF InspectLock, Stale, CallInv, Acquisitions, LockPhase
  <2> QED
    BY <1>4, <2>1, <2>2 DEF InspectLock
<1>5. ASSUME NEW u \in Users, BreakLock(u) PROVE LockInv'
  BY <1>1, <1>5, TryAgainEffect DEF BreakLock, LockTypes, CallInv, LockPhase
<1>6. ASSUME NEW u \in Users, ReleaseInitLock(u) PROVE LockInv'
  BY <1>1, <1>6 DEF ReleaseInitLock, NotAcquiring, LockTypes, CallInv, Acquisitions, LockPhase
<1>7. ASSUME NEW u \in Users, Abandon(u) \/ \E p \in Paths : AcquireInitLock(u, p) PROVE LockInv'
  BY <1>1, <1>7 DEF Abandon, AcquireInitLock, NotAcquiring, CallInv, Acquisitions
<1>8. ASSUME NEW q \in Procs, LockOwnerDies(q) PROVE LockInv'
  BY <1>1, <1>8 DEF LockOwnerDies, NotAcquiring, LockTypes, Locks, CallInv, Acquisitions, LockPhase
<1>9. ASSUME NEW p \in Paths, LockAges(p) PROVE LockInv'
  BY <1>1, <1>9 DEF LockAges, LockTypes, Locks, CallInv, LockPhase
<1>10. CASE UNCHANGED lockVars
  BY <1>1, <1>10 DEF lockVars
<1> QED
  BY <1>2, <1>3, <1>4, <1>5, <1>6, <1>7, <1>8, <1>9, <1>10 DEF LockNext, LockStep

LEMMA StepUnwritten ==
  ASSUME CallInv, LockTypes, UnwrittenIsBeingWritten, [LockNext]_lockVars,
         "torn_lock" \notin Adversity
  PROVE  UnwrittenIsBeingWritten'
<1> USE LockAssumption, NoLockAssumption DEF UnwrittenIsBeingWritten
<1>1. \A p \in Paths : lock[p] # None => lock[p].by \in Users /\ lock[p].text \in {"empty", "payload"}
  BY DEF LockTypes, Locks
<1>2. ASSUME NEW u \in Users, CreateLock(u) PROVE UnwrittenIsBeingWritten'
  <2>1. CASE lock[acq[u].path] # None
    BY <1>1, <1>2, <2>1 DEF CreateLock, CallInv, Acquisitions
  <2>2. CASE lock[acq[u].path] = None
    <3>1. /\ acq[u].at = "create" /\ acq'[u].at = "write" /\ acq'[u].path = acq[u].path
          /\ \A v \in Users \ {u} : acq'[v] = acq[v]
      BY <1>2, <2>2 DEF CreateLock, CallInv, Acquisitions
    <3>2. \A p \in Paths : IF p = acq[u].path
                         THEN lock'[p].by = u /\ lock'[p].owner = ProcOf[u]
                         ELSE lock'[p] = lock[p]
      BY <1>2, <2>2 DEF CreateLock, LockTypes
    <3> QED
      BY <1>1, <3>1, <3>2
  <2> QED
    BY <2>1, <2>2
<1>3. ASSUME NEW u \in Users, WriteLock(u) PROVE UnwrittenIsBeingWritten'
  <2>1. \A v \in Users \ {u} : acq'[v] = acq[v]
    BY <1>3 DEF WriteLock, CallInv
  <2> QED
    BY <1>1, <1>3, <2>1, WriteEffect
<1>4. ASSUME NEW u \in Users, InspectLock(u) \/ Abandon(u) PROVE UnwrittenIsBeingWritten'
  BY <1>1, <1>4, TryAgainEffect DEF InspectLock, Abandon, CallInv
<1>5. ASSUME NEW u \in Users, BreakLock(u) PROVE UnwrittenIsBeingWritten'
  BY <1>1, <1>5, TryAgainEffect DEF BreakLock, CallInv, LockTypes
<1>6. ASSUME NEW u \in Users, ReleaseInitLock(u) PROVE UnwrittenIsBeingWritten'
  BY <1>1, <1>6 DEF ReleaseInitLock, CallInv, LockTypes
<1>7. ASSUME NEW u \in Users, acq[u].at = "no", NEW p \in Paths, AcquireInitLock(u, p)
      PROVE  UnwrittenIsBeingWritten'
  BY <1>1, <1>7 DEF AcquireInitLock, CallInv
<1>8. ASSUME NEW q \in Procs, LockOwnerDies(q) PROVE UnwrittenIsBeingWritten'
  <2>1. \A p \in Paths : lock[p] # None /\ lock[p].text = "empty" => lock[p].owner # q
    BY <1>1, <1>8 DEF LockOwnerDies
  <2>2. \A p \in Paths :
          \/ lock'[p] = lock[p]
          \/ lock[p] # None /\ lock[p].owner = q /\ lock'[p].text = lock[p].text
    <3> TAKE p \in Paths
    <3>1. CASE lock[p] # None /\ lock[p].owner = q
      <4>1. lock[p] \in Locks
        BY <3>1 DEF LockTypes
      <4>2. lock'[p] = [lock[p] EXCEPT !.owner = None]
        BY <1>8, <3>1 DEF LockOwnerDies
      <4> QED
        BY <3>1, <4>1, <4>2 DEF Locks
    <3>2. CASE ~(lock[p] # None /\ lock[p].owner = q)
      BY <1>8, <3>2 DEF LockOwnerDies
    <3> QED
      BY <3>1, <3>2
  <2>3. \A v \in Users : ProcOf[v] # q => acq'[v] = acq[v]
    BY <1>8 DEF LockOwnerDies
  <2> QED
    BY <1>1, <2>1, <2>2, <2>3
<1>9. ASSUME NEW p \in Paths, LockAges(p) PROVE UnwrittenIsBeingWritten'
  <2>1. lock[p] \in Locks
    BY <1>9 DEF LockAges, LockTypes
  <2> QED
    BY <1>1, <1>9, <2>1, LockMarked DEF LockAges, LockTypes
<1>10. CASE UNCHANGED lockVars
  BY <1>10 DEF lockVars
<1> QED
  BY <1>2, <1>3, <1>4, <1>5, <1>6, <1>7, <1>8, <1>9, <1>10 DEF LockNext, LockStep

-----------------------------------------------------------------------------
(* The module state.                                                       *)

LEMMA StepStateTypes ==
  ASSUME CallInv, StateTypes, [Next]_vars
  PROVE  StateTypes'
<1> USE LockAssumption, CoreDbAssumption DEF StateTypes
<1>1. ASSUME NEW u \in Users, currentPath' = [currentPath EXCEPT ![ProcOf[u]] = None]
      PROVE  currentPath' \in [Procs -> Paths \cup {None}]
  BY <1>1
<1>2. ASSUME NEW u \in Users, CloseDb(u)
      PROVE  currentPath' \in [Procs -> Paths \cup {None}]
  BY <1>1, <1>2 DEF CloseDb, Closed
<1>3. ASSUME NEW u \in Users, EnterSession(u) PROVE StateTypes'
  BY <1>2, <1>3 DEF EnterSession, SafeClose
<1>4. ASSUME NEW u \in Users, ConnClosed(u) PROVE StateTypes'
  BY <1>2, <1>4 DEF ConnClosed
<1>5. ASSUME NEW u \in Users, DbClosed(u) PROVE StateTypes'
  BY <1>1, <1>5 DEF DbClosed, Closed
<1>6. ASSUME NEW u \in Users, OpenDb(u) PROVE StateTypes'
  <2>1. PICK h \in Handles :
          /\ open' = [open EXCEPT ![h] = [proc |-> ProcOf[u], path |-> call[u].path]]
          /\ conn' = [conn EXCEPT ![ProcOf[u]] = h] /\ db' = [db EXCEPT ![ProcOf[u]] = h]
    BY <1>6 DEF OpenDb, Free
  <2>2. call[u].path \in Paths
    BY <1>6 DEF OpenDb, CallInv, PathKnown
  <2>3. open' \in [Handles -> {None} \cup [proc : Procs, path : Paths]]
    BY <2>1, <2>2
  <2>4. currentPath' = currentPath
    BY <1>6 DEF OpenDb
  <2> QED
    BY <2>1, <2>3, <2>4
<1>7. ASSUME NEW u \in Users, Initialized(u) PROVE StateTypes'
  BY <1>7 DEF Initialized, CallInv, PathKnown
<1>8. ASSUME NEW h \in Handles, Collect(h) PROVE StateTypes'
  BY <1>8 DEF Collect, stateVars
<1>9. ASSUME NEW q \in Mortal, Crash(q) PROVE StateTypes'
  BY <1>9 DEF Crash
<1>10. CASE UNCHANGED <<open, stateVars>>
  BY <1>10 DEF stateVars
<1> QED
  BY <1>3, <1>4, <1>5, <1>6, <1>7, <1>8, <1>9, <1>10
  DEF Next, UserStep, vars, WithLbugDb, CloseLbug, Backoff, LockAcquisition, LockFailed, OpenFails,
      ReleaseLock, SchemaFails, Query, QueryFails, Ages, stateVars

-----------------------------------------------------------------------------
(* The two properties of the lock.                                         *)

BaseInv == CallInv /\ StateTypes

LEMMA Base == Spec => []BaseInv
<1>1. Init => BaseInv
  <2>1. Init => StateTypes
    BY DEF Init, StateTypes
  <2> QED
    BY <2>1, InitCallInv DEF BaseInv
<1>2. BaseInv /\ [Next]_vars => BaseInv'
  BY StepCallInv, StepStateTypes DEF BaseInv
<1> QED
  BY <1>1, <1>2, PTL DEF Spec

LEMMA LockAlwaysInv ==
  ASSUME "racing_break" \notin Adversity, "slow_holder" \notin Adversity
  PROVE  Spec => [](BaseInv /\ LockInv)
<1>1. Init => LockInv
  BY InitLocks
<1>2. BaseInv /\ LockInv /\ [Next]_vars => LockInv'
  BY StepCallInv, StepLockInv DEF BaseInv
<1> QED
  BY <1>1, <1>2, Base, PTL DEF Spec

\* Who holds a lock is alone.
LEMMA HolderIsAlone ==
  ASSUME LockInv, NEW u \in Users, NEW v \in Users, Holds(u), Holds(v), acq[u].path = acq[v].path
  PROVE  u = v
BY DEF LockInv, HeldIsThere

openers == [p \in Paths |-> Openers(p)]

\* A step of the locks is one of exclusive use, or changes no opener.
LEMMA StepExclusive ==
  ASSUME CallInv, LockInv, [LockNext]_lockVars,
         "racing_break" \notin Adversity, "slow_holder" \notin Adversity
  PROVE  [Opening!Next]_openers
<1> USE LockAssumption, NoLockAssumption
<1>1. ASSUME NEW u \in Users, \A v \in Users \ {u} : acq'[v] = acq[v],
             Holds(u)' <=> Holds(u), Holds(u) => acq'[u].path = acq[u].path
      PROVE  openers' = openers
  <2>1. \A p \in Paths : Openers(p)' = Openers(p)
    BY <1>1 DEF Openers, Holds
  <2> QED
    BY <2>1 DEF openers
<1>2. ASSUME NEW u \in Users, CreateLock(u) PROVE [Opening!Next]_openers
  <2>1. PICK q \in Paths : q = acq[u].path
    BY <1>2 DEF CreateLock, CallInv, LockPhase
  <2>2. CASE lock[q] # None
    BY <1>1, <1>2, <2>1, <2>2 DEF CreateLock, CallInv, Acquisitions, Holds
  <2>3. CASE lock[q] = None
    <3>1. /\ acq'[u].at = "write" /\ acq'[u].path = q /\ acq[u].at = "create"
          /\ \A v \in Users \ {u} : acq'[v] = acq[v]
      BY <1>2, <2>1, <2>3 DEF CreateLock, CallInv, Acquisitions
    <3>2. Openers(q) = {} /\ Openers(q)' = {u}
      BY <2>3, <3>1 DEF Openers, Holds, LockInv, HeldIsThere
    <3>3. \A p \in Paths \ {q} : Openers(p)' = Openers(p)
      BY <3>1 DEF Openers, Holds
    <3>4. openers[q] = {} /\ openers' = [openers EXCEPT ![q] = {u}]
      BY <2>1, <3>2, <3>3 DEF openers
    <3>5. Opening!Take(q)
      BY <3>4 DEF Opening!Take, openers
    <3> QED
      BY <2>1, <3>5 DEF Opening!Next
  <2> QED
    BY <2>2, <2>3
<1>3. ASSUME NEW u \in Users, WriteLock(u) PROVE [Opening!Next]_openers
  BY <1>1, <1>3 DEF WriteLock, CallInv, Acquisitions, Holds
<1>4. ASSUME NEW u \in Users, InspectLock(u) \/ BreakLock(u) PROVE [Opening!Next]_openers
  <2>1. CASE TryAgain(u)
    BY <1>1, <1>4, <2>1, TryAgainEffect DEF InspectLock, BreakLock, Holds
  <2>2. CASE acq' = [acq EXCEPT ![u].at = "unlink"]
    BY <1>1, <1>4, <2>2 DEF InspectLock, BreakLock, CallInv, Acquisitions, Holds
  <2> QED
    BY <1>4, <2>1, <2>2 DEF InspectLock, BreakLock
<1>5. ASSUME NEW u \in Users, Abandon(u) PROVE [Opening!Next]_openers
  BY <1>1, <1>5 DEF Abandon, NotAcquiring, CallInv, Holds
<1>6. ASSUME NEW u \in Users, acq[u].at = "no", NEW p \in Paths, AcquireInitLock(u, p)
      PROVE  [Opening!Next]_openers
  BY <1>1, <1>6 DEF AcquireInitLock, CallInv, Holds
<1>7. ASSUME NEW p \in Paths, LockAges(p) PROVE [Opening!Next]_openers
  BY <1>7 DEF LockAges, openers, Openers, Holds
<1>8. ASSUME NEW S \in SUBSET Paths, \A p \in S : Openers(p)' = {},
             \A p \in Paths \ S : Openers(p)' = Openers(p)
      PROVE  [Opening!Next]_openers
  <2>1. openers' = [p \in Paths |-> IF p \in S THEN {} ELSE openers[p]]
    BY <1>8 DEF openers
  <2>2. Opening!Leave(S)
    BY <2>1 DEF Opening!Leave, openers
  <2> QED
    BY <2>2 DEF Opening!Next
<1>9. ASSUME NEW u \in Users, ReleaseInitLock(u) PROVE [Opening!Next]_openers
  <2>1. /\ acq[u].at = "held" /\ acq'[u].at = "no"
        /\ \A v \in Users \ {u} : acq'[v] = acq[v]
    BY <1>9 DEF ReleaseInitLock, NotAcquiring, CallInv
  <2>2. PICK q \in Paths : q = acq[u].path
    BY <2>1 DEF CallInv, LockPhase
  <2>3. \A v \in Users \ {u} : Holds(v) => acq[v].path # q
    BY <2>1, <2>2, HolderIsAlone DEF Holds
  <2>4. Openers(q)' = {}
    BY <2>1, <2>3 DEF Openers, Holds
  <2>5. \A p \in Paths \ {q} : Openers(p)' = Openers(p)
    BY <2>1, <2>2 DEF Openers, Holds
  <2> QED
    BY <1>8, <2>4, <2>5
<1>10. ASSUME NEW q \in Procs, LockOwnerDies(q) PROVE [Opening!Next]_openers
  <2> DEFINE S == {p \in Paths : \E u \in Openers(p) : ProcOf[u] = q}
  <2>1. \A v \in Users : IF ProcOf[v] = q THEN acq'[v].at = "no" ELSE acq'[v] = acq[v]
    BY <1>10 DEF LockOwnerDies, NotAcquiring
  <2>2. \A p \in S : Openers(p)' = {}
    BY <2>1, HolderIsAlone DEF Openers, Holds
  <2>3. \A p \in Paths \ S : Openers(p)' = Openers(p)
    BY <2>1 DEF Openers, Holds
  <2> HIDE DEF S
  <2>4. S \in SUBSET Paths
    BY DEF S
  <2> QED
    BY <1>8, <2>2, <2>3, <2>4
<1>11. CASE UNCHANGED lockVars
  BY <1>11 DEF lockVars, openers, Openers, Holds
<1> QED
  BY <1>2, <1>3, <1>4, <1>5, <1>6, <1>7, <1>9, <1>10, <1>11 DEF LockNext, LockStep

\* One process at a time opens a database, as long as nobody breaks a lock that
\* was made after the one it judged, and nobody living holds one for 30 seconds:
\* for every number of users and processes, whoever dies, and whenever.
THEOREM OneOpenerHolds ==
  ASSUME "racing_break" \notin Adversity, "slow_holder" \notin Adversity
  PROVE  Spec => OneOpener
<1>1. Init => Opening!Init
  BY DEF Init, LockInit, Opening!Init, Openers, Holds, NotAcquiring
<1>2. BaseInv /\ LockInv /\ [Next]_vars => [Opening!Next]_openers
  BY StepCallInv, StepExclusive DEF BaseInv, LockInv
<1> QED
  BY <1>1, <1>2, LockAlwaysInv, PTL DEF Spec, OneOpener, Opening!Spec, openers

\* Whoever gives up the init lock leaves none of a dead process behind, as long as
\* no process dies between creating its lock and writing it.
THEOREM OnlyTheLivingRefuseHolds ==
  ASSUME "torn_lock" \notin Adversity
  PROVE  Spec => OnlyTheLivingRefuse
<1> DEFINE I == LockTypes /\ UnwrittenIsBeingWritten
           Refuses == \A u \in Users : acq'[u].at = "failed" /\ acq[u].at # "failed" =>
                        ~LeftByTheDead(acq[u].path)'
<1>1. Init => I
  BY InitLocks DEF LockInv
<1>2. BaseInv /\ I /\ [Next]_vars => I'
  BY StepCallInv, StepLockTypes, StepUnwritten DEF BaseInv
<1>3. BaseInv /\ I /\ [Next]_vars => [Refuses]_lockVars
  <2> SUFFICES ASSUME BaseInv, I, [Next]_vars, NEW u \in Users,
                      acq'[u].at = "failed", acq[u].at # "failed"
               PROVE  ~LeftByTheDead(acq[u].path)'
    OBVIOUS
  <2>1. CallInv /\ [LockNext]_lockVars
    BY StepCallInv DEF BaseInv
  <2>2. \/ InspectLock(u) /\ TryAgain(u) /\ lock[acq[u].path] # None
          /\ ~(lock[acq[u].path].text = "payload" /\ Stale(lock[acq[u].path]))
        \/ InspectLock(u) /\ lock[acq[u].path] = None
        \/ BreakLock(u)
    <3>1. \A v \in Users : InspectLock(v) \/ BreakLock(v) \/ CreateLock(v) \/ WriteLock(v) =>
            v = u \/ acq'[u] = acq[u]
      BY <2>1, TryAgainEffect DEF InspectLock, BreakLock, CreateLock, WriteLock, CallInv
    <3>2. ~(CreateLock(u) \/ WriteLock(u))
      BY <2>1 DEF CreateLock, WriteLock, CallInv, Acquisitions
    <3>3. ~(InspectLock(u) /\ acq' = [acq EXCEPT ![u].at = "unlink"])
      BY <2>1 DEF CallInv, Acquisitions
    <3>4. ~UNCHANGED lockVars
      BY DEF lockVars
    <3>5. \A v \in Users : ~(Abandon(v) \/ ReleaseInitLock(v) \/ \E p \in Paths : AcquireInitLock(v, p))
      BY <2>1 DEF Abandon, ReleaseInitLock, AcquireInitLock, NotAcquiring, CallInv, Acquisitions
    <3>6. \A q \in Procs : ~LockOwnerDies(q)
      BY <2>1 DEF LockOwnerDies, NotAcquiring, CallInv
    <3>7. \A p \in Paths : ~LockAges(p)
      BY DEF LockAges
    <3> QED
      BY <2>1, <3>1, <3>2, <3>3, <3>4, <3>5, <3>6, <3>7 DEF LockNext, LockStep, InspectLock
  <2>3. acq[u].path \in Paths /\ lock[acq[u].path] \in Locks \cup {None}
    BY <2>1, <2>2 DEF InspectLock, BreakLock, CallInv, LockPhase, LockTypes
  <2>4. acq'[u].path = acq[u].path
    BY <2>1, <2>2, TryAgainEffect DEF InspectLock, BreakLock, CallInv, Acquisitions
  <2>5. CASE BreakLock(u)
    BY <2>3, <2>4, <2>5 DEF BreakLock, LeftByTheDead, LockTypes
  <2>6. CASE InspectLock(u)
    BY <2>2, <2>3, <2>4, <2>6
    DEF InspectLock, BreakLock, LeftByTheDead, Stale, UnwrittenIsBeingWritten, Locks
  <2> QED
    BY <2>2, <2>5, <2>6
<1> QED
  BY <1>1, <1>2, <1>3, Base, PTL DEF Spec, OnlyTheLivingRefuse

-----------------------------------------------------------------------------
(* The sessions of a process take turns.                                   *)

InSession(u) ==
  \/ call[u].at \in {"init", "opened", "failed", "schema", "operation"}
  \/ call[u].at \in {"close_conn", "close_db"} /\ call[u].for # "close"

\* A session in progress is the first of the chain of its process.
SessionInv ==
  /\ sessions \in [Procs -> Seq(Users)]
  /\ \A u \in Users : InSession(u) => HasSession(u)

\* What an action of user u may do: go on, or begin if it is first; join the
\* chain; or leave it, and perhaps join it again.
GoesOn(u) ==
  /\ UNCHANGED sessions
  /\ InSession(u)' => InSession(u) \/ HasSession(u)

Joins(u) ==
  /\ sessions' = [sessions EXCEPT ![ProcOf[u]] = Append(@, u)]
  /\ ~InSession(u)'

Leaves(u) ==
  /\ HasSession(u)
  /\ LeaveSession(u) \/ sessions' = [sessions EXCEPT ![ProcOf[u]] = Append(Tail(@), u)]
  /\ ~InSession(u)'

OthersStay(u) == \A v \in Users \ {u} : call'[v] = call[v]

LEMMA SessionMoves ==
  ASSUME SessionInv, NEW u \in Users, OthersStay(u), GoesOn(u) \/ Joins(u) \/ Leaves(u)
  PROVE  SessionInv'
<1> DEFINE q == ProcOf[u]
<1> USE LockAssumption
<1>1. \A v \in Users \ {u} : InSession(v)' = InSession(v)
  BY DEF OthersStay, InSession
<1>2. q \in Procs /\ sessions[q] \in Seq(Users)
  BY DEF SessionInv
<1>3. CASE GoesOn(u)
  BY <1>1, <1>3 DEF GoesOn, SessionInv, HasSession
<1>4. CASE Joins(u)
  <2>1. Append(sessions[q], u) \in Seq(Users) /\ Append(sessions[q], u) # <<>>
    BY <1>2
  <2>2. sessions[q] # <<>> => Head(Append(sessions[q], u)) = Head(sessions[q])
    BY <1>2
  <2> QED
    BY <1>1, <1>4, <2>1, <2>2 DEF Joins, SessionInv, HasSession
<1>5. CASE Leaves(u)
  <2>1. sessions[q] # <<>> /\ Head(sessions[q]) = u
    BY <1>5 DEF Leaves, HasSession
  <2>2. Tail(sessions[q]) \in Seq(Users) /\ Append(Tail(sessions[q]), u) \in Seq(Users)
    BY <1>2, <2>1
  <2>3. \A v \in Users \ {u} : ProcOf[v] = q => ~InSession(v)
    BY <2>1 DEF SessionInv, HasSession
  <2>4. sessions' \in [Procs -> Seq(Users)]
    BY <1>5, <2>2 DEF Leaves, LeaveSession, SessionInv
  <2>5. \A r \in Procs \ {q} : sessions'[r] = sessions[r]
    BY <1>5 DEF Leaves, LeaveSession, SessionInv
  <2> QED
    BY <1>1, <1>5, <2>3, <2>4, <2>5 DEF Leaves, SessionInv, HasSession
<1> QED
  BY <1>3, <1>4, <1>5

\* Two sessions of one process are one.
LEMMA OneSession ==
  ASSUME SessionInv, NEW u \in Users, NEW v \in Users, InSession(u), InSession(v),
         ProcOf[u] = ProcOf[v]
  PROVE  u = v
BY DEF SessionInv, HasSession

-----------------------------------------------------------------------------
(* The database of a session.                                              *)

\* The connection of process q, if it has one, is to database p, or to one that
\* closeLbug has closed.
On(q, p) == conn[q] = None \/ open[conn[q]] \in {None, [proc |-> q, path |-> p]}

\* A session that has closed what it found finds no connection until it opens one.
HasClosed(u) ==
  \/ call[u].at \in {"init", "failed"}
  \/ call[u].at = "close_db" /\ call[u].for # "close"

ClosedInSession == \A u \in Users : HasClosed(u) => conn[ProcOf[u]] = None

OpenedForCall ==
  \A u \in Users : call[u].at \in {"opened", "schema", "operation"} =>
    On(ProcOf[u], call[u].path)

BetweenOpenAndPath(q) == \E u \in Users : ProcOf[u] = q /\ call[u].at \in {"opened", "schema"}

\* The path in the state is that of the connection, but for a session that has
\* opened another and not set it yet.
PathIsOpen ==
  \A q \in Procs : BetweenOpenAndPath(q) \/ currentPath[q] = None \/ On(q, currentPath[q])

ConnInv == ClosedInSession /\ OpenedForCall /\ PathIsOpen

\* Connections are dropped and databases closed, at most.
Weakens ==
  /\ \A q \in Procs : conn'[q] \in {conn[q], None} /\ currentPath'[q] \in {currentPath[q], None}
  /\ \A h \in Handles : open'[h] \in {open[h], None}

LEMMA WeakensKeeps ==
  ASSUME StateTypes, Weakens, NEW q \in Procs, NEW p, On(q, p)
  PROVE  conn'[q] = None \/ open'[conn'[q]] \in {None, [proc |-> q, path |-> p]}
BY DEF StateTypes, Weakens, On

LEMMA ConnMoves ==
  ASSUME StateTypes, ConnInv, NEW u \in Users, OthersStay(u), Weakens,
         HasClosed(u)' => conn'[ProcOf[u]] = None,
         call'[u].at \in {"opened", "schema", "operation"} => On(ProcOf[u], call'[u].path),
         \/ call[u].at \notin {"opened", "schema"}
         \/ call'[u].at \in {"opened", "schema"}
         \/ conn'[ProcOf[u]] = None
  PROVE  ConnInv'
<1> USE LockAssumption DEF ConnInv
<1>1. ClosedInSession'
  BY DEF ClosedInSession, HasClosed, OthersStay, Weakens
<1>2. OpenedForCall'
  <2> SUFFICES ASSUME NEW v \in Users, call'[v].at \in {"opened", "schema", "operation"}
               PROVE  conn'[ProcOf[v]] = None
                      \/ open'[conn'[ProcOf[v]]] \in {None, [proc |-> ProcOf[v], path |-> call'[v].path]}
    BY DEF OpenedForCall, On
  <2>1. On(ProcOf[v], call'[v].path)
    BY DEF OpenedForCall, OthersStay
  <2> QED
    BY <2>1, WeakensKeeps
<1>3. PathIsOpen'
  <2> SUFFICES ASSUME NEW q \in Procs, ~BetweenOpenAndPath(q)', currentPath'[q] # None, conn'[q] # None
               PROVE  open'[conn'[q]] \in {None, [proc |-> q, path |-> currentPath'[q]]}
    BY DEF PathIsOpen, On
  <2>1. ~BetweenOpenAndPath(q)
    BY DEF BetweenOpenAndPath, OthersStay
  <2>2. On(q, currentPath'[q])
    BY <2>1 DEF PathIsOpen, Weakens
  <2> QED
    BY <2>2, WeakensKeeps
<1> QED
  BY <1>1, <1>2, <1>3

-----------------------------------------------------------------------------
(* Every action keeps both.                                                *)

DbInv == SessionInv /\ ConnInv

\* What the actions leave of their user's call, if it is closing.
LEMMA ClosedKeeps ==
  ASSUME BaseInv, DbInv, NEW u \in Users, Closed(u),
         call[u].at \in {"queued", "close_conn", "close_db"},
         call[u].at = "queued" => HasSession(u),
         call[u].for # "close" => conn'[ProcOf[u]] = None,
         \A q \in Procs : conn'[q] \in {conn[q], None},
         \A h \in Handles : open'[h] \in {open[h], None}
  PROVE  DbInv'
<1> USE LockAssumption, CoreDbAssumption
<1>1. /\ call[u].at # "idle" /\ call[u].for \in {"run", "reset", "close"}
      /\ call[u].for # "close" => HasSession(u)
      /\ call \in [Users -> Calls]
  BY DEF BaseInv, CallInv, PathKnown, DbInv, SessionInv, InSession
<1>2. OthersStay(u)
  BY <1>1 DEF Closed, OthersStay
<1>3. Weakens
  BY DEF Closed, Weakens, BaseInv, StateTypes
<1>4. \/ call[u].for = "run" /\ call'[u].at = "init" /\ UNCHANGED sessions /\ HasSession(u)
      \/ call[u].for = "reset" /\ call'[u].at = "backoff" /\ LeaveSession(u) /\ HasSession(u)
      \/ call[u].for = "close" /\ call'[u].at = "idle" /\ UNCHANGED sessions
  BY <1>1 DEF Closed, Calls, NoCall
<1>5. SessionInv'
  BY <1>2, <1>4, SessionMoves DEF GoesOn, Leaves, InSession, DbInv
<1>6. ConnInv'
  BY <1>2, <1>3, <1>4, ConnMoves DEF HasClosed, DbInv, BaseInv
<1> QED
  BY <1>5, <1>6 DEF DbInv

LEMMA CloseDbKeeps ==
  ASSUME BaseInv, DbInv, NEW u \in Users, CloseDb(u), UNCHANGED open,
         call[u].at \in {"queued", "close_conn"},
         call[u].at = "queued" => HasSession(u),
         conn'[ProcOf[u]] = None, \A q \in Procs : conn'[q] \in {conn[q], None}
  PROVE  DbInv'
<1> USE LockAssumption, CoreDbAssumption
<1>1. CASE Closed(u)
  BY <1>1, ClosedKeeps
<1>2. CASE /\ call' = [call EXCEPT ![u].at = "close_db", ![u].handle = db[ProcOf[u]]]
           /\ UNCHANGED <<currentPath, sessions>>
  <2>1. call \in [Users -> Calls] /\ (call[u].for # "close" => HasSession(u))
    BY DEF BaseInv, CallInv, PathKnown, DbInv, SessionInv, InSession
  <2>2. OthersStay(u) /\ call'[u].at = "close_db" /\ call'[u].for = call[u].for
    BY <1>2, <2>1 DEF OthersStay, Calls
  <2>3. SessionInv'
    BY <1>2, <2>1, <2>2, SessionMoves DEF GoesOn, InSession, DbInv
  <2>4. Weakens
    BY <1>2 DEF Weakens
  <2>5. ConnInv'
    BY <2>2, <2>4, ConnMoves DEF HasClosed, DbInv, BaseInv
  <2> QED
    BY <2>3, <2>5 DEF DbInv
<1> QED
  BY <1>1, <1>2 DEF CloseDb

LEMMA EnterSessionKeeps ==
  ASSUME BaseInv, DbInv, NEW u \in Users, EnterSession(u)
  PROVE  DbInv'
<1> USE LockAssumption, CoreDbAssumption
<1>1. /\ call \in [Users -> Calls] /\ call[u].at = "queued" /\ HasSession(u)
      /\ UNCHANGED <<open, conn>> /\ call[u].path \in Paths
  BY DEF EnterSession, BaseInv, CallInv, PathKnown
<1>2. CASE At(u, "operation") /\ UNCHANGED <<currentPath, sessions>> /\ Ready(u)
  <2>1. OthersStay(u) /\ call'[u].at = "operation" /\ call'[u].path = call[u].path
    BY <1>1, <1>2, CallAt DEF CallStates, OthersStay
  <2>2. SessionInv'
    BY <1>1, <1>2, <2>1, SessionMoves DEF GoesOn, DbInv
  <2>3. Weakens
    BY <1>1, <1>2 DEF Weakens
  <2>4. ~BetweenOpenAndPath(ProcOf[u])
    BY <1>1 DEF BetweenOpenAndPath, DbInv, SessionInv, InSession, HasSession
  <2>5. On(ProcOf[u], call[u].path)
    BY <1>1, <1>2, <2>4 DEF Ready, DbInv, ConnInv, PathIsOpen
  <2>6. ConnInv'
    BY <1>1, <2>1, <2>3, <2>5, ConnMoves DEF HasClosed, DbInv, BaseInv
  <2> QED
    BY <2>2, <2>6 DEF DbInv
<1>3. CASE At(u, "init") /\ UNCHANGED <<currentPath, sessions>> /\ conn[ProcOf[u]] = None
  <2>1. OthersStay(u) /\ call'[u].at = "init"
    BY <1>1, <1>3, CallAt DEF CallStates, OthersStay
  <2>2. SessionInv'
    BY <1>1, <1>3, <2>1, SessionMoves DEF GoesOn, DbInv
  <2>3. Weakens
    BY <1>1, <1>3 DEF Weakens
  <2>4. ConnInv'
    BY <1>1, <1>3, <2>1, <2>3, ConnMoves DEF HasClosed, DbInv, BaseInv
  <2> QED
    BY <2>2, <2>4 DEF DbInv
<1>4. CASE SafeClose(u) /\ conn[ProcOf[u]] = None
  BY <1>1, <1>4, CloseDbKeeps DEF SafeClose
<1>5. CASE SafeClose(u) /\ conn[ProcOf[u]] # None
  <2>1. OthersStay(u) /\ call'[u].at = "close_conn" /\ UNCHANGED <<currentPath, sessions>>
    BY <1>1, <1>5 DEF SafeClose, OthersStay, Calls
  <2>2. SessionInv'
    BY <1>1, <2>1, SessionMoves DEF GoesOn, DbInv
  <2>3. Weakens
    BY <1>1, <2>1 DEF Weakens
  <2>4. ConnInv'
    BY <1>1, <2>1, <2>3, ConnMoves DEF HasClosed, DbInv, BaseInv
  <2> QED
    BY <2>2, <2>4 DEF DbInv
<1> QED
  BY <1>2, <1>3, <1>4, <1>5 DEF EnterSession

LEMMA ConnClosedKeeps ==
  ASSUME BaseInv, DbInv, NEW u \in Users, ConnClosed(u)
  PROVE  DbInv'
<1> USE LockAssumption
<1>1. conn'[ProcOf[u]] = None /\ \A q \in Procs : conn'[q] \in {conn[q], None}
  BY DEF ConnClosed, BaseInv, StateTypes
<1> QED
  BY <1>1, CloseDbKeeps DEF ConnClosed

LEMMA DbClosedKeeps ==
  ASSUME BaseInv, DbInv, NEW u \in Users, DbClosed(u)
  PROVE  DbInv'
<1>1. call[u].for # "close" => conn'[ProcOf[u]] = None
  BY DEF DbClosed, DbInv, ConnInv, ClosedInSession, HasClosed
<1>2. \A h \in Handles : open'[h] \in {open[h], None}
  BY DEF DbClosed, BaseInv, StateTypes
<1> QED
  BY <1>1, <1>2, ClosedKeeps DEF DbClosed

\* A throw ends the session.
LEMMA ThrowsKeeps ==
  ASSUME BaseInv, DbInv, NEW u \in Users, NEW busy \in BOOLEAN, Throws(u, busy),
         UNCHANGED <<open, stateVars>>, InSession(u),
         call[u].at \in {"opened", "schema"} => conn[ProcOf[u]] = None
  PROVE  DbInv'
<1> USE LockAssumption
<1>1. call \in [Users -> Calls] /\ HasSession(u)
  BY DEF BaseInv, CallInv, DbInv, SessionInv
<1>2. OthersStay(u) /\ call'[u].at \in {"queued", "idle"}
  BY <1>1 DEF Throws, OthersStay, NoCall, Calls
<1>3. SessionInv'
  <2>1. Leaves(u)
    BY <1>1, <1>2 DEF Throws, Leaves, LeaveSession, InSession
  <2> QED
    BY <1>2, <2>1, SessionMoves DEF DbInv
<1>4. Weakens
  BY DEF Weakens, stateVars
<1>5. ConnInv'
  BY <1>2, <1>4, ConnMoves DEF HasClosed, DbInv, BaseInv, stateVars
<1> QED
  BY <1>3, <1>5 DEF DbInv

LEMMA OpenDbKeeps ==
  ASSUME BaseInv, DbInv, NEW u \in Users, OpenDb(u)
  PROVE  DbInv'
<1> DEFINE q == ProcOf[u]
<1> USE LockAssumption, CoreDbAssumption
<1>1. PICK h \in Handles :
        /\ Forgotten(h)
        /\ open' = [open EXCEPT ![h] = [proc |-> q, path |-> call[u].path]]
        /\ conn' = [conn EXCEPT ![q] = h]
  BY DEF OpenDb, Free
<1>2. call \in [Users -> Calls] /\ call[u].at = "init" /\ InSession(u)
  BY DEF OpenDb, BaseInv, CallInv, InSession
<1>3. OthersStay(u) /\ call'[u].at = "opened" /\ call'[u].path = call[u].path
  BY <1>2, CallAt DEF OpenDb, CallStates, OthersStay
<1>4. SessionInv'
  BY <1>2, <1>3, SessionMoves DEF OpenDb, GoesOn, DbInv
<1>5. \A v \in Users \ {u} : InSession(v) => ProcOf[v] # q
  BY <1>2, OneSession DEF DbInv
<1>6. conn'[q] = h /\ open'[h] = [proc |-> q, path |-> call[u].path]
  BY <1>1 DEF BaseInv, StateTypes
<1>7. ASSUME NEW r \in Procs \ {q}
      PROVE  conn'[r] = conn[r] /\ (conn[r] # None => open'[conn[r]] = open[conn[r]])
  BY <1>1 DEF Forgotten, BaseInv, StateTypes
<1>8. ClosedInSession'
  BY <1>3, <1>5, <1>7 DEF ClosedInSession, HasClosed, InSession, OthersStay, DbInv, ConnInv
<1>9. OpenedForCall'
  <2>1. ASSUME NEW v \in Users \ {u}, call'[v].at \in {"opened", "schema", "operation"}
        PROVE  /\ call'[v] = call[v] /\ ProcOf[v] \in Procs \ {q}
               /\ On(ProcOf[v], call[v].path)
    BY <1>3, <1>5, <2>1 DEF OthersStay, InSession, DbInv, ConnInv, OpenedForCall
  <2>2. ASSUME NEW v \in Users \ {u}, call'[v].at \in {"opened", "schema", "operation"}
        PROVE  On(ProcOf[v], call[v].path)'
    BY <1>7, <2>1, <2>2 DEF On
  <2>3. On(q, call[u].path)'
    BY <1>3, <1>6 DEF On
  <2> QED
    BY <2>2, <2>3 DEF OpenedForCall
<1>10. PathIsOpen'
  <2>1. BetweenOpenAndPath(q)'
    BY <1>3 DEF BetweenOpenAndPath
  <2>2. \A r \in Procs \ {q} : BetweenOpenAndPath(r) => BetweenOpenAndPath(r)'
    BY <1>3 DEF BetweenOpenAndPath, OthersStay
  <2>3. currentPath' = currentPath
    BY DEF OpenDb
  <2> QED
    BY <1>7, <2>1, <2>2, <2>3 DEF PathIsOpen, On, DbInv, ConnInv
<1> QED
  BY <1>4, <1>8, <1>9, <1>10 DEF DbInv, ConnInv

LEMMA InitializedKeeps ==
  ASSUME BaseInv, DbInv, NEW u \in Users, Initialized(u)
  PROVE  DbInv'
<1> DEFINE q == ProcOf[u]
<1> USE LockAssumption
<1>1. call \in [Users -> Calls] /\ call[u].at = "schema" /\ InSession(u)
  BY DEF Initialized, BaseInv, CallInv, InSession
<1>2. OthersStay(u) /\ call'[u].at = "operation" /\ call'[u].path = call[u].path
  BY <1>1, CallAt DEF Initialized, CallStates, OthersStay
<1>3. SessionInv'
  BY <1>1, <1>2, SessionMoves DEF Initialized, GoesOn, DbInv
<1>4. On(q, call[u].path)
  BY <1>1 DEF DbInv, ConnInv, OpenedForCall
<1>5. open' = open /\ conn' = conn
  BY DEF Initialized
<1>6. ClosedInSession' /\ OpenedForCall'
  BY <1>1, <1>2, <1>4, <1>5
  DEF ClosedInSession, HasClosed, OpenedForCall, On, OthersStay, DbInv, ConnInv
<1>7. PathIsOpen'
  <2>1. currentPath'[q] = call[u].path /\ \A r \in Procs \ {q} : currentPath'[r] = currentPath[r]
    BY DEF Initialized, BaseInv, StateTypes
  <2>2. \A r \in Procs \ {q} : BetweenOpenAndPath(r) => BetweenOpenAndPath(r)'
    BY <1>2 DEF BetweenOpenAndPath, OthersStay
  <2> QED
    BY <1>4, <1>5, <2>1, <2>2 DEF PathIsOpen, On, DbInv, ConnInv
<1> QED
  BY <1>3, <1>6, <1>7 DEF DbInv, ConnInv

LEMMA CrashKeeps ==
  ASSUME BaseInv, DbInv, NEW q \in Mortal, Crash(q)
  PROVE  DbInv'
<1> USE LockAssumption, CoreDbAssumption
<1>1. \A u \in Users : IF ProcOf[u] = q THEN call'[u] = NoCall ELSE call'[u] = call[u]
  BY DEF Crash
<1>2. /\ sessions' \in [Procs -> Seq(Users)]
      /\ \A r \in Procs \ {q} : sessions'[r] = sessions[r]
  BY DEF Crash, DbInv, SessionInv
<1>3. SessionInv'
  <2>1. ASSUME NEW v \in Users, InSession(v)' PROVE HasSession(v)'
    <3>1. ProcOf[v] # q
      BY <1>1, <2>1 DEF InSession, NoCall
    <3>2. InSession(v)
      BY <1>1, <2>1, <3>1 DEF InSession
    <3> QED
      BY <1>2, <3>1, <3>2 DEF DbInv, SessionInv, HasSession
  <2> QED
    BY <1>2, <2>1 DEF SessionInv
<1>4. Weakens /\ conn'[q] = None
  BY DEF Crash, Weakens, BaseInv, StateTypes
<1>5. ClosedInSession'
  BY <1>1, <1>4 DEF ClosedInSession, HasClosed, Weakens, NoCall, DbInv, ConnInv
<1>6. OpenedForCall'
  <2> SUFFICES ASSUME NEW v \in Users, call'[v].at \in {"opened", "schema", "operation"}
               PROVE  conn'[ProcOf[v]] = None
                      \/ open'[conn'[ProcOf[v]]] \in {None, [proc |-> ProcOf[v], path |-> call'[v].path]}
    BY DEF OpenedForCall, On
  <2>1. On(ProcOf[v], call'[v].path)
    BY <1>1 DEF OpenedForCall, DbInv, ConnInv, NoCall
  <2> QED
    BY <1>4, <2>1, WeakensKeeps DEF BaseInv
<1>7. PathIsOpen'
  <2> SUFFICES ASSUME NEW r \in Procs, ~BetweenOpenAndPath(r)', currentPath'[r] # None, conn'[r] # None
               PROVE  open'[conn'[r]] \in {None, [proc |-> r, path |-> currentPath'[r]]}
    BY DEF PathIsOpen, On
  <2>1. ~BetweenOpenAndPath(r)
    BY <1>1, <1>4 DEF BetweenOpenAndPath
  <2>2. On(r, currentPath'[r])
    BY <1>4, <2>1 DEF PathIsOpen, Weakens, DbInv, ConnInv
  <2> QED
    BY <1>4, <2>2, WeakensKeeps DEF BaseInv
<1> QED
  BY <1>3, <1>5, <1>6, <1>7 DEF DbInv, ConnInv

\* The actions that change neither the connection nor the path in the state, and
\* those that are nobody's.
LEMMA OthersKeep ==
  ASSUME BaseInv, DbInv, NEW u \in Users, OthersStay(u), Weakens,
         GoesOn(u) \/ Joins(u) \/ Leaves(u),
         HasClosed(u)' => HasClosed(u),
         call'[u].at \in {"opened", "schema", "operation"} =>
           /\ call[u].at \in {"opened", "schema", "operation"}
           /\ call'[u].path = call[u].path,
         call[u].at \in {"opened", "schema"} => call'[u].at \in {"opened", "schema"}
  PROVE  DbInv'
<1>1. SessionInv'
  BY SessionMoves DEF DbInv
<1>2. HasClosed(u)' => conn'[ProcOf[u]] = None
  BY LockAssumption DEF DbInv, ConnInv, ClosedInSession, Weakens
<1>3. call'[u].at \in {"opened", "schema", "operation"} => On(ProcOf[u], call'[u].path)
  BY DEF DbInv, ConnInv, OpenedForCall
<1>4. ConnInv'
  BY <1>2, <1>3, ConnMoves DEF DbInv, BaseInv
<1> QED
  BY <1>1, <1>4 DEF DbInv

LEMMA StepDbInv ==
  ASSUME BaseInv, DbInv, [Next]_vars
  PROVE  DbInv'
<1> USE LockAssumption, CoreDbAssumption
<1>1. call \in [Users -> Calls]
  BY DEF BaseInv, CallInv
<1>2. ASSUME NEW u \in Users, NEW p \in Wants[u], WithLbugDb(u, p) PROVE DbInv'
  <2>1. OthersStay(u) /\ call'[u].at = "queued" /\ call[u].at = "idle" /\ Weakens /\ Joins(u)
    BY <1>1, <1>2 DEF WithLbugDb, OthersStay, NoCall, Weakens, stateVars, Joins, InSession
  <2> QED
    BY <2>1, OthersKeep DEF HasClosed
<1>3. ASSUME NEW u \in Users, CloseLbug(u) PROVE DbInv'
  <2>1. /\ OthersStay(u) /\ call'[u].at \in {"close_conn", "close_db"} /\ call'[u].for = "close"
        /\ call[u].at = "idle" /\ Weakens /\ UNCHANGED sessions
    BY <1>1, <1>3 DEF CloseLbug, OthersStay, NoCall, Weakens, stateVars
  <2>2. GoesOn(u) /\ ~HasClosed(u)'
    BY <2>1 DEF GoesOn, InSession, HasClosed
  <2> QED
    BY <2>1, <2>2, OthersKeep
<1>4. ASSUME NEW u \in Users, Backoff(u) PROVE DbInv'
  <2>1. OthersStay(u) /\ call'[u].at = "queued" /\ call[u].at = "backoff" /\ Weakens /\ Joins(u)
    BY <1>1, <1>4 DEF Backoff, OthersStay, Calls, Weakens, stateVars, Joins, InSession
  <2> QED
    BY <2>1, OthersKeep DEF HasClosed
<1>5. ASSUME NEW u \in Users, LockAcquisition(u) PROVE DbInv'
  <2>1. UNCHANGED <<call, sessions>> /\ Weakens
    BY <1>5 DEF LockAcquisition, Weakens, stateVars
  <2> QED
    BY <2>1, OthersKeep DEF OthersStay, GoesOn, InSession, HasClosed
<1>6. ASSUME NEW u \in Users, LockFailed(u) \/ SchemaFails(u) \/ QueryFails(u) PROVE DbInv'
  BY <1>6, ThrowsKeeps DEF LockFailed, SchemaFails, QueryFails, InSession
<1>7. ASSUME NEW u \in Users, OpenFails(u) PROVE DbInv'
  <2>1. /\ OthersStay(u) /\ call'[u].at = "failed" /\ call[u].at = "init" /\ Weakens
        /\ UNCHANGED sessions
    BY <1>1, <1>7, CallAt DEF OpenFails, OthersStay, CallStates, Weakens, stateVars
  <2> QED
    BY <2>1, OthersKeep DEF GoesOn, InSession, HasClosed
<1>8. ASSUME NEW u \in Users, ReleaseLock(u) PROVE DbInv'
  <2>1. CASE call[u].at = "opened" /\ At(u, "schema") /\ UNCHANGED sessions
    <3>1. OthersStay(u) /\ call'[u].at = "schema" /\ call'[u].path = call[u].path /\ Weakens
      BY <1>1, <1>8, <2>1, CallAt DEF ReleaseLock, OthersStay, CallStates, Weakens, stateVars
    <3> QED
      BY <2>1, <3>1, OthersKeep DEF GoesOn, InSession, HasClosed
  <2>2. CASE call[u].at = "failed" /\ Throws(u, FALSE)
    BY <1>8, <2>2, ThrowsKeeps DEF ReleaseLock, InSession
  <2> QED
    BY <1>8, <2>1, <2>2 DEF ReleaseLock
<1>9. ASSUME NEW u \in Users, Query(u) PROVE DbInv'
  <2>1. /\ OthersStay(u) /\ call'[u].at = "idle" /\ call[u].at = "operation" /\ Weakens
        /\ LeaveSession(u)
    BY <1>1, <1>9 DEF Query, OthersStay, NoCall, Weakens, stateVars
  <2>2. Leaves(u)
    BY <2>1 DEF Leaves, InSession, DbInv, SessionInv
  <2> QED
    BY <2>1, <2>2, OthersKeep DEF HasClosed
<1>10. ASSUME UNCHANGED <<call, sessions>>, Weakens PROVE DbInv'
  <2>1. CASE Users = {}
    <3>1. SessionInv' /\ ClosedInSession' /\ OpenedForCall'
      BY <1>10, <2>1 DEF DbInv, SessionInv, ClosedInSession, OpenedForCall
    <3>2. PathIsOpen'
      <4> SUFFICES ASSUME NEW q \in Procs, currentPath'[q] # None, conn'[q] # None
                   PROVE  open'[conn'[q]] \in {None, [proc |-> q, path |-> currentPath'[q]]}
        BY DEF PathIsOpen, On
      <4>1. On(q, currentPath'[q])
        BY <1>10, <2>1 DEF PathIsOpen, BetweenOpenAndPath, Weakens, DbInv, ConnInv
      <4> QED
        BY <1>10, <4>1, WeakensKeeps DEF BaseInv
    <3> QED
      BY <3>1, <3>2 DEF DbInv, ConnInv
  <2>2. CASE Users # {}
    BY <1>10, <2>2, OthersKeep DEF OthersStay, GoesOn, InSession, HasClosed
  <2> QED
    BY <2>1, <2>2
<1>11. ASSUME NEW h \in Handles, Collect(h) PROVE DbInv'
  BY <1>10, <1>11 DEF Collect, Weakens, stateVars, BaseInv, StateTypes
<1>12. ASSUME NEW p \in Paths, Ages(p) PROVE DbInv'
  BY <1>10, <1>12 DEF Ages, Weakens, stateVars
<1>13. CASE UNCHANGED vars
  BY <1>10, <1>13 DEF vars, Weakens, stateVars
<1> QED
  BY <1>2, <1>3, <1>4, <1>5, <1>6, <1>7, <1>8, <1>9, <1>11, <1>12, <1>13, EnterSessionKeeps,
     ConnClosedKeeps, DbClosedKeeps, OpenDbKeeps, InitializedKeeps, CrashKeeps
  DEF Next, UserStep

\* A query of an operation runs on the database the operation asked for, whatever
\* fails, whoever dies, and though closeLbug runs beside the sessions.
THEOREM RightDatabaseHolds == Spec => []RightDatabase
<1>1. Init => DbInv
  BY LockAssumption, CoreDbAssumption
  DEF Init, DbInv, SessionInv, InSession, ConnInv, ClosedInSession, HasClosed, OpenedForCall,
      PathIsOpen, NoCall
<1>2. BaseInv /\ DbInv /\ [Next]_vars => DbInv'
  BY StepDbInv
<1>3. DbInv => RightDatabase
  BY DEF DbInv, ConnInv, OpenedForCall, On, RightDatabase
<1> QED
  BY <1>1, <1>2, <1>3, Base, PTL DEF Spec
=============================================================================

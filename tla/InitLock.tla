------------------------------ MODULE InitLock ------------------------------
(***************************************************************************)
(* The init lock of core/lbug/lbug-adapter/lifecycle-schema.ts: a file     *)
(* beside the database, created with O_EXCL, that names the process of its *)
(* holder, and which whoever finds it may break when that process is gone  *)
(* or the file is 30 seconds old.                                          *)
(*                                                                         *)
(* A process has one acquisition of a path in progress for each of its     *)
(* users.  Pauses between attempts are left out: any step may be late.     *)
(***************************************************************************)
EXTENDS Naturals

CONSTANTS
  Users,         \* callers of withLbugDb
  Procs,         \* processes
  ProcOf,        \* the process of each user
  Paths,         \* databases
  LockAttempts,  \* INIT_LOCK_MAX_ATTEMPTS
  None,
  Adversity

ASSUME LockAssumption ==
  /\ ProcOf \in [Users -> Procs] /\ LockAttempts \in Nat \ {0}
  /\ None \notin Procs

\* "racing_break"  a lock judged stale is unlinked after somebody else broke it
\*                 and made a new one, which goes in its place
\* "slow_holder"   a live process holds its lock for 30 seconds
\* "torn_lock"     a process dies between creating its lock and writing it
LockAdversities == {"racing_break", "slow_holder", "torn_lock"}

VARIABLES
  lock,  \* the lock file of each database
  acq    \* each user's acquireInitLock

lockVars == <<lock, acq>>

\* owner: the process the file names, None when it is dead; text: the payload may
\* not be in the file yet; age: its time is 30 seconds ago, or not.
Locks == [owner : Procs \cup {None}, by : Users, text : {"empty", "payload"}, age : {"young", "old"}]

ASSUME NoLockAssumption == None \notin Locks

NotAcquiring == [at |-> "no", path |-> None, attempt |-> 0]

LockInit == lock = [p \in Paths |-> None] /\ acq = [u \in Users |-> NotAcquiring]

Holds(u) == acq[u].at \in {"write", "held"}

-----------------------------------------------------------------------------
AcquireInitLock(u, p) ==
  /\ acq' = [acq EXCEPT ![u] = [at |-> "create", path |-> p, attempt |-> 1]]
  /\ UNCHANGED lock

\* A lock of this path was judged stale and is about to be unlinked.
BreakPending(p) == \E u \in Users : acq[u].at = "unlink" /\ acq[u].path = p

\* fs.open with O_CREAT | O_EXCL.
CreateLock(u) ==
  LET p == acq[u].path IN
  /\ acq[u].at = "create"
  /\ IF lock[p] = None
     THEN /\ BreakPending(p) => "racing_break" \in Adversity
          /\ lock' = [lock EXCEPT ![p] = [owner |-> ProcOf[u], by |-> u,
                                          text |-> "empty", age |-> "young"]]
          /\ acq' = [acq EXCEPT ![u].at = "write"]
     ELSE acq' = [acq EXCEPT ![u].at = "inspect"] /\ UNCHANGED lock

\* The payload goes into the file that was created, be it still there or not.
WriteLock(u) ==
  LET p == acq[u].path IN
  /\ acq[u].at = "write"
  /\ acq' = [acq EXCEPT ![u].at = "held"]
  /\ IF lock[p] # None /\ lock[p].by = u
     THEN lock' = [lock EXCEPT ![p].text = "payload"]
     ELSE UNCHANGED lock

\* After a lock that stands, or was broken: another attempt, or the last error.
TryAgain(u) ==
  acq' = IF acq[u].attempt < LockAttempts
         THEN [acq EXCEPT ![u].at = "create", ![u].attempt = @ + 1]
         ELSE [acq EXCEPT ![u].at = "failed"]

\* A test that looks at the age of the lock only.
StaleWhenOld(l) == l.age = "old"

\* A test that takes every lock it can read for stale.
StaleAlways(l) == TRUE

Stale(l) == l.owner = None \/ l.age = "old"

\* A lock without its payload cannot be parsed and is left alone.
InspectLock(u) ==
  LET l == lock[acq[u].path] IN
  /\ acq[u].at = "inspect"
  /\ \/ l # None /\ l.text = "payload" /\ Stale(l)
        /\ acq' = [acq EXCEPT ![u].at = "unlink"]
     \/ (l # None => ~(l.text = "payload" /\ Stale(l))) /\ TryAgain(u)
  /\ UNCHANGED lock

\* unlink takes whatever file has the name now.
BreakLock(u) ==
  LET p == acq[u].path IN
  /\ acq[u].at = "unlink"
  /\ lock' = [lock EXCEPT ![p] = None]
  /\ TryAgain(u)

ReleaseInitLock(u) ==
  /\ acq[u].at = "held"
  /\ lock' = [lock EXCEPT ![acq[u].path] = None]
  /\ acq' = [acq EXCEPT ![u] = NotAcquiring]

\* Thirty seconds have passed since the holder computed the payload.
LockAges(p) ==
  /\ lock[p] # None
  /\ lock[p].age = "young"
  /\ lock[p].owner # None => "slow_holder" \in Adversity
  /\ lock' = [lock EXCEPT ![p].age = "old"]
  /\ UNCHANGED acq

\* A process dies; its files stay.
LockOwnerDies(q) ==
  /\ (\E u \in Users : ProcOf[u] = q /\ acq[u].at = "write") => "torn_lock" \in Adversity
  /\ lock' = [p \in Paths |-> IF lock[p] # None /\ lock[p].owner = q
                              THEN [lock[p] EXCEPT !.owner = None]
                              ELSE lock[p]]
  /\ acq' = [u \in Users |-> IF ProcOf[u] = q THEN NotAcquiring ELSE acq[u]]

LockStep(u) == CreateLock(u) \/ WriteLock(u) \/ InspectLock(u) \/ BreakLock(u)

-----------------------------------------------------------------------------
LeftByTheDead(p) == lock[p] # None /\ lock[p].owner = None

\* A crash during initialisation does not lock the database: whoever gives up
\* the lock leaves no lock of a dead process behind ("PID is gone or lock
\* exceeded INIT_LOCK_STALE_MS - reclaim it", lifecycle-schema.ts:83).
OnlyTheLivingRefuse ==
  [][\A u \in Users : acq'[u].at = "failed" /\ acq[u].at # "failed" =>
       ~LeftByTheDead(acq[u].path)']_lockVars
=============================================================================

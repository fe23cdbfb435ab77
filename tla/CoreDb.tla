------------------------------- MODULE CoreDb -------------------------------
(***************************************************************************)
(* The writable database of a process, core/lbug/lbug-adapter: one open    *)
(* database and connection in module state, which the sessions of          *)
(* withLbugDb switch from path to path under a session lock, and which     *)
(* closeLbug takes away without it (DELETE /api/repo, shutdown).           *)
(*                                                                         *)
(* A handle stands for a Database and its Connection.  An operation makes  *)
(* one query; what it reads, the schema and the extensions are left out,   *)
(* as are old-style directories and orphan sidecars beside the database.   *)
(* The file lock of the database itself is external: a second process      *)
(* cannot open what another has open.                                      *)
(***************************************************************************)
EXTENDS InitLock, Sequences

CONSTANTS
  Closers,      \* the users that call closeLbug, too
  Wants,        \* the databases each asks for
  Handles,      \* bounds the databases open at one time
  DbAttempts,   \* DB_LOCK_RETRY_ATTEMPTS
  Mortal,       \* the processes that may die
  MaxCrashes    \* bound on how often

ASSUME CoreDbAssumption ==
  /\ Closers \subseteq Users /\ Wants \in [Users -> SUBSET Paths] /\ None \notin Handles /\ None \notin Paths
  /\ DbAttempts \in Nat \ {0} /\ Mortal \subseteq Procs /\ MaxCrashes \in Nat

\* "unlocked_close"  closeLbug runs while a session is in progress
\* "query_busy"      a query fails because the database is busy
\* "open_fail"       the database file cannot be opened
CoreDbAdversities == LockAdversities \cup {"unlocked_close", "query_busy", "open_fail"}

ASSUME AdversityAssumption == Adversity \subseteq CoreDbAdversities

VARIABLES
  open,         \* databases open natively
  conn, db,     \* adapterState.conn, adapterState.db of each process
  currentPath,  \* adapterState.currentDbPath
  sessions,     \* the chain of sessionLock: who has it, and who waits
  call,
  crashes

stateVars == <<conn, db, currentPath>>
vars == <<lockVars, open, stateVars, sessions, call, crashes>>

NoCall == [at |-> "idle", for |-> None, path |-> None, attempt |-> 0, handle |-> None]

Init ==
  /\ LockInit
  /\ open = [h \in Handles |-> None]
  /\ conn = [q \in Procs |-> None] /\ db = [q \in Procs |-> None]
  /\ currentPath = [q \in Procs |-> None]
  /\ sessions = [q \in Procs |-> <<>>]
  /\ call = [u \in Users |-> NoCall] /\ crashes = 0

At(u, s) == call' = [call EXCEPT ![u].at = s]

HasSession(u) == sessions[ProcOf[u]] # <<>> /\ Head(sessions[ProcOf[u]]) = u

\* The promise of the session is resolved; the next in the chain goes on.
LeaveSession(u) == sessions' = [sessions EXCEPT ![ProcOf[u]] = Tail(@)]

-----------------------------------------------------------------------------
(* safeClose.                                                              *)

\* Everything is closed: doInitLbug goes on, the cleaning session ends and the
\* next attempt is waited for, or closeLbug returns.
Closed(u) ==
  /\ currentPath' = [currentPath EXCEPT ![ProcOf[u]] = None]
  /\ \/ /\ call[u].for = "run"
        /\ call' = [call EXCEPT ![u].at = "init", ![u].handle = None]
        /\ AcquireInitLock(u, call[u].path)
        /\ UNCHANGED sessions
     \/ /\ call[u].for = "reset"
        /\ call' = [call EXCEPT ![u].at = "backoff", ![u].handle = None]
        /\ LeaveSession(u)
        /\ UNCHANGED lockVars
     \/ /\ call[u].for = "close"
        /\ call' = [call EXCEPT ![u] = NoCall]
        /\ UNCHANGED <<lockVars, sessions>>

\* The database left in the state is closed next, if there is one.
CloseDb(u) ==
  LET h == db[ProcOf[u]] IN
  IF h # None
  THEN /\ call' = [call EXCEPT ![u].at = "close_db", ![u].handle = h]
       /\ UNCHANGED <<lockVars, currentPath, sessions>>
  ELSE Closed(u)

\* safeClose: the connection is flushed and closed first.
SafeClose(u) ==
  IF conn[ProcOf[u]] # None
  THEN /\ call' = [call EXCEPT ![u].at = "close_conn"]
       /\ UNCHANGED <<lockVars, currentPath, sessions>>
  ELSE CloseDb(u)

\* The connection in the state is dropped, even if it is a new one by now.
ConnClosed(u) ==
  /\ call[u].at = "close_conn"
  /\ conn' = [conn EXCEPT ![ProcOf[u]] = None]
  /\ CloseDb(u)
  /\ UNCHANGED <<open, db, crashes>>

\* So is the database.
DbClosed(u) ==
  /\ call[u].at = "close_db"
  /\ open' = [open EXCEPT ![call[u].handle] = None]
  /\ db' = [db EXCEPT ![ProcOf[u]] = None]
  /\ Closed(u)
  /\ UNCHANGED <<conn, crashes>>

-----------------------------------------------------------------------------
(* Calls.                                                                  *)

Closing(q) == \E u \in Users : ProcOf[u] = q /\ call[u].for = "close"

WithLbugDb(u, p) ==
  /\ call[u].at = "idle"
  /\ Closing(ProcOf[u]) => "unlocked_close" \in Adversity
  /\ call' = [call EXCEPT ![u] = [NoCall EXCEPT !.at = "queued", !.for = "run",
                                                !.path = p, !.attempt = 1]]
  /\ sessions' = [sessions EXCEPT ![ProcOf[u]] = Append(@, u)]
  /\ UNCHANGED <<lockVars, open, stateVars, crashes>>

CloseLbug(u) ==
  /\ u \in Closers /\ call[u].at = "idle"
  /\ conn[ProcOf[u]] # None \/ db[ProcOf[u]] # None
  /\ sessions[ProcOf[u]] # <<>> => "unlocked_close" \in Adversity
  /\ call' = [call EXCEPT ![u] = [NoCall EXCEPT !.for = "close",
                !.at = IF conn[ProcOf[u]] # None THEN "close_conn" ELSE "close_db",
                !.handle = IF conn[ProcOf[u]] # None THEN None ELSE db[ProcOf[u]]]]
  /\ UNCHANGED <<lockVars, open, stateVars, sessions, crashes>>

\* A session that keeps any connection there is.
ReadyAnyPath(u) == conn[ProcOf[u]] # None

Ready(u) == conn[ProcOf[u]] # None /\ currentPath[ProcOf[u]] = call[u].path

\* The session begins: ensureLbugInitialized, or the cleaning between attempts.
EnterSession(u) ==
  LET q == ProcOf[u] IN
  /\ call[u].at = "queued" /\ HasSession(u)
  /\ \/ /\ call[u].for = "run" /\ Ready(u)
        /\ At(u, "operation")
        /\ UNCHANGED <<lockVars, currentPath, sessions>>
     \/ /\ call[u].for = "run" /\ ~Ready(u)
        /\ conn[q] = None /\ db[q] = None
        /\ At(u, "init") /\ AcquireInitLock(u, call[u].path)
        /\ UNCHANGED <<currentPath, sessions>>
     \/ /\ call[u].for = "run" /\ ~Ready(u)
        /\ conn[q] # None \/ db[q] # None
        /\ SafeClose(u)
     \/ call[u].for = "reset" /\ SafeClose(u)
  /\ UNCHANGED <<open, conn, db, crashes>>

-----------------------------------------------------------------------------
(* The rest of doInitLbug, and the operation.                              *)

\* A throw that forgets the session it is in.
ThrowsInSession(u, busy) ==
  /\ call' = [call EXCEPT ![u] = NoCall]
  /\ UNCHANGED sessions

\* An error leaves the session.  A busy database is tried again, after a session
\* that closes it.
Throws(u, busy) ==
  IF busy /\ call[u].attempt < DbAttempts
  THEN /\ call' = [call EXCEPT ![u].at = "queued", ![u].for = "reset"]
       /\ sessions' = [sessions EXCEPT ![ProcOf[u]] = Append(Tail(@), u)]
  ELSE /\ call' = [call EXCEPT ![u] = NoCall]
       /\ LeaveSession(u)

Backoff(u) ==
  /\ call[u].at = "backoff"
  /\ call' = [call EXCEPT ![u].at = "queued", ![u].for = "run",
                           ![u].attempt = call[u].attempt + 1]
  /\ sessions' = [sessions EXCEPT ![ProcOf[u]] = Append(@, u)]
  /\ UNCHANGED <<lockVars, open, stateVars, crashes>>

\* "unable to acquire init lock" reads like a busy database.
LockFailed(u) ==
  /\ call[u].at = "init" /\ acq[u].at = "failed"
  /\ acq' = [acq EXCEPT ![u] = NotAcquiring]
  /\ Throws(u, TRUE)
  /\ UNCHANGED <<lock, open, stateVars, crashes>>

\* Nothing refers to the handle.
Forgotten(h) ==
  /\ \A q \in Procs : h \notin {conn[q], db[q]}
  /\ \A u \in Users : call[u].handle # h

\* The names for a new one; a database that is forgotten and still open is at the
\* latest collected now.
Free == {h \in Handles : Forgotten(h)}

OpenElsewhere(u) ==
  \E h \in Handles : open[h] # None /\ open[h].path = call[u].path /\ open[h].proc # ProcOf[u]

OpenDb(u) ==
  /\ call[u].at = "init" /\ acq[u].at = "held"
  /\ ~OpenElsewhere(u)
  /\ Free # {}
  /\ LET h == CHOOSE k \in Free : TRUE IN
       /\ open' = [open EXCEPT ![h] = [proc |-> ProcOf[u], path |-> call[u].path]]
       /\ conn' = [conn EXCEPT ![ProcOf[u]] = h]
       /\ db' = [db EXCEPT ![ProcOf[u]] = h]
  /\ At(u, "opened")
  /\ UNCHANGED <<lockVars, currentPath, sessions, crashes>>

\* The retries are used up, which withLbugDb does not try again, or the file
\* cannot be opened.
OpenFails(u) ==
  /\ call[u].at = "init" /\ acq[u].at = "held"
  /\ OpenElsewhere(u) \/ "open_fail" \in Adversity
  /\ At(u, "failed")
  /\ UNCHANGED <<lockVars, open, stateVars, sessions, crashes>>

ReleaseLock(u) ==
  /\ call[u].at \in {"opened", "failed"}
  /\ ReleaseInitLock(u)
  /\ \/ call[u].at = "opened" /\ At(u, "schema") /\ UNCHANGED sessions
     \/ call[u].at = "failed" /\ Throws(u, FALSE)
  /\ UNCHANGED <<open, stateVars, crashes>>

\* Schema and extensions need a connection when they begin, and are done with it
\* when the path is set.
Initialized(u) ==
  /\ call[u].at = "schema"
  /\ currentPath' = [currentPath EXCEPT ![ProcOf[u]] = call[u].path]
  /\ At(u, "operation")
  /\ UNCHANGED <<lockVars, open, conn, db, sessions, crashes>>

SchemaFails(u) ==
  /\ call[u].at = "schema"
  /\ conn[ProcOf[u]] = None
  /\ Throws(u, FALSE)
  /\ UNCHANGED <<lockVars, open, stateVars, crashes>>

\* The query of the operation, on the connection there is.
Query(u) ==
  /\ call[u].at = "operation"
  /\ conn[ProcOf[u]] # None
  /\ call' = [call EXCEPT ![u] = NoCall]
  /\ LeaveSession(u)
  /\ UNCHANGED <<lockVars, open, stateVars, crashes>>

QueryFails(u) ==
  /\ call[u].at = "operation"
  /\ \/ conn[ProcOf[u]] = None /\ Throws(u, FALSE)
     \/ conn[ProcOf[u]] # None /\ "query_busy" \in Adversity /\ Throws(u, TRUE)
  /\ UNCHANGED <<lockVars, open, stateVars, crashes>>

-----------------------------------------------------------------------------
(* The environment.                                                        *)

\* A database that nothing refers to any more is closed by its finaliser.
Collect(h) ==
  /\ open[h] # None /\ Forgotten(h)
  /\ open' = [open EXCEPT ![h] = None]
  /\ UNCHANGED <<lockVars, stateVars, sessions, call, crashes>>

Crash(q) ==
  /\ crashes < MaxCrashes
  /\ crashes' = crashes + 1
  /\ LockOwnerDies(q)
  /\ open' = [h \in Handles |-> IF open[h] # None /\ open[h].proc = q THEN None ELSE open[h]]
  /\ conn' = [conn EXCEPT ![q] = None] /\ db' = [db EXCEPT ![q] = None]
  /\ currentPath' = [currentPath EXCEPT ![q] = None]
  /\ sessions' = [sessions EXCEPT ![q] = <<>>]
  /\ call' = [u \in Users |-> IF ProcOf[u] = q THEN NoCall ELSE call[u]]

LockAcquisition(u) ==
  /\ LockStep(u)
  /\ UNCHANGED <<open, stateVars, sessions, call, crashes>>

Ages(p) == LockAges(p) /\ UNCHANGED <<open, stateVars, sessions, call, crashes>>

UserStep(u) ==
  \/ EnterSession(u) \/ ConnClosed(u) \/ DbClosed(u) \/ Backoff(u)
  \/ LockAcquisition(u) \/ LockFailed(u) \/ OpenDb(u) \/ OpenFails(u) \/ ReleaseLock(u)
  \/ Initialized(u) \/ SchemaFails(u) \/ Query(u) \/ QueryFails(u)

Next ==
  \/ \E u \in Users : CloseLbug(u) \/ UserStep(u) \/ \E p \in Wants[u] : WithLbugDb(u, p)
  \/ \E h \in Handles : Collect(h)
  \/ \E q \in Mortal : Crash(q)
  \/ \E p \in Paths : Ages(p)

Spec == Init /\ [][Next]_vars

\* What a call does next.
CallStep(u) == call[u].at # "idle" /\ UserStep(u)

\* The event loop runs what is due, native calls return and timers fire.  Nothing
\* makes anybody call.
FairSpec ==
  /\ Spec
  /\ \A u \in Users : WF_vars(CallStep(u))

-----------------------------------------------------------------------------
(* Properties.                                                             *)

\* A query of an operation runs on the database the operation asked for, or on
\* none, though closeLbug changes the state under it ("While the callback runs,
\* no other request can switch the active DB", lifecycle-schema.ts:201).
RightDatabase ==
  \A u \in Users :
    call[u].at = "operation" /\ conn[ProcOf[u]] # None =>
      open[conn[ProcOf[u]]] \in {None, [proc |-> ProcOf[u], path |-> call[u].path]}

\* Who has been granted the opening of database p.
Openers(p) == {u \in Users : Holds(u) /\ acq[u].path = p}

Opening == INSTANCE Exclusive
  WITH Resources <- Paths, Parties <- Users, users <- [p \in Paths |-> Openers(p)]

\* One opener at a time per database, over all processes, whoever dies holding
\* the lock ("Acquire a cross-process init lock", lifecycle-schema.ts:103): the
\* lock implements exclusive use.
OneOpener == Opening!Spec

\* Every call ends, whatever fails in its session or in the ones before it.
CallsEnd == \A u \in Users : call[u].at # "idle" ~> call[u].at = "idle"
=============================================================================

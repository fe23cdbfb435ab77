------------------------------ MODULE RepoLocks ------------------------------
(***************************************************************************)
(* activeRepoPaths of gitnexus/src/server/api.ts: one in-memory set of     *)
(* storage paths that the analyze, embed and delete handlers share.  The   *)
(* set does not record who put a path in, and releasing deletes the path   *)
(* whoever holds it.                                                       *)
(***************************************************************************)
CONSTANT Paths   \* lock keys: storage paths of the target directories

VARIABLE locks   \* activeRepoPaths

\* acquireRepoLock succeeds when the path is not in the set.
Available(p) == p \notin locks
AcquireUnchecked(p) == locks' = locks \cup {p}
AcquireLock(p) == Available(p) /\ locks' = locks \cup {p}

\* releaseRepoLock.
ReleaseLock(p) == locks' = locks \ {p}
=============================================================================

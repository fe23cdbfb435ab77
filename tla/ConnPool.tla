------------------------------ MODULE ConnPool ------------------------------
(***************************************************************************)
(* The pool of repositories of gitnexus/src/core/lbug/pool-adapter.ts:     *)
(* initLbug with its deduplication, its retries and its asynchronous       *)
(* steps, the native databases shared by path with their reference counts, *)
(* LRU eviction, the idle sweep and closeLbug.                             *)
(*                                                                         *)
(* PoolAdversity: a native call outlasts QUERY_TIMEOUT_MS (query_timeout), *)
(* closeLbug is called while calls are in progress (close), opening or     *)
(* pre-warming fails (open_fail), two repository ids with one directory    *)
(* open it at the same time (racing_open).                                 *)
(*                                                                         *)
(* lastUsed is abstracted: any entry with nothing checked out may be the   *)
(* oldest one, or may have been idle for five minutes.  touchRepo, which   *)
(* only sets it, has therefore no action.  The attempts to open a database *)
(* - three on a lock, one more after a corrupt log was moved away - are    *)
(* one phase.  initLbugWithDb serves tests and is left out.                *)
(***************************************************************************)
EXTENDS ConnCheckout

CONSTANTS
  Repos,    \* repository ids
  MaxPool,  \* MAX_POOL_SIZE
  MaxRefs   \* bound on the reference count, which a failed pre-warm leaks

ASSUME PoolAssumption ==
  /\ IsFiniteSet(Repos) /\ MaxPool \in Nat \ {0} /\ MaxRefs \in Nat

VARIABLES
  pool,     \* repository -> its entry
  init,     \* the initLbug in progress for a repository (initPromises)
  dbCache,  \* path -> the shared database
  shared    \* the SharedDB objects: native database open, refCount, ftsLoaded

poolVars == <<entries, callers, abandoned, pool, init, dbCache, shared>>

NotInit == [phase |-> "none", path |-> None, db |-> None]
Unused == [state |-> "closed", refs |-> 0, fts |-> "absent"]

PoolInit ==
  /\ entries = [e \in Entries |-> [NewEntry(None, None) EXCEPT !.state = "closed", !.available = {}]]
  /\ callers = [c \in Callers |-> Idle]
  /\ abandoned = {}
  /\ pool = [r \in Repos |-> None]
  /\ init = [r \in Repos |-> NotInit]
  /\ dbCache = [p \in DbPaths |-> None]
  /\ shared = [d \in Dbs |-> Unused]

Pooled == {r \in Repos : pool[r] # None}

\* Identities nobody refers to any more.
FreeEntries ==
  {e \in Entries : /\ ~IsOpen(e)
                   /\ Users(e) = {}
                   /\ \A k \in Conns : <<e, k>> \notin abandoned}
FreeDbs ==
  {d \in Dbs : /\ shared[d].state = "closed"
               /\ \A r \in Repos : init[r].db # d
               /\ \A r \in Pooled : entries[pool[r]].db # d}

-----------------------------------------------------------------------------
\* closeOne of the repositories in R, one after the other: entry and available
\* connections closed, one reference to the database cached for the path given
\* back, the database closed with the last one.  What nobody reads in a closed
\* entry is blanked.
Released(R, p) == Cardinality({r \in R : entries[pool[r]].path = p})
\* Without the count: the first reference given back closes the database.
LastRefFirst(R, p) == dbCache[p] # None /\ Released(R, p) > 0
LastRef(R, p) ==
  /\ dbCache[p] # None
  /\ Released(R, p) > 0
  /\ shared[dbCache[p]].refs <= Released(R, p)

PoolAfter(R) == [r \in Repos |-> IF r \in R THEN None ELSE pool[r]]
EntriesAfter(R) ==
  [e \in Entries |->
     IF \E r \in R : pool[r] = e
     THEN [NewEntry(None, None) EXCEPT
             !.waiters = entries[e].waiters, !.state = "closed", !.available = {}]
     ELSE entries[e]]
CacheAfter(R) == [p \in DbPaths |-> IF LastRef(R, p) THEN None ELSE dbCache[p]]
SharedAfter(R) ==
  [d \in Dbs |-> IF \E p \in DbPaths : dbCache[p] = d
                 THEN LET p == CHOOSE q \in DbPaths : dbCache[q] = d IN
                      IF LastRef(R, p) THEN Unused
                      ELSE [shared[d] EXCEPT !.refs = @ - Released(R, p)]
                 ELSE shared[d]]

\* An eviction that does not ask whether anything is checked out.
VictimsBusy ==
  IF Cardinality(Pooled) < MaxPool THEN {{}} ELSE {{r} : r \in Pooled}

\* evictLRU: at capacity one repository with nothing checked out goes, if any.
Victims ==
  LET idle == {r \in Pooled : entries[pool[r]].checkedOut = 0} IN
  IF Cardinality(Pooled) < MaxPool \/ idle = {} THEN {{}} ELSE {{r} : r \in idle}

-----------------------------------------------------------------------------
\* The end of doInitLbug: the entry, with all its connections, is registered.
Register(r, d, P, E) ==
  /\ FreeEntries # {}
  /\ LET e == CHOOSE e \in FreeEntries : TRUE IN
       /\ pool' = [P EXCEPT ![r] = e]
       /\ entries' = [E EXCEPT ![e] = NewEntry(d, init[r].path)]
  /\ init' = [init EXCEPT ![r] = NotInit]

\* The database is at hand: one more reference, the connections, and the FTS
\* extension, which is awaited unless it is loaded.  A connection that cannot be
\* created ends the initialisation with the reference still counted.
Prewarm(r, d, P, E, C, S) ==
  /\ S[d].refs < MaxRefs
  /\ dbCache' = C
  /\ shared' = [S EXCEPT ![d].refs = @ + 1]
  /\ \/ /\ S[d].fts = "loaded"
        /\ Register(r, d, P, E)
     \/ /\ S[d].fts = "absent"
        /\ init' = [init EXCEPT ![r].phase = "fts", ![r].db = d]
        /\ pool' = P /\ entries' = E
     \/ /\ "open_fail" \in PoolAdversity
        /\ init' = [init EXCEPT ![r] = NotInit]
        /\ pool' = P /\ entries' = E
  /\ UNCHANGED <<callers, abandoned>>

\* An initLbug that does not ask whether the repository is pooled.
InitStartAlways(r) ==
  /\ init[r].phase = "none"
  /\ \E p \in DbPaths : init' = [init EXCEPT ![r].phase = "stat", ![r].path = p]
  /\ UNCHANGED <<entries, callers, abandoned, pool, dbCache, shared>>

\* initLbug of a repository that is neither pooled nor being initialised.
InitStart(r) ==
  /\ pool[r] = None
  /\ init[r].phase = "none"
  /\ \E p \in DbPaths : init' = [init EXCEPT ![r].phase = "stat", ![r].path = p]
  /\ UNCHANGED <<entries, callers, abandoned, pool, dbCache, shared>>

Opening(p) == \E r \in Repos : init[r].path = p /\ init[r].phase = "opening"

\* The directory is there: evict, then share the database cached for the path,
\* or start to open one.
InitStat(r) ==
  /\ init[r].phase = "stat"
  /\ \E R \in Victims :
       LET d == CacheAfter(R)[init[r].path] IN
       \/ /\ d # None
          /\ Prewarm(r, d, PoolAfter(R), EntriesAfter(R), CacheAfter(R), SharedAfter(R))
       \/ /\ d = None
          /\ "racing_open" \in PoolAdversity \/ ~Opening(init[r].path)
          /\ init' = [init EXCEPT ![r].phase = "opening"]
          /\ pool' = PoolAfter(R) /\ entries' = EntriesAfter(R)
          /\ dbCache' = CacheAfter(R) /\ shared' = SharedAfter(R)
          /\ UNCHANGED <<callers, abandoned>>

\* A database is open, at whichever attempt; it is cached for the path, whatever
\* the cache holds by now.
InitOpened(r) ==
  /\ init[r].phase = "opening"
  /\ FreeDbs # {}
  /\ LET d == CHOOSE d \in FreeDbs : TRUE IN
       Prewarm(r, d, pool, entries, [dbCache EXCEPT ![init[r].path] = d],
               [shared EXCEPT ![d] = [Unused EXCEPT !.state = "open"]])

\* The directory is not there, or the last attempt to open it has failed.
InitFails(r) ==
  /\ "open_fail" \in PoolAdversity
  /\ init[r].phase \in {"stat", "opening"}
  /\ init' = [init EXCEPT ![r] = NotInit]
  /\ UNCHANGED <<entries, callers, abandoned, pool, dbCache, shared>>

\* The extension is loaded, or could not be, and the entry is registered.
InitFtsDone(r) ==
  /\ init[r].phase = "fts"
  /\ \E found \in {"absent", "loaded"} : shared' = [shared EXCEPT ![init[r].db].fts = found]
  /\ Register(r, init[r].db, pool, entries)
  /\ UNCHANGED <<callers, abandoned, dbCache>>

-----------------------------------------------------------------------------
CloseRepos(R) ==
  /\ pool' = PoolAfter(R) /\ entries' = EntriesAfter(R)
  /\ dbCache' = CacheAfter(R) /\ shared' = SharedAfter(R)
  /\ UNCHANGED <<callers, abandoned, init>>

\* The timer finds a repository unused for five minutes with nothing checked out.
IdleSweep(r) ==
  /\ r \in Pooled
  /\ entries[pool[r]].checkedOut = 0
  /\ CloseRepos({r})

\* closeLbug of one repository, or of all of them.
Close(R) ==
  /\ "close" \in PoolAdversity
  /\ R \subseteq Pooled
  /\ CloseRepos(R)

Execute(c, r) ==
  /\ pool[r] # None
  /\ Checkout(c, pool[r])
  /\ UNCHANGED <<pool, init, dbCache, shared>>

CallStep(c) ==
  /\ ReadRows(c) \/ CallEnds(c) \/ QueryTimeout(c) \/ WaiterTimeout(c)
  /\ UNCHANGED <<pool, init, dbCache, shared>>

NativeStep ==
  /\ AbandonedEnds
  /\ UNCHANGED <<pool, init, dbCache, shared>>

PoolNext ==
  \/ \E r \in Repos :
       \/ InitStart(r) \/ InitStat(r) \/ InitOpened(r) \/ InitFails(r)
       \/ InitFtsDone(r) \/ IdleSweep(r) \/ Close({r})
       \/ \E c \in Callers : Execute(c, r)
  \/ Pooled # {} /\ Close(Pooled)
  \/ \E c \in Callers : CallStep(c)
  \/ NativeStep

PoolSpec == PoolInit /\ [][PoolNext]_poolVars

-----------------------------------------------------------------------------
\* Evicting the least recently used entry and sweeping idle ones never takes an
\* entry from under a call that runs or waits on it.
SweepSparesUsers ==
  [][\A r \in Repos : InitStat(r) \/ IdleSweep(r) =>
       \A e \in Entries : IsOpen(e) /\ ~IsOpen(e)' => Users(e) = {}]_poolVars

\* The database of a pooled repository, and of one whose initialisation counts
\* on it, is open: "only close the Database when no other repoIds reference it".
PooledDbOpen ==
  /\ \A r \in Pooled : shared[entries[pool[r]].db].state = "open"
  /\ \A r \in Repos : init[r].db # None => shared[init[r].db].state = "open"

\* An initialisation in progress and a registered entry exclude each other, and
\* no two repositories share an entry: registering never overwrites an entry
\* whose connections would be lost.
OneEntryPerRepo ==
  /\ \A r \in Repos : init[r].phase # "none" => pool[r] = None
  /\ \A r, q \in Pooled : pool[r] = pool[q] => r = q
  /\ \A e \in Entries : IsOpen(e) <=> \E r \in Pooled : pool[r] = e
=============================================================================

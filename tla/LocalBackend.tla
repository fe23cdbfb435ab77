---------------------------- MODULE LocalBackend ----------------------------
(***************************************************************************)
(* The MCP backend, mcp/local/local-backend/lifecycle.ts: the handles of   *)
(* the registered repositories, and ensureInitialized, which every tool    *)
(* call awaits before it queries and which reopens the connections of a    *)
(* repository whose index was rebuilt.                                     *)
(*                                                                         *)
(* Other processes analyse, register and remove repositories meanwhile.    *)
(* The connection pool is the abstract one: by repository id, the index    *)
(* that is open.  An index is known by the count of analyses at its time,  *)
(* as it is by indexedAt.  A tool call makes one query; it may do so long  *)
(* after it was let through, as the later queries of a call do.            *)
(*                                                                         *)
(* Left out: the choice of a repository from the words of the caller (any  *)
(* known one may be meant; a miss is a refresh and a new call), listings,  *)
(* warnings, group tools.                                                  *)
(***************************************************************************)
EXTENDS Naturals, Sequences, InOrder

CONSTANTS
  Paths,       \* the repositories
  NameOf,      \* the name each is registered under, in lower case
  HashOf,      \* six characters of its path in base64: the first four bytes and a half
  Calls,       \* tool calls
  MaxBuilds,   \* bound on the analyses
  None,
  Adversity

ASSUME BackendAssumption ==
  /\ None \notin Paths /\ None \notin Calls
  /\ DOMAIN NameOf = Paths /\ DOMAIN HashOf = Paths /\ MaxBuilds \in Nat

\* "hidden_rebuild"  the registry is read again after a rebuild, while the
\*                   connections opened before are still in the pool
\* "id_reuse"        an id passes from a repository that was removed to another
\*                   of its name while the connections of the first are open
\* "slow_meta"       reading meta.json takes longer than the pause between checks
BackendAdversities == {"hidden_rebuild", "id_reuse", "slow_meta"}

ASSUME AdversityAssumption == Adversity \subseteq BackendAdversities

VARIABLES
  clock,       \* analyses so far
  built,       \* the index of each repository on disk, 0 when there is none
  registry,    \* sequence of repositories with the indexedAt they registered
  handles,     \* this.repos
  initialized, \* initializedRepos
  reinit,      \* reinitPromises: the call that reopens
  checked,     \* ids checked in the last five seconds
  pool,        \* what the connections of an id read
  opening,     \* initLbug in progress, with its database path
  call,
  refresh      \* refreshRepos in progress

diskVars == <<clock, built, registry>>
poolVars == <<pool, opening>>
vars == <<diskVars, handles, initialized, reinit, checked, poolVars, call, refresh>>

BaseId(p) == <<NameOf[p]>>
HashId(p) == <<NameOf[p], HashOf[p]>>
Ids == {BaseId(p) : p \in Paths} \cup {HashId(p) : p \in Paths}

Entry == [path : Paths, indexedAt : 0 .. MaxBuilds]

ASSUME NoneAssumption == None \notin Ids /\ None \notin Entry

NoCall == [at |-> "idle", id |-> None, path |-> None, handle |-> None, own |-> FALSE]
Resting == [at |-> "idle", todo |-> <<>>, fresh |-> {}]

Init ==
  /\ clock = 0 /\ built = [p \in Paths |-> 0] /\ registry = <<>>
  /\ handles = [i \in Ids |-> None] /\ initialized = {}
  /\ reinit = [i \in Ids |-> None] /\ checked = {}
  /\ pool = [i \in Ids |-> None] /\ opening = [i \in Ids |-> None]
  /\ call = [c \in Calls |-> NoCall] /\ refresh = Resting

-----------------------------------------------------------------------------
(* Other processes.                                                        *)

\* An analysis has written the index of a repository and its meta.json.
Analyze(p) ==
  /\ clock < MaxBuilds
  /\ clock' = clock + 1
  /\ built' = [built EXCEPT ![p] = clock + 1]
  /\ UNCHANGED <<registry, handles, initialized, reinit, checked, poolVars, call, refresh>>

Registered(p) == {k \in DOMAIN registry : registry[k].path = p}

\* It registers the repository, in its old place or as the last one.
Register(p) ==
  LET entry == [path |-> p, indexedAt |-> built[p]] IN
  /\ built[p] # 0
  /\ IF Registered(p) = {}
     THEN registry' = Append(registry, entry)
     ELSE registry' = [k \in DOMAIN registry |->
                         IF k \in Registered(p) THEN entry ELSE registry[k]]
  /\ UNCHANGED <<clock, built, handles, initialized, reinit, checked, poolVars, call, refresh>>

\* The index is deleted and its entry with it.
Remove(p) ==
  /\ built[p] # 0
  /\ built' = [built EXCEPT ![p] = 0]
  /\ registry' = Selected(registry, DOMAIN registry \ Registered(p))
  /\ UNCHANGED <<clock, handles, initialized, reinit, checked, poolVars, call, refresh>>

-----------------------------------------------------------------------------
(* refreshRepos.                                                           *)

\* An id without the test for a collision.
RepoIdBase(p) == BaseId(p)

RepoId(p) ==
  IF handles[BaseId(p)] # None /\ handles[BaseId(p)].path # p THEN HashId(p) ELSE BaseId(p)

\* The handles left once those of repositories not seen are pruned.
Pruned(hs, fresh) == [i \in Ids |-> IF i \in fresh THEN hs[i] ELSE None]

\* The registry is read, less the entries whose index is gone.
RefreshReads ==
  LET valid == Selected(registry, {k \in DOMAIN registry : built[registry[k].path] # 0}) IN
  /\ refresh.at = "idle"
  /\ IF valid = <<>>
     THEN /\ handles' = Pruned(handles, {}) /\ initialized' = {}
          /\ call' = [c \in Calls |-> [call[c] EXCEPT !.own = FALSE]]
          /\ UNCHANGED refresh
     ELSE /\ refresh' = [at |-> "entries", todo |-> valid, fresh |-> {}]
          /\ UNCHANGED <<handles, initialized, call>>
  /\ registry' = valid
  /\ UNCHANGED <<clock, built, reinit, checked, poolVars>>

\* The connections of the id are older than its new handle says.
Hides(i, e) == pool[i] # None /\ pool[i].build < e.indexedAt

\* The id was that of another repository, whose connections or calls are left.
Reuses(i, e) ==
  /\ handles[i] = None
  /\ \/ pool[i] # None /\ pool[i].path # e.path
     \/ opening[i] \notin {None, e.path}
     \/ \E c \in Calls : call[c].id = i /\ call[c].path # e.path

\* One entry, and after the last one the pruning.  A new handle replaces the one
\* of that id, which calls under way go on using.
RefreshEntry ==
  /\ refresh.at = "entries"
  /\ LET e == Head(refresh.todo)
         i == RepoId(e.path)
         fresh == refresh.fresh \cup {i}
         hs == [handles EXCEPT ![i] = e]
     IN
     /\ Hides(i, e) => "hidden_rebuild" \in Adversity
     /\ Reuses(i, e) => "id_reuse" \in Adversity
     /\ IF Len(refresh.todo) = 1
        THEN /\ handles' = Pruned(hs, fresh)
             /\ initialized' = initialized \cap fresh
             /\ refresh' = Resting
        ELSE /\ handles' = hs
             /\ refresh' = [refresh EXCEPT !.todo = Tail(@), !.fresh = fresh]
             /\ UNCHANGED initialized
     /\ call' = [c \in Calls |->
          [call[c] EXCEPT !.own = @ /\ call[c].id # i /\ handles'[call[c].id] # None]]
  /\ UNCHANGED <<diskVars, reinit, checked, poolVars>>

-----------------------------------------------------------------------------
(* initLbug, and the end of it.                                            *)

\* Nothing to do when the id is pooled, whatever path is asked for; an opening
\* in progress is joined.
InitLbug(i, p) ==
  opening' = IF opening[i] = None THEN [opening EXCEPT ![i] = p] ELSE opening

\* A database that is opened where there is none.
OpenableAlways(i) == opening[i] \in Paths

Openable(i) == built[opening[i]] # 0

Awaiting(i) == {c \in Calls : call[c].id = i /\ call[c].at \in {"opening", "reopening", "waiting"}}

\* The database is open, or there is none: everyone who awaits it goes on.
OpenEnds(i) ==
  /\ opening[i] # None
  /\ opening' = [opening EXCEPT ![i] = None]
  /\ reinit' = [reinit EXCEPT ![i] = None]
  /\ IF Openable(i)
     THEN /\ pool' = [pool EXCEPT ![i] = [path |-> opening[i], build |-> built[opening[i]]]]
          /\ initialized' = initialized \cup {i}
          /\ call' = [c \in Calls |-> IF c \in Awaiting(i) THEN [call[c] EXCEPT !.at = "ready"]
                                      ELSE call[c]]
     ELSE /\ initialized' = initialized \ {i}
          /\ call' = [c \in Calls |-> IF c \in Awaiting(i) THEN NoCall ELSE call[c]]
          /\ UNCHANGED pool
  /\ UNCHANGED <<diskVars, handles, checked, refresh>>

\* Swept when idle, or evicted for another repository.
PoolCloses(i) ==
  /\ pool[i] # None
  /\ pool' = [pool EXCEPT ![i] = None]
  /\ UNCHANGED <<diskVars, handles, initialized, reinit, checked, opening, call, refresh>>

-----------------------------------------------------------------------------
(* Tool calls: resolveRepo, ensureInitialized, the query.                  *)

Resolve(c, i) ==
  /\ call[c].at = "idle"
  /\ handles[i] # None
  /\ call' = [call EXCEPT ![c] = [NoCall EXCEPT !.at = "resolved", !.id = i,
                                                !.path = handles[i].path]]
  /\ UNCHANGED <<diskVars, handles, initialized, reinit, checked, poolVars, refresh>>

At(c, s) == call' = [call EXCEPT ![c].at = s]

\* An ensureInitialized that only notes the check when it has read meta.json.
ReadMetaUnnoted(c) ==
  /\ call' = [call EXCEPT ![c].at = "meta", ![c].handle = handles[call[c].id],
                          ![c].own = TRUE]
  /\ UNCHANGED checked

\* The time of the check is noted before meta.json is read.
ReadMeta(c) ==
  /\ call' = [call EXCEPT ![c].at = "meta", ![c].handle = handles[call[c].id],
                          ![c].own = TRUE]
  /\ checked' = checked \cup {call[c].id}

EnsureInitialized(c) ==
  LET i == call[c].id IN
  /\ call[c].at = "resolved"
  /\ \/ /\ reinit[i] # None
        /\ At(c, "waiting")
        /\ UNCHANGED <<initialized, checked, opening>>
     \/ /\ reinit[i] = None
        /\ handles[i] = None
        /\ call' = [call EXCEPT ![c] = NoCall]
        /\ UNCHANGED <<initialized, checked, opening>>
     \/ /\ reinit[i] = None
        /\ handles[i] # None
        /\ i \in initialized /\ pool[i] # None
        /\ IF i \in checked THEN At(c, "ready") /\ UNCHANGED checked ELSE ReadMeta(c)
        /\ UNCHANGED <<initialized, opening>>
     \/ /\ reinit[i] = None
        /\ handles[i] # None
        /\ i \notin initialized \/ pool[i] = None
        /\ IF pool[i] # None
           THEN /\ initialized' = initialized \cup {i}
                /\ At(c, "ready")
                /\ UNCHANGED opening
           ELSE /\ InitLbug(i, handles[i].path)
                /\ At(c, "opening")
                /\ UNCHANGED initialized
        /\ UNCHANGED checked
  /\ UNCHANGED <<diskVars, handles, reinit, pool, refresh>>

\* A comparison the wrong way round.
StaleOlder(c) ==
  LET h == call[c].handle IN built[h.path] # 0 /\ built[h.path] < h.indexedAt

\* meta.json can be read, and is not of the index the handle knows.
Stale(c) ==
  LET h == call[c].handle IN built[h.path] \notin {0, h.indexedAt}

\* The reading of a rebuilt index's meta.json closes the connections and opens
\* them again; the handle the call has is told of it, in the map or not.
MetaIsRead(c) ==
  LET i == call[c].id
      p == call[c].handle.path
  IN
  /\ call[c].at = "meta"
  /\ IF Stale(c)
     THEN /\ pool' = [pool EXCEPT ![i] = None]
          /\ initialized' = initialized \ {i}
          /\ handles' = IF call[c].own
                        THEN [handles EXCEPT ![i].indexedAt = built[p]]
                        ELSE handles
          /\ InitLbug(i, p)
          /\ reinit' = [reinit EXCEPT ![i] = c]
          /\ call' = [call EXCEPT ![c].at = "reopening", ![c].handle = None, ![c].own = FALSE]
     ELSE /\ call' = [call EXCEPT ![c].at = "ready", ![c].handle = None, ![c].own = FALSE]
          /\ UNCHANGED <<pool, initialized, handles, opening, reinit>>
  /\ UNCHANGED <<diskVars, checked, refresh>>

\* The query is answered from the pool, or finds nothing in it and throws.
Query(c) ==
  /\ call[c].at = "ready"
  /\ call' = [call EXCEPT ![c] = NoCall]
  /\ UNCHANGED <<diskVars, handles, initialized, reinit, checked, poolVars, refresh>>

\* Five seconds have passed since the check.
PauseEnds(i) ==
  /\ i \in checked
  /\ "slow_meta" \in Adversity \/ \A c \in Calls : ~(call[c].id = i /\ call[c].at = "meta")
  /\ checked' = checked \ {i}
  /\ UNCHANGED <<diskVars, handles, initialized, reinit, poolVars, call, refresh>>

-----------------------------------------------------------------------------
CallStep(c) == EnsureInitialized(c) \/ MetaIsRead(c) \/ Query(c)

Next ==
  \/ \E p \in Paths : Analyze(p) \/ Register(p) \/ Remove(p)
  \/ RefreshReads \/ RefreshEntry
  \/ \E i \in Ids : OpenEnds(i) \/ PoolCloses(i) \/ PauseEnds(i)
  \/ \E c \in Calls : CallStep(c) \/ \E i \in Ids : Resolve(c, i)

Spec == Init /\ [][Next]_vars

\* Files are read, databases open or fail, timers fire, and a call goes on.
\* Nothing makes a client call or the registry be read again.
FairSpec ==
  /\ Spec
  /\ \A i \in Ids : WF_vars(OpenEnds(i)) /\ WF_vars(PauseEnds(i))
  /\ \A c \in Calls : WF_vars(CallStep(c))

-----------------------------------------------------------------------------
(* Properties.                                                             *)

\* The variables keep their types: what is pooled is an index that was built, the handle
\* a call compares with is one, whoever replaces or prunes it meanwhile.
BackendTypeOK ==
  /\ clock \in 0 .. MaxBuilds /\ built \in [Paths -> 0 .. MaxBuilds]
  /\ \A k \in DOMAIN registry : registry[k] \in Entry
  /\ handles \in [Ids -> Entry \cup {None}]
  /\ initialized \subseteq Ids /\ checked \subseteq Ids
  /\ reinit \in [Ids -> Calls \cup {None}]
  /\ pool \in [Ids -> [path : Paths, build : 1 .. MaxBuilds] \cup {None}]
  /\ opening \in [Ids -> Paths \cup {None}]
  /\ \A c \in Calls :
       /\ call[c].at \in {"idle", "resolved", "meta", "opening", "reopening", "waiting", "ready"}
       /\ call[c].id \in Ids \cup {None} /\ call[c].path \in Paths \cup {None}
       /\ call[c].handle \in Entry \cup {None} /\ call[c].own \in BOOLEAN
  /\ refresh.at \in {"idle", "entries"} /\ refresh.fresh \subseteq Ids

\* Concurrent calls that find one rebuild do not both close the connections
\* ("prevent TOCTOU race where concurrent callers both detect staleness and
\* double-close the pool", lifecycle.ts:258).  It is the pause between checks
\* that keeps them apart, not the promise, which is stored after the reading.
OneReinit ==
  \A c, d \in Calls :
    /\ call[c].at = "reopening" /\ call[d].at = "reopening" /\ call[c].id = call[d].id => c = d
    /\ call[c].at = "waiting" => reinit[call[c].id] # None

\* A call is never answered from the index of another repository than the one
\* it was resolved to, same names and the ids made of them notwithstanding.
RightRepository ==
  [][\A c \in Calls : Query(c) /\ pool[call[c].id] # None =>
       pool[call[c].id].path = call[c].path]_vars

\* When analyses have stopped, answers come from the latest index from some time
\* on ("Check if the index was rebuilt since we opened the connection",
\* lifecycle.ts:247); of an index that is gone the old answers go on.
AnswersBecomeFresh ==
  <>[][\A c \in Calls : Query(c) /\ pool[call[c].id] # None =>
         built[pool[call[c].id].path] \in {0, pool[call[c].id].build}]_vars
=============================================================================

----------------------------- MODULE RunAnalyze -----------------------------
(***************************************************************************)
(* Analysis runs of one repository, gitnexus/src/core/run-analyze/         *)
(* coordinator.ts: runFullAnalysis from the look at meta.json to the entry *)
(* in the registry, what each of its steps leaves on disk when the process *)
(* dies there, and the run that comes next.  Runs of one repository follow *)
(* one another, as the server's repository lock has it; the working tree   *)
(* and the registry change under a run.                                    *)
(*                                                                         *)
(* The graph is abstracted to the content each file's rows were made from, *)
(* and to whether the graph-wide part (communities, processes, full-text   *)
(* indexes) is there; a content hash is the content.  Loading is one step: *)
(* what a crash leaves of a half loaded graph is worth what nothing is.    *)
(* The database survives a crash with what was committed to its log.       *)
(* Left out: embeddings (a failure to make them ends the run like any      *)
(* other), the parse cache, which is addressed by content and best-effort, *)
(* AI context files and progress.                                          *)
(***************************************************************************)
EXTENDS Registry

CONSTANTS
  Self,       \* the repository whose runs these are
  Runner,     \* the registry client that is its run
  Files,
  Contents,
  Absent,     \* no such file, or no rows for it
  Commits,
  Trees,      \* commit -> the files it holds
  Drafts,     \* what uncommitted changes may make of the working tree
  NoMeta

Snapshots == [Files -> Contents \cup {Absent}]

\* What meta.json may hold: the commit indexed, the hashes of its files, the flag
\* incrementalInProgress, and whether schemaVersion is the current one.
Metas == [commit : Commits, hashes : Snapshots, dirty : BOOLEAN, schema : BOOLEAN]

ASSUME RunAssumption ==
  /\ Trees \in [Commits -> Snapshots]
  /\ Drafts \subseteq Snapshots
  /\ Self \in Repos /\ Runner \in Clients
  /\ None \notin Repos \cup Commits /\ NoMeta \notin Metas
  /\ Absent \notin Contents

\* What the environment may do beyond ordinary work:
\* "crash"          the run dies, or fails, at any await but those of the next two
\* "crash_wiped"    it dies during a full rebuild begun under a clean meta.json
\* "uncommitted"    files change in the working tree
\* "edit_during"    files and HEAD change while a run is in progress
\* "edit_unhashed"  and even between the reading of the files and their hashing
\* "crash_unregistered"  it dies, or registering is refused, after the first
\*                  meta.json of the repository and before its registry entry
\* "force"          a run is started with --force
\* "old_schema"     the first meta.json was written by another version
\* "registry_race"  two processes change the registry at the same time
\* "torn_registry"  a process dies while registry.json is truncated
Adversities ==
  {"crash", "crash_wiped", "crash_unregistered", "uncommitted", "edit_during",
   "edit_unhashed", "force", "old_schema", "registry_race", "torn_registry"}

ASSUME AdversityAssumption == Adversity \subseteq Adversities

VARIABLES
  head,     \* the commit HEAD names
  work,     \* the working tree
  meta,     \* meta.json
  db,       \* the database: rows per file, and the graph-wide part
  run,      \* the run in progress
  others,   \* repositories beside Self that have a meta.json
  quiet     \* from now on nothing but runs and registry clients moves

diskVars == <<meta, db>>
treeVars == <<head, work>>
runVars == <<head, work, meta, db, run, others, quiet>>
vars == <<runVars, registryVars>>

NoFiles == [f \in Files |-> Absent]
FilesIn(s) == {f \in Files : s[f] # Absent}
EmptyDb == [rows |-> NoFiles, whole |-> FALSE]
NoRun ==
  [at |-> "none", force |-> FALSE, commit |-> None, base |-> NoMeta,
   seen |-> NoFiles, hashes |-> NoFiles, writes |-> {}, deletes |-> {}]

MetaOf(commit, hashes) ==
  [commit |-> commit, hashes |-> hashes, dirty |-> FALSE, schema |-> TRUE]

At(label) == run.at = label
Goto(label) == run' = [run EXCEPT !.at = label]

Init ==
  /\ head \in Commits
  /\ work = Trees[head]
  /\ \/ RegistryInit({}) /\ meta = NoMeta /\ db = EmptyDb
     \/ /\ "old_schema" \in Adversity
        /\ RegistryInit({Self})
        /\ meta = [MetaOf(head, work) EXCEPT !.schema = FALSE]
        /\ db = [rows |-> work, whole |-> TRUE]
  /\ run = NoRun
  /\ others = {}
  /\ quiet = FALSE

-----------------------------------------------------------------------------
(* The working tree.                                                       *)

\* What changes after the hashing is as if it changed after the run, which looks at
\* the tree no more; and what changes while a client is at the registry, as if it
\* changed before.
MayEdit ==
  /\ ~quiet
  /\ RegistryQuiet
  /\ \/ run = NoRun
     \/ "edit_during" \in Adversity /\ run.at \in {"meta", "upToDate", "pipeline"}
     \/ "edit_unhashed" \in Adversity /\ At("read")

Edit(draft) ==
  /\ "uncommitted" \in Adversity
  /\ MayEdit
  /\ work' = draft
  /\ UNCHANGED <<head, meta, db, run, others, quiet, registryVars>>

\* Another commit is checked out, and uncommitted changes with it are gone.
Checkout(c) ==
  /\ MayEdit
  /\ head' = c
  /\ work' = Trees[c]
  /\ UNCHANGED <<meta, db, run, others, quiet, registryVars>>

-----------------------------------------------------------------------------
(* The run.                                                                *)

CanStart == run = NoRun /\ ~Changing(Runner)

Start ==
  /\ CanStart
  /\ \E force \in BOOLEAN :
       /\ force => "force" \in Adversity /\ ~quiet
       /\ run' = [NoRun EXCEPT !.at = "meta", !.force = force, !.commit = head]
  /\ UNCHANGED <<head, work, diskVars, others, quiet, registryVars>>

\* A fast path that looks at HEAD only.
WorkingTreeIgnored == FALSE

\* hasRelevantWorkingTreeChanges
WorkingTreeDirty == work # Trees[head]

UpToDate(force) ==
  /\ meta # NoMeta
  /\ ~force
  /\ meta.commit = run.commit
  /\ ~WorkingTreeDirty

\* A dirty flag that is seen and does not force a rebuild.
LoadMetaUnforced ==
  /\ At("meta")
  /\ \/ /\ UpToDate(run.force)
        /\ Goto("upToDate")
     \/ /\ ~UpToDate(run.force)
        /\ run' = [run EXCEPT !.at = "pipeline", !.base = meta]
  /\ UNCHANGED <<head, work, diskVars, others, quiet, registryVars>>

\* meta.json is read: a dirty flag forces a full rebuild, and an index of this
\* commit with nothing uncommitted beside it is left as it is.
LoadMeta ==
  /\ At("meta")
  /\ LET force == run.force \/ (meta # NoMeta /\ meta.dirty) IN
     \/ /\ UpToDate(force)
        /\ Goto("upToDate")
     \/ /\ ~UpToDate(force)
        /\ run' = [run EXCEPT !.at = "pipeline", !.force = force, !.base = meta]
  /\ UNCHANGED <<head, work, diskVars, others, quiet, registryVars>>

ReturnUpToDate ==
  /\ At("upToDate")
  /\ run' = NoRun
  /\ UNCHANGED <<head, work, diskVars, others, quiet, registryVars>>

\* runPipelineFromRepo reads the files and builds the graph in memory.
Pipeline ==
  /\ At("pipeline")
  /\ run' = [run EXCEPT !.at = "read", !.seen = work]
  /\ UNCHANGED <<head, work, diskVars, others, quiet, registryVars>>

Incremental ==
  /\ ~run.force
  /\ run.base # NoMeta
  /\ run.base.schema
  /\ FilesIn(run.base.hashes) # {}
  /\ FilesIn(run.seen) # {}

\* computeFileHashes reads the files of the graph once more; one it cannot read
\* has no hash.  Then the choice between an incremental run and a full rebuild.
Hash ==
  /\ At("read")
  /\ run' = [run EXCEPT
       !.at = IF Incremental THEN "mark" ELSE "wipe", !.force = FALSE,
       !.hashes = [f \in Files |-> IF run.seen[f] # Absent THEN work[f] ELSE Absent]]
  /\ UNCHANGED <<head, work, diskVars, others, quiet, registryVars>>

\* A diff that misses the added files.
ToWriteChanged(current, stored) ==
  {f \in FilesIn(current) \cap FilesIn(stored) : current[f] # stored[f]}

\* diffFileHashes
ToWrite(current, stored) == {f \in FilesIn(current) : current[f] # stored[f]}
Deleted(current, stored) == FilesIn(stored) \ FilesIn(current)

\* An incremental run that does not mark meta.json first.
MarkDirtyForgotten ==
  /\ At("mark")
  /\ Goto("open")
  /\ UNCHANGED <<head, work, diskVars, others, quiet, registryVars>>

\* saveMeta with incrementalInProgress, by a temporary file and a rename.
MarkDirty ==
  /\ At("mark")
  /\ meta' = [run.base EXCEPT !.dirty = TRUE]
  /\ Goto("open")
  /\ UNCHANGED <<head, work, db, others, quiet, registryVars>>

\* removeLbugDatabaseFiles; initLbug then creates an empty database.
Wipe ==
  /\ At("wipe")
  /\ db' = EmptyDb
  /\ Goto("load")
  /\ UNCHANGED <<head, work, meta, others, quiet, registryVars>>

\* The files an incremental run replaces: the changed and added ones, with any
\* others the importers and the edges of the new graph bring in; and their rows go
\* with those of deleted files.
PlanWrites ==
  /\ At("open")
  /\ \E linked \in SUBSET Files :
       LET writes == ToWrite(run.hashes, run.base.hashes) \cup linked IN
       run' = [run EXCEPT
         !.at = "delete", !.base = NoMeta, !.writes = writes,
         !.deletes = writes \cup Deleted(run.hashes, run.base.hashes)]
  /\ UNCHANGED <<head, work, diskVars, others, quiet, registryVars>>

\* deleteNodesForFile, one file after the other.
DeleteRows(f) ==
  /\ At("delete")
  /\ f \in run.deletes
  /\ db' = [db EXCEPT !.rows[f] = Absent]
  /\ run' = [run EXCEPT !.deletes = @ \ {f}]
  /\ UNCHANGED <<head, work, meta, others, quiet, registryVars>>

\* deleteAllCommunitiesAndProcesses
DropDerived ==
  /\ At("delete")
  /\ run.deletes = {}
  /\ db' = [db EXCEPT !.whole = FALSE]
  /\ Goto("loadChanged")
  /\ UNCHANGED <<head, work, meta, others, quiet, registryVars>>

\* loadGraphToLbug: the rows of the files to write, or of all of them.
LoadChanged ==
  /\ At("loadChanged")
  /\ db' = [db EXCEPT !.rows =
       [f \in Files |-> IF f \in run.writes THEN run.seen[f] ELSE db.rows[f]]]
  /\ run' = [run EXCEPT !.at = "derive", !.writes = {}]
  /\ UNCHANGED <<head, work, meta, others, quiet, registryVars>>

LoadAll ==
  /\ At("load")
  /\ db' = [db EXCEPT !.rows = run.seen]
  /\ run' = [run EXCEPT !.at = "derive", !.base = NoMeta]
  /\ UNCHANGED <<head, work, meta, others, quiet, registryVars>>

\* createSearchFTSIndexes, and embeddings.
Derive ==
  /\ At("derive")
  /\ db' = [db EXCEPT !.whole = TRUE]
  /\ Goto("save")
  /\ UNCHANGED <<head, work, meta, others, quiet, registryVars>>

\* saveMeta with the new hashes and without the flag.
SaveMeta ==
  /\ At("save")
  /\ meta' = MetaOf(run.commit, run.hashes)
  /\ run' = [NoRun EXCEPT !.at = "register"]
  /\ UNCHANGED <<head, work, db, others, quiet, registryVars>>

Register ==
  /\ At("register")
  /\ RegisterRead(Runner, Self)
  /\ Goto("registering")
  /\ UNCHANGED <<head, work, diskVars, others, quiet>>

Finish ==
  /\ At("registering")
  /\ ~Changing(Runner)
  /\ run' = NoRun
  /\ UNCHANGED <<head, work, diskVars, others, quiet, registryVars>>

\* A run that has removed the database, with a meta.json that vouches for it.
WipedUnderMeta ==
  run.at \in {"load", "derive", "save"} /\ meta # NoMeta /\ ~meta.dirty

\* Its meta.json is saved, and its entry is missing or about to be removed.
Unregistered ==
  /\ run.at \in {"register", "registering"}
  /\ Self \notin ReadRegistry \/ \E c \in Clients \ {Runner} : Changing(c)

MayAbort ==
  /\ run # NoRun
  /\ ~quiet
  /\ "crash" \in Adversity
  /\ WipedUnderMeta => "crash_wiped" \in Adversity
  /\ Unregistered => "crash_unregistered" \in Adversity

\* The run dies, or throws.
Abort ==
  /\ MayAbort
  /\ run' = NoRun
  /\ IF Changing(Runner) THEN ClientDies(Runner) ELSE UNCHANGED registryVars
  /\ UNCHANGED <<head, work, diskVars, others, quiet>>

-----------------------------------------------------------------------------
(* The other clients of the registry.  They act between runs and while a   *)
(* run registers: a run touches nothing of theirs at any other time.       *)

Peers == Clients \ {Runner}
PeersMayAct == ~quiet /\ run.at \in {"none", "register", "registering"}
Indexed == others \cup (IF meta = NoMeta THEN {} ELSE {Self})

\* Another repository is analysed; its meta.json is there and it registers.
PeerRegisters(c, r) ==
  /\ PeersMayAct
  /\ r # Self
  /\ RegisterRead(c, r)
  /\ others' = others \cup {r}
  /\ UNCHANGED <<head, work, diskVars, run, quiet>>

\* clean that unregisters although it could not remove the index.
CleanKeepsIndex(c, r) ==
  /\ PeersMayAct
  /\ r \in Indexed
  /\ CleanStarts(c, r)
  /\ UNCHANGED runVars

\* clean, remove: the index is removed and then unregistered.  The index of Self
\* is not removed under its run.
Clean(c, r) ==
  /\ PeersMayAct
  /\ r \in Indexed
  /\ CleanStarts(c, r)
  /\ others' = others \ {r}
  /\ IF r = Self
     THEN run = NoRun /\ meta' = NoMeta /\ db' = EmptyDb
     ELSE UNCHANGED diskVars
  /\ UNCHANGED <<head, work, run, quiet>>

PeerLists(c) == PeersMayAct /\ ListRead(c) /\ UNCHANGED runVars
PeerChecks(c) == ListCheck(c, Indexed) /\ UNCHANGED runVars
PeerUnregisters(c) == UnregisterRead(c) /\ UNCHANGED runVars
PeerDies(c) == ~quiet /\ ClientDies(c) /\ UNCHANGED runVars

WriteStep(c) == (Truncate(c) \/ WriteRegistry(c)) /\ UNCHANGED runVars

BecomeQuiet ==
  /\ ~quiet
  /\ quiet' = TRUE
  /\ UNCHANGED <<head, work, diskVars, run, others, registryVars>>

RunStep ==
  \/ LoadMeta \/ ReturnUpToDate \/ Pipeline \/ Hash
  \/ MarkDirty \/ PlanWrites \/ DropDerived \/ LoadChanged
  \/ \E f \in Files : DeleteRows(f)
  \/ Wipe \/ LoadAll \/ Derive \/ SaveMeta \/ Register \/ Finish

PeerStep(c) ==
  \/ PeerLists(c) \/ PeerDies(c)
  \/ \E r \in Repos : PeerRegisters(c, r) \/ Clean(c, r)

ClientStep(c) == PeerChecks(c) \/ PeerUnregisters(c) \/ WriteStep(c)

Next ==
  \/ \E draft \in Drafts : Edit(draft)
  \/ \E c \in Commits : Checkout(c)
  \/ Start \/ RunStep \/ Abort
  \/ \E c \in Peers : PeerStep(c)
  \/ \E c \in Clients : ClientStep(c)
  \/ BecomeQuiet

\* A run that was started goes on, and so does a client; somebody asks for an
\* analysis again and again.
Fairness == WF_vars(Start) /\ WF_vars(RunStep) /\ \A c \in Clients : WF_vars(ClientStep(c))

Spec == Init /\ [][Next]_vars
FairSpec == Spec /\ Fairness

-----------------------------------------------------------------------------
(* Properties.                                                             *)

\* The run has begun a full rebuild and not saved its meta.json.
Rebuilding == run.at \in {"load", "derive", "save"}

Vouched == meta # NoMeta /\ ~meta.dirty
Complete == db.whole /\ db.rows = meta.hashes

\* A meta.json without the dirty flag tells the truth about the database: it is
\* complete and holds, for each file, the rows of the content whose hash is
\* recorded, however many runs died on the way.  It is what the next incremental
\* run takes for granted about the files it does not touch.
HashesMatchRows == Vouched /\ ~Rebuilding => Complete

\* What a run leaves is what a full rebuild from the same files would: an
\* incremental run replaces enough rows ("incremental output is byte-equivalent to
\* a full rebuild", test/unit/incremental-orchestration.test.ts).
IncrementalEqualsFull ==
  [][At("save") /\ run'.at = "register" => db.whole /\ db.rows = run.seen]_vars

\* The answer "already up to date" is given about a complete database.
UpToDateIsTrue == [][At("meta") /\ run'.at = "upToDate" => Complete]_vars

\* Between runs an index that exists is registered, whoever cleaned, listed or
\* died before: the fast path of the next run would not register it.
IndexIsRegistered ==
  run = NoRun /\ RegistryQuiet /\ meta # NoMeta => Self \in ReadRegistry

\* The index of an edited tree, or of one checked out after the run had looked at
\* HEAD, recorded under a commit it is not of.  When the tree is clean at that
\* commit again, the fast path leaves this index.
IndexedEdits == meta.commit = head /\ work = Trees[head] /\ meta.hashes # work

\* Whatever crashed before, runs that come after end with an index of the working
\* tree as it is, but for the case above.
Recovers ==
  quiet ~> run = NoRun /\ Vouched /\ Complete /\ (db.rows = work \/ IndexedEdits)
=============================================================================

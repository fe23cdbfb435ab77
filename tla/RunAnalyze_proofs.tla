------------------------- MODULE RunAnalyze_proofs -------------------------
(***************************************************************************)
(* Theorems about RunAnalyze: a meta.json that vouches for the database    *)
(* can be believed whatever died before, an incremental run leaves what a  *)
(* full one would, and the registry loses no entry.                        *)
(***************************************************************************)
EXTENDS RunAnalyze, TLAPS

Labels ==
  {"none", "meta", "upToDate", "pipeline", "read", "mark", "open", "delete", "loadChanged",
   "wipe", "load", "derive", "save", "register", "registering"}

Runs ==
  [at : Labels, force : BOOLEAN, commit : Commits \cup {None}, base : Metas \cup {NoMeta},
   seen : Snapshots, hashes : Snapshots, writes : SUBSET Files, deletes : SUBSET Files]

RunTypes ==
  /\ head \in Commits /\ work \in Snapshots
  /\ meta \in Metas \cup {NoMeta}
  /\ db \in [rows : Snapshots, whole : BOOLEAN]
  /\ run \in Runs
  /\ run.at = "none" => run = NoRun
  /\ run.at \notin {"none", "register", "registering"} => run.commit \in Commits

\* The meta.json a run has read is the one on disk until the run writes it.
BaseIsMeta == run.at \in {"pipeline", "read", "mark"} => run.base = meta

\* No incremental run starts from a dirty meta.json.
DirtyForces == run.at \in {"pipeline", "read"} /\ meta # NoMeta /\ meta.dirty => run.force

\* An incremental run has a meta.json, and the flag is in it before a row goes.
MarkedFirst ==
  /\ run.at = "mark" => Vouched
  /\ run.at \in {"open", "delete", "loadChanged"} => meta # NoMeta /\ meta.dirty

MetaInv == RunTypes /\ BaseIsMeta /\ DirtyForces /\ MarkedFirst

-----------------------------------------------------------------------------
(* meta.json and the flag.                                                 *)

\* Types of the constants and initial values, as the steps use them.
LEMMA Values ==
  /\ NoRun \in Runs /\ EmptyDb \in [rows : Snapshots, whole : BOOLEAN]
  /\ \A c \in Commits : Trees[c] \in Snapshots
  /\ \A c \in Commits, h \in Snapshots : MetaOf(c, h) \in Metas
  /\ \A m \in Metas : [m EXCEPT !.dirty = TRUE] \in Metas
  <1>1. NoFiles \in Snapshots
    BY DEF NoFiles, Snapshots
  <1>2. NoRun \in Runs
    BY <1>1 DEF NoRun, Runs, Labels
  <1>3. EmptyDb \in [rows : Snapshots, whole : BOOLEAN]
    BY <1>1 DEF EmptyDb
  <1>4. \A c \in Commits : Trees[c] \in Snapshots
    BY RunAssumption
  <1>5. \A c \in Commits, h \in Snapshots : MetaOf(c, h) \in Metas
    BY DEF MetaOf, Metas
  <1>6. \A m \in Metas : [m EXCEPT !.dirty = TRUE] \in Metas
    BY DEF Metas
  <1> QED BY <1>2, <1>3, <1>4, <1>5, <1>6

\* The program starts with no run, and no meta.json or one of another version.
LEMMA InitMeta == Init => MetaInv
  <1> SUFFICES ASSUME Init PROVE MetaInv
    OBVIOUS
  <1>1. run.at = "none"
    BY DEF Init, NoRun
  <1>2. head \in Commits /\ work \in Snapshots /\ run = NoRun /\ run \in Runs
    BY Values DEF Init
  <1>3. meta \in Metas \cup {NoMeta} /\ db \in [rows : Snapshots, whole : BOOLEAN]
    <2>1. CASE meta = NoMeta /\ db = EmptyDb
      BY <2>1, Values
    <2>2. CASE /\ meta = [MetaOf(head, work) EXCEPT !.schema = FALSE]
               /\ db = [rows |-> work, whole |-> TRUE]
      <3>1. MetaOf(head, work) \in Metas
        BY <1>2, Values
      <3> QED BY <1>2, <2>2, <3>1 DEF Metas
    <2> QED BY <2>1, <2>2 DEF Init
  <1> QED BY <1>1, <1>2, <1>3 DEF MetaInv, RunTypes, BaseIsMeta, DirtyForces, MarkedFirst

\* A step that only takes the run on, within its types.
LEMMA RunGoesOn ==
  ASSUME MetaInv, run' \in Runs, UNCHANGED <<head, work>>,
         meta' \in Metas \cup {NoMeta}, db' \in [rows : Snapshots, whole : BOOLEAN],
         run'.at = "none" => run' = NoRun,
         run'.at \notin {"none", "register", "registering"} => run'.commit \in Commits
  PROVE  RunTypes'
  BY DEF MetaInv, RunTypes

\* Each step of a run keeps what is known of its meta.json.
LEMMA RunKeepsMeta == ASSUME MetaInv, RunStep PROVE MetaInv'
  <1> USE DEF At, Goto, diskVars, MetaInv
  <1>1. run \in Runs /\ run.at \in Labels
    BY DEF RunTypes, Runs
  <1>2. CASE LoadMeta
    <2>1. RunTypes'
      BY <1>1, <1>2, RunGoesOn DEF LoadMeta, RunTypes, Runs, Labels
    <2>2. BaseIsMeta' /\ MarkedFirst'
      BY <1>1, <1>2 DEF LoadMeta, BaseIsMeta, MarkedFirst, Runs
    <2>3. DirtyForces'
      BY <1>1, <1>2 DEF LoadMeta, DirtyForces, Runs
    <2> QED BY <2>1, <2>2, <2>3
  <1>3. CASE ReturnUpToDate \/ Finish
    <2>1. run' = NoRun /\ run'.at = "none" /\ UNCHANGED <<head, work, diskVars>>
      BY <1>3 DEF ReturnUpToDate, Finish, NoRun
    <2> QED BY <2>1, Values DEF RunTypes, BaseIsMeta, DirtyForces, MarkedFirst
  <1>4. CASE Pipeline
    <2>1. RunTypes'
      BY <1>1, <1>4, RunGoesOn DEF Pipeline, RunTypes, Runs, Labels
    <2> QED BY <1>1, <1>4, <2>1 DEF Pipeline, BaseIsMeta, DirtyForces, MarkedFirst, Runs
  <1>5. CASE Hash
    <2>1. [f \in Files |-> IF run.seen[f] # Absent THEN work[f] ELSE Absent] \in Snapshots
      BY <1>1 DEF RunTypes, Runs, Snapshots
    <2>2. RunTypes'
      BY <1>1, <1>5, <2>1, RunGoesOn DEF Hash, RunTypes, Runs, Labels
    <2>3. BaseIsMeta' /\ DirtyForces'
      BY <1>1, <1>5 DEF Hash, BaseIsMeta, DirtyForces, Runs
    <2>4. MarkedFirst'
      BY <1>1, <1>5 DEF Hash, BaseIsMeta, DirtyForces, MarkedFirst, Runs, Incremental, Vouched
    <2> QED BY <2>2, <2>3, <2>4
  <1>6. CASE MarkDirty
    <2>1. run.base = meta /\ meta \in Metas
      BY <1>6 DEF MarkDirty, BaseIsMeta, MarkedFirst, Vouched, RunTypes
    <2>2. meta' \in Metas /\ meta'.dirty
      BY <1>6, <2>1, Values DEF MarkDirty, Metas
    <2>3. RunTypes'
      BY <1>1, <1>6, <2>2, RunGoesOn DEF MarkDirty, RunTypes, Runs, Labels
    <2> QED
      BY <1>1, <1>6, <2>2, <2>3, RunAssumption
      DEF MarkDirty, BaseIsMeta, DirtyForces, MarkedFirst, Runs
  <1>7. CASE PlanWrites
    <2>1. PICK linked \in SUBSET Files :
            LET writes == ToWrite(run.hashes, run.base.hashes) \cup linked IN
            run' = [run EXCEPT
              !.at = "delete", !.base = NoMeta, !.writes = writes,
              !.deletes = writes \cup Deleted(run.hashes, run.base.hashes)]
      BY <1>7 DEF PlanWrites
    <2>2. run' \in Runs
      BY <1>1, <2>1 DEF Runs, Labels, ToWrite, Deleted, FilesIn
    <2>3. RunTypes'
      BY <1>1, <1>7, <2>1, <2>2, RunGoesOn DEF PlanWrites, RunTypes, Runs
    <2> QED
      BY <1>1, <1>7, <2>1, <2>3 DEF PlanWrites, BaseIsMeta, DirtyForces, MarkedFirst, Runs
  <1>8. CASE \E f \in Files : DeleteRows(f)
    <2>1. PICK f \in Files : DeleteRows(f)
      BY <1>8
    <2>2. db' \in [rows : Snapshots, whole : BOOLEAN]
      BY <2>1 DEF DeleteRows, RunTypes, Snapshots
    <2>3. run' \in Runs
      BY <1>1, <2>1 DEF DeleteRows, Runs
    <2>4. RunTypes'
      BY <1>1, <2>1, <2>2, <2>3, RunGoesOn DEF DeleteRows, RunTypes, Runs
    <2> QED BY <1>1, <2>1, <2>4 DEF DeleteRows, BaseIsMeta, DirtyForces, MarkedFirst, Runs
  <1>9. CASE DropDerived \/ Derive
    <2>1. db' \in [rows : Snapshots, whole : BOOLEAN]
      BY <1>9 DEF DropDerived, Derive, RunTypes
    <2>2. RunTypes'
      BY <1>1, <1>9, <2>1, RunGoesOn DEF DropDerived, Derive, RunTypes, Runs, Labels
    <2> QED
      BY <1>1, <1>9, <2>2 DEF DropDerived, Derive, BaseIsMeta, DirtyForces, MarkedFirst, Runs
  <1>10. CASE LoadChanged \/ LoadAll
    <2>1. [f \in Files |-> IF f \in run.writes THEN run.seen[f] ELSE db.rows[f]] \in Snapshots
      BY <1>1 DEF RunTypes, Runs, Snapshots
    <2>2. db' \in [rows : Snapshots, whole : BOOLEAN]
      BY <1>1, <1>10, <2>1 DEF LoadChanged, LoadAll, RunTypes, Runs
    <2>3. RunTypes'
      BY <1>1, <1>10, <2>2, RunGoesOn DEF LoadChanged, LoadAll, RunTypes, Runs, Labels
    <2> QED
      BY <1>1, <1>10, <2>3 DEF LoadChanged, LoadAll, BaseIsMeta, DirtyForces, MarkedFirst, Runs
  <1>11. CASE Wipe
    <2>1. RunTypes'
      BY <1>1, <1>11, Values, RunGoesOn DEF Wipe, RunTypes, Runs, Labels
    <2> QED BY <1>1, <1>11, <2>1 DEF Wipe, BaseIsMeta, DirtyForces, MarkedFirst, Runs
  <1>12. CASE SaveMeta
    <2>1. run' \in Runs /\ run'.at = "register"
      BY <1>12, Values DEF SaveMeta, Runs, Labels
    <2>2. run.commit \in Commits /\ run.hashes \in Snapshots
      BY <1>1, <1>12 DEF SaveMeta, RunTypes, Runs
    <2>3. meta' \in Metas
      BY <1>12, <2>2, Values DEF SaveMeta
    <2>4. RunTypes'
      BY <1>12, <2>1, <2>3, RunGoesOn DEF SaveMeta, RunTypes
    <2> QED BY <2>1, <2>4 DEF BaseIsMeta, DirtyForces, MarkedFirst
  <1>13. CASE Register
    <2>1. RunTypes'
      BY <1>1, <1>13, RunGoesOn DEF Register, RunTypes, Runs, Labels
    <2> QED BY <1>1, <1>13, <2>1 DEF Register, BaseIsMeta, DirtyForces, MarkedFirst, Runs
  <1> QED
    BY <1>2, <1>3, <1>4, <1>5, <1>6, <1>7, <1>8, <1>9, <1>10, <1>11, <1>12, <1>13 DEF RunStep

\* Neither does anything beside the run change what it has read.
LEMMA OthersKeepMeta ==
  ASSUME MetaInv,
         \/ \E draft \in Drafts : Edit(draft)
         \/ \E c \in Commits : Checkout(c)
         \/ Start \/ Abort \/ BecomeQuiet
         \/ \E c \in Peers : PeerStep(c)
         \/ \E c \in Clients : ClientStep(c)
         \/ UNCHANGED vars
  PROVE  MetaInv'
  <1> USE DEF At, diskVars, MetaInv
  <1>1. run \in Runs /\ NoRun.at = "none"
    BY DEF RunTypes, NoRun
  <1>2. CASE \/ \E draft \in Drafts : Edit(draft)
             \/ \E c \in Commits : Checkout(c)
    <2>1. head' \in Commits /\ work' \in Snapshots /\ UNCHANGED <<meta, db, run>>
      BY <1>2, RunAssumption, Values DEF Edit, Checkout, RunTypes
    <2> QED BY <2>1 DEF RunTypes, BaseIsMeta, DirtyForces, MarkedFirst, Vouched
  <1>3. CASE Start
    <2>1. PICK force \in BOOLEAN :
            run' = [NoRun EXCEPT !.at = "meta", !.force = force, !.commit = head]
      BY <1>3 DEF Start
    <2>2. run' \in Runs /\ run'.at = "meta" /\ run'.commit \in Commits
      BY <2>1, Values DEF Runs, Labels, RunTypes
    <2>3. RunTypes'
      BY <1>3, <2>2, RunGoesOn DEF Start, RunTypes
    <2> QED BY <2>2, <2>3 DEF BaseIsMeta, DirtyForces, MarkedFirst
  <1>4. CASE Abort
    <2>1. run' = NoRun /\ UNCHANGED <<head, work, meta, db>>
      BY <1>4 DEF Abort
    <2> QED BY <1>1, <2>1, Values DEF RunTypes, BaseIsMeta, DirtyForces, MarkedFirst
  <1>5. CASE UNCHANGED <<head, work, meta, db, run>>
    BY <1>5 DEF RunTypes, BaseIsMeta, DirtyForces, MarkedFirst, Vouched
  <1>6. CASE \E c \in Peers, r \in Repos : Clean(c, r)
    <2>1. PICK c \in Peers, r \in Repos : Clean(c, r)
      BY <1>6
    <2>2. CASE r = Self
      <3>1. run = NoRun /\ run' = run /\ meta' = NoMeta /\ db' = EmptyDb /\ UNCHANGED <<head, work>>
        BY <2>1, <2>2 DEF Clean
      <3> QED BY <1>1, <3>1, Values DEF RunTypes, BaseIsMeta, DirtyForces, MarkedFirst
    <2>3. CASE r # Self
      BY <1>5, <2>1, <2>3 DEF Clean
    <2> QED BY <2>2, <2>3
  <1> QED
    BY <1>2, <1>3, <1>4, <1>5, <1>6
    DEF BecomeQuiet, PeerStep, ClientStep, PeerLists, PeerDies, PeerRegisters, PeerChecks,
        PeerUnregisters, WriteStep, runVars, vars

\* What is known of meta.json needs no assumption.
LEMMA MetaHolds == Spec => []MetaInv
  <1>1. MetaInv /\ [Next]_vars => MetaInv'
    BY RunKeepsMeta, OthersKeepMeta DEF Next
  <1> QED BY InitMeta, <1>1, PTL DEF Spec

-----------------------------------------------------------------------------
(* The rows.                                                               *)

\* The hashes are of the files the graph was built from.
HashesAreOfSeen ==
  /\ At("read") => run.seen = work
  /\ run.at \in {"mark", "open", "delete", "loadChanged", "wipe", "load", "derive", "save"}
       => run.hashes = run.seen

\* How far the replacement of rows has got.
RowsReplaced ==
  /\ At("open") => db.whole /\ db.rows = run.base.hashes
  /\ At("delete") => \A f \in Files \ run.writes :
                       IF f \in run.deletes THEN run.seen[f] = Absent ELSE db.rows[f] = run.seen[f]
  /\ At("loadChanged") => \A f \in Files \ run.writes : db.rows[f] = run.seen[f]
  /\ run.at \in {"derive", "save"} => db.rows = run.seen
  /\ At("save") => db.whole

DataInv == MetaInv /\ HashesAreOfSeen /\ RowsReplaced /\ HashesMatchRows

\* What the theorems about the rows suppose.
Undisturbed == "crash_wiped" \notin Adversity /\ "edit_unhashed" \notin Adversity

\* An empty database is vouched for by nobody, and one of another version is whole.
LEMMA InitData == Init => DataInv
  <1> SUFFICES ASSUME Init PROVE DataInv
    OBVIOUS
  <1>1. run.at = "none"
    BY DEF Init, NoRun
  <1>2. HashesMatchRows
    BY DEF Init, HashesMatchRows, Vouched, Complete, MetaOf
  <1> QED BY <1>1, <1>2, InitMeta DEF DataInv, HashesAreOfSeen, RowsReplaced, At

\* Each step of a run takes the rows on towards those of the files it has seen.
LEMMA RunKeepsData == ASSUME Undisturbed, DataInv, RunStep PROVE DataInv'
  <1> USE DEF At, Goto, diskVars
  <1>1. MetaInv /\ MetaInv' /\ RunTypes /\ RunTypes' /\ run \in Runs
    BY RunKeepsMeta DEF DataInv, MetaInv, RunTypes
  <1>2. CASE LoadMeta \/ ReturnUpToDate \/ Finish \/ Register
    <2>1. /\ run'.at \in {"none", "upToDate", "pipeline", "registering"}
          /\ run.at \in {"meta", "upToDate", "register", "registering"}
          /\ UNCHANGED <<meta, db>>
      <3>1. CASE LoadMeta
        BY <1>1, <3>1 DEF LoadMeta, Runs
      <3>2. CASE ReturnUpToDate \/ Finish
        BY <3>2 DEF ReturnUpToDate, Finish, NoRun
      <3>3. CASE Register
        BY <1>1, <3>3 DEF Register, Runs
      <3> QED BY <1>2, <3>1, <3>2, <3>3
    <2> QED
      BY <1>1, <2>1
      DEF DataInv, HashesAreOfSeen, RowsReplaced, HashesMatchRows, Vouched, Rebuilding, Complete
  <1>3. CASE Pipeline
    <2>1. run'.at = "read" /\ run'.seen = work' /\ run.at = "pipeline" /\ UNCHANGED <<meta, db>>
      BY <1>1, <1>3 DEF Pipeline, Runs
    <2> QED
      BY <1>1, <2>1
      DEF DataInv, HashesAreOfSeen, RowsReplaced, HashesMatchRows, Vouched, Rebuilding, Complete
  <1>4. CASE Hash
    <2>1. /\ run'.at \in {"mark", "wipe"} /\ run'.seen = run.seen /\ run.at = "read"
          /\ run'.hashes = [f \in Files |-> IF run.seen[f] # Absent THEN work[f] ELSE Absent]
          /\ UNCHANGED <<meta, db>>
      BY <1>1, <1>4 DEF Hash, Runs
    <2>2. run'.hashes = run'.seen
      BY <1>1, <2>1 DEF DataInv, HashesAreOfSeen, Runs, Snapshots
    <2> QED
      BY <1>1, <2>1, <2>2
      DEF DataInv, HashesAreOfSeen, RowsReplaced, HashesMatchRows, Vouched, Rebuilding, Complete
  <1>5. CASE MarkDirty
    <2>1. /\ run'.at = "open" /\ run'.seen = run.seen /\ run'.hashes = run.hashes
          /\ run'.base = run.base /\ run.at = "mark" /\ db' = db
      BY <1>1, <1>5 DEF MarkDirty, Runs
    <2>2. run.base = meta /\ Complete
      BY <1>1, <2>1 DEF DataInv, MetaInv, BaseIsMeta, MarkedFirst, HashesMatchRows, Rebuilding
    <2>3. ~Vouched'
      BY <1>1, <2>1 DEF MetaInv, MarkedFirst, Vouched
    <2> QED
      BY <1>1, <2>1, <2>2, <2>3
      DEF DataInv, HashesAreOfSeen, RowsReplaced, HashesMatchRows, Complete
  <1>6. CASE PlanWrites
    <2>1. PICK linked \in SUBSET Files :
            LET writes == ToWrite(run.hashes, run.base.hashes) \cup linked IN
            run' = [run EXCEPT
              !.at = "delete", !.base = NoMeta, !.writes = writes,
              !.deletes = writes \cup Deleted(run.hashes, run.base.hashes)]
      BY <1>6 DEF PlanWrites
    <2>2. /\ run'.at = "delete" /\ run'.seen = run.seen /\ run'.hashes = run.hashes
          /\ ToWrite(run.hashes, run.base.hashes) \subseteq run'.writes
          /\ run'.deletes = run'.writes \cup Deleted(run.hashes, run.base.hashes)
          /\ run.at = "open" /\ UNCHANGED <<meta, db>>
      BY <1>1, <1>6, <2>1 DEF PlanWrites, Runs
    <2>3. run.hashes = run.seen /\ db.rows = run.base.hashes
      BY <2>2 DEF DataInv, HashesAreOfSeen, RowsReplaced
    <2>4. ASSUME NEW f \in Files, f \notin run'.writes
          PROVE  IF f \in run'.deletes THEN run'.seen[f] = Absent ELSE db'.rows[f] = run'.seen[f]
      BY <2>2, <2>3, <2>4 DEF ToWrite, Deleted, FilesIn
    <2>5. ~Vouched'
      BY <1>1, <2>2 DEF MetaInv, MarkedFirst, Vouched
    <2> QED
      BY <1>1, <2>2, <2>3, <2>4, <2>5 DEF DataInv, HashesAreOfSeen, RowsReplaced, HashesMatchRows
  <1>7. CASE \E f \in Files : DeleteRows(f)
    <2>1. PICK f \in Files : DeleteRows(f)
      BY <1>7
    <2>2. /\ run.at = "delete" /\ run'.at = "delete" /\ f \in run.deletes
          /\ run'.seen = run.seen /\ run'.hashes = run.hashes /\ run'.writes = run.writes
          /\ run'.deletes = run.deletes \ {f}
          /\ db'.rows = [db.rows EXCEPT ![f] = Absent]
      BY <1>1, <2>1 DEF DeleteRows, Runs, RunTypes
    <2>3. ASSUME NEW g \in Files, g \notin run'.writes
          PROVE  IF g \in run'.deletes THEN run'.seen[g] = Absent ELSE db'.rows[g] = run'.seen[g]
      <3>1. IF g \in run.deletes THEN run.seen[g] = Absent ELSE db.rows[g] = run.seen[g]
        BY <2>2, <2>3 DEF DataInv, RowsReplaced
      <3>2. db.rows \in [Files -> Contents \cup {Absent}]
        BY <1>1 DEF RunTypes, Snapshots
      <3> QED BY <2>2, <3>1, <3>2
    <2>4. ~Vouched'
      BY <1>1, <2>2 DEF MetaInv, MarkedFirst, Vouched
    <2> QED BY <1>1, <2>2, <2>3, <2>4 DEF DataInv, HashesAreOfSeen, RowsReplaced, HashesMatchRows
  <1>8. CASE DropDerived
    <2>1. /\ run.at = "delete" /\ run'.at = "loadChanged" /\ run.deletes = {}
          /\ run'.seen = run.seen /\ run'.hashes = run.hashes /\ run'.writes = run.writes
          /\ db'.rows = db.rows
      BY <1>1, <1>8 DEF DropDerived, Runs, RunTypes
    <2>2. ~Vouched'
      BY <1>1, <2>1 DEF MetaInv, MarkedFirst, Vouched
    <2> QED BY <1>1, <2>1, <2>2 DEF DataInv, HashesAreOfSeen, RowsReplaced, HashesMatchRows
  <1>9. CASE LoadChanged
    <2>1. /\ run.at = "loadChanged" /\ run'.at = "derive"
          /\ run'.seen = run.seen /\ run'.hashes = run.hashes
          /\ db'.rows = [f \in Files |-> IF f \in run.writes THEN run.seen[f] ELSE db.rows[f]]
      BY <1>1, <1>9 DEF LoadChanged, Runs, RunTypes
    <2>2. \A f \in Files : db'.rows[f] = run.seen[f]
      BY <2>1 DEF DataInv, RowsReplaced
    <2>3. db'.rows = run'.seen
      BY <1>1, <2>1, <2>2 DEF RunTypes, Runs, Snapshots
    <2> QED
      BY <1>1, <2>1, <2>3 DEF DataInv, HashesAreOfSeen, RowsReplaced, HashesMatchRows, Rebuilding
  <1>10. CASE LoadAll \/ Derive \/ Wipe
    <2>1. \/ /\ run.at = "load" /\ run'.at = "derive" /\ db'.rows = run.seen
          \/ /\ run.at = "derive" /\ run'.at = "save" /\ db'.rows = db.rows /\ db'.whole
          \/ /\ run.at = "wipe" /\ run'.at = "load"
      BY <1>1, <1>10 DEF LoadAll, Derive, Wipe, Runs, RunTypes
    <2>2. run'.seen = run.seen /\ run'.hashes = run.hashes
      BY <1>1, <1>10 DEF LoadAll, Derive, Wipe, Runs
    <2> QED
      BY <1>1, <2>1, <2>2 DEF DataInv, HashesAreOfSeen, RowsReplaced, HashesMatchRows, Rebuilding
  <1>11. CASE SaveMeta
    <2>1. run'.at = "register" /\ db' = db /\ meta'.hashes = run.hashes /\ run.at = "save"
      BY <1>11 DEF SaveMeta, NoRun, MetaOf
    <2>2. Complete'
      BY <2>1 DEF DataInv, HashesAreOfSeen, RowsReplaced, Complete
    <2> QED BY <1>1, <2>1, <2>2 DEF DataInv, HashesAreOfSeen, RowsReplaced, HashesMatchRows
  <1> QED
    BY <1>2, <1>3, <1>4, <1>5, <1>6, <1>7, <1>8, <1>9, <1>10, <1>11 DEF RunStep

\* What happens beside a run, and its death, leave rows and hashes in agreement.
LEMMA OthersKeepData ==
  ASSUME Undisturbed, DataInv,
         \/ \E draft \in Drafts : Edit(draft)
         \/ \E c \in Commits : Checkout(c)
         \/ Start \/ Abort \/ BecomeQuiet
         \/ \E c \in Peers : PeerStep(c)
         \/ \E c \in Clients : ClientStep(c)
         \/ UNCHANGED vars
  PROVE  DataInv'
  <1> USE DEF At, diskVars
  <1>1. MetaInv /\ MetaInv' /\ NoRun.at = "none"
    BY OthersKeepMeta DEF DataInv, NoRun
  <1>2. CASE \/ \E draft \in Drafts : Edit(draft)
             \/ \E c \in Commits : Checkout(c)
    <2>1. UNCHANGED <<meta, db, run>> /\ run.at # "read"
      BY <1>1, <1>2 DEF Edit, Checkout, MayEdit, Undisturbed
    <2> QED
      BY <1>1, <2>1
      DEF DataInv, HashesAreOfSeen, RowsReplaced, HashesMatchRows, Vouched, Rebuilding, Complete
  <1>3. CASE Start
    <2>1. run = NoRun /\ run'.at = "meta" /\ UNCHANGED <<meta, db>>
      BY <1>3 DEF Start, CanStart, NoRun
    <2> QED
      BY <1>1, <2>1
      DEF DataInv, HashesAreOfSeen, RowsReplaced, HashesMatchRows, Vouched, Rebuilding, Complete
  <1>4. CASE Abort
    <2>1. run' = NoRun /\ UNCHANGED <<meta, db>> /\ ~WipedUnderMeta
      BY <1>4 DEF Abort, MayAbort, Undisturbed
    <2>2. HashesMatchRows'
      BY <2>1 DEF DataInv, HashesMatchRows, WipedUnderMeta, Vouched, Rebuilding, Complete
    <2> QED BY <1>1, <2>1, <2>2 DEF DataInv, HashesAreOfSeen, RowsReplaced
  <1>5. CASE UNCHANGED <<head, work, meta, db, run>>
    BY <1>1, <1>5
    DEF DataInv, HashesAreOfSeen, RowsReplaced, HashesMatchRows, Vouched, Rebuilding, Complete
  <1>6. CASE \E c \in Peers, r \in Repos : Clean(c, r)
    <2>1. PICK c \in Peers, r \in Repos : Clean(c, r)
      BY <1>6
    <2>2. CASE r = Self
      <3>1. run = NoRun /\ run' = run /\ meta' = NoMeta
        BY <2>1, <2>2 DEF Clean
      <3> QED BY <1>1, <3>1 DEF DataInv, HashesAreOfSeen, RowsReplaced, HashesMatchRows, Vouched
    <2>3. CASE r # Self
      BY <1>5, <2>1, <2>3 DEF Clean
    <2> QED BY <2>2, <2>3
  <1> QED
    BY <1>2, <1>3, <1>4, <1>5, <1>6
    DEF BecomeQuiet, PeerStep, ClientStep, PeerLists, PeerDies, PeerRegisters, PeerChecks,
        PeerUnregisters, WriteStep, runVars, vars

\* The induction for the rows.
LEMMA DataHolds == ASSUME Undisturbed PROVE Spec => []DataInv
  <1>1. DataInv /\ [Next]_vars => DataInv'
    BY RunKeepsData, OthersKeepData DEF Next
  <1> QED BY InitData, <1>1, PTL DEF Spec

\* A meta.json without the dirty flag vouches for a database that is complete and
\* holds the rows of the content whose hash it records, whatever died before, for
\* any files, contents and commits (coordinator.ts: dirty flag before the first
\* deletion, cleared with the new hashes).
THEOREM HashesMatchRowsHolds == ASSUME Undisturbed PROVE Spec => []HashesMatchRows
  <1>1. DataInv => HashesMatchRows
    BY DEF DataInv
  <1> QED BY DataHolds, <1>1, PTL

\* An incremental run ends with the rows of every file as a full rebuild would
\* leave them: what it does not touch was right, and what it deletes it writes or
\* is gone.
THEOREM IncrementalEqualsFullHolds == ASSUME Undisturbed PROVE Spec => IncrementalEqualsFull
  <1>1. DataInv => (At("save") /\ run'.at = "register" => db.whole /\ db.rows = run.seen)
    BY DEF DataInv, RowsReplaced, At
  <1> QED BY DataHolds, <1>1, PTL DEF IncrementalEqualsFull

\* "Already up to date" is answered about a complete database only.
THEOREM UpToDateIsTrueHolds == ASSUME Undisturbed PROVE Spec => UpToDateIsTrue
  <1>1. ASSUME DataInv, [Next]_vars, At("meta"), run'.at = "upToDate"
        PROVE  Complete
    <2>1. run.at = "meta" /\ run \in Runs
      BY <1>1 DEF At, DataInv, MetaInv, RunTypes
    <2>2. RunStep
      <3>1. run' # run /\ run' # NoRun /\ run # NoRun
        BY <1>1, <2>1 DEF NoRun
      <3> QED
        BY <1>1, <3>1
        DEF Next, Edit, Checkout, Start, CanStart, Abort, BecomeQuiet, PeerStep, ClientStep,
            PeerLists, PeerDies, PeerRegisters, Clean, PeerChecks, PeerUnregisters, WriteStep,
            runVars, vars
    <2>3. LoadMeta
      BY <2>1, <2>2
      DEF RunStep, At, ReturnUpToDate, Pipeline, Hash, MarkDirty, PlanWrites, DropDerived,
          LoadChanged, DeleteRows, Wipe, LoadAll, Derive, SaveMeta, Register, Finish
    <2>4. Vouched
      BY <2>1, <2>3, <1>1 DEF LoadMeta, UpToDate, Vouched, Runs
    <2> QED BY <1>1, <2>1, <2>4 DEF DataInv, HashesMatchRows, Rebuilding
  <1>2. DataInv /\ [Next]_vars => (At("meta") /\ run'.at = "upToDate" => Complete)
    BY <1>1
  <1> QED BY DataHolds, <1>2, PTL DEF UpToDateIsTrue, Spec

-----------------------------------------------------------------------------
(* The registry.                                                           *)

RegistryTypes ==
  /\ registry # Torn => registry \subseteq Repos
  /\ clients \in [Clients -> [at : {"rest", "write", "truncated", "unregister", "check"},
                              for : Repos \cup {None}, entries : SUBSET Repos]]
  /\ \A c \in Clients : clients[c].at = "rest" => clients[c] = AtRest
  /\ enrolled \subseteq Repos /\ others \subseteq Repos

OneChanges == \A c, d \in Clients : Changing(c) /\ Changing(d) => c = d

\* Who must be in the file: registrations that were completed, and the repository
\* itself when it has an index and its run is not about to register it.
Owed ==
  enrolled \cup
    {r \in {Self} : /\ "crash_unregistered" \notin Adversity
                    /\ meta # NoMeta /\ run.at \notin {"register", "registering"}}

\* What a client knows of the file, or is about to make of it.  A registration adds
\* the entry it is for; a listing is for none.
Keeps(c) ==
  /\ clients[c].at = "unregister" => clients[c].for \notin Owed
  /\ clients[c].at = "check" => Owed \subseteq clients[c].entries /\ clients[c].for = None
  /\ clients[c].at \in {"write", "truncated"} =>
       /\ Owed \subseteq clients[c].entries
       /\ clients[c].for # None => clients[c].for \in clients[c].entries \cap Indexed

ClientsKeep == \A c \in Clients : Keeps(c)

NoneTruncated == \A c \in Clients : clients[c].at # "truncated"

FileKeeps == NoneTruncated => registry # Torn /\ Owed \subseteq registry

\* A run that registers is doing so, or has done so.
RegisteringRuns ==
  /\ run.at \in {"register", "registering"} => meta # NoMeta
  /\ At("registering") =>
       \/ clients[Runner].at \in {"write", "truncated"} /\ clients[Runner].for = Self
       \/ Self \in enrolled

RegistryInv ==
  /\ RegistryTypes /\ OneChanges /\ ClientsKeep /\ FileKeeps
  /\ RegisteringRuns /\ enrolled \subseteq Indexed

\* What the theorems about the registry suppose.
OneAtATime == "registry_race" \notin Adversity /\ "torn_registry" \notin Adversity

\* A registry that nobody has changed.
LEMMA InitRegistry == Init => RegistryInv
  <1> SUFFICES ASSUME Init PROVE RegistryInv
    OBVIOUS
  <1>1. /\ clients = [c \in Clients |-> AtRest] /\ others = {} /\ run.at = "none"
        /\ \/ registry = {} /\ enrolled = {} /\ meta = NoMeta
           \/ registry = {Self} /\ enrolled = {Self} /\ meta # NoMeta
    <2>1. CASE RegistryInit({}) /\ meta = NoMeta
      BY <2>1 DEF Init, RegistryInit, NoRun
    <2>2. CASE RegistryInit({Self}) /\ meta = [MetaOf(head, work) EXCEPT !.schema = FALSE]
      <3>1. MetaOf(head, work) \in Metas
        BY Values DEF Init
      <3>2. meta \in Metas
        BY <2>2, <3>1 DEF Metas
      <3> QED BY <2>2, <3>2, RunAssumption DEF Init, RegistryInit, NoRun
    <2> QED BY <2>1, <2>2 DEF Init
  <1>2. \A c \in Clients : clients[c].at = "rest" /\ ~Changing(c)
    BY <1>1 DEF AtRest, Changing
  <1>3. RegistryTypes
    BY <1>1, RunAssumption, RegistryAssumption DEF RegistryTypes, AtRest
  <1>4. Owed \subseteq registry /\ registry # Torn
    BY <1>1, <1>3, RunAssumption, RegistryAssumption DEF Owed
  <1>5. RegisteringRuns /\ enrolled \subseteq Indexed
    BY <1>1 DEF RegisteringRuns, Indexed, At
  <1> QED
    BY <1>2, <1>3, <1>4, <1>5 DEF RegistryInv, OneChanges, ClientsKeep, Keeps, FileKeeps

\* What is known of a file that nobody is changing.
LEMMA Settled ==
  ASSUME RegistryInv, RegistryQuiet
  PROVE  /\ registry # Torn /\ ReadRegistry = registry /\ registry \subseteq Repos
         /\ Owed \subseteq registry
         /\ \A c \in Clients : clients[c] = AtRest
  <1>1. \A c \in Clients : clients[c] = AtRest /\ clients[c].at = "rest"
    BY DEF RegistryQuiet, Changing, AtRest
  <1>2. registry # Torn /\ Owed \subseteq registry
    BY <1>1 DEF RegistryInv, FileKeeps, NoneTruncated
  <1> QED BY <1>1, <1>2 DEF ReadRegistry, RegistryInv, RegistryTypes

\* Beside a client that changes the file all are at rest.
LEMMA Alone ==
  ASSUME RegistryInv, NEW c \in Clients, clients[c].at # "rest"
  PROVE  \A d \in Clients \ {c} : clients[d] = AtRest
  BY DEF RegistryInv, OneChanges, Changing, AtRest

\* So a step of one client, or of none, is judged by that client.
LEMMA OneMoves ==
  ASSUME RegistryTypes', NEW c \in Clients, \A d \in Clients \ {c} : clients'[d] = AtRest, Keeps(c)'
  PROVE  OneChanges' /\ ClientsKeep'
  <1>1. \A d \in Clients \ {c} : clients'[d].at = "rest" /\ ~Changing(d)'
    BY DEF AtRest, Changing
  <1>2. OneChanges'
    BY <1>1 DEF OneChanges
  <1>3. \A d \in Clients \ {c} : Keeps(d)'
    BY <1>1 DEF Keeps
  <1> QED BY <1>2, <1>3 DEF ClientsKeep

\* A step that leaves the registry alone, and owes it nothing new.
LEMMA Still ==
  ASSUME RegistryInv, UNCHANGED registryVars, others' \subseteq Repos,
         Owed' \subseteq Owed, Indexed \subseteq Indexed', RegisteringRuns'
  PROVE  RegistryInv'
  <1> USE DEF registryVars
  <1>1. RegistryTypes' /\ OneChanges'
    BY DEF RegistryInv, RegistryTypes, OneChanges, Changing
  <1>2. ClientsKeep'
    BY DEF RegistryInv, ClientsKeep, Keeps
  <1>3. FileKeeps' /\ (enrolled \subseteq Indexed)'
    BY DEF RegistryInv, FileKeeps, NoneTruncated
  <1> QED BY <1>1, <1>2, <1>3 DEF RegistryInv

\* registerRepo reads the file.
LEMMA RegisterReadKeeps ==
  ASSUME OneAtATime, RegistryInv, NEW c \in Clients, NEW r \in Repos, RegisterRead(c, r),
         others' \subseteq Repos, Owed' \subseteq Owed, Indexed \subseteq Indexed', r \in Indexed',
         RegisteringRuns'
  PROVE  RegistryInv'
  <1>1. RegistryQuiet /\ UNCHANGED <<registry, enrolled>>
    BY DEF RegisterRead, MayRead, OneAtATime
  <1>2. /\ registry # Torn /\ ReadRegistry = registry /\ registry \subseteq Repos
        /\ Owed \subseteq registry /\ \A d \in Clients : clients[d] = AtRest
    BY <1>1, Settled
  <1>3. clients' = [clients EXCEPT ![c] =
                      [at |-> "write", for |-> r, entries |-> registry \cup {r}]]
    BY <1>2 DEF RegisterRead
  <1>4. RegistryTypes'
    BY <1>1, <1>2, <1>3 DEF RegistryInv, RegistryTypes
  <1>5. /\ clients'[c] = [at |-> "write", for |-> r, entries |-> registry \cup {r}]
        /\ \A d \in Clients \ {c} : clients'[d] = AtRest
    BY <1>2, <1>3 DEF RegistryInv, RegistryTypes
  <1>6. Keeps(c)'
    BY <1>2, <1>5 DEF Keeps
  <1>7. FileKeeps'
    BY <1>1, <1>2 DEF FileKeeps
  <1>8. (enrolled \subseteq Indexed)'
    BY <1>1 DEF RegistryInv
  <1> QED BY <1>4, <1>5, <1>6, <1>7, <1>8, OneMoves DEF RegistryInv

\* A run that is not at its registration, before and after.
LEMMA StepOfRun ==
  ASSUME RegistryInv, UNCHANGED registryVars, others' = others,
         run.at \notin {"register", "registering"}, run'.at \notin {"register", "registering"},
         meta' = meta \/ (meta # NoMeta /\ meta' # NoMeta)
  PROVE  RegistryInv'
  <1>1. Owed' = Owed /\ Indexed' = Indexed
    BY DEF Owed, Indexed, registryVars
  <1>2. RegisteringRuns' /\ others' \subseteq Repos
    BY DEF RegisteringRuns, At, RegistryInv, RegistryTypes
  <1> QED BY <1>1, <1>2, Still

\* The steps of a run: only the last three have to do with the registry.
LEMMA RunKeepsRegistry ==
  ASSUME OneAtATime, MetaInv, RegistryInv, RunStep
  PROVE  RegistryInv'
  <1> USE DEF At, Goto, diskVars
  <1>1. run \in Runs
    BY DEF MetaInv, RunTypes
  <1>2. CASE LoadMeta \/ Pipeline \/ Hash
    <2>1. run'.at \in {"upToDate", "pipeline", "read", "mark", "wipe"}
      <3>1. CASE LoadMeta
        BY <1>1, <3>1 DEF LoadMeta, Runs
      <3>2. CASE Pipeline \/ Hash
        BY <1>1, <3>2 DEF Pipeline, Hash, Runs
      <3> QED BY <1>2, <3>1, <3>2
    <2>2. run.at \in {"meta", "pipeline", "read"} /\ UNCHANGED <<meta, others, registryVars>>
      BY <1>2 DEF LoadMeta, Pipeline, Hash
    <2> QED BY <2>1, <2>2, StepOfRun
  <1>3. CASE ReturnUpToDate
    BY <1>3, StepOfRun DEF ReturnUpToDate, NoRun
  <1>4. CASE MarkDirty
    <2>1. run.base = meta /\ meta \in Metas
      BY <1>4 DEF MarkDirty, MetaInv, BaseIsMeta, MarkedFirst, Vouched, RunTypes
    <2>2. meta # NoMeta /\ meta' # NoMeta
      BY <1>4, <2>1, Values, RunAssumption DEF MarkDirty
    <2> QED BY <1>1, <1>4, <2>2, StepOfRun DEF MarkDirty, Runs
  <1>5. CASE PlanWrites
    <2>1. run'.at = "delete"
      BY <1>1, <1>5 DEF PlanWrites, Runs
    <2> QED BY <1>5, <2>1, StepOfRun DEF PlanWrites
  <1>6. CASE \E f \in Files : DeleteRows(f)
    <2>1. run'.at = "delete"
      BY <1>1, <1>6 DEF DeleteRows, Runs
    <2> QED BY <1>6, <2>1, StepOfRun DEF DeleteRows
  <1>7. CASE DropDerived \/ LoadChanged \/ Wipe \/ LoadAll \/ Derive
    <2>1. run'.at \in {"loadChanged", "derive", "load", "save"}
      BY <1>1, <1>7 DEF DropDerived, LoadChanged, Wipe, LoadAll, Derive, Runs
    <2>2. /\ run.at \in {"delete", "loadChanged", "wipe", "load", "derive"}
          /\ UNCHANGED <<meta, others, registryVars>>
      BY <1>7 DEF DropDerived, LoadChanged, Wipe, LoadAll, Derive
    <2> QED BY <2>1, <2>2, StepOfRun
  <1>8. CASE SaveMeta
    <2>1. run'.at = "register" /\ UNCHANGED <<others, registryVars>>
      BY <1>8, Values DEF SaveMeta, NoRun
    <2>2. run.commit \in Commits /\ run.hashes \in Snapshots
      BY <1>1, <1>8 DEF SaveMeta, MetaInv, RunTypes, Runs
    <2>3. meta' # NoMeta
      BY <1>8, <2>2, Values, RunAssumption DEF SaveMeta
    <2>4. Owed' \subseteq Owed /\ Indexed \subseteq Indexed' /\ RegisteringRuns'
      BY <2>1, <2>3 DEF Owed, Indexed, RegisteringRuns, registryVars
    <2> QED BY <2>1, <2>4, Still DEF RegistryInv, RegistryTypes
  <1>9. CASE Register
    <2>1. run.at = "register" /\ run'.at = "registering" /\ UNCHANGED <<meta, others>>
      BY <1>1, <1>9 DEF Register, Runs
    <2>2. RegisterRead(Runner, Self) /\ enrolled' = enrolled
      BY <1>9 DEF Register, RegisterRead
    <2>3. Owed' = Owed /\ Indexed' = Indexed /\ Self \in Indexed
      BY <2>1, <2>2 DEF Owed, Indexed, RegistryInv, RegisteringRuns
    <2>4. clients'[Runner].at = "write" /\ clients'[Runner].for = Self
      BY <2>2, RunAssumption DEF RegisterRead, RegistryInv, RegistryTypes
    <2>5. RegisteringRuns'
      BY <2>1, <2>4 DEF RegistryInv, RegisteringRuns
    <2> QED
      BY <2>1, <2>2, <2>3, <2>5, RunAssumption, RegisterReadKeeps DEF RegistryInv, RegistryTypes
  <1>10. CASE Finish
    <2>1. /\ run.at = "registering" /\ run'.at = "none"
          /\ UNCHANGED <<meta, others, registryVars>> /\ ~Changing(Runner)
      BY <1>10 DEF Finish, NoRun
    <2>2. Self \in enrolled
      BY <2>1 DEF Changing, AtRest, RegistryInv, RegisteringRuns
    <2>3. Owed' \subseteq Owed /\ Indexed' = Indexed /\ RegisteringRuns'
      BY <2>1, <2>2 DEF Owed, Indexed, RegisteringRuns, registryVars
    <2> QED BY <2>1, <2>3, Still DEF RegistryInv, RegistryTypes
  <1> QED BY <1>2, <1>3, <1>4, <1>5, <1>6, <1>7, <1>8, <1>9, <1>10 DEF RunStep

\* A run that dies takes its client with it; it leaves the entry it owes.
LEMMA AbortKeepsRegistry ==
  ASSUME OneAtATime, MetaInv, RegistryInv, Abort
  PROVE  RegistryInv'
  <1>1. run'.at = "none" /\ UNCHANGED <<meta, others, registry, enrolled>>
    BY DEF Abort, NoRun, ClientDies, registryVars, diskVars
  <1>2. Indexed' = Indexed /\ RegisteringRuns' /\ others' \subseteq Repos
    BY <1>1 DEF Indexed, RegisteringRuns, At, RegistryInv, RegistryTypes
  <1>3. CASE ~Changing(Runner) /\ run.at \notin {"register", "registering"}
    BY <1>1, <1>3, StepOfRun DEF Abort
  <1>4. CASE Changing(Runner) \/ run.at \in {"register", "registering"}
    <2>1. clients' = [clients EXCEPT ![Runner] = AtRest]
      <3>1. CASE Changing(Runner)
        BY <3>1 DEF Abort, ClientDies
      <3>2. CASE ~Changing(Runner)
        BY <3>2, RunAssumption DEF Abort, registryVars, Changing, RegistryInv, RegistryTypes
      <3> QED BY <3>1, <3>2
    <2>2. RegistryTypes' /\ clients'[Runner] = AtRest
      BY <1>1, <2>1, RunAssumption DEF RegistryInv, RegistryTypes, AtRest
    <2>3. clients[Runner].at # "truncated"
      BY DEF Abort, ClientDies, OneAtATime, Changing, AtRest
    <2>4. Keeps(Runner)'
      BY <2>2 DEF Keeps, AtRest
    <2>5. CASE Changing(Runner) /\ run.at \notin {"register", "registering"}
      <3>1. \A d \in Clients \ {Runner} : clients[d] = AtRest
        BY <2>5, RunAssumption DEF RegistryInv, OneChanges, Changing
      <3>2. NoneTruncated /\ \A d \in Clients \ {Runner} : clients'[d] = AtRest
        BY <2>1, <2>3, <3>1 DEF NoneTruncated, AtRest, RegistryInv, RegistryTypes
      <3>3. Owed' = Owed
        BY <1>1, <2>5 DEF Owed
      <3>4. FileKeeps' /\ (enrolled \subseteq Indexed)'
        BY <1>1, <1>2, <3>2, <3>3 DEF RegistryInv, FileKeeps
      <3> QED BY <1>2, <2>2, <2>4, <3>2, <3>4, RunAssumption, OneMoves DEF RegistryInv
    <2>6. CASE run.at \in {"register", "registering"} /\ "crash_unregistered" \in Adversity
      <3>1. Owed' = enrolled /\ Owed = enrolled
        BY <1>1, <2>6 DEF Owed
      <3>2. ASSUME NEW d \in Clients PROVE Keeps(d)'
        <4>1. CASE d = Runner
          BY <2>4, <4>1
        <4>2. CASE d # Runner
          <5>1. clients'[d] = clients[d] /\ Keeps(d)
            BY <2>1, <4>2 DEF RegistryInv, RegistryTypes, ClientsKeep
          <5> QED BY <1>2, <3>1, <5>1 DEF Keeps
        <4> QED BY <4>1, <4>2
      <3>3. NoneTruncated' => NoneTruncated
        BY <2>1, <2>3 DEF NoneTruncated, RegistryInv, RegistryTypes
      <3>4. FileKeeps' /\ (enrolled \subseteq Indexed)'
        BY <1>1, <1>2, <3>1, <3>3 DEF RegistryInv, FileKeeps
      <3>5. OneChanges'
        BY <2>1, <2>2 DEF RegistryInv, RegistryTypes, OneChanges, Changing
      <3> QED BY <1>2, <2>2, <3>2, <3>4, <3>5 DEF RegistryInv, ClientsKeep
    <2>7. CASE run.at \in {"register", "registering"} /\ "crash_unregistered" \notin Adversity
      <3>1. Self \in ReadRegistry /\ \A d \in Clients \ {Runner} : clients[d] = AtRest
        BY <2>7 DEF Abort, MayAbort, Unregistered, Changing
      <3>2. NoneTruncated /\ \A d \in Clients \ {Runner} : clients'[d] = AtRest
        BY <2>1, <2>3, <3>1 DEF NoneTruncated, AtRest, RegistryInv, RegistryTypes
      <3>3. registry # Torn /\ enrolled \subseteq registry /\ Self \in registry
        BY <3>1, <3>2 DEF RegistryInv, FileKeeps, Owed, ReadRegistry
      <3>4. FileKeeps' /\ (enrolled \subseteq Indexed)'
        BY <1>1, <1>2, <3>3 DEF RegistryInv, FileKeeps, Owed
      <3> QED BY <1>2, <2>2, <2>4, <3>2, <3>4, RunAssumption, OneMoves DEF RegistryInv
    <2> QED BY <1>4, <2>5, <2>6, <2>7
  <1> QED BY <1>3, <1>4

\* unregisterRepo, a listing, a write: the steps of a client already under way.
LEMMA ClientKeepsRegistry ==
  ASSUME MetaInv, RegistryInv, NEW c \in Clients, ClientStep(c)
  PROVE  RegistryInv'
  <1>1. UNCHANGED <<meta, run, others>>
    BY DEF ClientStep, PeerChecks, PeerUnregisters, WriteStep, runVars
  <1>2. clients[c].at \in {"unregister", "check", "write", "truncated"}
    BY DEF ClientStep, PeerChecks, PeerUnregisters, WriteStep, ListCheck, UnregisterRead, Truncate,
           WriteRegistry
  <1>3. \A d \in Clients \ {c} : clients[d] = AtRest
    BY <1>2, Alone
  <1>4. Keeps(c) /\ Owed \subseteq Indexed /\ Owed \subseteq Repos /\ Indexed' = Indexed
    BY <1>1, RunAssumption DEF RegistryInv, RegistryTypes, ClientsKeep, Owed, Indexed
  <1>5. clients[c].at # "truncated" => NoneTruncated
    BY <1>3 DEF NoneTruncated, AtRest
  <1>6. CASE UnregisterRead(c)
    <2>1. registry # Torn /\ ReadRegistry = registry /\ Owed \subseteq registry /\ registry \subseteq Repos
      BY <1>5, <1>6 DEF UnregisterRead, RegistryInv, RegistryTypes, FileKeeps, ReadRegistry
    <2>2. clients' = [clients EXCEPT ![c] =
            [at |-> "write", for |-> None, entries |-> registry \ {clients[c].for}]]
      BY <1>6, <2>1 DEF UnregisterRead
    <2>3. UNCHANGED <<registry, enrolled>> /\ Owed' = Owed /\ clients[c].for \notin Owed
      BY <1>1, <1>4, <1>6 DEF UnregisterRead, Owed, Keeps
    <2>4. RegistryTypes'
      BY <1>1, <2>1, <2>2, <2>3 DEF RegistryInv, RegistryTypes
    <2>5. /\ clients'[c] = [at |-> "write", for |-> None, entries |-> registry \ {clients[c].for}]
          /\ \A d \in Clients \ {c} : clients'[d] = AtRest
      BY <1>3, <2>2 DEF RegistryInv, RegistryTypes
    <2>6. Keeps(c)'
      BY <2>1, <2>3, <2>5 DEF Keeps
    <2>7. FileKeeps' /\ (enrolled \subseteq Indexed)'
      BY <1>4, <2>1, <2>3 DEF FileKeeps, RegistryInv
    <2>8. RegisteringRuns'
      <3>1. clients[Runner].at \notin {"write", "truncated"}
        BY <1>3, <1>6, RunAssumption DEF UnregisterRead, AtRest
      <3> QED BY <1>1, <2>3, <3>1 DEF RegistryInv, RegisteringRuns, At
    <2> QED BY <2>4, <2>5, <2>6, <2>7, <2>8, OneMoves DEF RegistryInv
  <1>7. CASE ListCheck(c, Indexed)
    <2>1. UNCHANGED <<registry, enrolled>> /\ Owed' = Owed /\ clients[c].at = "check"
      BY <1>1, <1>7 DEF ListCheck, Owed
    <2>2. clients[c].for = None /\ Owed \subseteq clients[c].entries
      BY <1>4, <2>1 DEF Keeps
    <2>3. clients[c] \in [at : {"rest", "write", "truncated", "unregister", "check"},
                          for : Repos \cup {None}, entries : SUBSET Repos]
      BY DEF RegistryInv, RegistryTypes
    <2>4. /\ \A d \in Clients \ {c} : clients'[d] = AtRest
          /\ \/ clients'[c] = AtRest
             \/ clients'[c] =
                  [at |-> "write", for |-> None, entries |-> clients[c].entries \cap Indexed]
      <3>1. CASE clients[c].entries \subseteq Indexed
        BY <1>3, <1>7, <3>1 DEF ListCheck, RegistryInv, RegistryTypes
      <3>2. CASE ~(clients[c].entries \subseteq Indexed)
        BY <1>3, <1>7, <3>2 DEF ListCheck, RegistryInv, RegistryTypes
      <3> QED BY <3>1, <3>2
    <2>5. RegistryTypes'
      <3>1. clients' = [clients EXCEPT ![c] = clients'[c]]
        BY <1>7 DEF ListCheck, RegistryInv, RegistryTypes
      <3> QED BY <1>1, <2>1, <2>3, <2>4, <3>1 DEF RegistryInv, RegistryTypes, AtRest
    <2>6. Keeps(c)'
      BY <1>4, <2>1, <2>2, <2>4 DEF Keeps, AtRest
    <2>7. FileKeeps' /\ (enrolled \subseteq Indexed)'
      BY <1>4, <1>5, <2>1 DEF FileKeeps, RegistryInv
    <2>8. RegisteringRuns'
      BY <1>1, <1>3, <2>1, RunAssumption DEF RegistryInv, RegisteringRuns, At, AtRest
    <2> QED BY <2>4, <2>5, <2>6, <2>7, <2>8, OneMoves DEF RegistryInv
  <1>8. CASE Truncate(c)
    <2>1. /\ registry' = Torn /\ enrolled' = enrolled /\ Owed' = Owed
          /\ clients[c].at = "write" /\ clients' = [clients EXCEPT ![c].at = "truncated"]
      BY <1>1, <1>8 DEF Truncate, Owed
    <2>2. /\ clients'[c] = [clients[c] EXCEPT !.at = "truncated"]
          /\ \A d \in Clients \ {c} : clients'[d] = AtRest
      BY <1>3, <2>1 DEF RegistryInv, RegistryTypes
    <2>3. RegistryTypes'
      BY <1>1, <2>1 DEF RegistryInv, RegistryTypes
    <2>4. /\ clients'[c].at = "truncated" /\ clients'[c].for = clients[c].for
          /\ clients'[c].entries = clients[c].entries
      BY <2>2 DEF RegistryInv, RegistryTypes
    <2>5. Keeps(c)'
      BY <1>4, <2>1, <2>4 DEF Keeps
    <2>6. FileKeeps' /\ (enrolled \subseteq Indexed)'
      BY <1>4, <2>1, <2>4 DEF FileKeeps, NoneTruncated, RegistryInv
    <2>7. RegisteringRuns'
      BY <1>1, <2>1, <2>2, <2>4, <1>3, RunAssumption DEF RegistryInv, RegisteringRuns, At, AtRest
    <2> QED BY <2>2, <2>3, <2>5, <2>6, <2>7, OneMoves DEF RegistryInv
  <1>9. CASE WriteRegistry(c)
    <2>1. /\ registry' = clients[c].entries /\ clients[c].at = "truncated"
          /\ enrolled' = enrolled \cup ({clients[c].for} \ {None})
          /\ clients' = [clients EXCEPT ![c] = AtRest]
      BY <1>9 DEF WriteRegistry
    <2>2. Owed' = Owed \cup ({clients[c].for} \ {None})
      BY <1>1, <2>1 DEF Owed
    <2>3. /\ Owed \subseteq clients[c].entries /\ clients[c].entries \subseteq Repos
          /\ clients[c].for # None => clients[c].for \in clients[c].entries \cap Indexed
      BY <1>4, <2>1 DEF Keeps, RegistryInv, RegistryTypes
    <2>4. \A d \in Clients : clients'[d] = AtRest
      BY <1>3, <2>1 DEF RegistryInv, RegistryTypes
    <2>5. RegistryTypes'
      BY <1>1, <2>1, <2>3 DEF RegistryInv, RegistryTypes, AtRest
    <2>6. Keeps(c)'
      BY <2>4 DEF Keeps, AtRest
    <2>7. FileKeeps' /\ (enrolled \subseteq Indexed)'
      BY <1>4, <2>1, <2>2, <2>3, RegistryAssumption DEF FileKeeps, RegistryInv
    <2>8. RegisteringRuns'
      <3>1. c = Runner /\ clients[c].for = Self => Self \in enrolled'
        BY <2>1, RunAssumption
      <3>2. clients[Runner].at \in {"write", "truncated"} => c = Runner
        BY <1>3, RunAssumption DEF AtRest
      <3> QED BY <1>1, <2>1, <3>1, <3>2 DEF RegistryInv, RegisteringRuns, At
    <2> QED BY <2>4, <2>5, <2>6, <2>7, <2>8, OneMoves DEF RegistryInv
  <1> QED
    BY <1>6, <1>7, <1>8, <1>9 DEF ClientStep, PeerChecks, PeerUnregisters, WriteStep

\* Other processes that begin to change the registry find nobody changing it.
LEMMA PeerKeepsRegistry ==
  ASSUME OneAtATime, MetaInv, RegistryInv, NEW c \in Peers, PeerStep(c)
  PROVE  RegistryInv'
  <1>1. c \in Clients /\ c # Runner
    BY DEF Peers
  <1>2. CASE \E r \in Repos : PeerRegisters(c, r)
    <2>1. PICK r \in Repos : PeerRegisters(c, r)
      BY <1>2
    <2>2. /\ RegisterRead(c, r) /\ others' = others \cup {r} /\ UNCHANGED <<meta, run>>
          /\ enrolled' = enrolled
      BY <2>1 DEF PeerRegisters, RegisterRead, diskVars
    <2>3. others' \subseteq Repos /\ Owed' = Owed /\ Indexed \subseteq Indexed' /\ r \in Indexed'
      BY <2>2 DEF RegistryInv, RegistryTypes, Owed, Indexed
    <2>4. clients'[Runner] = clients[Runner]
      BY <1>1, <2>2, RunAssumption DEF RegisterRead, RegistryInv, RegistryTypes
    <2>5. RegisteringRuns'
      BY <2>2, <2>4 DEF RegistryInv, RegisteringRuns, At
    <2> QED BY <1>1, <2>2, <2>3, <2>5, RegisterReadKeeps
  <1>3. CASE PeerLists(c)
    <2>1. RegistryQuiet /\ UNCHANGED <<registry, enrolled, meta, run, others>>
      BY <1>3 DEF PeerLists, ListRead, MayRead, OneAtATime, runVars
    <2>2. /\ registry # Torn /\ ReadRegistry = registry /\ registry \subseteq Repos
          /\ Owed \subseteq registry /\ \A d \in Clients : clients[d] = AtRest
      BY <2>1, Settled
    <2>3. clients' = [clients EXCEPT ![c] = [at |-> "check", for |-> None, entries |-> registry]]
      BY <1>3, <2>2 DEF PeerLists, ListRead
    <2>4. /\ clients'[c] = [at |-> "check", for |-> None, entries |-> registry]
          /\ \A d \in Clients \ {c} : clients'[d] = AtRest
      BY <1>1, <2>2, <2>3 DEF RegistryInv, RegistryTypes
    <2>5. RegistryTypes'
      BY <1>1, <2>1, <2>2, <2>3 DEF RegistryInv, RegistryTypes
    <2>6. Owed' = Owed /\ Indexed' = Indexed
      BY <2>1 DEF Owed, Indexed
    <2>7. Keeps(c)'
      BY <2>2, <2>4, <2>6 DEF Keeps
    <2>8. FileKeeps' /\ (enrolled \subseteq Indexed)'
      BY <2>1, <2>2, <2>6 DEF FileKeeps, RegistryInv
    <2>9. RegisteringRuns'
      BY <1>1, <2>1, <2>2, <2>4, RunAssumption DEF RegistryInv, RegisteringRuns, At
    <2> QED BY <1>1, <2>4, <2>5, <2>7, <2>8, <2>9, OneMoves DEF RegistryInv
  <1>4. CASE PeerDies(c)
    <2>1. /\ clients' = [clients EXCEPT ![c] = AtRest]
          /\ UNCHANGED <<registry, enrolled, meta, run, others>>
          /\ clients[c] # AtRest /\ clients[c].at # "truncated"
      BY <1>4 DEF PeerDies, ClientDies, OneAtATime, Changing, runVars
    <2>2. \A d \in Clients \ {c} : clients[d] = AtRest
      BY <1>1, <2>1 DEF RegistryInv, OneChanges, Changing
    <2>3. \A d \in Clients : clients'[d] = AtRest
      BY <2>1, <2>2 DEF RegistryInv, RegistryTypes
    <2>4. RegistryTypes'
      BY <2>1 DEF RegistryInv, RegistryTypes, AtRest
    <2>5. Owed' = Owed /\ Indexed' = Indexed /\ NoneTruncated
      BY <2>1, <2>2 DEF Owed, Indexed, NoneTruncated, AtRest
    <2>6. FileKeeps' /\ (enrolled \subseteq Indexed)'
      BY <2>1, <2>5 DEF FileKeeps, RegistryInv
    <2>7. RegisteringRuns'
      BY <1>1, <2>1, <2>2, <2>3, RunAssumption DEF RegistryInv, RegisteringRuns, At
    <2>8. Keeps(c)'
      BY <1>1, <2>3 DEF Keeps, AtRest
    <2> QED BY <1>1, <2>3, <2>4, <2>6, <2>7, <2>8, OneMoves DEF RegistryInv
  <1>5. CASE \E r \in Repos : Clean(c, r)
    <2>1. PICK r \in Repos : Clean(c, r)
      BY <1>5
    <2>2. RegistryQuiet /\ CleanStarts(c, r) /\ run' = run /\ others' = others \ {r}
      BY <2>1 DEF Clean, CleanStarts, MayRead, OneAtATime
    <2>3. /\ registry # Torn /\ registry \subseteq Repos
          /\ Owed \subseteq registry /\ \A d \in Clients : clients[d] = AtRest
      BY <2>2, Settled
    <2>4. /\ clients' = [clients EXCEPT ![c] = [at |-> "unregister", for |-> r, entries |-> {}]]
          /\ enrolled' = enrolled \ {r} /\ registry' = registry
      BY <2>2 DEF CleanStarts
    <2>5. /\ clients'[c] = [at |-> "unregister", for |-> r, entries |-> {}]
          /\ \A d \in Clients \ {c} : clients'[d] = AtRest
      BY <1>1, <2>3, <2>4 DEF RegistryInv, RegistryTypes
    <2>6. RegistryTypes'
      BY <1>1, <2>2, <2>3, <2>4 DEF RegistryInv, RegistryTypes
    <2>7. \/ r = Self /\ run.at = "none" /\ meta' = NoMeta
          \/ r # Self /\ meta' = meta
      BY <2>1 DEF Clean, NoRun, diskVars
    <2>8. Owed' \subseteq Owed /\ r \notin Owed' /\ (enrolled \subseteq Indexed)'
      BY <2>2, <2>4, <2>7 DEF Owed, Indexed, RegistryInv
    <2>9. Keeps(c)'
      BY <2>5, <2>8 DEF Keeps
    <2>10. FileKeeps'
      BY <2>3, <2>4, <2>8 DEF FileKeeps
    <2>11. RegisteringRuns'
      BY <1>1, <2>2, <2>3, <2>4, <2>7, RunAssumption DEF RegistryInv, RegisteringRuns, At, AtRest
    <2> QED BY <1>1, <2>5, <2>6, <2>8, <2>9, <2>10, <2>11, OneMoves DEF RegistryInv
  <1> QED BY <1>2, <1>3, <1>4, <1>5 DEF PeerStep

\* The induction for the registry.
LEMMA RegistryHolds == ASSUME OneAtATime PROVE Spec => [](MetaInv /\ RegistryInv)
  <1>1. ASSUME MetaInv, RegistryInv, [Next]_vars PROVE RegistryInv'
    <2>1. CASE \/ \E draft \in Drafts : Edit(draft)
               \/ \E c \in Commits : Checkout(c)
               \/ BecomeQuiet \/ UNCHANGED vars
      <3>1. UNCHANGED <<meta, run, others, registryVars>>
        BY <2>1 DEF Edit, Checkout, BecomeQuiet, vars, runVars, diskVars
      <3>2. Owed' = Owed /\ Indexed' = Indexed /\ RegisteringRuns'
        BY <1>1, <3>1 DEF Owed, Indexed, RegistryInv, RegisteringRuns, At, registryVars
      <3> QED BY <1>1, <3>1, <3>2, Still DEF RegistryInv, RegistryTypes
    <2>2. CASE Start
      <3>1. run.at = "none" /\ run'.at = "meta" /\ UNCHANGED <<meta, others, registryVars>>
        BY <2>2 DEF Start, CanStart, NoRun, diskVars
      <3> QED BY <1>1, <3>1, StepOfRun
    <2>3. CASE RunStep
      BY <1>1, <2>3, RunKeepsRegistry
    <2>4. CASE Abort
      BY <1>1, <2>4, AbortKeepsRegistry
    <2>5. CASE \E c \in Peers : PeerStep(c)
      BY <1>1, <2>5, PeerKeepsRegistry
    <2>6. CASE \E c \in Clients : ClientStep(c)
      BY <1>1, <2>6, ClientKeepsRegistry
    <2> QED BY <1>1, <2>1, <2>2, <2>3, <2>4, <2>5, <2>6 DEF Next
  <1>2. MetaInv /\ RegistryInv /\ [Next]_vars => MetaInv' /\ RegistryInv'
    BY <1>1, RunKeepsMeta, OthersKeepMeta DEF Next
  <1> QED BY InitMeta, InitRegistry, <1>2, PTL DEF Spec

\* A registration that was completed stays in the file, whatever others register,
\* unregister and prune, when processes change the file one at a time and none dies
\* while it is truncated (registry.ts).
THEOREM NoLostRegistrationHolds == ASSUME OneAtATime PROVE Spec => []NoLostRegistration
  <1>1. RegistryInv => NoLostRegistration
    BY Settled DEF NoLostRegistration, Owed
  <1> QED BY RegistryHolds, <1>1, PTL

\* An index that exists is registered between runs, when besides no run dies between
\* its first meta.json and its registry entry (coordinator.ts saves the one first).
THEOREM IndexIsRegisteredHolds ==
  ASSUME OneAtATime, "crash_unregistered" \notin Adversity
  PROVE  Spec => []IndexIsRegistered
  <1>1. RegistryInv => IndexIsRegistered
    <2> SUFFICES ASSUME RegistryInv, run = NoRun, RegistryQuiet, meta # NoMeta
                 PROVE  Self \in ReadRegistry
      BY DEF IndexIsRegistered
    <2>1. Self \in Owed
      BY DEF Owed, NoRun
    <2> QED BY <2>1, Settled
  <1> QED BY RegistryHolds, <1>1, PTL
=============================================================================

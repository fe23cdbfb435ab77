-------------------------- MODULE LocalBackend_proofs --------------------------
(***************************************************************************)
(* Proofs about LocalBackend, for any repositories, names, hashes, calls   *)
(* and number of analyses: the types; that one call at most reopens a      *)
(* repository, when meta.json is read within the pause between two checks; *)
(* that a call is answered from the repository it was resolved to, when    *)
(* hashes tell the repositories of a name apart and an id is not passed on *)
(* while something of its former repository is left.                       *)
(***************************************************************************)
EXTENDS LocalBackend, FiniteSetTheorems, FunctionTheorems, SequenceTheorems, TLAPS

\* meta.json is read in less than the five seconds after which it is read again.
PromptMeta == "slow_meta" \notin Adversity

\* Repositories of one name differ in the part of the path that is in the id.
HashesApart ==
  \A p, q \in Paths : NameOf[p] = NameOf[q] /\ HashOf[p] = HashOf[q] => p = q

\* An id is free of connections and calls when it goes to another repository.
IdsNotReused == "id_reuse" \notin Adversity

-----------------------------------------------------------------------------
(* Parts of a sequence, in its order.                                      *)

\* The ranks of a finite set of numbers are 1, 2, ... up to its size, so that there
\* is one number of each rank.
LEMMA Ranks ==
  ASSUME NEW K \in SUBSET Nat, IsFiniteSet(K)
  PROVE  /\ Cardinality(K) \in Nat
         /\ \A k \in K : Rank(K, k) \in 1 .. Cardinality(K)
         /\ \A j, k \in K : j < k => Rank(K, j) < Rank(K, k)
         /\ \A n \in 1 .. Cardinality(K) : Nth(K, n) \in K /\ Rank(K, Nth(K, n)) = n
<1> DEFINE Upto(k) == {j \in K : j <= k}
           r == [k \in K |-> Rank(K, k)]
<1>1. Cardinality(K) \in Nat
  BY FS_CardinalityType
<1>2. ASSUME NEW k \in K PROVE IsFiniteSet(Upto(k)) /\ Cardinality(Upto(k)) \in 1 .. Cardinality(K)
  <2>1. Upto(k) \in SUBSET K /\ k \in Upto(k)
    OBVIOUS
  <2> HIDE DEF Upto
  <2>2. IsFiniteSet(Upto(k)) /\ Cardinality(Upto(k)) <= Cardinality(K)
    BY <2>1, FS_Subset
  <2>3. Cardinality(Upto(k)) \in Nat /\ Cardinality(Upto(k)) # 0
    BY <2>1, <2>2, FS_CardinalityType, FS_EmptySet
  <2> QED
    BY <2>2, <2>3, <1>1
<1>3. ASSUME NEW j \in K, NEW k \in K, j < k PROVE Rank(K, j) < Rank(K, k)
  <2>1. Upto(j) \in SUBSET Upto(k) /\ Upto(j) # Upto(k)
    <3>1. k \in Upto(k) /\ k \notin Upto(j)
      BY <1>3
    <3>2. \A m \in K : m <= j => m <= k
      <4> SUFFICES ASSUME NEW m \in K, m <= j PROVE m <= k
        OBVIOUS
      <4>1. m \in Nat /\ j \in Nat /\ k \in Nat
        OBVIOUS
      <4> QED
        BY <1>3, <4>1
    <3> QED
      BY <3>1, <3>2
  <2>2. IsFiniteSet(Upto(k)) /\ Cardinality(Upto(k)) \in Nat /\ Cardinality(Upto(j)) \in Nat
    BY <1>2
  <2> HIDE DEF Upto
  <2>3. Cardinality(Upto(j)) <= Cardinality(Upto(k)) /\ Cardinality(Upto(j)) # Cardinality(Upto(k))
    BY <2>1, <2>2, FS_Subset
  <2>4. Rank(K, j) = Cardinality(Upto(j)) /\ Rank(K, k) = Cardinality(Upto(k))
    BY DEF Rank, Upto
  <2> QED
    BY <2>2, <2>3, <2>4
<1>4. \A k \in K : Rank(K, k) \in 1 .. Cardinality(K)
  BY <1>2 DEF Rank
<1>5. r \in Injection(K, 1 .. Cardinality(K))
  <2>1. r \in [K -> 1 .. Cardinality(K)]
    BY <1>4
  <2>2. ASSUME NEW j \in K, NEW k \in K, r[j] = r[k] PROVE j = k
    <3>1. Rank(K, j) = Rank(K, k)
      BY <2>2
    <3>2. Rank(K, j) \in Nat /\ Rank(K, k) \in Nat
      BY <1>1, <1>4
    <3>3. ~ (j < k) /\ ~ (k < j)
      BY <1>3, <3>1, <3>2
    <3> QED
      BY <3>3
  <2> HIDE DEF r
  <2> QED
    BY <2>1, <2>2 DEF Injection, IsInjective
<1>6. r \in Surjection(K, 1 .. Cardinality(K))
  <2>1. IsFiniteSet(1 .. Cardinality(K)) /\ Cardinality(1 .. Cardinality(K)) = Cardinality(K)
    BY <1>1, FS_Interval
  <2> HIDE DEF r
  <2> QED
    BY <1>5, <2>1, FS_Injection
<1>7. ASSUME NEW n \in 1 .. Cardinality(K) PROVE Nth(K, n) \in K /\ Rank(K, Nth(K, n)) = n
  <2>1. \E k \in K : r[k] = n
    <3> HIDE DEF r
    <3> QED
      BY <1>6 DEF Surjection
  <2>2. \E k \in K : Rank(K, k) = n
    BY <2>1
  <2> QED
    BY <2>2 DEF Nth
<1> QED
  BY <1>1, <1>3, <1>4, <1>7

\* A selection from a sequence has elements of it, and some if a position is selected.
LEMMA SelectedType ==
  ASSUME NEW S, NEW s \in Seq(S), NEW K \in SUBSET DOMAIN s
  PROVE  Selected(s, K) \in Seq(S) /\ (K # {} => Selected(s, K) # << >>)
<1>1. DOMAIN s = 1 .. Len(s) /\ Len(s) \in Nat
  OBVIOUS
<1>2. K \in SUBSET Nat /\ IsFiniteSet(K)
  <2>1. IsFiniteSet(1 .. Len(s))
    BY <1>1, FS_Interval
  <2> QED
    BY <1>1, <2>1, FS_Subset
<1>3. Cardinality(K) \in Nat /\ (K # {} => Cardinality(K) # 0)
  BY <1>2, FS_CardinalityType, FS_EmptySet
<1>4. \A n \in 1 .. Cardinality(K) : s[Nth(K, n)] \in S
  BY <1>2, Ranks
<1>5. Selected(s, K) \in [1 .. Cardinality(K) -> S]
  BY <1>4 DEF Selected
<1> HIDE DEF Selected
<1>6. Len(Selected(s, K)) = Cardinality(K) /\ Selected(s, K) \in Seq(S)
  BY <1>3, <1>5
<1> QED
  BY <1>3, <1>6

-----------------------------------------------------------------------------
(* Types.                                                                  *)

CallStates == {"idle", "resolved", "meta", "opening", "reopening", "waiting", "ready"}
CallRecords ==
  [at : CallStates, id : Ids \cup {None}, path : Paths \cup {None},
   handle : Entry \cup {None}, own : BOOLEAN]
PoolRecords == [path : Paths, build : 1 .. MaxBuilds]
RefreshRecords == [at : {"idle", "entries"}, todo : Seq(Entry), fresh : SUBSET Ids]

DiskTypes == clock \in 0 .. MaxBuilds /\ built \in [Paths -> 0 .. MaxBuilds] /\ registry \in Seq(Entry)
MapTypes ==
  /\ handles \in [Ids -> Entry \cup {None}]
  /\ initialized \subseteq Ids /\ checked \subseteq Ids
  /\ reinit \in [Ids -> Calls \cup {None}]
  /\ pool \in [Ids -> PoolRecords \cup {None}]
  /\ opening \in [Ids -> Paths \cup {None}]

\* A call that was resolved has an id; one that reads meta.json has a handle, and its
\* handle is in the map as long as it is said to be.
CallsWellFormed ==
  \A c \in Calls :
    /\ call[c].at # "idle" => call[c].id \in Ids
    /\ call[c].at = "meta" => call[c].handle \in Entry
    /\ call[c].own => call[c].at = "meta" /\ handles[call[c].id] # None

RefreshWellFormed == refresh.at = "entries" => refresh.todo # << >>

TypeInv ==
  /\ DiskTypes /\ MapTypes
  /\ call \in [Calls -> CallRecords] /\ CallsWellFormed
  /\ refresh \in RefreshRecords /\ RefreshWellFormed

LEMMA BuildBound == MaxBuilds \in Nat
BY BackendAssumption

LEMMA EntryParts ==
  /\ \A e \in Entry : e.path \in Paths /\ e.indexedAt \in 0 .. MaxBuilds /\ e # None
  /\ \A p \in Paths, k \in 0 .. MaxBuilds : [path |-> p, indexedAt |-> k] \in Entry
BY NoneAssumption DEF Entry

LEMMA IdsOfPaths == \A p \in Paths : BaseId(p) \in Ids /\ HashId(p) \in Ids /\ RepoId(p) \in Ids
BY DEF Ids, RepoId

LEMMA NoCallRecord == NoCall \in CallRecords /\ NoCall.at = "idle" /\ NoCall.own = FALSE /\ NoCall.id = None
BY DEF NoCall, CallRecords, CallStates

LEMMA RestingRecord == Resting \in RefreshRecords /\ Resting.at = "idle"
BY DEF Resting, RefreshRecords

LEMMA TypeInvTypes == TypeInv => BackendTypeOK
<1> SUFFICES ASSUME TypeInv PROVE BackendTypeOK
  OBVIOUS
<1>1. \A k \in DOMAIN registry : registry[k] \in Entry
  BY DEF TypeInv, DiskTypes
<1>2. refresh.at \in {"idle", "entries"} /\ refresh.fresh \subseteq Ids
  BY DEF TypeInv, RefreshRecords
<1>3. ASSUME NEW c \in Calls
      PROVE  /\ call[c].at \in CallStates
             /\ call[c].id \in Ids \cup {None} /\ call[c].path \in Paths \cup {None}
             /\ call[c].handle \in Entry \cup {None} /\ call[c].own \in BOOLEAN
  BY DEF TypeInv, CallRecords
<1> QED
  BY <1>1, <1>2, <1>3 DEF BackendTypeOK, TypeInv, DiskTypes, MapTypes, PoolRecords, CallStates

LEMMA InitTypes == Init => TypeInv
<1> SUFFICES ASSUME Init PROVE TypeInv
  OBVIOUS
<1>1. DiskTypes /\ MapTypes
  BY BuildBound DEF Init, DiskTypes, MapTypes
<1>2. call \in [Calls -> CallRecords] /\ CallsWellFormed
  BY NoCallRecord DEF Init, CallsWellFormed
<1>3. refresh \in RefreshRecords /\ RefreshWellFormed
  BY RestingRecord DEF Init, RefreshWellFormed
<1> QED
  BY <1>1, <1>2, <1>3 DEF TypeInv

-----------------------------------------------------------------------------
(* The disk.                                                               *)

LEMMA DiskTypesKept ==
  ASSUME TypeInv, DiskTypes', UNCHANGED <<handles, initialized, reinit, checked, poolVars, call, refresh>>
  PROVE  TypeInv'
BY DEF TypeInv, MapTypes, CallsWellFormed, RefreshWellFormed, poolVars

LEMMA AnalyzeTypes == ASSUME TypeInv, NEW p \in Paths, Analyze(p) PROVE TypeInv'
<1>1. DiskTypes'
  BY BuildBound DEF TypeInv, DiskTypes, Analyze
<1> QED
  BY <1>1, DiskTypesKept DEF Analyze

LEMMA RegisterTypes == ASSUME TypeInv, NEW p \in Paths, Register(p) PROVE TypeInv'
<1> DEFINE e == [path |-> p, indexedAt |-> built[p]]
<1>1. e \in Entry
  BY EntryParts DEF TypeInv, DiskTypes
<1>2. registry \in Seq(Entry)
  BY DEF TypeInv, DiskTypes
<1>3. CASE Registered(p) = {}
  <2>1. registry' = Append(registry, e)
    BY <1>3 DEF Register
  <2> HIDE DEF e
  <2>2. registry' \in Seq(Entry)
    BY <1>1, <1>2, <2>1
  <2> QED
    BY <2>2, DiskTypesKept DEF Register, TypeInv, DiskTypes
<1>4. CASE Registered(p) # {}
  <2>1. registry' = [k \in DOMAIN registry |-> IF k \in Registered(p) THEN e ELSE registry[k]]
    BY <1>4 DEF Register
  <2> HIDE DEF e
  <2>2. registry' \in Seq(Entry)
    BY <1>1, <1>2, <2>1
  <2> QED
    BY <2>2, DiskTypesKept DEF Register, TypeInv, DiskTypes
<1> QED
  BY <1>3, <1>4

LEMMA RemoveTypes == ASSUME TypeInv, NEW p \in Paths, Remove(p) PROVE TypeInv'
<1>1. registry' \in Seq(Entry)
  <2>1. registry \in Seq(Entry) /\ DOMAIN registry \ Registered(p) \in SUBSET DOMAIN registry
    BY DEF TypeInv, DiskTypes
  <2> QED
    BY <2>1, SelectedType DEF Remove
<1>2. DiskTypes'
  BY <1>1, BuildBound DEF TypeInv, DiskTypes, Remove
<1> QED
  BY <1>2, DiskTypesKept DEF Remove

-----------------------------------------------------------------------------
(* refreshRepos.                                                           *)

LEMMA RefreshReadsTypes == ASSUME TypeInv, RefreshReads PROVE TypeInv'
<1> DEFINE K == {k \in DOMAIN registry : built[registry[k].path] # 0}
           valid == Selected(registry, K)
<1>1. valid \in Seq(Entry) /\ registry' = valid
  <2>1. registry \in Seq(Entry) /\ K \in SUBSET DOMAIN registry
    BY DEF TypeInv, DiskTypes
  <2> QED
    BY <2>1, SelectedType DEF RefreshReads
<1> HIDE DEF K
<1>2. DiskTypes'
  BY <1>1 DEF TypeInv, DiskTypes, RefreshReads
<1>3. CASE valid = << >>
  <2>1. /\ handles' = [i \in Ids |-> None] /\ initialized' = {} /\ refresh' = refresh
        /\ call' = [c \in Calls |-> [call[c] EXCEPT !.own = FALSE]]
        /\ UNCHANGED <<reinit, checked, pool, opening>>
    BY <1>1, <1>3 DEF RefreshReads, Pruned, poolVars, K
  <2>2. MapTypes'
    BY <2>1 DEF TypeInv, MapTypes
  <2>3. call' \in [Calls -> CallRecords]
    BY <2>1 DEF TypeInv, CallRecords
  <2>4. CallsWellFormed'
    BY <2>1 DEF TypeInv, CallsWellFormed, CallRecords
  <2> QED
    BY <1>2, <2>1, <2>2, <2>3, <2>4 DEF TypeInv, RefreshWellFormed
<1>4. CASE valid # << >>
  <2>1. /\ refresh' = [at |-> "entries", todo |-> valid, fresh |-> {}]
        /\ UNCHANGED <<handles, initialized, call, reinit, checked, pool, opening>>
    BY <1>1, <1>4 DEF RefreshReads, poolVars, K
  <2> HIDE DEF valid
  <2>2. refresh' \in RefreshRecords /\ RefreshWellFormed'
    BY <1>1, <1>4, <2>1 DEF RefreshRecords, RefreshWellFormed
  <2> QED
    BY <1>2, <2>1, <2>2 DEF TypeInv, MapTypes, CallsWellFormed
<1> QED
  BY <1>3, <1>4

LEMMA TailOf ==
  ASSUME NEW S, NEW s \in Seq(S), s # << >>, Len(s) # 1
  PROVE  Tail(s) \in Seq(S) /\ Tail(s) # << >>
<1>1. Len(s) \in Nat /\ Len(s) # 0
  OBVIOUS
<1>2. Tail(s) \in Seq(S) /\ Len(Tail(s)) = Len(s) - 1
  BY <1>1
<1>3. Len(Tail(s)) # 0
  BY <1>1, <1>2
<1> QED
  BY <1>2, <1>3

\* What the entry e does to the handles: it gets the handle of its id, others may go.
LEMMA RefreshEntryEffect ==
  ASSUME TypeInv, RefreshEntry
  PROVE  \E e \in Entry :
           LET i == RepoId(e.path) IN
           /\ e = Head(refresh.todo) /\ i \in Ids
           /\ Reuses(i, e) => "id_reuse" \in Adversity
           /\ handles' \in [Ids -> Entry \cup {None}]
           /\ handles'[i] = e
           /\ \A j \in Ids : j # i => handles'[j] \in {handles[j], None}
           /\ call' = [c \in Calls |->
                [call[c] EXCEPT !.own = @ /\ call[c].id # i /\ handles'[call[c].id] # None]]
<1> DEFINE e == Head(refresh.todo)
           i == RepoId(e.path)
           hs == [handles EXCEPT ![i] = e]
           fresh == refresh.fresh \cup {i}
<1>1. refresh.todo \in Seq(Entry) /\ refresh.todo # << >>
  BY DEF TypeInv, RefreshRecords, RefreshWellFormed, RefreshEntry
<1>2. e \in Entry
  BY <1>1
<1>3. i \in Ids
  BY <1>2, EntryParts, IdsOfPaths
<1> HIDE DEF e, i
<1>4. hs \in [Ids -> Entry \cup {None}] /\ hs[i] = e /\ \A j \in Ids : j # i => hs[j] = handles[j]
  BY <1>2, <1>3 DEF TypeInv, MapTypes
<1>5. handles' = Pruned(hs, fresh) \/ handles' = hs
  BY DEF RefreshEntry, e, i
<1>6. Pruned(hs, fresh) \in [Ids -> Entry \cup {None}] /\ Pruned(hs, fresh)[i] = e
  BY <1>3, <1>4 DEF Pruned
<1>7. \A j \in Ids : j # i => Pruned(hs, fresh)[j] \in {handles[j], None}
  BY <1>3, <1>4 DEF Pruned
<1> HIDE DEF hs, fresh
<1>8. /\ handles' \in [Ids -> Entry \cup {None}] /\ handles'[i] = e
      /\ \A j \in Ids : j # i => handles'[j] \in {handles[j], None}
  BY <1>4, <1>5, <1>6, <1>7
<1>9. Reuses(i, e) => "id_reuse" \in Adversity
  BY DEF RefreshEntry, e, i
<1>10. call' = [c \in Calls |->
                 [call[c] EXCEPT !.own = @ /\ call[c].id # i /\ handles'[call[c].id] # None]]
  BY DEF RefreshEntry, e, i
<1> QED
  BY <1>2, <1>3, <1>8, <1>9, <1>10 DEF e, i

LEMMA RefreshEntryTypes == ASSUME TypeInv, RefreshEntry PROVE TypeInv'
<1>1. PICK e \in Entry :
        LET i == RepoId(e.path) IN
        /\ e = Head(refresh.todo) /\ i \in Ids
        /\ handles' \in [Ids -> Entry \cup {None}]
        /\ call' = [c \in Calls |->
             [call[c] EXCEPT !.own = @ /\ call[c].id # i /\ handles'[call[c].id] # None]]
  BY RefreshEntryEffect
<1> DEFINE i == RepoId(e.path)
<1>2. i \in Ids
  BY <1>1
<1>3. initialized' \subseteq Ids /\ refresh' \in RefreshRecords /\ RefreshWellFormed'
  <2>1. refresh.todo \in Seq(Entry) /\ refresh.todo # << >> /\ refresh.fresh \subseteq Ids
    BY DEF TypeInv, RefreshRecords, RefreshWellFormed, RefreshEntry
  <2>2. CASE Len(refresh.todo) = 1
    BY <2>2, RestingRecord DEF RefreshEntry, TypeInv, MapTypes, RefreshWellFormed
  <2>3. CASE Len(refresh.todo) # 1
    <3>1. refresh' = [refresh EXCEPT !.todo = Tail(@), !.fresh = refresh.fresh \cup {i}]
      BY <1>1, <2>3 DEF RefreshEntry
    <3>2. Tail(refresh.todo) \in Seq(Entry) /\ Tail(refresh.todo) # << >>
      BY <2>1, <2>3, TailOf
    <3> HIDE DEF i
    <3>3. refresh' \in RefreshRecords /\ RefreshWellFormed'
      BY <1>2, <2>1, <3>1, <3>2 DEF TypeInv, RefreshRecords, RefreshWellFormed
    <3> QED
      BY <2>3, <3>3 DEF RefreshEntry, TypeInv, MapTypes
  <2> QED
    BY <2>2, <2>3
<1>4. MapTypes'
  BY <1>1, <1>3 DEF TypeInv, MapTypes, RefreshEntry, poolVars
<1>5. call' \in [Calls -> CallRecords]
  BY <1>1 DEF TypeInv, CallRecords
<1>6. CallsWellFormed'
  BY <1>1 DEF TypeInv, CallsWellFormed, CallRecords
<1>7. DiskTypes'
  BY DEF TypeInv, DiskTypes, RefreshEntry, diskVars
<1> QED
  BY <1>3, <1>4, <1>5, <1>6, <1>7 DEF TypeInv

-----------------------------------------------------------------------------
(* Connections.                                                            *)

LEMMA InitLbugTypes ==
  ASSUME TypeInv, NEW i \in Ids, NEW p \in Paths, InitLbug(i, p)
  PROVE  opening' \in [Ids -> Paths \cup {None}]
BY DEF TypeInv, MapTypes, InitLbug

LEMMA OpenEndsTypes == ASSUME TypeInv, NEW i \in Ids, OpenEnds(i) PROVE TypeInv'
<1>1. /\ opening' = [opening EXCEPT ![i] = None] /\ reinit' = [reinit EXCEPT ![i] = None]
      /\ UNCHANGED <<clock, built, registry, handles, checked, refresh>>
  BY DEF OpenEnds, diskVars
<1>2. pool' \in [Ids -> PoolRecords \cup {None}] /\ initialized' \subseteq Ids
  <2>1. CASE Openable(i)
    <3> DEFINE r == [path |-> opening[i], build |-> built[opening[i]]]
    <3>1. opening[i] \in Paths /\ built[opening[i]] \in 0 .. MaxBuilds /\ built[opening[i]] # 0
      BY <2>1 DEF OpenEnds, Openable, TypeInv, MapTypes, DiskTypes
    <3>2. r \in PoolRecords
      BY <3>1, BuildBound DEF PoolRecords
    <3>3. pool' = [pool EXCEPT ![i] = r] /\ initialized' = initialized \cup {i}
      BY <2>1 DEF OpenEnds
    <3> HIDE DEF r
    <3> QED
      BY <3>2, <3>3 DEF TypeInv, MapTypes
  <2>2. CASE ~ Openable(i)
    BY <2>2 DEF OpenEnds, TypeInv, MapTypes
  <2> QED
    BY <2>1, <2>2
<1>3. ASSUME NEW c \in Calls
      PROVE  \/ call'[c] = call[c]
             \/ call[c].at # "idle" /\ call[c].at # "meta" /\ call'[c] = [call[c] EXCEPT !.at = "ready"]
             \/ call'[c] = NoCall
  <2>1. c \in Awaiting(i) => call[c].at # "idle" /\ call[c].at # "meta"
    BY DEF Awaiting
  <2> QED
    BY <2>1 DEF OpenEnds
<1>4. call' \in [Calls -> CallRecords]
  <2>1. ASSUME NEW c \in Calls PROVE call'[c] \in CallRecords
    <3>1. call[c] \in CallRecords
      BY DEF TypeInv
    <3>2. [call[c] EXCEPT !.at = "ready"] \in CallRecords
      BY <3>1 DEF CallRecords, CallStates
    <3> QED
      BY <1>3, <3>1, <3>2, NoCallRecord
  <2>2. \E f : call' = [c \in Calls |-> f[c]]
    <3>1. call' = [c \in Calls |-> call'[c]]
      BY DEF OpenEnds
    <3> QED
      BY <3>1
  <2> QED
    BY <2>1, <2>2
<1>5. CallsWellFormed'
  <2> SUFFICES ASSUME NEW c \in Calls
               PROVE  /\ call'[c].at # "idle" => call'[c].id \in Ids
                      /\ call'[c].at = "meta" => call'[c].handle \in Entry
                      /\ call'[c].own => call'[c].at = "meta" /\ handles'[call'[c].id] # None
    BY DEF CallsWellFormed
  <2>1. /\ call[c].at # "idle" => call[c].id \in Ids
        /\ call[c].at = "meta" => call[c].handle \in Entry
        /\ call[c].own => call[c].at = "meta" /\ handles[call[c].id] # None
        /\ call[c] \in CallRecords
    BY DEF TypeInv, CallsWellFormed
  <2>2. ASSUME call[c].at # "idle", call[c].at # "meta", call'[c] = [call[c] EXCEPT !.at = "ready"]
        PROVE  call'[c].at = "ready" /\ call'[c].id = call[c].id /\ call'[c].own = FALSE
    BY <2>1, <2>2 DEF CallRecords
  <2> QED
    BY <1>1, <1>3, <2>1, <2>2, NoCallRecord
<1>6. MapTypes'
  BY <1>1, <1>2 DEF TypeInv, MapTypes
<1> QED
  BY <1>1, <1>4, <1>5, <1>6 DEF TypeInv, DiskTypes, RefreshWellFormed

LEMMA PoolClosesTypes == ASSUME TypeInv, NEW i \in Ids, PoolCloses(i) PROVE TypeInv'
<1>1. MapTypes'
  BY DEF TypeInv, MapTypes, PoolCloses
<1> QED
  BY <1>1 DEF TypeInv, DiskTypes, CallsWellFormed, RefreshWellFormed, PoolCloses, diskVars

LEMMA PauseEndsTypes == ASSUME TypeInv, NEW i \in Ids, PauseEnds(i) PROVE TypeInv'
<1>1. MapTypes'
  BY DEF TypeInv, MapTypes, PauseEnds, poolVars
<1> QED
  BY <1>1 DEF TypeInv, DiskTypes, CallsWellFormed, RefreshWellFormed, PauseEnds, diskVars

-----------------------------------------------------------------------------
(* Tool calls.                                                             *)

\* A step of one call keeps the types when its new record is one and well-formed.
LEMMA OneCallTypes ==
  ASSUME TypeInv, NEW c \in Calls, NEW r \in CallRecords, call' = [call EXCEPT ![c] = r],
         MapTypes', UNCHANGED <<diskVars, refresh>>,
         \A i \in Ids : handles[i] # None => handles'[i] # None,
         r.at # "idle" => r.id \in Ids,
         r.at = "meta" => r.handle \in Entry,
         r.own => r.at = "meta" /\ handles'[r.id] # None
  PROVE  TypeInv'
<1>1. call' \in [Calls -> CallRecords]
  BY DEF TypeInv
<1>2. CallsWellFormed'
  <2> SUFFICES ASSUME NEW d \in Calls
               PROVE  /\ call'[d].at # "idle" => call'[d].id \in Ids
                      /\ call'[d].at = "meta" => call'[d].handle \in Entry
                      /\ call'[d].own => call'[d].at = "meta" /\ handles'[call'[d].id] # None
    BY DEF CallsWellFormed
  <2>1. CASE d = c
    BY <2>1 DEF TypeInv
  <2>2. CASE d # c
    <3>1. call'[d] = call[d]
      BY <2>2 DEF TypeInv
    <3>2. call[d].own => call[d].id \in Ids
      BY DEF TypeInv, CallsWellFormed
    <3> QED
      BY <3>1, <3>2 DEF TypeInv, CallsWellFormed
  <2> QED
    BY <2>1, <2>2
<1> QED
  BY <1>1, <1>2 DEF TypeInv, DiskTypes, RefreshWellFormed, diskVars

LEMMA ResolveTypes == ASSUME TypeInv, NEW c \in Calls, NEW i \in Ids, Resolve(c, i) PROVE TypeInv'
<1> DEFINE r == [NoCall EXCEPT !.at = "resolved", !.id = i, !.path = handles[i].path]
<1>1. handles[i].path \in Paths
  BY EntryParts DEF Resolve, TypeInv, MapTypes
<1>2. r \in CallRecords /\ r.at = "resolved" /\ r.id = i /\ r.own = FALSE
  BY <1>1, NoCallRecord DEF CallRecords, CallStates, NoCall
<1>3. call' = [call EXCEPT ![c] = r]
  BY DEF Resolve
<1>4. MapTypes' /\ UNCHANGED <<diskVars, refresh, handles>>
  BY DEF Resolve, TypeInv, MapTypes, poolVars
<1> HIDE DEF r
<1> QED
  BY <1>2, <1>3, <1>4, OneCallTypes

LEMMA QueryTypes == ASSUME TypeInv, NEW c \in Calls, Query(c) PROVE TypeInv'
<1>1. call' = [call EXCEPT ![c] = NoCall]
  BY DEF Query
<1>2. MapTypes' /\ UNCHANGED <<diskVars, refresh, handles>>
  BY DEF Query, TypeInv, MapTypes, poolVars
<1> QED
  BY <1>1, <1>2, NoCallRecord, OneCallTypes

\* A call that goes on, to a place where it has no handle of its own.
LEMMA MovedRecord ==
  ASSUME TypeInv, NEW c \in Calls, call[c].at = "resolved",
         NEW s \in {"opening", "waiting", "ready"}
  PROVE  LET r == [call[c] EXCEPT !.at = s]
         IN  r \in CallRecords /\ r.at = s /\ r.id = call[c].id /\ r.id \in Ids /\ r.own = FALSE
BY DEF TypeInv, CallRecords, CallStates, CallsWellFormed

LEMMA EnsureInitializedTypes == ASSUME TypeInv, NEW c \in Calls, EnsureInitialized(c) PROVE TypeInv'
<1> DEFINE i == call[c].id
<1>1. i \in Ids /\ call[c].at = "resolved" /\ call[c] \in CallRecords
  BY DEF EnsureInitialized, TypeInv, CallsWellFormed
<1>2. UNCHANGED <<diskVars, handles, refresh, reinit, pool>>
  BY DEF EnsureInitialized
<1>3. ASSUME NEW s \in {"opening", "waiting", "ready"}, At(c, s), MapTypes' PROVE TypeInv'
  <2> DEFINE r == [call[c] EXCEPT !.at = s]
  <2>1. r \in CallRecords /\ r.at = s /\ r.id \in Ids /\ r.own = FALSE
    BY <1>1, MovedRecord
  <2>2. call' = [call EXCEPT ![c] = r]
    BY <1>3 DEF At, TypeInv
  <2> HIDE DEF r
  <2> QED
    BY <1>2, <1>3, <2>1, <2>2, OneCallTypes
<1>4. CASE reinit[i] # None
  BY <1>2, <1>3, <1>4 DEF EnsureInitialized, TypeInv, MapTypes
<1>5. CASE reinit[i] = None /\ handles[i] = None
  <2>1. call' = [call EXCEPT ![c] = NoCall] /\ UNCHANGED <<initialized, checked, opening>>
    BY <1>5 DEF EnsureInitialized
  <2>2. MapTypes'
    BY <1>2, <2>1 DEF TypeInv, MapTypes
  <2> QED
    BY <1>2, <2>1, <2>2, NoCallRecord, OneCallTypes
<1>6. CASE reinit[i] = None /\ handles[i] # None /\ i \in initialized /\ pool[i] # None
  <2>1. CASE i \in checked
    BY <1>2, <1>3, <1>6, <2>1 DEF EnsureInitialized, TypeInv, MapTypes
  <2>2. CASE i \notin checked
    <3> DEFINE r == [call[c] EXCEPT !.at = "meta", !.handle = handles[i], !.own = TRUE]
    <3>1. ReadMeta(c) /\ UNCHANGED <<initialized, opening>>
      BY <1>6, <2>2 DEF EnsureInitialized
    <3>2. call' = [call EXCEPT ![c] = r] /\ checked' = checked \cup {i}
      BY <3>1 DEF ReadMeta, TypeInv
    <3>3. handles[i] \in Entry
      BY <1>1, <1>6 DEF TypeInv, MapTypes
    <3>4. r \in CallRecords /\ r.at = "meta" /\ r.id = i /\ r.handle = handles[i]
      BY <1>1, <3>3 DEF CallRecords, CallStates
    <3>5. MapTypes'
      BY <1>1, <1>2, <3>1, <3>2 DEF TypeInv, MapTypes
    <3> HIDE DEF r
    <3> QED
      BY <1>1, <1>2, <1>6, <3>2, <3>3, <3>4, <3>5, OneCallTypes
  <2> QED
    BY <2>1, <2>2
<1>7. CASE reinit[i] = None /\ handles[i] # None /\ (i \notin initialized \/ pool[i] = None)
  <2>1. CASE pool[i] # None
    <3>1. initialized' = initialized \cup {i} /\ At(c, "ready") /\ UNCHANGED <<opening, checked>>
      BY <1>7, <2>1 DEF EnsureInitialized
    <3>2. MapTypes'
      BY <1>1, <1>2, <3>1 DEF TypeInv, MapTypes
    <3> QED
      BY <1>3, <3>1, <3>2
  <2>2. CASE pool[i] = None
    <3>1. InitLbug(i, handles[i].path) /\ At(c, "opening") /\ UNCHANGED <<initialized, checked>>
      BY <1>7, <2>2 DEF EnsureInitialized
    <3>2. handles[i].path \in Paths
      BY <1>1, <1>7, EntryParts DEF TypeInv, MapTypes
    <3>3. MapTypes'
      BY <1>1, <1>2, <3>1, <3>2, InitLbugTypes DEF TypeInv, MapTypes
    <3> QED
      BY <1>3, <3>1, <3>3
  <2> QED
    BY <2>1, <2>2
<1> QED
  BY <1>4, <1>5, <1>6, <1>7

LEMMA MetaIsReadTypes == ASSUME TypeInv, NEW c \in Calls, MetaIsRead(c) PROVE TypeInv'
<1> DEFINE i == call[c].id
           p == call[c].handle.path
           Ended(s) == [call[c] EXCEPT !.at = s, !.handle = None, !.own = FALSE]
<1>1. i \in Ids /\ call[c].at = "meta" /\ call[c] \in CallRecords /\ p \in Paths
  BY EntryParts DEF MetaIsRead, TypeInv, CallsWellFormed
<1>2. UNCHANGED <<diskVars, checked, refresh>>
  BY DEF MetaIsRead
<1>3. ASSUME NEW s \in {"reopening", "ready"}
      PROVE  Ended(s) \in CallRecords /\ Ended(s).at = s /\ Ended(s).id = i /\ Ended(s).own = FALSE
  BY <1>1 DEF CallRecords, CallStates
<1>4. CASE Stale(c)
  <2>1. /\ pool' = [pool EXCEPT ![i] = None] /\ initialized' = initialized \ {i}
        /\ handles' = IF call[c].own THEN [handles EXCEPT ![i].indexedAt = built[p]] ELSE handles
        /\ InitLbug(i, p) /\ reinit' = [reinit EXCEPT ![i] = c]
        /\ call' = [call EXCEPT ![c] = Ended("reopening")]
    BY <1>4 DEF MetaIsRead, TypeInv
  <2>2. handles' \in [Ids -> Entry \cup {None}] /\ \A j \in Ids : handles[j] # None => handles'[j] # None
    <3>1. CASE call[c].own
      <4> DEFINE h == [path |-> handles[i].path, indexedAt |-> built[p]]
      <4>1. handles[i] \in Entry
        BY <1>1, <3>1 DEF TypeInv, MapTypes, CallsWellFormed
      <4>2. h \in Entry /\ h # None
        BY <1>1, <4>1, EntryParts DEF TypeInv, DiskTypes
      <4>3. [handles[i] EXCEPT !.indexedAt = built[p]] = h
        BY <4>1 DEF Entry
      <4>4. handles' = [handles EXCEPT ![i] = h]
        BY <1>1, <2>1, <3>1, <4>3 DEF TypeInv, MapTypes
      <4> HIDE DEF h
      <4> QED
        BY <1>1, <4>2, <4>4 DEF TypeInv, MapTypes
    <3>2. CASE ~ call[c].own
      BY <2>1, <3>2 DEF TypeInv, MapTypes
    <3> QED
      BY <3>1, <3>2
  <2>3. MapTypes'
    BY <1>1, <1>2, <2>1, <2>2, InitLbugTypes DEF TypeInv, MapTypes
  <2>4. \E r \in CallRecords :
          call' = [call EXCEPT ![c] = r] /\ r.at = "reopening" /\ r.id = i /\ r.own = FALSE
    BY <1>3, <2>1
  <2> QED
    BY <1>1, <1>2, <2>2, <2>3, <2>4, OneCallTypes
<1>5. CASE ~ Stale(c)
  <2>1. /\ call' = [call EXCEPT ![c] = Ended("ready")]
        /\ UNCHANGED <<pool, initialized, handles, opening, reinit>>
    BY <1>5 DEF MetaIsRead, TypeInv
  <2>2. MapTypes'
    BY <1>2, <2>1 DEF TypeInv, MapTypes
  <2>3. \E r \in CallRecords :
          call' = [call EXCEPT ![c] = r] /\ r.at = "ready" /\ r.id = i /\ r.own = FALSE
    BY <1>3, <2>1
  <2> QED
    BY <1>1, <1>2, <2>1, <2>2, <2>3, OneCallTypes
<1> QED
  BY <1>4, <1>5

LEMMA StepTypes == ASSUME TypeInv, [Next]_vars PROVE TypeInv'
<1>1. CASE UNCHANGED vars
  BY <1>1 DEF vars, diskVars, poolVars, TypeInv, DiskTypes, MapTypes, CallsWellFormed,
              RefreshWellFormed
<1>2. ASSUME NEW c \in Calls, CallStep(c) PROVE TypeInv'
  BY <1>2, EnsureInitializedTypes, MetaIsReadTypes, QueryTypes DEF CallStep
<1> QED
  BY <1>1, <1>2, AnalyzeTypes, RegisterTypes, RemoveTypes, RefreshReadsTypes, RefreshEntryTypes,
     OpenEndsTypes, PoolClosesTypes, PauseEndsTypes, ResolveTypes DEF Next

\* The variables keep their types, for every adversity: every pooled connection reads an
\* index that was built, and a call compares meta.json with the handle of a repository.
THEOREM TypesHold == Spec => []TypeInv
BY InitTypes, StepTypes, PTL DEF Spec

THEOREM BackendTypeCorrect == Spec => []BackendTypeOK
BY TypesHold, TypeInvTypes, PTL

-----------------------------------------------------------------------------
(* One reopening at a time.                                                *)

\* A call reads meta.json during the pause it has begun, and nobody reopens meanwhile.
ReadingIsChecked ==
  \A c \in Calls : call[c].at = "meta" => call[c].id \in checked /\ reinit[call[c].id] = None

OneReader ==
  \A c, d \in Calls :
    call[c].at = "meta" /\ call[d].at = "meta" /\ call[c].id = call[d].id => c = d

\* The promise is that of the call that reopens, as long as anyone awaits it.
PromiseKept ==
  \A c \in Calls :
    /\ call[c].at = "reopening" => reinit[call[c].id] = c
    /\ call[c].at = "waiting" => reinit[call[c].id] # None

ReinitInv == TypeInv /\ ReadingIsChecked /\ OneReader /\ PromiseKept

LEMMA CallsNotNone == \A c \in Calls : c # None
BY BackendAssumption

LEMMA ReinitInvOne == ReinitInv => OneReinit
BY DEF ReinitInv, PromiseKept, OneReinit

LEMMA InitReinit == Init => ReinitInv
<1> SUFFICES ASSUME Init PROVE ReinitInv
  OBVIOUS
<1>1. \A c \in Calls : call[c] = NoCall
  BY DEF Init
<1> QED
  BY <1>1, InitTypes, NoCallRecord DEF ReinitInv, ReadingIsChecked, OneReader, PromiseKept

\* A step after which the calls are where they were, or at other places than these.
LEMMA ReinitKept ==
  ASSUME ReinitInv, TypeInv', UNCHANGED <<reinit, checked>>,
         \A c \in Calls : \/ call'[c].at = call[c].at /\ call'[c].id = call[c].id
                          \/ call'[c].at \notin {"meta", "reopening", "waiting"}
  PROVE  ReinitInv'
<1>1. ReadingIsChecked' /\ PromiseKept'
  BY DEF ReinitInv, ReadingIsChecked, PromiseKept
<1>2. OneReader'
  <2> SUFFICES ASSUME NEW c \in Calls, NEW d \in Calls, call'[c].at = "meta", call'[d].at = "meta",
                      call'[c].id = call'[d].id
               PROVE  c = d
    BY DEF OneReader
  <2> QED
    BY DEF ReinitInv, OneReader
<1> QED
  BY <1>1, <1>2 DEF ReinitInv

LEMMA OwnIsAll ==
  ASSUME NEW r \in CallRecords, NEW b
  PROVE  [r EXCEPT !.own = b].at = r.at /\ [r EXCEPT !.own = b].id = r.id
         /\ [r EXCEPT !.own = b].path = r.path /\ [r EXCEPT !.own = b].handle = r.handle
BY DEF CallRecords

\* refreshRepos leaves the calls where they are.
LEMMA RefreshMovesNobody ==
  ASSUME TypeInv, RefreshReads \/ RefreshEntry
  PROVE  /\ UNCHANGED <<reinit, checked, pool, opening>>
         /\ \A c \in Calls : /\ call'[c].at = call[c].at /\ call'[c].id = call[c].id
                             /\ call'[c].path = call[c].path /\ call'[c].handle = call[c].handle
<1>1. \A c \in Calls : call[c] \in CallRecords
  BY DEF TypeInv
<1>2. UNCHANGED <<reinit, checked, pool, opening>>
  BY DEF RefreshReads, RefreshEntry, poolVars
<1>3. ASSUME NEW c \in Calls
      PROVE  call'[c] = call[c] \/ \E b : call'[c] = [call[c] EXCEPT !.own = b]
  <2>1. CASE RefreshReads
    BY <2>1 DEF RefreshReads
  <2>2. CASE RefreshEntry
    BY <2>2, RefreshEntryEffect
  <2> QED
    BY <2>1, <2>2
<1>4. ASSUME NEW c \in Calls
      PROVE  /\ call'[c].at = call[c].at /\ call'[c].id = call[c].id
             /\ call'[c].path = call[c].path /\ call'[c].handle = call[c].handle
  <2>1. CASE call'[c] = call[c]
    BY <2>1
  <2>2. ASSUME NEW b, call'[c] = [call[c] EXCEPT !.own = b]
        PROVE  /\ call'[c].at = call[c].at /\ call'[c].id = call[c].id
               /\ call'[c].path = call[c].path /\ call'[c].handle = call[c].handle
    BY <1>1, <2>2, OwnIsAll
  <2> QED
    BY <1>3, <2>1, <2>2
<1> QED
  BY <1>2, <1>4

LEMMA OpenEndsReinit ==
  ASSUME ReinitInv, NEW i \in Ids, OpenEnds(i), TypeInv'
  PROVE  ReinitInv'
<1>1. /\ reinit \in [Ids -> Calls \cup {None}] /\ reinit' = [reinit EXCEPT ![i] = None]
      /\ checked' = checked
  BY DEF OpenEnds, ReinitInv, TypeInv, MapTypes
<1>2. ASSUME NEW c \in Calls
      PROVE  \/ call'[c] = call[c] /\ c \notin Awaiting(i)
             \/ call'[c].at \notin {"meta", "reopening", "waiting"}
  <2>1. [call[c] EXCEPT !.at = "ready"].at = "ready"
    BY DEF ReinitInv, TypeInv, CallRecords
  <2>2. (call'[c] = call[c] /\ c \notin Awaiting(i)) \/ call'[c] = [call[c] EXCEPT !.at = "ready"]
        \/ call'[c] = NoCall
    BY DEF OpenEnds
  <2> QED
    BY <2>1, <2>2, NoCallRecord
<1>3. \A c \in Calls : c \notin Awaiting(i) /\ call[c].at \in {"reopening", "waiting"} => call[c].id # i
  BY DEF Awaiting
<1>4. ASSUME NEW c \in Calls, call'[c].at = "meta"
      PROVE  call[c].at = "meta" /\ call'[c].id = call[c].id /\ call[c].id \in Ids
  BY <1>2, <1>4 DEF ReinitInv, TypeInv, CallsWellFormed
<1>5. ReadingIsChecked'
  BY <1>1, <1>4 DEF ReinitInv, ReadingIsChecked
<1>6. OneReader'
  BY <1>4 DEF ReinitInv, OneReader
<1>7. PromiseKept'
  <2> SUFFICES ASSUME NEW c \in Calls, call'[c].at \in {"reopening", "waiting"}
               PROVE  /\ call'[c].at = "reopening" => reinit'[call'[c].id] = c
                      /\ call'[c].at = "waiting" => reinit'[call'[c].id] # None
    BY DEF PromiseKept
  <2>1. call'[c] = call[c] /\ call[c].id # i /\ call[c].id \in Ids
    BY <1>2, <1>3 DEF ReinitInv, TypeInv, CallsWellFormed
  <2> QED
    BY <1>1, <2>1 DEF ReinitInv, PromiseKept
<1> QED
  BY <1>5, <1>6, <1>7 DEF ReinitInv

LEMMA PauseEndsReinit ==
  ASSUME PromptMeta, ReinitInv, NEW i \in Ids, PauseEnds(i), TypeInv'
  PROVE  ReinitInv'
<1>1. checked' = checked \ {i} /\ UNCHANGED <<reinit, call>>
  BY DEF PauseEnds
<1>2. \A c \in Calls : call[c].at = "meta" => call[c].id # i
  BY DEF PauseEnds, PromptMeta
<1>3. ReadingIsChecked'
  BY <1>1, <1>2 DEF ReinitInv, ReadingIsChecked
<1> QED
  BY <1>1, <1>3 DEF ReinitInv, OneReader, PromiseKept

\* ensureInitialized: the first check of the pause reads meta.json, and only that one.
LEMMA EnsureInitializedReinit ==
  ASSUME ReinitInv, NEW c \in Calls, EnsureInitialized(c), TypeInv'
  PROVE  ReinitInv'
<1> DEFINE i == call[c].id
<1>1. /\ i \in Ids /\ call[c].at = "resolved" /\ call[c] \in CallRecords /\ reinit' = reinit
      /\ call \in [Calls -> CallRecords]
  BY DEF EnsureInitialized, ReinitInv, TypeInv, CallsWellFormed
<1>2. ASSUME NEW s \in {"opening", "ready"}, At(c, s), checked' = checked PROVE ReinitInv'
  <2>1. \A d \in Calls : call'[d] = IF d = c THEN [call[c] EXCEPT !.at = s] ELSE call[d]
    BY <1>1, <1>2 DEF At
  <2>2. [call[c] EXCEPT !.at = s].at = s
    BY <1>1 DEF CallRecords
  <2> QED
    BY <1>1, <1>2, <2>1, <2>2, ReinitKept
<1>3. CASE reinit[i] # None
  <2>1. At(c, "waiting") /\ checked' = checked
    BY <1>3 DEF EnsureInitialized
  <2>2. \A d \in Calls : call'[d] = IF d = c THEN [call[c] EXCEPT !.at = "waiting"] ELSE call[d]
    BY <1>1, <2>1 DEF At
  <2>3. /\ [call[c] EXCEPT !.at = "waiting"].at = "waiting"
        /\ [call[c] EXCEPT !.at = "waiting"].id = i
    BY <1>1 DEF CallRecords
  <2>4. ReadingIsChecked' /\ PromiseKept'
    BY <1>1, <1>3, <2>1, <2>2, <2>3 DEF ReinitInv, ReadingIsChecked, PromiseKept
  <2>5. OneReader'
    BY <2>2, <2>3 DEF ReinitInv, OneReader
  <2> QED
    BY <2>4, <2>5 DEF ReinitInv
<1>4. CASE reinit[i] = None /\ handles[i] = None
  <2>1. call' = [call EXCEPT ![c] = NoCall] /\ checked' = checked
    BY <1>4 DEF EnsureInitialized
  <2>2. \A d \in Calls : call'[d] = IF d = c THEN NoCall ELSE call[d]
    BY <1>1, <2>1
  <2> QED
    BY <1>1, <2>1, <2>2, NoCallRecord, ReinitKept
<1>5. CASE reinit[i] = None /\ handles[i] # None /\ i \in initialized /\ pool[i] # None
  <2>1. CASE i \in checked
    BY <1>2, <1>5, <2>1 DEF EnsureInitialized
  <2>2. CASE i \notin checked
    <3> DEFINE r == [call[c] EXCEPT !.at = "meta", !.handle = handles[i], !.own = TRUE]
    <3>1. ReadMeta(c)
      BY <1>5, <2>2 DEF EnsureInitialized
    <3>2. (\A d \in Calls : call'[d] = IF d = c THEN r ELSE call[d]) /\ checked' = checked \cup {i}
      BY <1>1, <3>1 DEF ReadMeta
    <3>3. r.at = "meta" /\ r.id = i
      BY <1>1 DEF CallRecords
    <3> HIDE DEF r
    <3>4. \A d \in Calls : call[d].at = "meta" => call[d].id # i
      BY <2>2 DEF ReinitInv, ReadingIsChecked
    <3>5. ReadingIsChecked' /\ PromiseKept'
      BY <1>1, <1>5, <3>2, <3>3 DEF ReinitInv, ReadingIsChecked, PromiseKept
    <3>6. OneReader'
      BY <3>2, <3>3, <3>4 DEF ReinitInv, OneReader
    <3> QED
      BY <3>5, <3>6 DEF ReinitInv
  <2> QED
    BY <2>1, <2>2
<1>6. CASE reinit[i] = None /\ handles[i] # None /\ (i \notin initialized \/ pool[i] = None)
  BY <1>2, <1>6 DEF EnsureInitialized
<1> QED
  BY <1>3, <1>4, <1>5, <1>6

\* A call that finds a rebuild is the only one that reads, and nobody reopens yet.
LEMMA MetaIsReadReinit ==
  ASSUME ReinitInv, NEW c \in Calls, MetaIsRead(c), TypeInv'
  PROVE  ReinitInv'
<1> DEFINE i == call[c].id
           Ended(s) == [call[c] EXCEPT !.at = s, !.handle = None, !.own = FALSE]
<1>1. /\ i \in Ids /\ call[c].at = "meta" /\ call[c] \in CallRecords /\ checked' = checked
      /\ call \in [Calls -> CallRecords] /\ reinit \in [Ids -> Calls \cup {None}]
  BY DEF MetaIsRead, ReinitInv, TypeInv, MapTypes, CallsWellFormed
<1>2. Ended("ready").at = "ready" /\ Ended("reopening").at = "reopening" /\ Ended("reopening").id = i
  BY <1>1 DEF CallRecords
<1>3. CASE Stale(c)
  <2>1. call' = [call EXCEPT ![c] = Ended("reopening")] /\ reinit' = [reinit EXCEPT ![i] = c]
    BY <1>1, <1>3 DEF MetaIsRead
  <2>2. \E r : /\ r.at = "reopening" /\ r.id = i
               /\ \A d \in Calls : call'[d] = IF d = c THEN r ELSE call[d]
    BY <1>1, <1>2, <2>1
  <2>3. \A d \in Calls : d # c /\ call[d].at = "meta" => call[d].id # i
    BY <1>1 DEF ReinitInv, OneReader
  <2>4. \A d \in Calls : call[d].at \in {"reopening", "waiting"} => call[d].id # i
    BY <1>1, CallsNotNone DEF ReinitInv, ReadingIsChecked, PromiseKept
  <2>5. \A d \in Calls : call[d].at \in {"meta", "reopening", "waiting"} => call[d].id \in Ids
    BY DEF ReinitInv, TypeInv, CallsWellFormed
  <2>6. ReadingIsChecked'
    BY <1>1, <2>1, <2>2, <2>3, <2>5 DEF ReinitInv, ReadingIsChecked
  <2>7. OneReader'
    BY <2>2 DEF ReinitInv, OneReader
  <2>8. PromiseKept'
    BY <1>1, <2>1, <2>2, <2>4, <2>5, CallsNotNone DEF ReinitInv, PromiseKept
  <2> QED
    BY <2>6, <2>7, <2>8 DEF ReinitInv
<1>4. CASE ~ Stale(c)
  <2>1. call' = [call EXCEPT ![c] = Ended("ready")] /\ reinit' = reinit
    BY <1>1, <1>4 DEF MetaIsRead
  <2>2. \A d \in Calls : call'[d] = IF d = c THEN Ended("ready") ELSE call[d]
    BY <1>1, <2>1
  <2> HIDE DEF Ended
  <2> QED
    BY <1>1, <1>2, <2>1, <2>2, ReinitKept
<1> QED
  BY <1>3, <1>4

LEMMA OthersReinit ==
  ASSUME ReinitInv, TypeInv',
         \/ UNCHANGED vars
         \/ \E p \in Paths : Analyze(p) \/ Register(p) \/ Remove(p)
         \/ RefreshReads \/ RefreshEntry
         \/ \E i \in Ids : PoolCloses(i)
         \/ \E c \in Calls : Query(c) \/ \E i \in Ids : Resolve(c, i)
  PROVE  ReinitInv'
<1> USE DEF ReinitInv
<1>1. CASE UNCHANGED vars \/ (\E p \in Paths : Analyze(p) \/ Register(p) \/ Remove(p))
           \/ \E i \in Ids : PoolCloses(i)
  <2>1. UNCHANGED <<call, reinit, checked>>
    BY <1>1 DEF vars, Analyze, Register, Remove, PoolCloses
  <2> QED
    BY <2>1, ReinitKept
<1>2. CASE RefreshReads \/ RefreshEntry
  BY <1>2, RefreshMovesNobody, ReinitKept
<1>3. ASSUME NEW c \in Calls, Query(c) \/ \E i \in Ids : Resolve(c, i) PROVE ReinitInv'
  <2>1. UNCHANGED <<reinit, checked>>
    BY <1>3 DEF Query, Resolve
  <2>2. \A d \in Calls : call'[d] = call[d] \/ call'[d].at \in {"idle", "resolved"}
    <3>1. CASE Query(c)
      BY <3>1, NoCallRecord DEF Query, TypeInv
    <3>2. ASSUME NEW i \in Ids, Resolve(c, i)
          PROVE  \A d \in Calls : call'[d] = call[d] \/ call'[d].at \in {"idle", "resolved"}
      <4> DEFINE r == [NoCall EXCEPT !.at = "resolved", !.id = i, !.path = handles[i].path]
      <4>1. r.at = "resolved"
        BY DEF NoCall
      <4>2. call' = [call EXCEPT ![c] = r]
        BY <3>2 DEF Resolve
      <4> HIDE DEF r
      <4> QED
        BY <4>1, <4>2 DEF TypeInv
    <3> QED
      BY <1>3, <3>1, <3>2
  <2> QED
    BY <2>1, <2>2, ReinitKept
<1> QED
  BY <1>1, <1>2, <1>3

LEMMA StepReinit == ASSUME PromptMeta, ReinitInv, [Next]_vars PROVE ReinitInv'
<1>1. TypeInv'
  BY StepTypes DEF ReinitInv
<1> QED
  BY <1>1, OthersReinit, OpenEndsReinit, PauseEndsReinit, EnsureInitializedReinit, MetaIsReadReinit
     DEF Next, CallStep

\* One call at most closes and reopens the connections of a repository, and who waits for
\* a reopening waits for one that goes on, if meta.json is read within five seconds.
THEOREM OneReinitHolds ==
  ASSUME PromptMeta
  PROVE  Spec => []OneReinit
BY InitReinit, StepReinit, ReinitInvOne, PTL DEF Spec

-----------------------------------------------------------------------------
(* The repository of an id.                                                *)

\* A handle is under an id made of its own name and path.
OwnIds ==
  \A i \in Ids :
    handles[i] # None => i \in {BaseId(handles[i].path), HashId(handles[i].path)}

\* All there is under an id is of the one repository p.
AllOf(i, p) ==
  /\ handles[i] # None => handles[i].path = p
  /\ pool[i] # None => pool[i].path = p
  /\ opening[i] \in {None, p}
  /\ \A c \in Calls : call[c].id = i =>
       call[c].path = p /\ (call[c].handle # None => call[c].handle.path = p)

OneRepositoryPerId == \A i \in Ids : \E p \in Paths : AllOf(i, p)

RepositoryInv == TypeInv /\ OwnIds /\ OneRepositoryPerId

LEMMA InitRepository == Init => RepositoryInv
<1> SUFFICES ASSUME Init PROVE RepositoryInv
  OBVIOUS
<1>1. OwnIds
  BY DEF Init, OwnIds
<1>2. ASSUME NEW i \in Ids PROVE \E p \in Paths : AllOf(i, p)
  <2>1. PICK p \in Paths : TRUE
    BY DEF Ids
  <2>2. \A c \in Calls : call[c].id # i
    BY NoneAssumption, NoCallRecord DEF Init
  <2> QED
    BY <2>2 DEF Init, AllOf
<1> QED
  BY <1>1, <1>2, InitTypes DEF RepositoryInv, OneRepositoryPerId

\* The id made for a path is not that of another repository's handle.
LEMMA RepoIdIsOwn ==
  ASSUME HashesApart, RepositoryInv, NEW p \in Paths, handles[RepoId(p)] # None
  PROVE  handles[RepoId(p)].path = p
<1> DEFINE i == RepoId(p)
           q == handles[i].path
<1>1. i \in Ids /\ q \in Paths /\ i \in {BaseId(q), HashId(q)}
  BY IdsOfPaths, EntryParts DEF RepositoryInv, TypeInv, MapTypes, OwnIds
<1>2. CASE i = BaseId(p)
  <2>1. i # HashId(p)
    BY <1>2 DEF BaseId, HashId
  <2> QED
    BY <1>2, <2>1 DEF RepoId
<1>3. CASE i = HashId(p)
  <2>1. i # BaseId(q)
    BY <1>3 DEF BaseId, HashId
  <2>2. HashId(p) = HashId(q)
    BY <1>1, <1>3, <2>1
  <2>3. NameOf[p] = NameOf[q] /\ HashOf[p] = HashOf[q]
    BY <2>2 DEF HashId
  <2> QED
    BY <1>1, <2>3 DEF HashesApart
<1> QED
  BY <1>2, <1>3 DEF RepoId

\* An entry of the registry gets an id that was its own, or that nothing is left of.
LEMMA RefreshEntryRepository ==
  ASSUME HashesApart, IdsNotReused, RepositoryInv, RefreshEntry, TypeInv'
  PROVE  RepositoryInv'
<1>1. PICK e \in Entry :
        LET i == RepoId(e.path) IN
        /\ i \in Ids /\ ~ Reuses(i, e)
        /\ handles'[i] = e
        /\ \A j \in Ids : j # i => handles'[j] \in {handles[j], None}
  BY RefreshEntryEffect DEF RepositoryInv, IdsNotReused
<1> DEFINE i == RepoId(e.path)
<1>2. i \in Ids /\ e.path \in Paths /\ i \in {BaseId(e.path), HashId(e.path)}
  BY EntryParts, IdsOfPaths DEF RepoId
<1>3. /\ UNCHANGED <<pool, opening>>
      /\ \A c \in Calls : call'[c].id = call[c].id /\ call'[c].path = call[c].path
                          /\ call'[c].handle = call[c].handle
  BY RefreshMovesNobody DEF RepositoryInv
<1>4. handles[i] # None => handles[i].path = e.path
  BY <1>2, RepoIdIsOwn
<1> HIDE DEF i
<1>5. OwnIds'
  BY <1>1, <1>2 DEF RepositoryInv, OwnIds, BaseId, HashId, i
<1>6. ASSUME NEW j \in Ids PROVE \E p \in Paths : AllOf(j, p)'
  <2>1. PICK p \in Paths : AllOf(j, p)
    BY DEF RepositoryInv, OneRepositoryPerId
  <2>2. CASE j # i
    <3>1. AllOf(j, p)'
      BY <1>1, <1>3, <2>1, <2>2 DEF AllOf, i
    <3> QED
      BY <3>1
  <2>3. CASE j = i /\ handles[i] # None
    <3>1. p = e.path
      BY <1>4, <2>1, <2>3 DEF AllOf
    <3>2. AllOf(j, p)'
      BY <1>1, <1>3, <2>1, <2>3, <3>1 DEF AllOf, i
    <3> QED
      BY <3>2
  <2>4. CASE j = i /\ handles[i] = None
    <3>1. /\ pool[i] # None => pool[i].path = e.path
          /\ opening[i] \in {None, e.path}
          /\ \A c \in Calls : call[c].id = i => call[c].path = e.path
      BY <1>1, <2>4 DEF Reuses, i
    <3>2. \A c \in Calls : call[c].id = i /\ call[c].handle # None => call[c].handle.path = e.path
      BY <2>1, <2>4, <3>1 DEF AllOf
    <3>3. AllOf(j, e.path)'
      BY <1>1, <1>3, <2>4, <3>1, <3>2 DEF AllOf, i
    <3> QED
      BY <1>2, <3>3
  <2> QED
    BY <2>2, <2>3, <2>4
<1> QED
  BY <1>5, <1>6 DEF RepositoryInv, OneRepositoryPerId

LEMMA OpenEndsRepository ==
  ASSUME RepositoryInv, NEW i \in Ids, OpenEnds(i), TypeInv'
  PROVE  RepositoryInv'
<1>1. /\ opening \in [Ids -> Paths \cup {None}] /\ opening' = [opening EXCEPT ![i] = None]
      /\ pool \in [Ids -> PoolRecords \cup {None}] /\ handles' = handles
      /\ opening[i] # None
  BY DEF OpenEnds, RepositoryInv, TypeInv, MapTypes
<1>2. ASSUME NEW c \in Calls, call'[c].id \in Ids
      PROVE  call'[c].id = call[c].id /\ call'[c].path = call[c].path
             /\ call'[c].handle = call[c].handle
  <2>1. call[c] \in CallRecords
    BY DEF RepositoryInv, TypeInv
  <2>2. call'[c] = call[c] \/ call'[c] = [call[c] EXCEPT !.at = "ready"] \/ call'[c] = NoCall
    BY DEF OpenEnds
  <2>3. call'[c] # NoCall
    BY <1>2, NoCallRecord, NoneAssumption
  <2> QED
    BY <2>1, <2>2, <2>3 DEF CallRecords
<1>3. OwnIds'
  BY <1>1 DEF RepositoryInv, OwnIds, BaseId, HashId
<1>4. ASSUME NEW j \in Ids PROVE \E p \in Paths : AllOf(j, p)'
  <2>1. PICK p \in Paths : AllOf(j, p)
    BY DEF RepositoryInv, OneRepositoryPerId
  <2>2. pool'[j] # None => pool'[j].path = p
    <3>1. CASE pool' = [pool EXCEPT ![i] = [path |-> opening[i], build |-> built[opening[i]]]]
      BY <1>1, <2>1, <3>1 DEF AllOf
    <3>2. CASE pool' = pool
      BY <2>1, <3>2 DEF AllOf
    <3> QED
      BY <3>1, <3>2 DEF OpenEnds
  <2>3. AllOf(j, p)'
    BY <1>1, <1>2, <2>1, <2>2 DEF AllOf
  <2> QED
    BY <2>3
<1> QED
  BY <1>3, <1>4 DEF RepositoryInv, OneRepositoryPerId

\* One call c, whose record becomes r, and the opening of its id.
LEMMA OneCallRepository ==
  ASSUME RepositoryInv, TypeInv', NEW c \in Calls, NEW i \in Ids,
         \A d \in Calls : d # c => call'[d] = call[d],
         call'[c].id \in {i, None},
         \A p \in Paths : AllOf(i, p) =>
           /\ call'[c].id = i =>
                call'[c].path = p /\ (call'[c].handle # None => call'[c].handle.path = p)
           /\ opening'[i] \in {None, p},
         \A j \in Ids : /\ handles'[j] # None => handles[j] # None /\ handles'[j].path = handles[j].path
                        /\ pool'[j] \in {pool[j], None}
                        /\ j # i => opening'[j] = opening[j]
  PROVE  RepositoryInv'
<1>1. OwnIds'
  BY DEF RepositoryInv, OwnIds, BaseId, HashId
<1>2. ASSUME NEW j \in Ids PROVE \E p \in Paths : AllOf(j, p)'
  <2>1. PICK p \in Paths : AllOf(j, p)
    BY DEF RepositoryInv, OneRepositoryPerId
  <2>2. AllOf(j, p)'
    <3>1. CASE j = i
      <4>1. \A d \in Calls : call'[d].id = i =>
              call'[d].path = p /\ (call'[d].handle # None => call'[d].handle.path = p)
        BY <2>1, <3>1 DEF AllOf
      <4> QED
        BY <2>1, <3>1, <4>1 DEF AllOf
    <3>2. CASE j # i
      <4>1. \A d \in Calls : call'[d].id = j => d # c /\ call'[d] = call[d]
        BY <3>2, NoneAssumption
      <4>2. /\ handles'[j] # None => handles'[j].path = p
            /\ pool'[j] # None => pool'[j].path = p
            /\ opening'[j] \in {None, p}
        BY <2>1, <3>2 DEF AllOf
      <4> QED
        BY <2>1, <4>1, <4>2 DEF AllOf
    <3> QED
      BY <3>1, <3>2
  <2> QED
    BY <2>2
<1> QED
  BY <1>1, <1>2 DEF RepositoryInv, OneRepositoryPerId

LEMMA ResolveRepository ==
  ASSUME RepositoryInv, NEW c \in Calls, NEW i \in Ids, Resolve(c, i), TypeInv'
  PROVE  RepositoryInv'
<1> DEFINE r == [NoCall EXCEPT !.at = "resolved", !.id = i, !.path = handles[i].path]
<1>1. r.id = i /\ r.path = handles[i].path /\ r.handle = None
  BY DEF NoCall
<1>2. call' = [call EXCEPT ![c] = r] /\ UNCHANGED <<handles, pool, opening>> /\ handles[i] # None
  BY DEF Resolve, poolVars
<1>3. \A p \in Paths : AllOf(i, p) => r.path = p /\ opening'[i] \in {None, p}
  BY <1>1, <1>2 DEF AllOf
<1> HIDE DEF r
<1>4. call'[c] = r /\ \A d \in Calls : d # c => call'[d] = call[d]
  BY <1>2 DEF RepositoryInv, TypeInv
<1> QED
  BY <1>1, <1>2, <1>3, <1>4, OneCallRepository

LEMMA QueryRepository ==
  ASSUME RepositoryInv, NEW c \in Calls, Query(c), TypeInv'
  PROVE  RepositoryInv'
<1>1. call' = [call EXCEPT ![c] = NoCall] /\ UNCHANGED <<handles, pool, opening>>
  BY DEF Query, poolVars
<1>2. PICK i \in Ids : i = call[c].id
  BY DEF Query, RepositoryInv, TypeInv, CallsWellFormed
<1>3. \A p \in Paths : AllOf(i, p) => opening'[i] \in {None, p}
  BY <1>1 DEF AllOf
<1>4. call'[c].id = None /\ call'[c].id # i /\ \A d \in Calls : d # c => call'[d] = call[d]
  BY <1>1, <1>2, NoCallRecord, NoneAssumption DEF RepositoryInv, TypeInv
<1> QED
  BY <1>1, <1>3, <1>4, OneCallRepository

LEMMA EnsureInitializedRepository ==
  ASSUME RepositoryInv, NEW c \in Calls, EnsureInitialized(c), TypeInv'
  PROVE  RepositoryInv'
<1>1. PICK i \in Ids : i = call[c].id
  BY DEF EnsureInitialized, RepositoryInv, TypeInv, CallsWellFormed
<1>2. call[c].id = i /\ call[c] \in CallRecords /\ opening \in [Ids -> Paths \cup {None}]
  BY <1>1 DEF RepositoryInv, TypeInv, MapTypes
<1>3. UNCHANGED <<handles, pool>>
  BY DEF EnsureInitialized
<1>4. /\ \A j \in Ids : j # i => opening'[j] = opening[j]
      /\ opening'[i] = opening[i] \/ (handles[i] # None /\ opening'[i] = handles[i].path)
  <2>1. opening' = opening \/ (handles[i] # None /\ InitLbug(i, handles[i].path))
    BY <1>2 DEF EnsureInitialized
  <2> QED
    BY <1>2, <2>1 DEF InitLbug
<1>5. \E r : /\ call' = [call EXCEPT ![c] = r]
             /\ \/ r.id = None
                \/ r.id = i /\ r.path = call[c].path /\ r.handle \in {call[c].handle, handles[i]}
  <2>1. CASE \E s : At(c, s)
    <3>1. PICK s : call' = [call EXCEPT ![c] = [call[c] EXCEPT !.at = s]]
      BY <2>1 DEF At, RepositoryInv, TypeInv
    <3>2. /\ [call[c] EXCEPT !.at = s].id = i /\ [call[c] EXCEPT !.at = s].path = call[c].path
          /\ [call[c] EXCEPT !.at = s].handle = call[c].handle
      BY <1>2 DEF CallRecords
    <3> QED
      BY <3>1, <3>2
  <2>2. CASE call' = [call EXCEPT ![c] = NoCall]
    BY <2>2, NoCallRecord
  <2>3. CASE ReadMeta(c)
    <3> DEFINE r == [call[c] EXCEPT !.at = "meta", !.handle = handles[i], !.own = TRUE]
    <3>1. call' = [call EXCEPT ![c] = r]
      BY <1>2, <2>3 DEF ReadMeta, RepositoryInv, TypeInv
    <3>2. r.id = i /\ r.path = call[c].path /\ r.handle = handles[i]
      BY <1>2 DEF CallRecords
    <3> HIDE DEF r
    <3> QED
      BY <3>1, <3>2
  <2> QED
    BY <2>1, <2>2, <2>3 DEF EnsureInitialized
<1>6. PICK r : /\ call' = [call EXCEPT ![c] = r]
               /\ \/ r.id = None
                  \/ r.id = i /\ r.path = call[c].path /\ r.handle \in {call[c].handle, handles[i]}
  BY <1>5
<1>7. ASSUME NEW p \in Paths, AllOf(i, p)
      PROVE  /\ r.id = i => r.path = p /\ (r.handle # None => r.handle.path = p)
             /\ opening'[i] \in {None, p}
  <2>1. call[c].path = p /\ (call[c].handle # None => call[c].handle.path = p)
    BY <1>2, <1>7 DEF AllOf
  <2>2. (handles[i] # None => handles[i].path = p) /\ opening[i] \in {None, p}
    BY <1>7 DEF AllOf
  <2>3. i # None
    BY <1>2, NoneAssumption
  <2> QED
    BY <1>4, <1>6, <2>1, <2>2, <2>3
<1>8. \A j \in Ids : /\ handles'[j] # None => handles[j] # None /\ handles'[j].path = handles[j].path
                     /\ pool'[j] \in {pool[j], None}
                     /\ j # i => opening'[j] = opening[j]
  BY <1>3, <1>4
<1>9. /\ call'[c] = r /\ r.id \in {i, None}
      /\ \A d \in Calls : d # c => call'[d] = call[d]
  BY <1>2, <1>6 DEF RepositoryInv, TypeInv
<1>10. \A p \in Paths : AllOf(i, p) =>
        /\ r.id = i => r.path = p /\ (r.handle # None => r.handle.path = p)
        /\ opening'[i] \in {None, p}
  BY <1>7
<1> QED
  BY <1>8, <1>9, <1>10, OneCallRepository

LEMMA MetaIsReadRepository ==
  ASSUME RepositoryInv, NEW c \in Calls, MetaIsRead(c), TypeInv'
  PROVE  RepositoryInv'
<1> DEFINE q == call[c].handle.path
           Ended(s) == [call[c] EXCEPT !.at = s, !.handle = None, !.own = FALSE]
<1>1. PICK i \in Ids : i = call[c].id
  BY DEF MetaIsRead, RepositoryInv, TypeInv, CallsWellFormed
<1>2. /\ call[c].id = i /\ call[c] \in CallRecords /\ opening \in [Ids -> Paths \cup {None}]
      /\ handles \in [Ids -> Entry \cup {None}] /\ pool \in [Ids -> PoolRecords \cup {None}]
      /\ call[c].handle # None
  BY <1>1, EntryParts DEF MetaIsRead, RepositoryInv, TypeInv, CallsWellFormed, MapTypes
<1>3. \E r : call' = [call EXCEPT ![c] = r] /\ r.id = i /\ r.path = call[c].path /\ r.handle = None
  <2>1. \E s : call' = [call EXCEPT ![c] = Ended(s)]
    BY DEF MetaIsRead, RepositoryInv, TypeInv
  <2>2. \A s : Ended(s).id = i /\ Ended(s).path = call[c].path /\ Ended(s).handle = None
    BY <1>2 DEF CallRecords
  <2> HIDE DEF Ended
  <2> QED
    BY <2>1, <2>2
<1>4. PICK r : call' = [call EXCEPT ![c] = r] /\ r.id = i /\ r.path = call[c].path /\ r.handle = None
  BY <1>3
<1>5. ASSUME NEW j \in Ids
      PROVE  /\ handles'[j] # None => handles[j] # None /\ handles'[j].path = handles[j].path
             /\ pool'[j] \in {pool[j], None}
             /\ opening'[j] = opening[j] \/ (j = i /\ opening'[j] = q)
  <2>1. CASE Stale(c)
    <3>1. /\ pool' = [pool EXCEPT ![i] = None] /\ InitLbug(i, q)
          /\ handles' = IF call[c].own THEN [handles EXCEPT ![i].indexedAt = built[q]] ELSE handles
      BY <1>2, <2>1 DEF MetaIsRead
    <3>2. call[c].own => handles[i] \in Entry
      BY <1>2 DEF RepositoryInv, TypeInv, CallsWellFormed
    <3>3. handles'[j] # None => handles[j] # None /\ handles'[j].path = handles[j].path
      <4>1. CASE call[c].own /\ j = i
        <5>1. handles'[j] = [handles[j] EXCEPT !.indexedAt = built[q]] /\ handles[j] \in Entry
          BY <1>2, <3>1, <3>2, <4>1
        <5>2. handles'[j].path = handles[j].path
          BY <5>1 DEF Entry
        <5> QED
          BY <5>1, <5>2, EntryParts
      <4>2. CASE ~ (call[c].own /\ j = i)
        <5>1. handles'[j] = handles[j]
          BY <1>2, <3>1, <4>2
        <5> QED
          BY <5>1
      <4> QED
        BY <4>1, <4>2
    <3>4. opening'[j] = opening[j] \/ (j = i /\ opening'[j] = q)
      BY <1>2, <3>1 DEF InitLbug
    <3> QED
      BY <1>2, <3>1, <3>3, <3>4
  <2>2. CASE ~ Stale(c)
    BY <2>2 DEF MetaIsRead
  <2> QED
    BY <2>1, <2>2
<1>6. ASSUME NEW p \in Paths, AllOf(i, p)
      PROVE  /\ r.id = i => r.path = p /\ (r.handle # None => r.handle.path = p)
             /\ opening'[i] \in {None, p}
  <2>1. call[c].path = p /\ q = p /\ opening[i] \in {None, p}
    BY <1>2, <1>6 DEF AllOf
  <2> QED
    BY <1>2, <1>4, <1>5, <2>1
<1>7. \A j \in Ids : /\ handles'[j] # None => handles[j] # None /\ handles'[j].path = handles[j].path
                     /\ pool'[j] \in {pool[j], None}
                     /\ j # i => opening'[j] = opening[j]
  BY <1>5
<1>8. /\ call'[c] = r /\ r.id \in {i, None}
      /\ \A d \in Calls : d # c => call'[d] = call[d]
  BY <1>2, <1>4 DEF RepositoryInv, TypeInv
<1>9. \A p \in Paths : AllOf(i, p) =>
        /\ r.id = i => r.path = p /\ (r.handle # None => r.handle.path = p)
        /\ opening'[i] \in {None, p}
  BY <1>6
<1> HIDE DEF q, Ended
<1> QED
  BY <1>7, <1>8, <1>9, OneCallRepository

\* The other steps bring nothing to an id.
LEMMA OthersRepository ==
  ASSUME RepositoryInv, TypeInv',
         \/ UNCHANGED vars
         \/ \E p \in Paths : Analyze(p) \/ Register(p) \/ Remove(p)
         \/ RefreshReads
         \/ \E i \in Ids : PoolCloses(i) \/ PauseEnds(i)
  PROVE  RepositoryInv'
<1>1. \A i \in Ids : /\ handles'[i] \in {handles[i], None} /\ pool'[i] \in {pool[i], None}
                     /\ opening'[i] = opening[i]
  BY DEF vars, poolVars, Analyze, Register, Remove, RefreshReads, Pruned, PoolCloses, PauseEnds,
         RepositoryInv, TypeInv, MapTypes
<1>2. \A c \in Calls : /\ call'[c].id = call[c].id /\ call'[c].path = call[c].path
                       /\ call'[c].handle = call[c].handle
  <2>1. CASE RefreshReads
    BY <2>1, RefreshMovesNobody DEF RepositoryInv
  <2>2. CASE ~ RefreshReads
    BY <2>2 DEF vars, Analyze, Register, Remove, PoolCloses, PauseEnds
  <2> QED
    BY <2>1, <2>2
<1>3. OwnIds'
  BY <1>1 DEF RepositoryInv, OwnIds, BaseId, HashId
<1>4. ASSUME NEW i \in Ids PROVE \E p \in Paths : AllOf(i, p)'
  <2>1. PICK p \in Paths : AllOf(i, p)
    BY DEF RepositoryInv, OneRepositoryPerId
  <2>2. AllOf(i, p)'
    BY <1>1, <1>2, <2>1 DEF AllOf
  <2> QED
    BY <2>2
<1> QED
  BY <1>3, <1>4 DEF RepositoryInv, OneRepositoryPerId

LEMMA StepRepository ==
  ASSUME HashesApart, IdsNotReused, RepositoryInv, [Next]_vars
  PROVE  RepositoryInv'
<1>1. TypeInv'
  BY StepTypes DEF RepositoryInv
<1> QED
  BY <1>1, OthersRepository, RefreshEntryRepository, OpenEndsRepository, ResolveRepository,
     QueryRepository, EnsureInitializedRepository, MetaIsReadRepository DEF Next, CallStep

LEMMA QueryIsRight ==
  ASSUME RepositoryInv
  PROVE  \A c \in Calls : Query(c) /\ pool[call[c].id] # None =>
           pool[call[c].id].path = call[c].path
<1> SUFFICES ASSUME NEW c \in Calls, Query(c), pool[call[c].id] # None
             PROVE  pool[call[c].id].path = call[c].path
  OBVIOUS
<1>1. call[c].id \in Ids
  BY DEF Query, RepositoryInv, TypeInv, CallsWellFormed
<1>2. PICK p \in Paths : AllOf(call[c].id, p)
  BY <1>1 DEF RepositoryInv, OneRepositoryPerId
<1> QED
  BY <1>2 DEF AllOf

\* A call is answered from the repository it was resolved to, whatever is analysed,
\* registered, removed, closed and opened between the two, if the hashes of repositories of
\* one name differ and an id is not passed on while something of its last owner is left.
THEOREM RightRepositoryHolds ==
  ASSUME HashesApart, IdsNotReused
  PROVE  Spec => RightRepository
<1>1. RepositoryInv /\ [Next]_vars =>
        [\A c \in Calls : Query(c) /\ pool[call[c].id] # None =>
           pool[call[c].id].path = call[c].path]_vars
  BY QueryIsRight
<1> QED
  BY <1>1, InitRepository, StepRepository, PTL DEF Spec, RightRepository
=============================================================================

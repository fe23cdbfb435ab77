--------------------------- MODULE ConnPool_proofs ---------------------------
(***************************************************************************)
(* Proofs about ConnCheckout and ConnPool, for every number of calls,      *)
(* entries, connections and repositories, and whatever times out, fails or *)
(* is closed: no connection is lost or lent twice, no waiting call is      *)
(* forgotten, every open entry belongs to one repository, and eviction     *)
(* takes nothing from under a call.  The database of a pooled repository   *)
(* stays open in every instance in which no directory is opened twice at   *)
(* the same time: the cache has one database per directory, and its count  *)
(* is never below the number of repositories and initialisations on it.    *)
(***************************************************************************)
EXTENDS ConnPool, FiniteSetTheorems, FunctionTheorems, SequenceTheorems, TLAPS

-----------------------------------------------------------------------------
(* Queues of distinct elements.                                            *)

Distinct(s) == \A i, j \in 1 .. Len(s) : s[i] = s[j] => i = j

LEMMA AppendDistinct ==
  ASSUME NEW S, NEW s \in Seq(S), NEW x \in S, Distinct(s), x \notin ToSet(s)
  PROVE  /\ Append(s, x) \in Seq(S) /\ Distinct(Append(s, x))
         /\ ToSet(Append(s, x)) = ToSet(s) \cup {x}
<1> DEFINE t == Append(s, x)
<1>1. /\ t \in Seq(S) /\ Len(t) = Len(s) + 1 /\ t[Len(s) + 1] = x /\ Len(s) \in Nat
      /\ \A i \in 1 .. Len(s) : t[i] = s[i]
      /\ DOMAIN t = 1 .. Len(s) + 1 /\ DOMAIN s = 1 .. Len(s)
  OBVIOUS
<1> HIDE DEF t
<1>2. ToSet(t) = ToSet(s) \cup {x}
  BY <1>1 DEF ToSet
<1>3. \A i \in 1 .. Len(s) : s[i] # x
  BY <1>1 DEF ToSet
<1>4. Distinct(t)
  BY <1>1, <1>3 DEF Distinct
<1> QED
  BY <1>1, <1>2, <1>4 DEF t

LEMMA TailDistinct ==
  ASSUME NEW S, NEW s \in Seq(S), s # <<>>, Distinct(s)
  PROVE  /\ Tail(s) \in Seq(S) /\ Distinct(Tail(s)) /\ Head(s) \in ToSet(s)
         /\ ToSet(Tail(s)) = ToSet(s) \ {Head(s)}
<1> DEFINE t == Tail(s)
<1>1. /\ t \in Seq(S) /\ Len(s) \in Nat /\ Len(s) >= 1 /\ Len(t) = Len(s) - 1 /\ Head(s) = s[1]
      /\ \A i \in 1 .. Len(s) - 1 : t[i] = s[i + 1]
      /\ DOMAIN t = 1 .. Len(s) - 1 /\ DOMAIN s = 1 .. Len(s)
  OBVIOUS
<1> HIDE DEF t
<1>2. Distinct(t)
  BY <1>1 DEF Distinct
<1>3. ToSet(t) \subseteq ToSet(s) \ {Head(s)}
  BY <1>1 DEF ToSet, Distinct
<1>4. ASSUME NEW i \in 1 .. Len(s), s[i] # Head(s) PROVE s[i] \in ToSet(t)
  <2>1. i - 1 \in 1 .. Len(s) - 1 /\ t[i - 1] = s[i]
    BY <1>1, <1>4
  <2> QED
    BY <1>1, <2>1 DEF ToSet
<1>5. Head(s) \in ToSet(s) /\ ToSet(s) \ {Head(s)} \subseteq ToSet(t)
  BY <1>1, <1>4 DEF ToSet
<1> QED
  BY <1>1, <1>2, <1>3, <1>5 DEF t

LEMMA RemoveFirstDistinct ==
  ASSUME NEW S, NEW s \in Seq(S), NEW x \in ToSet(s), Distinct(s)
  PROVE  /\ RemoveFirst(s, x) \in Seq(S) /\ Distinct(RemoveFirst(s, x))
         /\ ToSet(RemoveFirst(s, x)) = ToSet(s) \ {x}
<1>1. PICK k \in 1 .. Len(s) : s[k] = x
  BY DEF ToSet
<1>2. {i \in 1 .. Len(s) : s[i] = x} = {k}
  BY <1>1 DEF Distinct
<1>3. SelectInSeq(s, LAMBDA v : v = x) = k
  BY <1>1, <1>2 DEF SelectInSeq, Min
<1> DEFINE a == SubSeq(s, 1, k - 1)
           b == SubSeq(s, k + 1, Len(s))
           t == a \o b
<1>4. RemoveFirst(s, x) = t
  BY <1>1, <1>3 DEF RemoveFirst, RemoveAt
<1>5. /\ Len(s) \in Nat /\ k \in Nat /\ a \in Seq(S) /\ b \in Seq(S)
      /\ Len(a) = k - 1 /\ Len(b) = Len(s) - k
      /\ \A i \in 1 .. k - 1 : a[i] = s[i]
      /\ \A i \in 1 .. Len(s) - k : b[i] = s[k + i]
  BY <1>1
<1> HIDE DEF a, b
<1>6. /\ t \in Seq(S) /\ Len(t) = Len(s) - 1
      /\ \A i \in 1 .. k - 1 : t[i] = s[i]
      /\ \A i \in k .. Len(s) - 1 : t[i] = s[i + 1]
  <2>1. /\ t \in Seq(S) /\ Len(t) = Len(a) + Len(b)
        /\ \A i \in 1 .. Len(a) + Len(b) : t[i] = IF i <= Len(a) THEN a[i] ELSE b[i - Len(a)]
    BY <1>5, ConcatProperties
  <2>2. Len(a) + Len(b) = Len(s) - 1 /\ k <= Len(s)
    BY <1>1, <1>5
  <2> HIDE DEF t
  <2>3. ASSUME NEW i \in 1 .. k - 1 PROVE t[i] = s[i]
    BY <1>5, <2>1, <2>2
  <2>4. ASSUME NEW i \in k .. Len(s) - 1 PROVE t[i] = s[i + 1]
    <3>1. t[i] = b[i - (k - 1)] /\ i - (k - 1) \in 1 .. Len(s) - k
      <4>1. i \in 1 .. Len(a) + Len(b) /\ ~ (i <= Len(a)) /\ i - (k - 1) \in 1 .. Len(s) - k
        BY <1>5, <2>2
      <4>2. t[i] = b[i - Len(a)]
        BY <2>1, <4>1
      <4> QED
        BY <1>5, <4>1, <4>2
    <3>2. k + (i - (k - 1)) = i + 1
      BY <1>5
    <3> QED
      BY <1>5, <3>1, <3>2
  <2> QED
    BY <2>1, <2>2, <2>3, <2>4
<1>7. DOMAIN t = 1 .. Len(s) - 1 /\ DOMAIN s = 1 .. Len(s)
  BY <1>6
<1> HIDE DEF t
<1>8. \A i \in 1 .. Len(s) - 1 : i \in 1 .. k - 1 \/ i \in k .. Len(s) - 1
  BY <1>5
<1>9. Distinct(t)
  <2> SUFFICES ASSUME NEW i \in 1 .. Len(s) - 1, NEW j \in 1 .. Len(s) - 1, t[i] = t[j] PROVE i = j
    BY <1>6 DEF Distinct
  <2>1. \A m \in 1 .. Len(s) - 1 : m \in 1 .. Len(s) /\ m + 1 \in 1 .. Len(s)
    BY <1>5
  <2> QED
    BY <1>8, <1>1, <1>5, <1>6, <2>1 DEF Distinct
<1>10. ASSUME NEW i \in 1 .. Len(s) - 1 PROVE t[i] \in ToSet(s) \ {x}
  <2>1. PICK m \in 1 .. Len(s) : m # k /\ t[i] = s[m]
    <3>1. CASE i \in 1 .. k - 1
      BY <1>1, <1>5, <1>6, <3>1
    <3>2. CASE i \in k .. Len(s) - 1
      <4>1. i + 1 \in 1 .. Len(s) /\ i + 1 # k
        BY <1>5, <3>2
      <4> QED
        BY <1>6, <3>2, <4>1
    <3> QED
      BY <1>8, <3>1, <3>2
  <2> QED
    BY <1>1, <1>7, <2>1 DEF ToSet, Distinct
<1>11. ASSUME NEW i \in 1 .. Len(s), s[i] # x PROVE s[i] \in ToSet(t)
  <2>1. CASE i < k
    <3>1. i \in 1 .. k - 1 /\ i \in 1 .. Len(s) - 1
      BY <1>5, <2>1
    <3> QED
      BY <1>6, <1>7, <3>1 DEF ToSet
  <2>2. CASE i > k
    <3>1. i - 1 \in k .. Len(s) - 1 /\ i - 1 \in 1 .. Len(s) - 1 /\ i - 1 + 1 = i
      BY <1>5, <2>2
    <3>2. t[i - 1] = s[i]
      BY <1>6, <3>1
    <3> QED
      BY <1>7, <3>1, <3>2 DEF ToSet
  <2> QED
    BY <1>1, <1>5, <1>11, <2>1, <2>2
<1>12. ToSet(t) \subseteq ToSet(s) \ {x}
  BY <1>7, <1>10 DEF ToSet
<1>13. ToSet(s) \ {x} \subseteq ToSet(t)
  BY <1>7, <1>11 DEF ToSet
<1> QED
  BY <1>4, <1>6, <1>9, <1>13, <1>12

\* A queue of distinct elements is as long as the set of them is large.
LEMMA DistinctLength ==
  ASSUME NEW S, NEW s \in Seq(S), Distinct(s)
  PROVE  Len(s) = Cardinality(ToSet(s))
<1>1. Len(s) \in Nat /\ DOMAIN s = 1 .. Len(s) /\ s \in [1 .. Len(s) -> ToSet(s)]
  BY DEF ToSet
<1>2. \A y \in ToSet(s) : \E i \in 1 .. Len(s) : s[i] = y
  BY <1>1 DEF ToSet
<1>3. s \in Bijection(1 .. Len(s), ToSet(s))
  BY <1>1, <1>2, Fun_IsBij DEF Distinct
<1>4. ExistsBijection(1 .. Len(s), ToSet(s))
  BY <1>3 DEF ExistsBijection
<1> QED
  BY <1>1, <1>4, FS_CountingElements
-----------------------------------------------------------------------------
(* Calls and the entries they use.                                         *)

Phases == {"idle", "waiting", "native", "rows"}

EntryRecords ==
  [db : Dbs \cup {None}, path : DbPaths \cup {None}, available : SUBSET Conns,
   checkedOut : Nat, waiters : Seq(Callers), state : {"open", "closed"}]

\* The fields of an entry's record, one by one.
LEMMA SetAvailable ==
  ASSUME NEW r \in EntryRecords, NEW a \in SUBSET Conns
  PROVE  LET q == [r EXCEPT !.available = a] IN
         /\ q \in EntryRecords /\ q.db = r.db /\ q.path = r.path
         /\ q.available = a /\ q.checkedOut = r.checkedOut
         /\ q.waiters = r.waiters /\ q.state = r.state
<1> DEFINE W == Seq(Callers)
<1>1. r \in [db : Dbs \cup {None}, path : DbPaths \cup {None}, available : SUBSET Conns,
             checkedOut : Nat, waiters : W, state : {"open", "closed"}]
  BY DEF EntryRecords
<1> HIDE DEF W
<1>2. LET q == [r EXCEPT !.available = a] IN
      /\ q \in [db : Dbs \cup {None}, path : DbPaths \cup {None}, available : SUBSET Conns,
             checkedOut : Nat, waiters : W, state : {"open", "closed"}]
      /\ q.db = r.db /\ q.path = r.path
      /\ q.available = a /\ q.checkedOut = r.checkedOut
      /\ q.waiters = r.waiters /\ q.state = r.state
  BY <1>1
<1> QED
  BY <1>2 DEF W, EntryRecords

LEMMA SetCheckedOut ==
  ASSUME NEW r \in EntryRecords, NEW n \in Nat
  PROVE  LET q == [r EXCEPT !.checkedOut = n] IN
         /\ q \in EntryRecords /\ q.db = r.db /\ q.path = r.path
         /\ q.available = r.available /\ q.checkedOut = n
         /\ q.waiters = r.waiters /\ q.state = r.state
<1> DEFINE W == Seq(Callers)
<1>1. r \in [db : Dbs \cup {None}, path : DbPaths \cup {None}, available : SUBSET Conns,
             checkedOut : Nat, waiters : W, state : {"open", "closed"}]
  BY DEF EntryRecords
<1> HIDE DEF W
<1>2. LET q == [r EXCEPT !.checkedOut = n] IN
      /\ q \in [db : Dbs \cup {None}, path : DbPaths \cup {None}, available : SUBSET Conns,
             checkedOut : Nat, waiters : W, state : {"open", "closed"}]
      /\ q.db = r.db /\ q.path = r.path
      /\ q.available = r.available /\ q.checkedOut = n
      /\ q.waiters = r.waiters /\ q.state = r.state
  BY <1>1
<1> QED
  BY <1>2 DEF W, EntryRecords

LEMMA SetWaiters ==
  ASSUME NEW r \in EntryRecords, NEW w \in Seq(Callers)
  PROVE  LET q == [r EXCEPT !.waiters = w] IN
         /\ q \in EntryRecords /\ q.db = r.db /\ q.path = r.path
         /\ q.available = r.available /\ q.checkedOut = r.checkedOut
         /\ q.waiters = w /\ q.state = r.state
<1> DEFINE W == Seq(Callers)
<1>1. r \in [db : Dbs \cup {None}, path : DbPaths \cup {None}, available : SUBSET Conns,
             checkedOut : Nat, waiters : W, state : {"open", "closed"}] /\ w \in W
  BY DEF EntryRecords
<1> HIDE DEF W
<1>2. LET q == [r EXCEPT !.waiters = w] IN
      /\ q \in [db : Dbs \cup {None}, path : DbPaths \cup {None}, available : SUBSET Conns,
             checkedOut : Nat, waiters : W, state : {"open", "closed"}]
      /\ q.db = r.db /\ q.path = r.path
      /\ q.available = r.available /\ q.checkedOut = r.checkedOut
      /\ q.waiters = w /\ q.state = r.state
  BY <1>1
<1> QED
  BY <1>2 DEF W, EntryRecords

LEMMA SetState ==
  ASSUME NEW r \in EntryRecords, NEW x \in {"open", "closed"}
  PROVE  LET q == [r EXCEPT !.state = x] IN
         q \in EntryRecords /\ q.waiters = r.waiters /\ q.state = x
<1> DEFINE W == Seq(Callers)
<1>1. r \in [db : Dbs \cup {None}, path : DbPaths \cup {None}, available : SUBSET Conns,
             checkedOut : Nat, waiters : W, state : {"open", "closed"}]
  BY DEF EntryRecords
<1> HIDE DEF W
<1>2. LET q == [r EXCEPT !.state = x] IN
      /\ q \in [db : Dbs \cup {None}, path : DbPaths \cup {None}, available : SUBSET Conns,
             checkedOut : Nat, waiters : W, state : {"open", "closed"}]
      /\ q.waiters = r.waiters /\ q.state = x
  BY <1>1
<1> QED
  BY <1>2 DEF W, EntryRecords

CallRecords == [phase : Phases, entry : Entries \cup {None}, conn : Conns \cup {None}]

CheckoutTypes ==
  /\ callers \in [Callers -> CallRecords]
  /\ entries \in [Entries -> EntryRecords]

\* A call that does not wait or hold is idle and has no entry.
PhasesMatch ==
  \A c \in Callers :
    /\ callers[c].phase = "idle" => callers[c] = Idle
    /\ callers[c].phase # "idle" => callers[c].entry \in Entries
    /\ callers[c].phase \in {"native", "rows"} => callers[c].conn \in Conns

\* The queue of entry e holds the calls that wait at it, each once.
QueueMatches(e) ==
  Distinct(entries[e].waiters) /\ ToSet(entries[e].waiters) = Waiters(e)

\* The connections of e are lent to one call each, or available; they are
\* counted; none is available while a call waits.
LentOnce(e) ==
  /\ \A c, d \in Holders(e) : callers[c].conn = callers[d].conn => c = d
  /\ \A k \in Conns : k \in entries[e].available <=> \A c \in Holders(e) : callers[c].conn # k
  /\ entries[e].checkedOut = Cardinality(Holders(e))
  /\ Waiters(e) # {} => entries[e].available = {}

EntryInv(e) == QueueMatches(e) /\ (IsOpen(e) => LentOnce(e))

CheckoutInv == CheckoutTypes /\ PhasesMatch /\ \A e \in Entries : EntryInv(e)

\* Holding is an injection of calls into connections.
LEMMA HoldersFinite ==
  ASSUME CheckoutInv, NEW e \in Entries, IsOpen(e)
  PROVE  /\ IsFiniteSet(Holders(e)) /\ Cardinality(Holders(e)) \in Nat
         /\ Cardinality({callers[c].conn : c \in Holders(e)}) = Cardinality(Holders(e))
<1> DEFINE held == {callers[c].conn : c \in Holders(e)}
           f == [c \in Holders(e) |-> callers[c].conn]
<1>1. held \subseteq Conns
  BY DEF CheckoutInv, PhasesMatch, Holders, Users
<1>2. IsFiniteSet(held)
  BY <1>1, CheckoutAssumption, FS_Subset
<1>3. f \in [Holders(e) -> held] /\ \A t \in held : \E c \in Holders(e) : f[c] = t
  OBVIOUS
<1>4. \A c, d \in Holders(e) : f[c] = f[d] => c = d
  BY DEF CheckoutInv, EntryInv, LentOnce
<1> HIDE DEF f, held
<1>5. f \in Injection(Holders(e), held)
  BY <1>3, <1>4, Fun_IsInj
<1>6. f \in Surjection(Holders(e), held)
  BY <1>3, Fun_IsSurj
<1>7. IsFiniteSet(Holders(e)) /\ Cardinality(Holders(e)) = Cardinality(held)
  BY <1>2, <1>5, <1>6, FS_Injection
<1> QED
  BY <1>7, FS_CardinalityType DEF held

\* What a step does to entry e alone, and to call c alone.
Becomes(e, free, lent, queue) ==
  /\ entries' \in [Entries -> EntryRecords]
  /\ entries'[e].available = free /\ entries'[e].checkedOut = lent
  /\ entries'[e].waiters = queue /\ entries'[e].state = entries[e].state
  /\ entries'[e].db = entries[e].db /\ entries'[e].path = entries[e].path
  /\ \A f \in Entries \ {e} : entries'[f] = entries[f]

Turns(c, r) == /\ callers' \in [Callers -> CallRecords] /\ callers'[c] = r
               /\ \A d \in Callers \ {c} : callers'[d] = callers[d]

\* No entry is opened, closed or given another database.
StatesKept ==
  \A e \in Entries : /\ entries'[e].state = entries[e].state
                     /\ entries'[e].db = entries[e].db /\ entries'[e].path = entries[e].path

LEMMA BecomesKeeps ==
  ASSUME NEW e \in Entries, NEW a, NEW n, NEW w, Becomes(e, a, n, w)
  PROVE  StatesKept
BY DEF Becomes, StatesKept

LEMMA QueueChange ==
  ASSUME CheckoutTypes, NEW e \in Entries, NEW w \in Seq(Callers),
         entries' = [entries EXCEPT ![e].waiters = w]
  PROVE  Becomes(e, entries[e].available, entries[e].checkedOut, w)
<1> DEFINE q == [entries[e] EXCEPT !.waiters = w]
<1>1. entries[e] \in EntryRecords
  BY DEF CheckoutTypes
<1>2. /\ q \in EntryRecords /\ q.available = entries[e].available /\ q.checkedOut = entries[e].checkedOut
      /\ q.waiters = w /\ q.state = entries[e].state
      /\ q.db = entries[e].db /\ q.path = entries[e].path
  BY <1>1, SetWaiters
<1>3. entries' = [entries EXCEPT ![e] = q]
  OBVIOUS
<1> HIDE DEF q
<1> QED
  BY <1>2, <1>3 DEF Becomes, CheckoutTypes

LEMMA LendingChange ==
  ASSUME CheckoutTypes, NEW e \in Entries, NEW a \in SUBSET Conns, NEW n \in Nat,
         entries' = [entries EXCEPT ![e].available = a, ![e].checkedOut = n]
  PROVE  Becomes(e, a, n, entries[e].waiters)
<1> DEFINE r == [entries[e] EXCEPT !.available = a]
           q == [r EXCEPT !.checkedOut = n]
<1>1. entries[e] \in EntryRecords
  BY DEF CheckoutTypes
<1>2. /\ r \in EntryRecords /\ r.available = a
      /\ r.waiters = entries[e].waiters /\ r.state = entries[e].state
      /\ r.db = entries[e].db /\ r.path = entries[e].path
  BY <1>1, SetAvailable
<1>3. entries' = [entries EXCEPT ![e] = q]
  BY DEF CheckoutTypes
<1> HIDE DEF r
<1>4. /\ q \in EntryRecords /\ q.available = r.available /\ q.checkedOut = n
      /\ q.waiters = r.waiters /\ q.state = r.state
      /\ q.db = r.db /\ q.path = r.path
  BY <1>2, SetCheckedOut
<1> HIDE DEF q
<1> QED
  BY <1>2, <1>3, <1>4 DEF Becomes, CheckoutTypes

LEMMA CallChange ==
  ASSUME CheckoutTypes, NEW c \in Callers, NEW r \in CallRecords,
         callers' = [callers EXCEPT ![c] = r]
  PROVE  Turns(c, r)
BY DEF CheckoutTypes, Turns

\* Neither the record of f nor the calls that use it change.
Untouched(f) ==
  /\ entries'[f] = entries[f]
  /\ \A c \in Callers :
       callers'[c] = callers[c] \/ (callers[c].entry # f /\ callers'[c].entry # f)

LEMMA OthersKept ==
  ASSUME NEW f \in Entries, EntryInv(f), Untouched(f)
  PROVE  EntryInv(f)'
<1> USE DEF Untouched
<1>1. /\ Holders(f)' = Holders(f) /\ Waiters(f)' = Waiters(f)
      /\ \A c \in Holders(f) : callers'[c] = callers[c]
  BY DEF Holders, Waiters, Users
<1> QED
  BY <1>1 DEF EntryInv, QueueMatches, LentOnce, IsOpen

\* One call takes a free connection.
LEMMA TakeConnection ==
  ASSUME CheckoutInv, NEW c \in Callers, NEW e \in Entries, callers[c] = Idle, IsOpen(e),
         NEW k \in entries[e].available,
         Becomes(e, entries[e].available \ {k}, entries[e].checkedOut + 1, entries[e].waiters),
         Turns(c, [phase |-> "native", entry |-> e, conn |-> k])
  PROVE  CheckoutInv'
<1>1. /\ k \in Conns /\ e # None /\ QueueMatches(e) /\ LentOnce(e)
  BY CheckoutAssumption DEF CheckoutInv, CheckoutTypes, EntryRecords, EntryInv
<1>2. /\ entries'[e].available = entries[e].available \ {k}
      /\ entries'[e].checkedOut = entries[e].checkedOut + 1
      /\ entries'[e].waiters = entries[e].waiters
      /\ \A f \in Entries \ {e} : entries'[f] = entries[f]
  BY DEF Becomes
<1>3. /\ callers'[c] = [phase |-> "native", entry |-> e, conn |-> k]
      /\ \A d \in Callers \ {c} : callers'[d] = callers[d]
      /\ callers[c].entry = None /\ callers[c].phase = "idle"
  BY DEF CheckoutInv, CheckoutTypes, Idle, Turns
<1>4. CheckoutTypes'
  BY DEF CheckoutTypes, Becomes, Turns
<1>5. PhasesMatch'
  BY <1>1, <1>3 DEF CheckoutInv, PhasesMatch
<1>6. Holders(e)' = Holders(e) \cup {c} /\ c \notin Holders(e) /\ Waiters(e)' = Waiters(e)
  BY <1>1, <1>3 DEF Holders, Waiters, Users
<1>7. QueueMatches(e)'
  BY <1>1, <1>2, <1>6 DEF QueueMatches
<1>8. LentOnce(e)'
  <2>1. entries'[e].checkedOut = Cardinality(Holders(e)')
    <3>1. IsFiniteSet(Holders(e)) /\ entries[e].checkedOut = Cardinality(Holders(e))
      BY <1>1, HoldersFinite DEF LentOnce
    <3>2. Cardinality(Holders(e) \cup {c}) = Cardinality(Holders(e)) + 1
      BY <1>6, <3>1, FS_AddElement
    <3> QED
      BY <1>2, <1>6, <3>1, <3>2
  <2>2. \A d \in Holders(e) : callers'[d].conn = callers[d].conn /\ callers[d].conn # k
    BY <1>1, <1>3, <1>6 DEF LentOnce, Holders, Users
  <2>3. Waiters(e) = {}
    BY <1>1 DEF LentOnce
  <2>4. callers'[c].conn = k
    BY <1>3
  <2>5. \A d1, d2 \in Holders(e)' : callers'[d1].conn = callers'[d2].conn => d1 = d2
    BY <1>1, <2>4, <1>6, <2>2 DEF LentOnce
  <2>6. \A j \in Conns : j \in entries'[e].available <=> \A d \in Holders(e)' : callers'[d].conn # j
    <3>1. \A j \in Conns : j \in entries[e].available <=> \A d \in Holders(e) : callers[d].conn # j
      BY <1>1 DEF LentOnce
    <3> QED
      BY <1>2, <1>6, <2>2, <2>4, <3>1
  <2> QED
    BY <1>6, <2>1, <2>3, <2>5, <2>6 DEF LentOnce
<1>9. ASSUME NEW f \in Entries \ {e} PROVE EntryInv(f)'
  <2>1. Untouched(f)
    BY <1>2, <1>3, CheckoutAssumption DEF Untouched
  <2> QED
    BY <2>1, OthersKept DEF CheckoutInv
<1> QED
  BY <1>4, <1>5, <1>7, <1>8, <1>9 DEF CheckoutInv, EntryInv

\* One call queues up.
LEMMA JoinQueue ==
  ASSUME CheckoutInv, NEW c \in Callers, NEW e \in Entries, callers[c] = Idle,
         entries[e].available = {},
         Becomes(e, {}, entries[e].checkedOut, Append(entries[e].waiters, c)),
         Turns(c, [phase |-> "waiting", entry |-> e, conn |-> None])
  PROVE  CheckoutInv'
<1>1. e # None /\ EntryInv(e) /\ entries[e].waiters \in Seq(Callers)
  BY CheckoutAssumption DEF CheckoutInv, CheckoutTypes, EntryRecords
<1>2. /\ callers'[c] = [phase |-> "waiting", entry |-> e, conn |-> None]
      /\ \A d \in Callers \ {c} : callers'[d] = callers[d]
      /\ callers[c].entry = None /\ callers[c].phase = "idle"
  BY DEF CheckoutInv, CheckoutTypes, Idle, Turns
<1>3. Holders(e)' = Holders(e) /\ Waiters(e)' = Waiters(e) \cup {c} /\ c \notin Waiters(e) \cup Holders(e)
  BY <1>1, <1>2 DEF Holders, Waiters, Users
<1>4. /\ Distinct(Append(entries[e].waiters, c))
      /\ ToSet(Append(entries[e].waiters, c)) = Waiters(e)'
  BY <1>1, <1>3, AppendDistinct DEF EntryInv, QueueMatches
<1>5. /\ entries'[e].waiters = Append(entries[e].waiters, c)
      /\ entries'[e].available = entries[e].available
      /\ entries'[e].checkedOut = entries[e].checkedOut /\ entries'[e].state = entries[e].state
      /\ \A f \in Entries \ {e} : entries'[f] = entries[f]
  BY DEF Becomes
<1>6. CheckoutTypes'
  BY DEF CheckoutTypes, Becomes, Turns
<1>7. PhasesMatch'
  BY <1>1, <1>2 DEF CheckoutInv, PhasesMatch
<1>8. EntryInv(e)'
  <2>1. \A d \in Holders(e) : callers'[d].conn = callers[d].conn
    BY <1>2, <1>3 DEF Holders, Users
  <2>2. QueueMatches(e)'
    BY <1>4, <1>5 DEF QueueMatches
  <2>3. LentOnce(e) => LentOnce(e)'
    BY <1>3, <1>5, <2>1 DEF LentOnce
  <2> QED
    BY <1>1, <1>5, <2>2, <2>3 DEF EntryInv, IsOpen
<1>9. ASSUME NEW f \in Entries \ {e} PROVE EntryInv(f)'
  <2>1. Untouched(f)
    BY <1>2, <1>5, CheckoutAssumption DEF Untouched
  <2> QED
    BY <2>1, OthersKept DEF CheckoutInv
<1> QED
  BY <1>6, <1>7, <1>8, <1>9 DEF CheckoutInv

\* One call reads its rows.
LEMMA RowsPreserve ==
  ASSUME CheckoutInv, NEW c \in Callers, ReadRows(c)
  PROVE  CheckoutInv' /\ StatesKept
<1> DEFINE r == [callers[c] EXCEPT !.phase = "rows"]
<1>1. /\ callers[c] \in CallRecords /\ callers[c].phase = "native" /\ entries' = entries
      /\ callers' = [callers EXCEPT ![c] = r] /\ CheckoutTypes
  BY DEF ReadRows, CheckoutInv, CheckoutTypes
<1>2. r \in CallRecords /\ r.phase = "rows" /\ r.entry = callers[c].entry /\ r.conn = callers[c].conn
  BY <1>1 DEF CallRecords, Phases
<1> HIDE DEF r
<1>3. Turns(c, r)
  BY <1>1, <1>2, CallChange
<1>4. CheckoutTypes' /\ PhasesMatch'
  BY <1>1, <1>2, <1>3 DEF CheckoutInv, CheckoutTypes, PhasesMatch, Turns, Idle
<1>5. ASSUME NEW e \in Entries PROVE EntryInv(e)'
  <2>1. \A d \in Callers : /\ callers'[d].entry = callers[d].entry /\ callers'[d].conn = callers[d].conn
                           /\ callers'[d].phase = "waiting" <=> callers[d].phase = "waiting"
                           /\ callers'[d].phase \in {"native", "rows"} <=> callers[d].phase \in {"native", "rows"}
    BY <1>1, <1>2, <1>3 DEF Turns
  <2>2. Holders(e)' = Holders(e) /\ Waiters(e)' = Waiters(e)
    BY <2>1 DEF Holders, Waiters, Users
  <2>3. \A d \in Holders(e) : callers'[d].conn = callers[d].conn
    BY <2>1 DEF Holders, Users
  <2> QED
    BY <1>1, <2>2, <2>3 DEF CheckoutInv, EntryInv, QueueMatches, LentOnce, IsOpen
<1> QED
  BY <1>1, <1>4, <1>5 DEF CheckoutInv, StatesKept

\* What a call that ends leaves of the sets of calls at its entry.
LEMMA CallLeaves ==
  ASSUME CheckoutTypes, NEW c \in Callers, NEW e \in Entries, callers[c].entry = e, Turns(c, Idle)
  PROVE  /\ Holders(e)' = Holders(e) \ {c} /\ Waiters(e)' = Waiters(e) \ {c}
         /\ \A d \in Callers \ {c} : callers'[d] = callers[d]
         /\ \A f \in Entries \ {e} : entries'[f] = entries[f] => Untouched(f)
<1>1. /\ callers'[c].entry = None /\ \A d \in Callers \ {c} : callers'[d] = callers[d]
      /\ None \notin Entries
  BY CheckoutAssumption DEF Turns, Idle
<1> QED
  BY <1>1 DEF Holders, Waiters, Users, Untouched

LEMMA IdleRecord == Idle \in CallRecords
BY DEF Idle, CallRecords, Phases

\* One call ends at an entry closed meanwhile.
LEMMA EndAtClosed ==
  ASSUME CheckoutInv, NEW c \in Callers, NEW e \in Entries, callers[c].entry = e,
         c \in Holders(e), ~IsOpen(e), Turns(c, Idle), entries' = entries
  PROVE  CheckoutInv'
<1>1. /\ Holders(e)' = Holders(e) \ {c} /\ Waiters(e)' = Waiters(e) \ {c}
      /\ \A d \in Callers \ {c} : callers'[d] = callers[d]
      /\ \A f \in Entries \ {e} : Untouched(f)
  BY CallLeaves DEF CheckoutInv
<1>2. CheckoutTypes' /\ PhasesMatch'
  BY <1>1 DEF CheckoutInv, CheckoutTypes, PhasesMatch, Turns, Idle
<1>3. EntryInv(e)'
  BY <1>1 DEF CheckoutInv, EntryInv, QueueMatches, IsOpen, Holders, Waiters
<1>4. \A f \in Entries \ {e} : EntryInv(f)'
  BY <1>1, OthersKept DEF CheckoutInv
<1> QED
  BY <1>2, <1>3, <1>4 DEF CheckoutInv

\* One call ends and its connection becomes available: nobody waits.
LEMMA GiveBack ==
  ASSUME CheckoutInv, NEW c \in Callers, NEW e \in Entries, callers[c].entry = e,
         c \in Holders(e), IsOpen(e), entries[e].waiters = <<>>, Turns(c, Idle),
         Becomes(e, entries[e].available \cup {callers[c].conn}, entries[e].checkedOut - 1,
                 entries[e].waiters)
  PROVE  CheckoutInv'
<1> DEFINE k == callers[c].conn
<1>1. LentOnce(e) /\ QueueMatches(e) /\ k \in Conns
  BY DEF CheckoutInv, EntryInv, PhasesMatch, Holders
<1>2. /\ Holders(e)' = Holders(e) \ {c} /\ Waiters(e)' = Waiters(e) \ {c}
      /\ \A d \in Callers \ {c} : callers'[d] = callers[d]
      /\ \A f \in Entries \ {e} : Untouched(f)
  BY CallLeaves DEF CheckoutInv, Becomes
<1>3. CheckoutTypes' /\ PhasesMatch'
  BY <1>2 DEF CheckoutInv, CheckoutTypes, PhasesMatch, Turns, Idle, Becomes
<1>4. Waiters(e) = {} /\ Waiters(e)' = {}
  <2>1. ToSet(<<>>) = {}
    BY DEF ToSet
  <2> QED
    BY <1>1, <1>2, <2>1 DEF QueueMatches
<1>5. QueueMatches(e)'
  BY <1>1, <1>4 DEF QueueMatches, Becomes
<1>6. LentOnce(e)'
  <2>1. \A d \in Holders(e)' : d \in Holders(e) /\ d # c /\ callers'[d].conn = callers[d].conn
    BY <1>2 DEF Holders, Users
  <2>2. \A d1, d2 \in Holders(e)' : callers'[d1].conn = callers'[d2].conn => d1 = d2
    BY <1>1, <2>1 DEF LentOnce
  <2>3. entries'[e].checkedOut = Cardinality(Holders(e)')
    <3>1. IsFiniteSet(Holders(e)) /\ entries[e].checkedOut = Cardinality(Holders(e))
      BY <1>1, HoldersFinite DEF LentOnce
    <3>2. Cardinality(Holders(e) \ {c}) = Cardinality(Holders(e)) - 1
      BY <3>1, FS_RemoveElement
    <3> QED
      BY <1>2, <3>1, <3>2 DEF Becomes
  <2>4. ASSUME NEW j \in Conns
        PROVE  j \in entries'[e].available <=> \A d \in Holders(e)' : callers'[d].conn # j
    <3>1. j \in entries'[e].available <=> j \in entries[e].available \/ j = k
      BY DEF Becomes
    <3>2. CASE j = k
      BY <1>1, <2>1, <3>1, <3>2 DEF LentOnce
    <3>3. CASE j # k
      BY <1>1, <1>2, <2>1, <3>1, <3>3 DEF LentOnce
    <3> QED
      BY <3>2, <3>3
  <2> QED
    BY <1>4, <2>2, <2>3, <2>4 DEF LentOnce
<1>7. \A f \in Entries \ {e} : EntryInv(f)'
  BY <1>2, OthersKept DEF CheckoutInv
<1> QED
  BY <1>3, <1>5, <1>6, <1>7 DEF CheckoutInv, EntryInv

\* Call c ends and call w takes over its connection.
Succeeds(c, w, r) ==
  /\ callers' \in [Callers -> CallRecords] /\ callers'[c] = Idle /\ callers'[w] = r
  /\ \A d \in Callers \ {c, w} : callers'[d] = callers[d]

LEMMA HandOver ==
  ASSUME CheckoutInv, NEW c \in Callers, NEW e \in Entries, callers[c].entry = e,
         c \in Holders(e), IsOpen(e), entries[e].waiters # <<>>,
         Becomes(e, entries[e].available, entries[e].checkedOut, Tail(entries[e].waiters)),
         Succeeds(c, Head(entries[e].waiters),
                  [phase |-> "native", entry |-> e, conn |-> callers[c].conn])
  PROVE  CheckoutInv'
<1> DEFINE k == callers[c].conn
           w == Head(entries[e].waiters)
<1>1. /\ LentOnce(e) /\ QueueMatches(e) /\ k \in Conns /\ e # None
      /\ entries[e].waiters \in Seq(Callers)
  BY CheckoutAssumption DEF CheckoutInv, CheckoutTypes, EntryRecords, EntryInv, PhasesMatch, Holders
<1>2. /\ Distinct(Tail(entries[e].waiters)) /\ w \in Waiters(e)
      /\ ToSet(Tail(entries[e].waiters)) = Waiters(e) \ {w}
  BY <1>1, TailDistinct DEF QueueMatches
<1>3. w \in Callers /\ callers[w].phase = "waiting" /\ callers[w].entry = e /\ w \notin Holders(e) /\ w # c
  BY <1>2 DEF Waiters, Users, Holders
<1> HIDE DEF k, w
<1>4. /\ callers'[c] = Idle /\ callers'[w] = [phase |-> "native", entry |-> e, conn |-> k]
      /\ \A d \in Callers \ {c, w} : callers'[d] = callers[d]
      /\ callers' \in [Callers -> CallRecords]
  BY DEF Succeeds, w, k
<1>5. /\ callers'[w].entry = e /\ callers'[w].phase = "native" /\ callers'[w].conn = k
      /\ callers'[c].entry = None /\ callers'[c].phase = "idle"
  BY <1>4 DEF Idle
<1>6. Holders(e)' = (Holders(e) \ {c}) \cup {w} /\ Waiters(e)' = Waiters(e) \ {w}
  BY <1>1, <1>3, <1>4, <1>5 DEF Holders, Waiters, Users
<1>7. CheckoutTypes'
  BY <1>4 DEF CheckoutTypes, Becomes
<1>8. PhasesMatch'
  BY <1>1, <1>3, <1>4, <1>5 DEF CheckoutInv, PhasesMatch
<1>9. QueueMatches(e)'
  BY <1>2, <1>6 DEF QueueMatches, Becomes
<1>10. LentOnce(e)'
  <2>1. \A d \in Holders(e) \ {c} : d # w /\ callers'[d].conn = callers[d].conn
    BY <1>3, <1>4 DEF Holders, Users
  <2>2. \A d \in Holders(e) \ {c} : callers[d].conn # k
    BY <1>1 DEF LentOnce, k
  <2>3. \A d1, d2 \in Holders(e)' : callers'[d1].conn = callers'[d2].conn => d1 = d2
    BY <1>1, <1>5, <1>6, <2>1, <2>2 DEF LentOnce
  <2>4. entries'[e].checkedOut = Cardinality(Holders(e)')
    <3>1. IsFiniteSet(Holders(e)) /\ entries[e].checkedOut = Cardinality(Holders(e))
          /\ Cardinality(Holders(e)) \in Nat
      BY <1>1, HoldersFinite DEF LentOnce
    <3>2. /\ IsFiniteSet(Holders(e) \ {c})
          /\ Cardinality(Holders(e) \ {c}) = Cardinality(Holders(e)) - 1
      BY <3>1, FS_RemoveElement
    <3>3. Cardinality((Holders(e) \ {c}) \cup {w}) = Cardinality(Holders(e) \ {c}) + 1
      BY <1>3, <3>2, FS_AddElement
    <3> QED
      BY <1>6, <3>1, <3>2, <3>3 DEF Becomes
  <2>5. ASSUME NEW j \in Conns
        PROVE  j \in entries'[e].available <=> \A d \in Holders(e)' : callers'[d].conn # j
    <3>1. /\ entries'[e].available = entries[e].available
          /\ j \in entries[e].available <=> \A d \in Holders(e) : callers[d].conn # j
      BY <1>1 DEF Becomes, LentOnce
    <3>2. (\A d \in Holders(e) : callers[d].conn # j) <=> (\A d \in Holders(e)' : callers'[d].conn # j)
      BY <1>5, <1>6, <2>1 DEF k
    <3> QED
      BY <3>1, <3>2
  <2>6. entries'[e].available = entries[e].available /\ entries[e].available = {}
    BY <1>1, <1>2 DEF LentOnce, Becomes
  <2> QED
    BY <2>3, <2>4, <2>5, <2>6 DEF LentOnce
<1>11. ASSUME NEW f \in Entries \ {e} PROVE EntryInv(f)'
  <2>1. Untouched(f)
    BY <1>3, <1>4, <1>5, CheckoutAssumption DEF Untouched, Becomes
  <2> QED
    BY <2>1, OthersKept DEF CheckoutInv
<1> QED
  BY <1>7, <1>8, <1>9, <1>10, <1>11 DEF CheckoutInv, EntryInv

\* One call leaves the queue of its entry.
LEMMA LeaveQueue ==
  ASSUME CheckoutInv, NEW c \in Callers, NEW e \in Entries, callers[c].entry = e,
         callers[c].phase = "waiting", Turns(c, Idle),
         Becomes(e, entries[e].available, entries[e].checkedOut,
                 RemoveFirst(entries[e].waiters, c))
  PROVE  CheckoutInv'
<1> DEFINE q == RemoveFirst(entries[e].waiters, c)
<1>1. /\ EntryInv(e) /\ CheckoutTypes /\ c \in Waiters(e) /\ c \notin Holders(e)
      /\ entries[e].waiters \in Seq(Callers)
  BY DEF CheckoutInv, CheckoutTypes, EntryRecords, Waiters, Holders, Users
<1>2. Distinct(q) /\ ToSet(q) = Waiters(e) \ {c}
  BY <1>1, RemoveFirstDistinct DEF EntryInv, QueueMatches
<1> HIDE DEF q
<1>3. /\ entries'[e].available = entries[e].available /\ entries'[e].checkedOut = entries[e].checkedOut
      /\ entries'[e].waiters = q /\ entries'[e].state = entries[e].state
      /\ \A f \in Entries \ {e} : entries'[f] = entries[f]
  BY DEF Becomes, q
<1>4. /\ Holders(e)' = Holders(e) \ {c} /\ Waiters(e)' = Waiters(e) \ {c}
      /\ \A d \in Callers \ {c} : callers'[d] = callers[d]
      /\ \A f \in Entries \ {e} : Untouched(f)
  BY <1>1, <1>3, CallLeaves
<1>5. CheckoutTypes' /\ PhasesMatch'
  BY <1>4 DEF CheckoutInv, CheckoutTypes, PhasesMatch, Turns, Idle, Becomes
<1>6. EntryInv(e)'
  <2>1. \A d \in Holders(e) : callers'[d].conn = callers[d].conn
    BY <1>1, <1>4 DEF Holders, Users
  <2>2. QueueMatches(e)'
    BY <1>2, <1>3, <1>4 DEF QueueMatches
  <2>3. Holders(e)' = Holders(e) /\ Waiters(e)' \subseteq Waiters(e)
    BY <1>1, <1>4
  <2>4. LentOnce(e) => LentOnce(e)'
    BY <1>3, <2>1, <2>3 DEF LentOnce
  <2> QED
    BY <1>1, <1>3, <2>2, <2>4 DEF EntryInv, IsOpen
<1>7. \A f \in Entries \ {e} : EntryInv(f)'
  BY <1>4, OthersKept DEF CheckoutInv
<1> QED
  BY <1>5, <1>6, <1>7 DEF CheckoutInv

LEMMA WaiterTimeoutPreserves ==
  ASSUME CheckoutInv, NEW c \in Callers, WaiterTimeout(c)
  PROVE  CheckoutInv' /\ StatesKept
<1> DEFINE e == callers[c].entry
           q == RemoveFirst(entries[e].waiters, c)
<1>1. /\ callers[c].phase = "waiting" /\ e \in Entries /\ EntryInv(e) /\ CheckoutTypes /\ c \in Waiters(e)
      /\ entries[e].waiters \in Seq(Callers)
  BY DEF WaiterTimeout, CheckoutInv, CheckoutTypes, EntryRecords, PhasesMatch, Waiters, Users
<1>2. q \in Seq(Callers)
  BY <1>1, RemoveFirstDistinct DEF EntryInv, QueueMatches
<1>3. Turns(c, Idle)
  BY <1>1, CallChange, IdleRecord DEF WaiterTimeout
<1>4. entries' = [entries EXCEPT ![e].waiters = q]
  BY DEF WaiterTimeout
<1>5. Becomes(e, entries[e].available, entries[e].checkedOut, q)
  BY <1>1, <1>2, <1>4, QueueChange
<1> QED
  BY <1>1, <1>3, <1>5, LeaveQueue, BecomesKeeps

\* A call ends, at an open entry or at one closed meanwhile.
LEMMA CheckinPreserves ==
  ASSUME CheckoutInv, NEW c \in Callers, callers[c].phase \in {"native", "rows"}, Checkin(c)
  PROVE  CheckoutInv' /\ StatesKept
<1> DEFINE e == callers[c].entry
           k == callers[c].conn
<1>1. /\ e \in Entries /\ k \in Conns /\ c \in Holders(e) /\ CheckoutTypes /\ EntryInv(e)
      /\ entries[e] \in EntryRecords
  BY DEF CheckoutInv, CheckoutTypes, PhasesMatch, Holders, Users
<1>2. CASE entries[e].state = "closed" /\ callers' = [callers EXCEPT ![c] = Idle] /\ entries' = entries
  <2>1. Turns(c, Idle) /\ ~IsOpen(e)
    BY <1>1, <1>2, CallChange, IdleRecord DEF IsOpen
  <2> QED
    BY <1>1, <1>2, <2>1, EndAtClosed DEF StatesKept
<1>3. CASE /\ entries[e].state = "open" /\ entries[e].waiters # <<>>
           /\ entries' = [entries EXCEPT ![e].waiters = Tail(@)]
           /\ callers' = [callers EXCEPT ![c] = Idle, ![Head(entries[e].waiters)] =
                            [phase |-> "native", entry |-> e, conn |-> k]]
  <2> DEFINE w == Head(entries[e].waiters)
             t == Tail(entries[e].waiters)
             r == [phase |-> "native", entry |-> e, conn |-> k]
  <2>1. t \in Seq(Callers) /\ w \in Waiters(e)
    BY <1>1, <1>3, TailDistinct DEF EntryInv, QueueMatches, EntryRecords
  <2>2. w \in Callers /\ w # c
    BY <1>1, <2>1 DEF Waiters, Users, Holders
  <2>3. entries' = [entries EXCEPT ![e].waiters = t]
    BY <1>3
  <2>4. r \in CallRecords
    BY <1>1 DEF CallRecords, Phases
  <2>5. callers' = [callers EXCEPT ![c] = Idle, ![w] = r]
    BY <1>3
  <2> HIDE DEF w, t, r, e, k
  <2>6. Becomes(e, entries[e].available, entries[e].checkedOut, t)
    BY <1>1, <2>1, <2>3, QueueChange
  <2>7. Succeeds(c, w, r)
    BY <1>1, <2>2, <2>4, <2>5, IdleRecord DEF Succeeds, CheckoutTypes
  <2> QED
    <3>1. StatesKept
      BY <1>1, <2>6, BecomesKeeps
    <3> QED
      BY <1>1, <1>3, <2>6, <2>7, <3>1, HandOver DEF w, t, r, e, k, IsOpen
<1>4. CASE /\ entries[e].state = "open" /\ entries[e].waiters = <<>>
           /\ entries' = [entries EXCEPT ![e].available = @ \cup {k}, ![e].checkedOut = @ - 1]
           /\ callers' = [callers EXCEPT ![c] = Idle]
  <2>1. Turns(c, Idle) /\ IsOpen(e)
    BY <1>1, <1>4, CallChange, IdleRecord DEF IsOpen
  <2>2. entries[e].available \cup {k} \in SUBSET Conns
    BY <1>1 DEF EntryRecords
  <2>3. entries[e].checkedOut - 1 \in Nat
    <3>1. /\ IsFiniteSet(Holders(e)) /\ entries[e].checkedOut = Cardinality(Holders(e))
          /\ Cardinality(Holders(e)) \in Nat
      BY <1>1, <2>1, HoldersFinite DEF EntryInv, LentOnce
    <3>2. Cardinality(Holders(e)) # 0
      BY <1>1, <3>1, FS_EmptySet
    <3> QED
      BY <3>1, <3>2
  <2> DEFINE a == entries[e].available \cup {k}
             n == entries[e].checkedOut - 1
  <2>4. entries' = [entries EXCEPT ![e].available = a, ![e].checkedOut = n]
    BY <1>4 DEF CheckoutTypes
  <2>5. Becomes(e, a, n, entries[e].waiters)
    BY <1>1, <2>2, <2>3, <2>4, LendingChange
  <2> QED
    BY <1>1, <1>4, <2>1, <2>5, GiveBack, BecomesKeeps
<1> QED
  BY <1>2, <1>3, <1>4 DEF Checkin

LEMMA CheckoutPreserves ==
  ASSUME CheckoutInv, NEW c \in Callers, NEW e \in Entries, IsOpen(e), Checkout(c, e)
  PROVE  CheckoutInv' /\ StatesKept
<1>1. /\ CheckoutTypes /\ EntryInv(e) /\ entries[e].available \subseteq Conns
      /\ entries[e].checkedOut \in Nat /\ entries[e].waiters \in Seq(Callers) /\ callers[c] = Idle
  BY DEF CheckoutInv, CheckoutTypes, EntryRecords, Checkout
<1>2. ASSUME NEW k \in entries[e].available,
             entries' = [entries EXCEPT ![e].available = @ \ {k}, ![e].checkedOut = @ + 1],
             callers' = [callers EXCEPT ![c] = [phase |-> "native", entry |-> e, conn |-> k]]
      PROVE  CheckoutInv' /\ StatesKept
  <2> DEFINE a == entries[e].available \ {k}
             n == entries[e].checkedOut + 1
  <2>1. a \in SUBSET Conns /\ n \in Nat /\ k \in Conns
    BY <1>1
  <2>2. entries' = [entries EXCEPT ![e].available = a, ![e].checkedOut = n]
    BY <1>2 DEF CheckoutTypes
  <2>3. Becomes(e, a, n, entries[e].waiters)
    BY <1>1, <2>1, <2>2, LendingChange
  <2>4. [phase |-> "native", entry |-> e, conn |-> k] \in CallRecords
    BY <2>1 DEF CallRecords, Phases
  <2>5. Turns(c, [phase |-> "native", entry |-> e, conn |-> k])
    BY <1>1, <1>2, <2>4, CallChange
  <2> QED
    BY <1>1, <2>3, <2>5, TakeConnection, BecomesKeeps
<1>3. ASSUME entries[e].available = {},
             entries' = [entries EXCEPT ![e].waiters = Append(@, c)],
             callers' = [callers EXCEPT ![c] = [phase |-> "waiting", entry |-> e, conn |-> None]]
      PROVE  CheckoutInv' /\ StatesKept
  <2> DEFINE q == Append(entries[e].waiters, c)
  <2>1. q \in Seq(Callers)
    BY <1>1
  <2>2. entries' = [entries EXCEPT ![e].waiters = q]
    BY <1>3
  <2>3. Becomes(e, {}, entries[e].checkedOut, q)
    BY <1>1, <1>3, <2>1, <2>2, QueueChange
  <2>4. [phase |-> "waiting", entry |-> e, conn |-> None] \in CallRecords
    BY DEF CallRecords, Phases
  <2>5. Turns(c, [phase |-> "waiting", entry |-> e, conn |-> None])
    BY <1>1, <1>3, <2>4, CallChange
  <2> QED
    BY <1>1, <1>3, <2>3, <2>5, JoinQueue, BecomesKeeps
<1> QED
  BY <1>2, <1>3 DEF Checkout

-----------------------------------------------------------------------------
(* How entries come and go.                                                *)

\* Entry e stays as it is, is closed with its queue, or is made anew.
Replaced(e) ==
  \/ entries'[e] = entries[e]
  \/ entries'[e].state = "closed" /\ entries'[e].waiters = entries[e].waiters
  \/ Users(e) = {} /\ \E d \in Dbs \cup {None}, p \in DbPaths \cup {None} : entries'[e] = NewEntry(d, p)

LEMMA ReplacementPreserves ==
  ASSUME CheckoutInv, callers' = callers, entries' \in [Entries -> EntryRecords],
         \A e \in Entries : Replaced(e)
  PROVE  CheckoutInv'
<1>1. CheckoutTypes' /\ PhasesMatch'
  BY DEF CheckoutInv, CheckoutTypes, PhasesMatch
<1>2. ASSUME NEW e \in Entries PROVE EntryInv(e)'
  <2>1. EntryInv(e) /\ Holders(e)' = Holders(e) /\ Waiters(e)' = Waiters(e) /\ Replaced(e)
    BY DEF CheckoutInv, Holders, Waiters, Users
  <2>2. CASE entries'[e] = entries[e]
    BY <2>1, <2>2 DEF EntryInv, QueueMatches, LentOnce, IsOpen
  <2>3. CASE entries'[e].state = "closed" /\ entries'[e].waiters = entries[e].waiters
    BY <2>1, <2>3 DEF EntryInv, QueueMatches, IsOpen
  <2>4. ASSUME Users(e) = {}, NEW d, NEW p, entries'[e] = NewEntry(d, p) PROVE EntryInv(e)'
    <3>1. Holders(e) = {} /\ Waiters(e) = {}
      BY <2>4 DEF Holders, Waiters
    <3>2. /\ entries'[e].waiters = <<>> /\ entries'[e].available = Conns
          /\ entries'[e].checkedOut = 0 /\ entries'[e].state = "open"
      BY <2>4 DEF NewEntry
    <3>3. Distinct(<<>>) /\ ToSet(<<>>) = {} /\ Cardinality({}) = 0
      BY FS_EmptySet DEF Distinct, ToSet
    <3>4. QueueMatches(e)'
      BY <2>1, <3>1, <3>2, <3>3 DEF QueueMatches
    <3>5. LentOnce(e)'
      BY <2>1, <3>1, <3>2, <3>3 DEF LentOnce
    <3> QED
      BY <3>4, <3>5 DEF EntryInv
  <2> QED
    BY <2>1, <2>2, <2>3, <2>4 DEF Replaced
<1> QED
  BY <1>1, <1>2 DEF CheckoutInv

InitRecords ==
  [phase : {"none", "stat", "opening", "fts"}, path : DbPaths \cup {None}, db : Dbs \cup {None}]

PoolTypes ==
  /\ pool \in [Repos -> Entries \cup {None}]
  /\ init \in [Repos -> InitRecords]
  /\ \A r \in Repos : init[r].phase # "none" => init[r].path \in DbPaths
  /\ dbCache \in [DbPaths -> Dbs \cup {None}]

PoolInv == CheckoutInv /\ PoolTypes /\ OneEntryPerRepo

\* The repositories in R are closed; besides, r may be registered at a free entry.
Closes(R) == pool' = PoolAfter(R) /\ entries' = EntriesAfter(R)

Registers(r, R) ==
  \E e \in FreeEntries, d \in Dbs \cup {None}, p \in DbPaths \cup {None} :
    /\ pool' = [PoolAfter(R) EXCEPT ![r] = e]
    /\ entries' = [EntriesAfter(R) EXCEPT ![e] = NewEntry(d, p)]

ClosedEntry(e) ==
  [NewEntry(None, None) EXCEPT !.waiters = entries[e].waiters, !.state = "closed", !.available = {}]

LEMMA NewRecord ==
  ASSUME NEW d \in Dbs \cup {None}, NEW p \in DbPaths \cup {None}
  PROVE  NewEntry(d, p) \in EntryRecords /\ NewEntry(d, p).state = "open"
<1> DEFINE W == Seq(Callers)
           w == <<>>
<1>1. w \in W
  OBVIOUS
<1>2. NewEntry(d, p) = [db |-> d, path |-> p, available |-> Conns, checkedOut |-> 0,
                        waiters |-> w, state |-> "open"]
  BY DEF NewEntry
<1> HIDE DEF W, w
<1>3. /\ NewEntry(d, p) \in [db : Dbs \cup {None}, path : DbPaths \cup {None}, available : SUBSET Conns,
                             checkedOut : Nat, waiters : W, state : {"open", "closed"}]
      /\ NewEntry(d, p).state = "open"
  BY <1>1, <1>2
<1> QED
  BY <1>3 DEF W, EntryRecords

LEMMA ClosedRecord ==
  ASSUME CheckoutTypes, NEW e \in Entries
  PROVE  /\ ClosedEntry(e) \in EntryRecords /\ ClosedEntry(e).state = "closed"
         /\ ClosedEntry(e).waiters = entries[e].waiters
<1> DEFINE r0 == NewEntry(None, None)
           r1 == [r0 EXCEPT !.waiters = entries[e].waiters]
           r2 == [r1 EXCEPT !.state = "closed"]
           r3 == [r2 EXCEPT !.available = {}]
<1>1. entries[e].waiters \in Seq(Callers) /\ r0 \in EntryRecords
  BY NewRecord DEF CheckoutTypes, EntryRecords
<1>2. ClosedEntry(e) = r3
  BY DEF ClosedEntry
<1> HIDE DEF r0
<1>3. r1 \in EntryRecords /\ r1.waiters = entries[e].waiters
  BY <1>1, SetWaiters
<1> HIDE DEF r1
<1>4. r2 \in EntryRecords /\ r2.waiters = r1.waiters /\ r2.state = "closed"
  BY <1>3, SetState
<1> HIDE DEF r2
<1>5. r3 \in EntryRecords /\ r3.waiters = r2.waiters /\ r3.state = r2.state
  BY <1>4, SetAvailable
<1> QED
  BY <1>3, <1>4, <1>5, <1>2

\* What EntriesAfter makes of an entry.
LEMMA EntriesAfterCases ==
  ASSUME CheckoutTypes, NEW R
  PROVE  /\ EntriesAfter(R) \in [Entries -> EntryRecords]
         /\ \A e \in Entries :
              EntriesAfter(R)[e] = IF \E r \in R : pool[r] = e THEN ClosedEntry(e) ELSE entries[e]
<1> DEFINE g(e) == IF \E r \in R : pool[r] = e THEN ClosedEntry(e) ELSE entries[e]
<1>1. EntriesAfter(R) = [e \in Entries |-> g(e)]
  BY DEF EntriesAfter, ClosedEntry
<1>2. \A e \in Entries : g(e) \in EntryRecords
  BY ClosedRecord DEF CheckoutTypes
<1>3. [e \in Entries |-> g(e)] \in [Entries -> EntryRecords]
      /\ \A e \in Entries : [x \in Entries |-> g(x)][e] = g(e)
  <2> HIDE DEF g
  <2> QED
    BY <1>2
<1> QED
  BY <1>1, <1>3

LEMMA NothingAfter ==
  ASSUME CheckoutTypes, PoolTypes
  PROVE  PoolAfter({}) = pool /\ EntriesAfter({}) = entries
BY DEF PoolAfter, EntriesAfter, CheckoutTypes, PoolTypes

\* What a step of the pool does to entries keeps the calls' books.
LEMMA ClosesKeepsBooks ==
  ASSUME CheckoutInv, NEW R, Closes(R), callers' = callers
  PROVE  CheckoutInv'
<1>1. CheckoutTypes
  BY DEF CheckoutInv
<1>2. entries' \in [Entries -> EntryRecords]
  BY <1>1, EntriesAfterCases DEF Closes
<1>3. ASSUME NEW e \in Entries PROVE Replaced(e)
  <2>1. entries'[e] = ClosedEntry(e) \/ entries'[e] = entries[e]
    BY <1>1, EntriesAfterCases DEF Closes
  <2>2. ClosedEntry(e).state = "closed" /\ ClosedEntry(e).waiters = entries[e].waiters
    BY <1>1, ClosedRecord
  <2> QED
    BY <2>1, <2>2 DEF Replaced
<1> QED
  BY <1>2, <1>3, ReplacementPreserves

LEMMA RegistersKeepsBooks ==
  ASSUME CheckoutInv, NEW R, NEW r, Registers(r, R), callers' = callers
  PROVE  CheckoutInv'
<1>1. CheckoutTypes
  BY DEF CheckoutInv
<1>2. PICK f \in FreeEntries, d \in Dbs \cup {None}, p \in DbPaths \cup {None} :
        entries' = [EntriesAfter(R) EXCEPT ![f] = NewEntry(d, p)]
  BY DEF Registers
<1>3. f \in Entries /\ Users(f) = {} /\ NewEntry(d, p) \in EntryRecords
  BY <1>2, NewRecord DEF FreeEntries
<1>4. /\ EntriesAfter(R) \in [Entries -> EntryRecords]
      /\ \A e \in Entries : EntriesAfter(R)[e] = ClosedEntry(e) \/ EntriesAfter(R)[e] = entries[e]
  BY <1>1, EntriesAfterCases
<1>5. entries' \in [Entries -> EntryRecords] /\ entries'[f] = NewEntry(d, p)
      /\ \A e \in Entries \ {f} : entries'[e] = EntriesAfter(R)[e]
  BY <1>2, <1>3, <1>4
<1>6. ASSUME NEW e \in Entries PROVE Replaced(e)
  <2>1. ClosedEntry(e).state = "closed" /\ ClosedEntry(e).waiters = entries[e].waiters
    BY <1>1, ClosedRecord
  <2>2. CASE e = f
    BY <1>3, <1>5, <2>2 DEF Replaced
  <2>3. CASE e # f
    BY <1>4, <1>5, <2>1, <2>3 DEF Replaced
  <2> QED
    BY <2>2, <2>3
<1> QED
  BY <1>5, <1>6, ReplacementPreserves

\* The initialisations under way after a step, but for the one of r, went on from
\* before.
InitsOf(r) == \A q \in Repos \ {r} : init'[q] = init[q]

LEMMA ClosesKeepsOwners ==
  ASSUME CheckoutTypes, PoolTypes, OneEntryPerRepo, NEW R \in SUBSET Repos, Closes(R),
         \A r \in Repos : init'[r].phase # "none" => init[r].phase # "none" \/ pool[r] = None
  PROVE  OneEntryPerRepo' /\ pool' \in [Repos -> Entries \cup {None}]
<1>1. pool' \in [Repos -> Entries \cup {None}]
      /\ \A r \in Repos : pool'[r] = IF r \in R THEN None ELSE pool[r]
  BY DEF Closes, PoolAfter, PoolTypes
<1>2. Pooled' = Pooled \ R
  BY <1>1 DEF Pooled
<1>3. \A r \in Repos : init'[r].phase # "none" => pool'[r] = None
  BY <1>1 DEF OneEntryPerRepo
<1>4. \A r, q \in Pooled' : pool'[r] = pool'[q] => r = q
  BY <1>1, <1>2 DEF OneEntryPerRepo, Pooled
<1>5. ASSUME NEW e \in Entries PROVE IsOpen(e)' <=> \E r \in Pooled' : pool'[r] = e
  <2>1. /\ IsOpen(e) <=> \E r \in Pooled : pool[r] = e
        /\ \A r, q \in Pooled : pool[r] = pool[q] => r = q
    BY DEF OneEntryPerRepo
  <2>2. CASE \E r \in R : pool[r] = e
    <3>1. entries'[e].state = "closed"
      BY <2>2, EntriesAfterCases, ClosedRecord DEF Closes
    <3>2. \A r \in Pooled' : pool'[r] # e
      BY <1>1, <1>2, <2>1, <2>2, CheckoutAssumption DEF Pooled
    <3> QED
      BY <3>1, <3>2 DEF IsOpen
  <2>3. CASE ~ \E r \in R : pool[r] = e
    <3>1. entries'[e] = entries[e]
      BY <2>3, EntriesAfterCases DEF Closes
    <3> QED
      BY <1>1, <1>2, <2>1, <2>3, <3>1 DEF IsOpen, Pooled
  <2> QED
    BY <2>2, <2>3
<1> QED
  BY <1>1, <1>3, <1>4, <1>5 DEF OneEntryPerRepo

LEMMA RegistersKeepsOwners ==
  ASSUME CheckoutTypes, PoolTypes, OneEntryPerRepo, NEW R \in SUBSET Repos, NEW r \in Repos \ R,
         Registers(r, R), init[r].phase # "none", InitsOf(r), init'[r].phase = "none"
  PROVE  OneEntryPerRepo' /\ pool' \in [Repos -> Entries \cup {None}]
<1>1. PICK f \in FreeEntries, d \in Dbs \cup {None}, p \in DbPaths \cup {None} :
        /\ pool' = [PoolAfter(R) EXCEPT ![r] = f]
        /\ entries' = [EntriesAfter(R) EXCEPT ![f] = NewEntry(d, p)]
  BY DEF Registers
<1>2. /\ f \in Entries /\ f # None /\ ~IsOpen(f) /\ NewEntry(d, p).state = "open"
      /\ \A q \in Pooled : pool[q] # f
      /\ pool[r] = None
  BY <1>1, NewRecord, CheckoutAssumption DEF FreeEntries, OneEntryPerRepo
<1>3. /\ pool' \in [Repos -> Entries \cup {None}] /\ pool'[r] = f
      /\ \A q \in Repos \ {r} : pool'[q] = IF q \in R THEN None ELSE pool[q]
  BY <1>1, <1>2 DEF PoolAfter, PoolTypes
<1>4. Pooled' = (Pooled \ R) \cup {r}
  BY <1>2, <1>3 DEF Pooled
<1>5. \A q \in Repos : init'[q].phase # "none" => pool'[q] = None
  BY <1>3 DEF OneEntryPerRepo, InitsOf
<1>6. \A q, t \in Pooled' : pool'[q] = pool'[t] => q = t
  BY <1>2, <1>3, <1>4 DEF OneEntryPerRepo, Pooled
<1>7. ASSUME NEW e \in Entries PROVE IsOpen(e)' <=> \E q \in Pooled' : pool'[q] = e
  <2>1. /\ IsOpen(e) <=> \E q \in Pooled : pool[q] = e
        /\ \A q, t \in Pooled : pool[q] = pool[t] => q = t
        /\ EntriesAfter(R) \in [Entries -> EntryRecords]
    BY EntriesAfterCases DEF OneEntryPerRepo
  <2>2. CASE e = f
    BY <1>1, <1>2, <1>3, <1>4, <2>1, <2>2 DEF IsOpen
  <2>3. CASE e # f /\ \E q \in R : pool[q] = e
    <3>1. EntriesAfter(R)[e].state = "closed"
      BY <2>3, EntriesAfterCases, ClosedRecord
    <3>2. entries'[e].state = "closed"
      BY <1>1, <2>1, <2>3, <3>1
    <3>3. \A q \in Pooled' : pool'[q] # e
      BY <1>2, <1>3, <1>4, <2>1, <2>3, CheckoutAssumption DEF Pooled
    <3> QED
      BY <3>2, <3>3 DEF IsOpen
  <2>4. CASE e # f /\ ~ \E q \in R : pool[q] = e
    <3>1. entries'[e] = entries[e]
      BY <1>1, <2>1, <2>4, EntriesAfterCases
    <3> QED
      BY <1>2, <1>3, <1>4, <2>1, <2>4, <3>1 DEF IsOpen, Pooled
  <2> QED
    BY <2>2, <2>3, <2>4
<1> QED
  BY <1>3, <1>5, <1>6, <1>7 DEF OneEntryPerRepo

\* The initialisation of r goes on to record i.
InitBecomes(r, i) ==
  /\ init' \in [Repos -> InitRecords] /\ init'[r] = i /\ InitsOf(r)

LEMMA InitChange ==
  ASSUME PoolTypes, NEW r \in Repos, NEW i \in InitRecords, init' = [init EXCEPT ![r] = i]
  PROVE  InitBecomes(r, i)
BY DEF PoolTypes, InitBecomes, InitsOf

LEMMA NotInitRecord == NotInit \in InitRecords /\ NotInit.phase = "none"
BY DEF NotInit, InitRecords

\* A step that closes R and lets the initialisation of r go on, or end.
LEMMA ClosingStep ==
  ASSUME PoolInv, NEW R \in SUBSET Repos, NEW r \in Repos, NEW i \in InitRecords,
         Closes(R), callers' = callers, InitBecomes(r, i),
         i.phase # "none" => init[r].phase # "none" /\ i.path \in DbPaths,
         dbCache' \in [DbPaths -> Dbs \cup {None}]
  PROVE  PoolInv'
<1>1. CheckoutTypes /\ PoolTypes /\ OneEntryPerRepo
  BY DEF PoolInv, CheckoutInv
<1>2. \A q \in Repos : init'[q].phase # "none" => init[q].phase # "none" \/ pool[q] = None
  BY DEF InitBecomes, InitsOf
<1>3. CheckoutInv'
  BY ClosesKeepsBooks DEF PoolInv
<1>4. OneEntryPerRepo' /\ pool' \in [Repos -> Entries \cup {None}]
  BY <1>1, <1>2, ClosesKeepsOwners
<1>5. PoolTypes'
  BY <1>1, <1>4 DEF PoolTypes, InitBecomes, InitsOf
<1> QED
  BY <1>3, <1>4, <1>5 DEF PoolInv

\* A step that closes R and registers r.
LEMMA RegisteringStep ==
  ASSUME PoolInv, NEW R \in SUBSET Repos, NEW r \in Repos \ R, init[r].phase # "none",
         Registers(r, R), callers' = callers, InitBecomes(r, NotInit),
         dbCache' \in [DbPaths -> Dbs \cup {None}]
  PROVE  PoolInv'
<1>1. CheckoutTypes /\ PoolTypes /\ OneEntryPerRepo
  BY DEF PoolInv, CheckoutInv
<1>2. InitsOf(r) /\ init'[r].phase = "none"
  BY NotInitRecord DEF InitBecomes
<1>3. CheckoutInv'
  BY RegistersKeepsBooks DEF PoolInv
<1>4. OneEntryPerRepo' /\ pool' \in [Repos -> Entries \cup {None}]
  BY <1>1, <1>2, RegistersKeepsOwners
<1>5. PoolTypes'
  BY <1>1, <1>2, <1>4 DEF PoolTypes, InitBecomes, InitsOf
<1> QED
  BY <1>3, <1>4, <1>5 DEF PoolInv

LEMMA RegisterRegisters ==
  ASSUME PoolTypes, NEW R, NEW r \in Repos, NEW d \in Dbs \cup {None}, init[r].phase # "none",
         Register(r, d, PoolAfter(R), EntriesAfter(R))
  PROVE  Registers(r, R) /\ InitBecomes(r, NotInit)
<1> DEFINE e == CHOOSE x \in FreeEntries : TRUE
<1>1. e \in FreeEntries
  BY DEF Register
<1>2. /\ pool' = [PoolAfter(R) EXCEPT ![r] = e]
      /\ entries' = [EntriesAfter(R) EXCEPT ![e] = NewEntry(d, init[r].path)]
      /\ init' = [init EXCEPT ![r] = NotInit]
  BY DEF Register
<1> HIDE DEF e
<1>3. init[r].path \in DbPaths \cup {None}
  BY DEF PoolTypes
<1>4. Registers(r, R)
  BY <1>1, <1>2, <1>3 DEF Registers
<1> QED
  BY <1>2, <1>4, InitChange, NotInitRecord

LEMMA PrewarmPreserves ==
  ASSUME PoolInv, NEW R \in SUBSET Repos, NEW r \in Repos \ R, NEW d \in Dbs,
         init[r].phase # "none", NEW C \in [DbPaths -> Dbs \cup {None}], NEW S,
         Prewarm(r, d, PoolAfter(R), EntriesAfter(R), C, S)
  PROVE  PoolInv'
<1>1. /\ callers' = callers /\ dbCache' \in [DbPaths -> Dbs \cup {None}]
      /\ PoolTypes /\ init[r] \in InitRecords /\ init[r].path \in DbPaths
  BY DEF Prewarm, PoolInv, PoolTypes
<1>2. CASE Register(r, d, PoolAfter(R), EntriesAfter(R))
  BY <1>1, <1>2, RegisterRegisters, RegisteringStep
<1>3. CASE /\ init' = [init EXCEPT ![r].phase = "fts", ![r].db = d]
           /\ pool' = PoolAfter(R) /\ entries' = EntriesAfter(R)
  <2> DEFINE i == [init[r] EXCEPT !.phase = "fts", !.db = d]
  <2>1. i \in InitRecords /\ i.path \in DbPaths
    BY <1>1 DEF InitRecords
  <2>2. init' = [init EXCEPT ![r] = i]
    BY <1>1, <1>3 DEF PoolTypes
  <2> HIDE DEF i
  <2>3. InitBecomes(r, i)
    BY <1>1, <2>1, <2>2, InitChange
  <2> QED
    BY <1>1, <1>3, <2>1, <2>3, ClosingStep DEF Closes
<1>4. CASE /\ init' = [init EXCEPT ![r] = NotInit]
           /\ pool' = PoolAfter(R) /\ entries' = EntriesAfter(R)
  <2>1. InitBecomes(r, NotInit)
    BY <1>1, <1>4, InitChange, NotInitRecord
  <2> QED
    BY <1>1, <1>4, <2>1, NotInitRecord, ClosingStep DEF Closes
<1> QED
  BY <1>2, <1>3, <1>4 DEF Prewarm

LEMMA CacheAfterType ==
  ASSUME PoolTypes, NEW R
  PROVE  CacheAfter(R) \in [DbPaths -> Dbs \cup {None}]
<1>1. \A p \in DbPaths : (IF LastRef(R, p) THEN None ELSE dbCache[p]) \in Dbs \cup {None}
  BY DEF PoolTypes
<1> QED
  BY <1>1 DEF CacheAfter

LEMMA VictimsAreIdle ==
  ASSUME NEW R \in Victims
  PROVE  R \subseteq Pooled /\ \A q \in R : entries[pool[q]].checkedOut = 0
BY DEF Victims

LEMMA InitStatPreserves ==
  ASSUME PoolInv, NEW r \in Repos, InitStat(r)
  PROVE  PoolInv'
<1>1. PoolTypes /\ init[r] \in InitRecords /\ init[r].phase # "none" /\ init[r].path \in DbPaths
      /\ pool[r] = None
  BY DEF PoolInv, PoolTypes, OneEntryPerRepo, InitStat
<1>2. PICK R \in Victims :
        LET d == CacheAfter(R)[init[r].path] IN
        \/ d # None /\ Prewarm(r, d, PoolAfter(R), EntriesAfter(R), CacheAfter(R), SharedAfter(R))
        \/ /\ d = None /\ init' = [init EXCEPT ![r].phase = "opening"]
           /\ Closes(R) /\ dbCache' = CacheAfter(R) /\ callers' = callers
  BY DEF InitStat, Closes
<1>3. R \in SUBSET Repos /\ r \in Repos \ R /\ CacheAfter(R) \in [DbPaths -> Dbs \cup {None}]
  BY <1>1, <1>2, VictimsAreIdle, CacheAfterType DEF Pooled
<1> DEFINE d == CacheAfter(R)[init[r].path]
<1>4. CASE d # None /\ Prewarm(r, d, PoolAfter(R), EntriesAfter(R), CacheAfter(R), SharedAfter(R))
  <2>1. d \in Dbs
    BY <1>1, <1>3, <1>4
  <2> HIDE DEF d
  <2> QED
    BY <1>1, <1>3, <1>4, <2>1, PrewarmPreserves
<1>5. CASE /\ init' = [init EXCEPT ![r].phase = "opening"]
           /\ Closes(R) /\ dbCache' = CacheAfter(R) /\ callers' = callers
  <2> DEFINE i == [init[r] EXCEPT !.phase = "opening"]
  <2>1. i \in InitRecords /\ i.path \in DbPaths
    BY <1>1 DEF InitRecords
  <2>2. init' = [init EXCEPT ![r] = i]
    BY <1>1, <1>5 DEF PoolTypes
  <2> HIDE DEF i
  <2>3. InitBecomes(r, i)
    BY <1>1, <2>1, <2>2, InitChange
  <2> QED
    BY <1>1, <1>3, <1>5, <2>1, <2>3, ClosingStep
<1> QED
  BY <1>2, <1>4, <1>5

LEMMA InitOpenedPreserves ==
  ASSUME PoolInv, NEW r \in Repos, InitOpened(r)
  PROVE  PoolInv'
<1>1. CheckoutTypes /\ PoolTypes /\ init[r].phase # "none" /\ init[r].path \in DbPaths
  BY DEF PoolInv, CheckoutInv, PoolTypes, InitOpened
<1> DEFINE d == CHOOSE d \in FreeDbs : TRUE
           C == [dbCache EXCEPT ![init[r].path] = d]
           S == [shared EXCEPT ![d] = [Unused EXCEPT !.state = "open"]]
<1>2. d \in Dbs
  BY DEF InitOpened, FreeDbs
<1>3. Prewarm(r, d, pool, entries, C, S)
  BY DEF InitOpened
<1> HIDE DEF d
<1>4. C \in [DbPaths -> Dbs \cup {None}]
  BY <1>1, <1>2 DEF PoolTypes
<1> HIDE DEF C, S
<1>5. Prewarm(r, d, PoolAfter({}), EntriesAfter({}), C, S)
  BY <1>1, <1>3, NothingAfter
<1> QED
  BY <1>1, <1>2, <1>4, <1>5, PrewarmPreserves

LEMMA InitFtsDonePreserves ==
  ASSUME PoolInv, NEW r \in Repos, InitFtsDone(r)
  PROVE  PoolInv'
<1>1. /\ CheckoutTypes /\ PoolTypes /\ init[r].phase # "none" /\ callers' = callers
      /\ dbCache' \in [DbPaths -> Dbs \cup {None}] /\ init[r].db \in Dbs \cup {None}
      /\ Register(r, init[r].db, pool, entries)
  BY DEF PoolInv, CheckoutInv, PoolTypes, InitRecords, InitFtsDone
<1>2. Register(r, init[r].db, PoolAfter({}), EntriesAfter({}))
  BY <1>1, NothingAfter
<1>3. Registers(r, {}) /\ InitBecomes(r, NotInit)
  BY <1>1, <1>2, RegisterRegisters
<1> QED
  BY <1>1, <1>3, RegisteringStep

\* Only initialisations change.
LEMMA InitStepPreserves ==
  ASSUME PoolInv, NEW r \in Repos, InitStart(r) \/ InitFails(r)
  PROVE  PoolInv'
<1>1. PoolTypes /\ init[r] \in InitRecords /\ UNCHANGED <<entries, callers, pool, dbCache>>
  BY DEF PoolInv, PoolTypes, InitStart, InitFails
<1>2. CheckoutInv'
  <2>1. \A e \in Entries : Replaced(e)
    BY <1>1 DEF Replaced
  <2> QED
    BY <1>1, <2>1, ReplacementPreserves DEF PoolInv, CheckoutInv, CheckoutTypes
<1>3. ASSUME NEW i \in InitRecords, InitBecomes(r, i),
             i.phase # "none" => pool[r] = None /\ i.path \in DbPaths
      PROVE  PoolTypes' /\ OneEntryPerRepo'
  <2>1. PoolTypes'
    BY <1>1, <1>3 DEF PoolTypes, InitBecomes, InitsOf
  <2>2. \A q \in Repos : init'[q].phase # "none" => pool'[q] = None
    BY <1>1, <1>3 DEF InitBecomes, InitsOf, PoolInv, OneEntryPerRepo
  <2> QED
    BY <1>1, <2>1, <2>2 DEF PoolInv, OneEntryPerRepo, Pooled, IsOpen
<1>4. ASSUME NEW p \in DbPaths, pool[r] = None,
             init' = [init EXCEPT ![r].phase = "stat", ![r].path = p]
      PROVE  PoolTypes' /\ OneEntryPerRepo'
  <2> DEFINE i == [init[r] EXCEPT !.phase = "stat", !.path = p]
  <2>1. i \in InitRecords /\ i.path = p
    BY <1>1 DEF InitRecords
  <2>2. init' = [init EXCEPT ![r] = i]
    BY <1>1, <1>4 DEF PoolTypes
  <2> HIDE DEF i
  <2>3. InitBecomes(r, i)
    BY <1>1, <2>1, <2>2, InitChange
  <2> QED
    BY <1>3, <1>4, <2>1, <2>3
<1>5. CASE InitFails(r)
  <2>1. InitBecomes(r, NotInit)
    BY <1>1, <1>5, InitChange, NotInitRecord DEF InitFails
  <2> QED
    BY <1>2, <1>3, <2>1, NotInitRecord DEF PoolInv
<1> QED
  BY <1>2, <1>4, <1>5 DEF InitStart, PoolInv

LEMMA CloseReposPreserves ==
  ASSUME PoolInv, NEW R \in SUBSET Repos, CloseRepos(R)
  PROVE  PoolInv'
<1>1. CheckoutTypes /\ PoolTypes /\ OneEntryPerRepo /\ Closes(R) /\ callers' = callers /\ init' = init
      /\ dbCache' \in [DbPaths -> Dbs \cup {None}]
  BY CacheAfterType DEF PoolInv, CheckoutInv, CloseRepos, Closes
<1>2. CheckoutInv'
  BY <1>1, ClosesKeepsBooks DEF PoolInv
<1>3. OneEntryPerRepo' /\ pool' \in [Repos -> Entries \cup {None}]
  BY <1>1, ClosesKeepsOwners
<1> QED
  BY <1>1, <1>2, <1>3 DEF PoolInv, PoolTypes

\* A call's step changes neither the pool nor whether an entry is open.
LEMMA CallStepKeepsOwners ==
  ASSUME PoolInv, UNCHANGED <<pool, init, dbCache>>, StatesKept
  PROVE  PoolTypes' /\ OneEntryPerRepo'
BY DEF StatesKept, PoolInv, PoolTypes, OneEntryPerRepo, Pooled, IsOpen

LEMMA ExecutePreserves ==
  ASSUME PoolInv, NEW c \in Callers, NEW r \in Repos, Execute(c, r)
  PROVE  PoolInv'
<1>1. pool[r] \in Entries /\ IsOpen(pool[r]) /\ Checkout(c, pool[r]) /\ UNCHANGED <<pool, init, dbCache>>
  BY DEF PoolInv, PoolTypes, OneEntryPerRepo, Pooled, Execute
<1>2. CheckoutInv' /\ StatesKept
  BY <1>1, CheckoutPreserves DEF PoolInv
<1>3. PoolTypes' /\ OneEntryPerRepo'
  BY <1>1, <1>2, CallStepKeepsOwners
<1> QED
  BY <1>2, <1>3 DEF PoolInv

LEMMA CallStepPreserves ==
  ASSUME PoolInv, NEW c \in Callers, CallStep(c)
  PROVE  PoolInv'
<1>1. /\ UNCHANGED <<pool, init, dbCache>>
      /\ ReadRows(c) \/ (callers[c].phase \in {"native", "rows"} /\ Checkin(c)) \/ WaiterTimeout(c)
  BY DEF CallStep, CallEnds, QueryTimeout
<1>2. CheckoutInv' /\ StatesKept
  BY <1>1, RowsPreserve, CheckinPreserves, WaiterTimeoutPreserves DEF PoolInv
<1>3. PoolTypes' /\ OneEntryPerRepo'
  BY <1>1, <1>2, CallStepKeepsOwners
<1> QED
  BY <1>2, <1>3 DEF PoolInv

LEMMA UnchangedPreserves ==
  ASSUME PoolInv, UNCHANGED <<entries, callers, pool, init, dbCache>>
  PROVE  PoolInv'
<1>1. CheckoutInv'
  <2>1. \A e \in Entries : Replaced(e)
    BY DEF Replaced
  <2> QED
    BY <2>1, ReplacementPreserves DEF PoolInv, CheckoutInv, CheckoutTypes
<1> QED
  BY <1>1 DEF PoolInv, PoolTypes, OneEntryPerRepo, Pooled, IsOpen

LEMMA PoolInvInit == PoolInit => PoolInv
<1> SUFFICES ASSUME PoolInit PROVE PoolInv
  OBVIOUS
<1> DEFINE blank == [NewEntry(None, None) EXCEPT !.state = "closed", !.available = {}]
<1>1. blank \in EntryRecords /\ blank.state = "closed" /\ blank.waiters = <<>>
  <2> DEFINE r1 == [NewEntry(None, None) EXCEPT !.state = "closed"]
             r2 == [r1 EXCEPT !.available = {}]
  <2>1. r1 \in EntryRecords /\ r1.state = "closed" /\ r1.waiters = NewEntry(None, None).waiters
    BY NewRecord, SetState
  <2>2. NewEntry(None, None).waiters = <<>>
    BY DEF NewEntry
  <2>3. blank = r2
    OBVIOUS
  <2> HIDE DEF r1, blank
  <2>4. r2 \in EntryRecords /\ r2.state = r1.state /\ r2.waiters = r1.waiters
    BY <2>1, SetAvailable
  <2> QED
    BY <2>1, <2>2, <2>3, <2>4
<1>2. entries = [e \in Entries |-> blank]
  BY DEF PoolInit
<1> HIDE DEF blank
<1>3. CheckoutTypes
  BY <1>1, <1>2, IdleRecord DEF CheckoutTypes, PoolInit
<1>4. PhasesMatch
  BY DEF PoolInit, PhasesMatch, Idle
<1>5. ASSUME NEW e \in Entries PROVE EntryInv(e) /\ ~IsOpen(e)
  <2>1. entries[e].waiters = <<>> /\ ~IsOpen(e)
    BY <1>1, <1>2 DEF IsOpen
  <2>2. Waiters(e) = {}
    BY CheckoutAssumption DEF Waiters, Users, PoolInit, Idle
  <2>3. Distinct(<<>>) /\ ToSet(<<>>) = {}
    BY DEF Distinct, ToSet
  <2> QED
    BY <2>1, <2>2, <2>3 DEF EntryInv, QueueMatches
<1>6. PoolTypes
  BY NotInitRecord DEF PoolTypes, PoolInit
<1>7. OneEntryPerRepo
  BY <1>5, NotInitRecord DEF OneEntryPerRepo, PoolInit, Pooled
<1> QED
  BY <1>3, <1>4, <1>5, <1>6, <1>7 DEF PoolInv, CheckoutInv

LEMMA PoolInvStep == PoolInv /\ [PoolNext]_poolVars => PoolInv'
<1> SUFFICES ASSUME PoolInv, [PoolNext]_poolVars PROVE PoolInv'
  OBVIOUS
<1>1. ASSUME NEW r \in Repos, InitStart(r) \/ InitFails(r) PROVE PoolInv'
  BY <1>1, InitStepPreserves
<1>2. ASSUME NEW r \in Repos, InitStat(r) PROVE PoolInv'
  BY <1>2, InitStatPreserves
<1>3. ASSUME NEW r \in Repos, InitOpened(r) PROVE PoolInv'
  BY <1>3, InitOpenedPreserves
<1>4. ASSUME NEW r \in Repos, InitFtsDone(r) PROVE PoolInv'
  BY <1>4, InitFtsDonePreserves
<1>5. ASSUME NEW r \in Repos, IdleSweep(r) PROVE PoolInv'
  BY <1>5, CloseReposPreserves DEF IdleSweep
<1>6. ASSUME NEW R, Close(R) PROVE PoolInv'
  <2>1. R \in SUBSET Repos
    BY <1>6 DEF Close, Pooled
  <2> QED
    BY <1>6, <2>1, CloseReposPreserves DEF Close
<1>7. ASSUME NEW r \in Repos, NEW c \in Callers, Execute(c, r) PROVE PoolInv'
  BY <1>7, ExecutePreserves
<1>8. ASSUME NEW c \in Callers, CallStep(c) PROVE PoolInv'
  BY <1>8, CallStepPreserves
<1>9. CASE NativeStep \/ UNCHANGED poolVars
  BY <1>9, UnchangedPreserves DEF NativeStep, AbandonedEnds, poolVars
<1> QED
  BY <1>1, <1>2, <1>3, <1>4, <1>5, <1>6, <1>7, <1>8, <1>9 DEF PoolNext

LEMMA PoolInvariant == PoolSpec => []PoolInv
BY PoolInvInit, PoolInvStep, PTL DEF PoolSpec

\* No connection is lost or lent twice, however calls end, entries are closed
\* and evicted, and native calls time out.
THEOREM ConservationHolds == PoolSpec => []Conservation
<1>1. PoolInv => Conservation
  <2> SUFFICES ASSUME PoolInv, NEW e \in Entries, IsOpen(e)
               PROVE  LET held == {callers[c].conn : c \in Holders(e)} IN
                      /\ entries[e].available = Conns \ held
                      /\ entries[e].checkedOut = Cardinality(Holders(e))
                      /\ Cardinality(held) = Cardinality(Holders(e))
    BY DEF Conservation
  <2>1. CheckoutInv /\ LentOnce(e) /\ entries[e].available \subseteq Conns
    BY DEF PoolInv, CheckoutInv, CheckoutTypes, EntryRecords, EntryInv
  <2>2. entries[e].available = Conns \ {callers[c].conn : c \in Holders(e)}
    BY <2>1 DEF LentOnce
  <2> QED
    BY <2>1, <2>2, HoldersFinite DEF LentOnce
<1> QED
  BY <1>1, PoolInvariant, PTL

\* A call waits only while every connection is lent, and is in the queue once.
THEOREM NoIdleWhileWaitingHolds == PoolSpec => []NoIdleWhileWaiting
<1>1. PoolInv => NoIdleWhileWaiting
  <2> SUFFICES ASSUME PoolInv, NEW e \in Entries, IsOpen(e)
               PROVE  /\ ToSet(entries[e].waiters) = Waiters(e)
                      /\ Len(entries[e].waiters) = Cardinality(Waiters(e))
                      /\ Waiters(e) # {} => entries[e].available = {}
    BY DEF NoIdleWhileWaiting
  <2>1. LentOnce(e) /\ QueueMatches(e) /\ entries[e].waiters \in Seq(Callers)
    BY DEF PoolInv, CheckoutInv, CheckoutTypes, EntryRecords, EntryInv
  <2> QED
    BY <2>1, DistinctLength DEF LentOnce, QueueMatches
<1> QED
  BY <1>1, PoolInvariant, PTL

\* Registering never overwrites an entry, and every open entry has one owner.
THEOREM OneEntryPerRepoHolds == PoolSpec => []OneEntryPerRepo
<1>1. PoolInv => OneEntryPerRepo
  BY DEF PoolInv
<1> QED
  BY <1>1, PoolInvariant, PTL

\* An open entry with nothing checked out has no waiting call either.
LEMMA IdleIsUnused ==
  ASSUME CheckoutInv, NEW e \in Entries, IsOpen(e), entries[e].checkedOut = 0
  PROVE  Users(e) = {}
<1>1. LentOnce(e) /\ IsFiniteSet(Holders(e)) /\ entries[e].available \subseteq Conns
  BY HoldersFinite DEF CheckoutInv, CheckoutTypes, EntryRecords, EntryInv
<1>2. Holders(e) = {}
  BY <1>1, FS_EmptySet DEF LentOnce
<1>3. Waiters(e) = {}
  BY <1>1, <1>2, CheckoutAssumption DEF LentOnce
<1> QED
  BY <1>2, <1>3, CheckoutAssumption
  DEF CheckoutInv, CheckoutTypes, PhasesMatch, CallRecords, Phases, Holders, Waiters, Users, Idle

\* What evictions and sweeps do to the entries.
LEMMA SweepEffect ==
  ASSUME CheckoutTypes, NEW r \in Repos, InitStat(r) \/ IdleSweep(r)
  PROVE  \E R \in SUBSET Pooled :
           /\ \A q \in R : entries[pool[q]].checkedOut = 0
           /\ \A e \in Entries : entries'[e].state = "open" \/ entries'[e] = EntriesAfter(R)[e]
<1>1. CASE IdleSweep(r)
  BY <1>1 DEF IdleSweep, CloseRepos
<1>2. CASE InitStat(r)
  <2>1. PICK R \in Victims :
          \/ \E d, C, S : Prewarm(r, d, PoolAfter(R), EntriesAfter(R), C, S)
          \/ entries' = EntriesAfter(R)
    BY <1>2 DEF InitStat
  <2>2. R \in SUBSET Pooled /\ \A q \in R : entries[pool[q]].checkedOut = 0
    BY <2>1, VictimsAreIdle
  <2>3. ASSUME NEW d, Register(r, d, PoolAfter(R), EntriesAfter(R)), NEW e \in Entries
        PROVE  entries'[e].state = "open" \/ entries'[e] = EntriesAfter(R)[e]
    <3> DEFINE f == CHOOSE x \in FreeEntries : TRUE
    <3>1. entries' = [EntriesAfter(R) EXCEPT ![f] = NewEntry(d, init[r].path)]
      BY <2>3 DEF Register
    <3>2. NewEntry(d, init[r].path).state = "open" /\ EntriesAfter(R) \in [Entries -> EntryRecords]
      BY EntriesAfterCases DEF NewEntry
    <3> HIDE DEF f
    <3> QED
      BY <3>1, <3>2
  <2>4. \A e \in Entries : entries'[e].state = "open" \/ entries'[e] = EntriesAfter(R)[e]
    BY <2>1, <2>3 DEF Prewarm
  <2> QED
    BY <2>2, <2>4
<1> QED
  BY <1>1, <1>2

\* Evictions and the idle sweep never close an entry that a call runs or waits on.
THEOREM SweepSparesUsersHolds == PoolSpec => SweepSparesUsers
<1>1. ASSUME PoolInv, NEW r \in Repos, InitStat(r) \/ IdleSweep(r),
             NEW e \in Entries, IsOpen(e), ~ IsOpen(e)'
      PROVE  Users(e) = {}
  <2>1. CheckoutInv /\ CheckoutTypes
    BY <1>1 DEF PoolInv, CheckoutInv
  <2>2. PICK R \in SUBSET Pooled :
          /\ \A q \in R : entries[pool[q]].checkedOut = 0
          /\ \A f \in Entries : entries'[f].state = "open" \/ entries'[f] = EntriesAfter(R)[f]
    BY <1>1, <2>1, SweepEffect
  <2>3. entries'[e] = EntriesAfter(R)[e] /\ entries'[e].state # "open"
    BY <1>1, <2>2 DEF IsOpen
  <2>4. \E q \in R : pool[q] = e
    BY <1>1, <2>1, <2>3, EntriesAfterCases DEF IsOpen
  <2> QED
    BY <1>1, <2>1, <2>2, <2>4, IdleIsUnused
<1>2. PoolInv /\ [PoolNext]_poolVars =>
        [\A r \in Repos : InitStat(r) \/ IdleSweep(r) =>
           \A e \in Entries : IsOpen(e) /\ ~ IsOpen(e)' => Users(e) = {}]_poolVars
  BY <1>1
<1> QED
  BY <1>2, PoolInvariant, PTL DEF PoolSpec, SweepSparesUsers

-----------------------------------------------------------------------------
(* The databases that repositories share.                                  *)

\* No directory is opened under two repository ids at the same time.
OpensAlone == "racing_open" \notin PoolAdversity

-----------------------------------------------------------------------------
(* The books of the shared databases, as predicates of a pool P, entries E,*)
(* initialisations I, a cache C and databases S: what a step of the pool   *)
(* does to them is done one after the other (close, then open or share).   *)

DbRecords == [state : {"open", "closed"}, refs : Nat, fts : {"absent", "loaded"}]

\* The repositories that count on the database cached for path p.
Sharers(P, E, I, p) ==
  {q \in Repos : (P[q] # None /\ E[P[q]].path = p) \/ (I[q].phase = "fts" /\ I[q].path = p)}

\* The database of an entry is the one cached for its path.
EntriesCached(P, E, C) ==
  \A q \in Repos : P[q] # None =>
    E[P[q]].path \in DbPaths /\ E[P[q]].db \in Dbs /\ C[E[P[q]].path] = E[P[q]].db

\* So is that of an initialisation that waits for the extension; no other has one.
InitsCached(I, C) ==
  \A q \in Repos :
    /\ I[q].phase = "fts" => I[q].path \in DbPaths /\ I[q].db \in Dbs /\ C[I[q].path] = I[q].db
    /\ I[q].phase # "fts" => I[q].db = None

\* A cached database is open, and has a reference for each sharer.
Counted(P, E, I, C, S) ==
  \A p \in DbPaths : C[p] # None =>
    S[C[p]].state = "open" /\ S[C[p]].refs >= Cardinality(Sharers(P, E, I, p))

OnePath(C) == \A p, q \in DbPaths : C[p] = C[q] /\ C[p] # None => p = q

\* A directory is opened once, and only while no database is cached for it.
OpenedOnce(I, C) ==
  \A q \in Repos : I[q].phase = "opening" =>
    /\ C[I[q].path] = None
    /\ \A t \in Repos : I[t].phase = "opening" /\ I[t].path = I[q].path => t = q

ShareTypes(C, S) == C \in [DbPaths -> Dbs \cup {None}] /\ S \in [Dbs -> DbRecords]

Sharing(P, E, I, C, S) ==
  /\ ShareTypes(C, S)
  /\ EntriesCached(P, E, C) /\ InitsCached(I, C) /\ Counted(P, E, I, C, S)
  /\ OnePath(C) /\ OpenedOnce(I, C)

DbInv == Sharing(pool, entries, init, dbCache, shared)

LEMMA SharersFinite ==
  ASSUME NEW P, NEW E, NEW I, NEW p
  PROVE  IsFiniteSet(Sharers(P, E, I, p)) /\ Cardinality(Sharers(P, E, I, p)) \in Nat
<1>1. Sharers(P, E, I, p) \in SUBSET Repos
  BY DEF Sharers
<1> QED
  BY <1>1, PoolAssumption, FS_Subset, FS_CardinalityType

-----------------------------------------------------------------------------
(* Closing.                                                                *)

Gone(R, p) == {q \in R : entries[pool[q]].path = p}

\* What closing R leaves of pool and entries.
LEMMA ClosedPool ==
  ASSUME PoolInv, NEW R \in SUBSET Pooled, NEW q \in Repos
  PROVE  /\ PoolAfter(R)[q] = IF q \in R THEN None ELSE pool[q]
         /\ PoolAfter(R)[q] # None =>
              q \notin R /\ q \in Pooled /\ EntriesAfter(R)[PoolAfter(R)[q]] = entries[pool[q]]
<1>1. PoolAfter(R)[q] = IF q \in R THEN None ELSE pool[q]
  BY DEF PoolAfter
<1>2. ASSUME PoolAfter(R)[q] # None PROVE EntriesAfter(R)[pool[q]] = entries[pool[q]] /\ q \in Pooled
  <2>1. q \notin R /\ q \in Pooled /\ pool[q] \in Entries
    BY <1>1, <1>2 DEF Pooled, PoolInv, PoolTypes
  <2>2. \A t \in R : pool[t] # pool[q]
    BY <2>1 DEF PoolInv, OneEntryPerRepo
  <2> QED
    BY <2>1, <2>2, EntriesAfterCases DEF PoolInv, CheckoutInv
<1> QED
  BY <1>1, <1>2

LEMMA GoneAreSharers ==
  ASSUME PoolInv, NEW R \in SUBSET Pooled, NEW p \in DbPaths
  PROVE  /\ Gone(R, p) \subseteq Sharers(pool, entries, init, p)
         /\ Sharers(PoolAfter(R), EntriesAfter(R), init, p) =
              Sharers(pool, entries, init, p) \ Gone(R, p)
         /\ Released(R, p) = Cardinality(Gone(R, p)) /\ Released(R, p) \in Nat
         /\ Released(R, p) <= Cardinality(Sharers(pool, entries, init, p))
         /\ Released(R, p) = Cardinality(Sharers(pool, entries, init, p)) =>
              Sharers(PoolAfter(R), EntriesAfter(R), init, p) = {}
         /\ Cardinality(Sharers(PoolAfter(R), EntriesAfter(R), init, p)) =
              Cardinality(Sharers(pool, entries, init, p)) - Released(R, p)
<1> DEFINE A == Sharers(pool, entries, init, p)
           B == Sharers(PoolAfter(R), EntriesAfter(R), init, p)
           G == Gone(R, p)
<1>1. G \in SUBSET A
  BY DEF Gone, Sharers, Pooled
<1>2. \A q \in R : init[q].phase # "fts"
  BY DEF PoolInv, OneEntryPerRepo, Pooled
<1>3. B = A \ G
  <2>1. \A q \in Repos : q \in B <=> q \in A /\ q \notin G
    BY <1>2, ClosedPool DEF Sharers, Gone, Pooled
  <2> QED
    BY <2>1 DEF Sharers
<1>4. IsFiniteSet(A) /\ Cardinality(A) \in Nat
  BY SharersFinite
<1>5. IsFiniteSet(G) /\ Cardinality(G) <= Cardinality(A) /\ (Cardinality(A) = Cardinality(G) => A = G)
  BY <1>1, <1>4, FS_Subset
<1>6. Cardinality(A \ G) = Cardinality(A) - Cardinality(A \cap G) /\ A \cap G = G
  BY <1>1, <1>4, FS_Difference
<1>7. Cardinality(G) \in Nat
  BY <1>5, FS_CardinalityType
<1>8. Released(R, p) = Cardinality(G)
  BY DEF Released, Gone
<1> HIDE DEF A, B, G
<1>9. Cardinality(B) = Cardinality(A) - Cardinality(G) /\ (Cardinality(G) = Cardinality(A) => B = {})
  BY <1>3, <1>5, <1>6
<1> QED
  BY <1>1, <1>3, <1>5, <1>7, <1>8, <1>9 DEF A, B, G

\* What closing R leaves of the databases.
LEMMA ClosedShare ==
  ASSUME PoolInv, DbInv, NEW R \in SUBSET Pooled
  PROVE  /\ SharedAfter(R) \in [Dbs -> DbRecords]
         /\ \A p \in DbPaths : dbCache[p] # None /\ ~LastRef(R, p) =>
              /\ SharedAfter(R)[dbCache[p]].state = "open"
              /\ SharedAfter(R)[dbCache[p]].refs = shared[dbCache[p]].refs - Released(R, p)
<1>1. /\ dbCache \in [DbPaths -> Dbs \cup {None}] /\ shared \in [Dbs -> DbRecords]
      /\ OnePath(dbCache) /\ Counted(pool, entries, init, dbCache, shared)
  BY DEF DbInv, Sharing, ShareTypes
<1>2. ASSUME NEW p \in DbPaths, dbCache[p] # None
      PROVE  LET d == dbCache[p] IN
             /\ d \in Dbs /\ shared[d].state = "open" /\ shared[d].refs - Released(R, p) \in Nat
             /\ SharedAfter(R)[d] = IF LastRef(R, p) THEN Unused
                                    ELSE [shared[d] EXCEPT !.refs = @ - Released(R, p)]
  <2> DEFINE d == dbCache[p]
  <2>1. d \in Dbs /\ shared[d].state = "open" /\ shared[d] \in DbRecords
        /\ shared[d].refs >= Cardinality(Sharers(pool, entries, init, p))
    BY <1>1, <1>2 DEF Counted
  <2>2. shared[d].refs - Released(R, p) \in Nat
    <3>1. Released(R, p) \in Nat /\ Released(R, p) <= Cardinality(Sharers(pool, entries, init, p))
      BY GoneAreSharers
    <3>2. shared[d].refs \in Nat /\ Cardinality(Sharers(pool, entries, init, p)) \in Nat
      BY <2>1, SharersFinite DEF DbRecords
    <3> QED
      BY <2>1, <3>1, <3>2
  <2>3. (CHOOSE q \in DbPaths : dbCache[q] = d) = p
    BY <1>1, <1>2 DEF OnePath
  <2> HIDE DEF d
  <2>4. SharedAfter(R)[d] = IF LastRef(R, p) THEN Unused
                            ELSE [shared[d] EXCEPT !.refs = @ - Released(R, p)]
    BY <2>1, <2>3 DEF SharedAfter, d
  <2> QED
    BY <2>1, <2>2, <2>4 DEF d
<1>3. \A rec \in DbRecords, n \in Nat :
        /\ [rec EXCEPT !.refs = n] \in DbRecords
        /\ [rec EXCEPT !.refs = n].state = rec.state /\ [rec EXCEPT !.refs = n].refs = n
  BY DEF DbRecords
<1>4. Unused \in DbRecords
  BY DEF Unused, DbRecords
<1>5. ASSUME NEW p \in DbPaths, dbCache[p] # None
      PROVE  /\ SharedAfter(R)[dbCache[p]] \in DbRecords
             /\ ~LastRef(R, p) =>
                  /\ SharedAfter(R)[dbCache[p]].state = "open"
                  /\ SharedAfter(R)[dbCache[p]].refs = shared[dbCache[p]].refs - Released(R, p)
  <2> DEFINE d == dbCache[p]
             n == shared[d].refs - Released(R, p)
  <2>1. /\ d \in Dbs /\ shared[d].state = "open" /\ n \in Nat
        /\ SharedAfter(R)[d] = IF LastRef(R, p) THEN Unused ELSE [shared[d] EXCEPT !.refs = n]
    BY <1>2, <1>5
  <2>2. shared[d] \in DbRecords
    BY <1>1, <2>1
  <2> HIDE DEF n, d
  <2>3. /\ [shared[d] EXCEPT !.refs = n] \in DbRecords
        /\ [shared[d] EXCEPT !.refs = n].state = shared[d].state
        /\ [shared[d] EXCEPT !.refs = n].refs = n
    BY <1>3, <2>1, <2>2
  <2> QED
    BY <1>4, <2>1, <2>3 DEF n, d
<1>6. ASSUME NEW d \in Dbs PROVE SharedAfter(R)[d] \in DbRecords
  <2>1. CASE \E p \in DbPaths : dbCache[p] = d
    <3>1. PICK p \in DbPaths : dbCache[p] = d
      BY <2>1
    <3>2. d # None /\ shared[d] \in DbRecords
      BY <1>1, CheckoutAssumption
    <3> QED
      BY <1>5, <3>1, <3>2
  <2>2. CASE ~ \E p \in DbPaths : dbCache[p] = d
    BY <1>1, <2>2 DEF SharedAfter
  <2> QED
    BY <2>1, <2>2
<1>7. SharedAfter(R) \in [Dbs -> DbRecords]
  <2>1. SharedAfter(R) = [d \in Dbs |-> SharedAfter(R)[d]]
    BY DEF SharedAfter
  <2> QED
    BY <1>6, <2>1
<1> QED
  BY <1>7, <1>5

LEMMA ClosingShares ==
  ASSUME PoolInv, DbInv, NEW R \in SUBSET Pooled
  PROVE  Sharing(PoolAfter(R), EntriesAfter(R), init, CacheAfter(R), SharedAfter(R))
<1> DEFINE P == PoolAfter(R)
           E == EntriesAfter(R)
           C == CacheAfter(R)
           S == SharedAfter(R)
<1>1. /\ dbCache \in [DbPaths -> Dbs \cup {None}] /\ shared \in [Dbs -> DbRecords]
      /\ EntriesCached(pool, entries, dbCache) /\ InitsCached(init, dbCache)
      /\ Counted(pool, entries, init, dbCache, shared)
      /\ OnePath(dbCache) /\ OpenedOnce(init, dbCache)
  BY DEF DbInv, Sharing, ShareTypes
<1>2. C \in [DbPaths -> Dbs \cup {None}]
      /\ \A p \in DbPaths : C[p] = IF LastRef(R, p) THEN None ELSE dbCache[p]
  BY <1>1, CacheAfterType DEF CacheAfter, PoolInv
\* With the last reference the last sharer goes.
<1>3. ASSUME NEW p \in DbPaths, LastRef(R, p) PROVE Sharers(P, E, init, p) = {}
  <2>1. /\ shared[dbCache[p]].refs <= Released(R, p)
        /\ shared[dbCache[p]].refs >= Cardinality(Sharers(pool, entries, init, p))
        /\ shared[dbCache[p]].refs \in Nat
    BY <1>1, <1>3 DEF LastRef, Counted, DbRecords
  <2>2. Released(R, p) = Cardinality(Sharers(pool, entries, init, p))
    BY <2>1, GoneAreSharers, SharersFinite
  <2> QED
    BY <2>2, GoneAreSharers
<1>4. EntriesCached(P, E, C)
  <2> SUFFICES ASSUME NEW q \in Repos, P[q] # None
               PROVE  E[P[q]].path \in DbPaths /\ E[P[q]].db \in Dbs /\ C[E[P[q]].path] = E[P[q]].db
    BY DEF EntriesCached
  <2>1. q \in Pooled /\ pool[q] # None /\ E[P[q]] = entries[pool[q]]
    BY ClosedPool DEF Pooled
  <2>2. /\ E[P[q]].path \in DbPaths /\ E[P[q]].db \in Dbs
        /\ dbCache[E[P[q]].path] = E[P[q]].db
    BY <1>1, <2>1 DEF EntriesCached
  <2>3. q \in Sharers(P, E, init, E[P[q]].path)
    BY DEF Sharers
  <2> QED
    BY <1>2, <1>3, <2>2, <2>3
<1>5. InitsCached(init, C)
  <2>1. ASSUME NEW q \in Repos, init[q].phase = "fts" PROVE ~LastRef(R, init[q].path)
    <3>1. init[q].path \in DbPaths /\ q \in Sharers(P, E, init, init[q].path)
      BY <1>1, <2>1 DEF InitsCached, Sharers
    <3> QED
      BY <1>3, <3>1
  <2> QED
    BY <1>1, <1>2, <2>1 DEF InitsCached
<1>6. Counted(P, E, init, C, S)
  <2> SUFFICES ASSUME NEW p \in DbPaths, C[p] # None
               PROVE  S[C[p]].state = "open" /\ S[C[p]].refs >= Cardinality(Sharers(P, E, init, p))
    BY DEF Counted
  <2>1. C[p] = dbCache[p] /\ ~LastRef(R, p)
    BY <1>2
  <2>2. S[C[p]].state = "open" /\ S[C[p]].refs = shared[dbCache[p]].refs - Released(R, p)
    BY <2>1, ClosedShare
  <2>3. /\ shared[dbCache[p]].refs >= Cardinality(Sharers(pool, entries, init, p))
        /\ shared[dbCache[p]].refs \in Nat
    BY <1>1, <2>1 DEF Counted, DbRecords
  <2> QED
    BY <2>2, <2>3, GoneAreSharers, SharersFinite
<1>7. OnePath(C)
  BY <1>1, <1>2 DEF OnePath
<1>8. OpenedOnce(init, C)
  <2>1. \A q \in Repos : init[q].phase = "opening" => init[q].path \in DbPaths
    BY DEF PoolInv, PoolTypes
  <2> QED
    BY <1>1, <1>2, <2>1 DEF OpenedOnce
<1> QED
  BY <1>2, <1>4, <1>5, <1>6, <1>7, <1>8, ClosedShare DEF Sharing, ShareTypes

-----------------------------------------------------------------------------
(* Sharing one more time.                                                  *)

\* The books of every repository but r are as before.
OthersAs(r, P, E, I, P2, E2, I2) ==
  \A q \in Repos \ {r} :
    /\ I2[q] = I[q] /\ P2[q] = P[q]
    /\ P[q] # None => E2[P[q]].db = E[P[q]].db /\ E2[P[q]].path = E[P[q]].path

\* r is registered, waits for the extension, or has failed.
SharesNow(r, d, p, P2, E2, I2) ==
  \/ /\ P2[r] # None /\ E2[P2[r]].path = p /\ E2[P2[r]].db = d
     /\ I2[r].phase = "none" /\ I2[r].db = None
  \/ /\ P2[r] = None
     /\ I2[r].phase = "fts" /\ I2[r].path = p /\ I2[r].db = d
  \/ P2[r] = None /\ I2[r].phase = "none" /\ I2[r].db = None

\* What the repositories other than r keep of their books.
LEMMA OthersCached ==
  ASSUME NEW P, NEW E, NEW I, NEW C, NEW P2, NEW E2, NEW I2, NEW r \in Repos,
         EntriesCached(P, E, C), InitsCached(I, C), OpenedOnce(I, C),
         OthersAs(r, P, E, I, P2, E2, I2), NEW d \in Dbs, NEW p \in DbPaths, C[p] = d,
         SharesNow(r, d, p, P2, E2, I2)
  PROVE  EntriesCached(P2, E2, C) /\ InitsCached(I2, C) /\ OpenedOnce(I2, C)
<1>1. EntriesCached(P2, E2, C)
  <2> SUFFICES ASSUME NEW q \in Repos, P2[q] # None
               PROVE  E2[P2[q]].path \in DbPaths /\ E2[P2[q]].db \in Dbs /\ C[E2[P2[q]].path] = E2[P2[q]].db
    BY DEF EntriesCached
  <2>1. CASE q = r
    BY <2>1 DEF SharesNow
  <2>2. CASE q # r
    BY <2>2 DEF EntriesCached, OthersAs
  <2> QED
    BY <2>1, <2>2
<1>2. InitsCached(I2, C)
  <2> SUFFICES ASSUME NEW q \in Repos
               PROVE  /\ I2[q].phase = "fts" => I2[q].path \in DbPaths /\ I2[q].db \in Dbs /\ C[I2[q].path] = I2[q].db
                      /\ I2[q].phase # "fts" => I2[q].db = None
    BY DEF InitsCached
  <2>1. CASE q = r
    BY <2>1 DEF SharesNow
  <2>2. CASE q # r
    BY <2>2 DEF InitsCached, OthersAs
  <2> QED
    BY <2>1, <2>2
<1>3. OpenedOnce(I2, C)
  <2>1. I2[r].phase # "opening"
    BY DEF SharesNow
  <2> QED
    BY <2>1 DEF OpenedOnce, OthersAs
<1> QED
  BY <1>1, <1>2, <1>3

\* r takes a reference to the database d cached for p.
TakesRef(r, d, p, P, E, I, C, S, P2, E2, I2, S2) ==
  /\ r \in Repos /\ d \in Dbs /\ p \in DbPaths /\ C[p] = d
  /\ Sharing(P, E, I, C, S)
  /\ OthersAs(r, P, E, I, P2, E2, I2) /\ SharesNow(r, d, p, P2, E2, I2)
  /\ S2 = [S EXCEPT ![d].refs = @ + 1]

\* One more reference, and at most one more sharer.
LEMMA RefAdded ==
  ASSUME NEW P, NEW E, NEW I, NEW C, NEW S, NEW P2, NEW E2, NEW I2, NEW S2,
         NEW r, NEW d, NEW p, TakesRef(r, d, p, P, E, I, C, S, P2, E2, I2, S2)
  PROVE  Sharing(P2, E2, I2, C, S2)
<1> USE DEF TakesRef
<1>1. /\ C \in [DbPaths -> Dbs \cup {None}] /\ S \in [Dbs -> DbRecords] /\ d # None
      /\ OnePath(C) /\ Counted(P, E, I, C, S)
  BY CheckoutAssumption DEF Sharing, ShareTypes
<1>2. EntriesCached(P2, E2, C) /\ InitsCached(I2, C) /\ OpenedOnce(I2, C)
  BY OthersCached DEF Sharing
<1>3. /\ S2 \in [Dbs -> DbRecords] /\ S2[d].state = S[d].state /\ S2[d].refs = S[d].refs + 1
      /\ \A x \in Dbs \ {d} : S2[x] = S[x]
  <2> DEFINE rec == S[d]
             n == rec.refs + 1
             new == [rec EXCEPT !.refs = n]
  <2>1. rec \in DbRecords /\ n \in Nat
    BY <1>1 DEF DbRecords
  <2>2. S2 = [S EXCEPT ![d] = new]
    OBVIOUS
  <2> HIDE DEF n, rec
  <2>3. new \in DbRecords /\ new.state = rec.state /\ new.refs = n
    BY <2>1 DEF DbRecords
  <2> HIDE DEF new
  <2> QED
    BY <1>1, <2>2, <2>3 DEF n, rec
<1>4. ASSUME NEW x \in DbPaths, C[x] # None
      PROVE  S2[C[x]].state = "open" /\ S2[C[x]].refs >= Cardinality(Sharers(P2, E2, I2, x))
  <2> DEFINE A == Sharers(P, E, I, x)
             B == Sharers(P2, E2, I2, x)
  <2>1. /\ IsFiniteSet(A) /\ Cardinality(A) \in Nat /\ IsFiniteSet(B) /\ Cardinality(B) \in Nat
    BY SharersFinite
  <2>2. /\ C[x] \in Dbs /\ S[C[x]].state = "open" /\ S[C[x]].refs \in Nat
        /\ S[C[x]].refs >= Cardinality(A)
    BY <1>1, <1>4 DEF Counted, DbRecords
  <2>3. \A q \in Repos \ {r} : q \in B <=> q \in A
    BY DEF Sharers, OthersAs
  <2>4. A \subseteq Repos /\ B \subseteq Repos
    BY DEF Sharers
  <2>5. x # p => r \notin B
    BY DEF Sharers, SharesNow
  <2>6. CASE x = p
    <3>1. B \in SUBSET (A \cup {r}) /\ C[x] = d
      BY <2>3, <2>4, <2>6
    <3> HIDE DEF A, B
    <3>2. IsFiniteSet(A \cup {r}) /\ Cardinality(A \cup {r}) \in Nat
          /\ Cardinality(A \cup {r}) <= Cardinality(A) + 1
      <4>1. /\ IsFiniteSet(A \cup {r})
            /\ Cardinality(A \cup {r}) = IF r \in A THEN Cardinality(A) ELSE Cardinality(A) + 1
        BY <2>1, FS_AddElement
      <4> QED
        BY <2>1, <4>1
    <3>3. Cardinality(B) <= Cardinality(A \cup {r})
      BY <3>1, <3>2, FS_Subset
    <3>4. S2[C[x]].refs = S[C[x]].refs + 1 /\ S2[C[x]].state = "open"
      BY <1>3, <2>2, <3>1
    <3>5. S2[C[x]].refs >= Cardinality(B)
      BY <2>1, <2>2, <3>2, <3>3, <3>4
    <3> QED
      BY <3>4, <3>5 DEF B
  <2>7. CASE x # p
    <3>1. B \in SUBSET A /\ C[x] # d
      BY <1>1, <1>4, <2>3, <2>5, <2>4, <2>7 DEF OnePath
    <3> HIDE DEF A, B
    <3>2. Cardinality(B) <= Cardinality(A)
      BY <2>1, <3>1, FS_Subset
    <3>3. S2[C[x]] = S[C[x]]
      BY <1>3, <2>2, <3>1
    <3>4. S2[C[x]].refs >= Cardinality(B)
      BY <2>1, <2>2, <3>2, <3>3
    <3> QED
      BY <2>2, <3>3, <3>4 DEF B
  <2> QED
    BY <2>6, <2>7
<1> QED
  BY <1>1, <1>2, <1>3, <1>4 DEF Sharing, ShareTypes, Counted

\* A database opened for a path for which none is cached.
LEMMA DbOpened ==
  ASSUME NEW P, NEW E, NEW I, NEW C, NEW S, NEW I2, NEW r \in Repos, NEW d \in Dbs,
         Sharing(P, E, I, C, S), I[r].phase = "opening", S[d].state = "closed",
         \A q \in Repos : I[q].phase = "opening" => I[q].path \in DbPaths,
         I2[r].phase = "stat", I2[r].db = None, \A q \in Repos \ {r} : I2[q] = I[q]
  PROVE  Sharing(P, E, I2, [C EXCEPT ![I[r].path] = d], [S EXCEPT ![d] = [Unused EXCEPT !.state = "open"]])
<1> DEFINE p == I[r].path
           C2 == [C EXCEPT ![p] = d]
           new == [Unused EXCEPT !.state = "open"]
           S2 == [S EXCEPT ![d] = new]
<1>1. /\ C \in [DbPaths -> Dbs \cup {None}] /\ S \in [Dbs -> DbRecords] /\ d # None /\ C[p] = None
      /\ \A x \in DbPaths : C[x] # d
      /\ EntriesCached(P, E, C) /\ InitsCached(I, C) /\ OpenedOnce(I, C) /\ OnePath(C)
      /\ Counted(P, E, I, C, S)
  BY CheckoutAssumption DEF Sharing, ShareTypes, OpenedOnce, Counted
<1>2. new \in DbRecords /\ new.state = "open" /\ new.refs = 0
  BY DEF Unused, DbRecords
<1> HIDE DEF new
<1>3. /\ C2 \in [DbPaths -> Dbs \cup {None}] /\ C2[p] = d /\ \A x \in DbPaths \ {p} : C2[x] = C[x]
      /\ S2 \in [Dbs -> DbRecords] /\ S2[d] = new /\ \A x \in Dbs \ {d} : S2[x] = S[x]
  BY <1>1, <1>2
<1> HIDE DEF C2, S2
<1>4. \A x \in DbPaths : Sharers(P, E, I2, x) = Sharers(P, E, I, x)
  BY DEF Sharers
<1>5. Sharers(P, E, I, p) = {}
  <2>1. \A q \in Repos : P[q] # None => E[P[q]].path # p
    BY <1>1, CheckoutAssumption DEF EntriesCached
  <2>2. \A q \in Repos : I[q].phase = "fts" => I[q].path # p
    BY <1>1, CheckoutAssumption DEF InitsCached
  <2> QED
    BY <2>1, <2>2 DEF Sharers
<1>6. EntriesCached(P, E, C2)
  <2>1. \A q \in Repos : P[q] # None => E[P[q]].path # p
    BY <1>1, CheckoutAssumption DEF EntriesCached
  <2> QED
    BY <1>1, <1>3, <2>1 DEF EntriesCached
<1>7. InitsCached(I2, C2)
  <2>1. \A q \in Repos : I2[q].phase = "fts" => q # r /\ I[q].path # p
    BY <1>1, CheckoutAssumption DEF InitsCached
  <2> QED
    BY <1>1, <1>3, <2>1 DEF InitsCached
<1>8. OpenedOnce(I2, C2)
  <2>1. \A q \in Repos : I2[q].phase = "opening" => q # r /\ I[q].path # p
    BY <1>1 DEF OpenedOnce
  <2>2. \A q \in Repos : I2[q].phase = "opening" => C2[I2[q].path] = None
    BY <1>1, <1>3, <2>1 DEF OpenedOnce
  <2> QED
    BY <1>1, <2>1, <2>2 DEF OpenedOnce
<1>9. OnePath(C2)
  BY <1>1, <1>3 DEF OnePath
<1>10. Counted(P, E, I2, C2, S2)
  <2> SUFFICES ASSUME NEW x \in DbPaths, C2[x] # None
               PROVE  S2[C2[x]].state = "open" /\ S2[C2[x]].refs >= Cardinality(Sharers(P, E, I2, x))
    BY DEF Counted
  <2>1. CASE x = p
    <3>1. Cardinality({}) = 0
      BY FS_EmptySet
    <3>2. Sharers(P, E, I2, x) = {} /\ S2[C2[x]] = new
      BY <1>3, <1>4, <1>5, <2>1
    <3> QED
      BY <1>2, <3>1, <3>2
  <2>2. CASE x # p
    <3>1. C2[x] = C[x] /\ C[x] \in Dbs \ {d}
      BY <1>1, <1>3, <2>2
    <3>2. S2[C2[x]] = S[C[x]]
      BY <1>3, <3>1
    <3> QED
      BY <1>1, <1>4, <3>1, <3>2 DEF Counted
  <2> QED
    BY <2>1, <2>2
<1> QED
  BY <1>3, <1>6, <1>7, <1>8, <1>9, <1>10 DEF Sharing, ShareTypes, C2, S2, new

-----------------------------------------------------------------------------
(* The steps of the pool.                                                  *)

LEMMA PrewarmShares ==
  ASSUME PoolInv, NEW R \in SUBSET Pooled, NEW r \in Repos \ R, NEW I, NEW C, NEW S, NEW d \in Dbs,
         init[r].phase # "none", init[r].path \in DbPaths,
         \A q \in Repos \ {r} : I[q] = init[q],
         Sharing(PoolAfter(R), EntriesAfter(R), I, C, S), C[init[r].path] = d,
         Prewarm(r, d, PoolAfter(R), EntriesAfter(R), C, S)
  PROVE  DbInv'
<1> DEFINE P == PoolAfter(R)
           E == EntriesAfter(R)
           p == init[r].path
<1>1. /\ dbCache' = C /\ shared' = [S EXCEPT ![d].refs = @ + 1]
      /\ init \in [Repos -> InitRecords] /\ P \in [Repos -> Entries \cup {None}]
      /\ E \in [Entries -> EntryRecords] /\ P[r] = None
  <2>1. P[r] = None
    BY ClosedPool DEF PoolInv, OneEntryPerRepo
  <2> QED
    BY <2>1, EntriesAfterCases DEF Prewarm, PoolInv, PoolTypes, CheckoutInv, PoolAfter
<1>2. ASSUME Register(r, d, P, E)
      PROVE  OthersAs(r, P, E, I, pool', entries', init') /\ SharesNow(r, d, p, pool', entries', init')
  <2> DEFINE e == CHOOSE x \in FreeEntries : TRUE
  <2>1. e \in FreeEntries
    BY <1>2 DEF Register
  <2>2. /\ pool' = [P EXCEPT ![r] = e] /\ entries' = [E EXCEPT ![e] = NewEntry(d, p)]
        /\ init' = [init EXCEPT ![r] = NotInit]
    BY <1>2 DEF Register
  <2> HIDE DEF e
  <2>3. /\ e \in Entries /\ e # None /\ \A q \in Pooled : pool[q] # e
    BY <2>1, CheckoutAssumption DEF FreeEntries, PoolInv, OneEntryPerRepo
  <2>4. \A q \in Repos : P[q] # e
    BY <2>3, ClosedPool DEF Pooled
  <2>5. NewEntry(d, p).path = p /\ NewEntry(d, p).db = d
    BY DEF NewEntry
  <2> HIDE DEF P, E, p
  <2>6. pool'[r] = e /\ entries'[e] = NewEntry(d, p) /\ init'[r] = NotInit
    BY <1>1, <2>2, <2>3
  <2>7. SharesNow(r, d, p, pool', entries', init')
    BY <2>3, <2>5, <2>6 DEF SharesNow, NotInit
  <2>8. ASSUME NEW q \in Repos \ {r}
        PROVE  /\ init'[q] = I[q] /\ pool'[q] = P[q]
               /\ P[q] # None => entries'[P[q]] = E[P[q]]
    BY <1>1, <2>2, <2>4
  <2> QED
    BY <2>7, <2>8 DEF OthersAs
<1>3. ASSUME init' = [init EXCEPT ![r].phase = "fts", ![r].db = d], pool' = P, entries' = E
      PROVE  OthersAs(r, P, E, I, pool', entries', init') /\ SharesNow(r, d, p, pool', entries', init')
  <2>1. /\ init'[r].phase = "fts" /\ init'[r].path = p /\ init'[r].db = d
        /\ \A q \in Repos \ {r} : init'[q] = init[q]
    BY <1>1, <1>3 DEF InitRecords
  <2> QED
    BY <1>1, <1>3, <2>1 DEF OthersAs, SharesNow
<1>4. ASSUME init' = [init EXCEPT ![r] = NotInit], pool' = P, entries' = E
      PROVE  OthersAs(r, P, E, I, pool', entries', init') /\ SharesNow(r, d, p, pool', entries', init')
  <2>1. /\ init'[r] = NotInit /\ \A q \in Repos \ {r} : init'[q] = init[q]
    BY <1>1, <1>4
  <2> QED
    BY <1>1, <1>4, <2>1 DEF OthersAs, SharesNow, NotInit
<1>5. OthersAs(r, P, E, I, pool', entries', init') /\ SharesNow(r, d, p, pool', entries', init')
  BY <1>2, <1>3, <1>4 DEF Prewarm
<1>6. Sharing(P, E, I, C, S) /\ p \in DbPaths /\ C[p] = d
  OBVIOUS
<1> HIDE DEF P, E, p
<1>7. Sharing(pool', entries', init', C, shared')
  <2>1. TakesRef(r, d, p, P, E, I, C, S, pool', entries', init', shared')
    BY <1>1, <1>5, <1>6 DEF TakesRef
  <2> QED
    BY <2>1, RefAdded
<1> QED
  BY <1>1, <1>7 DEF DbInv

LEMMA InitStatShares ==
  ASSUME OpensAlone, PoolInv, DbInv, NEW r \in Repos, InitStat(r)
  PROVE  DbInv'
<1>1. /\ init[r] \in InitRecords /\ init \in [Repos -> InitRecords]
      /\ init[r].phase = "stat" /\ init[r].path \in DbPaths /\ pool[r] = None
  BY DEF PoolInv, PoolTypes, OneEntryPerRepo, InitStat
<1>2. PICK R \in Victims :
        LET d == CacheAfter(R)[init[r].path] IN
        \/ d # None /\ Prewarm(r, d, PoolAfter(R), EntriesAfter(R), CacheAfter(R), SharedAfter(R))
        \/ /\ d = None /\ ~Opening(init[r].path) /\ init' = [init EXCEPT ![r].phase = "opening"]
           /\ pool' = PoolAfter(R) /\ entries' = EntriesAfter(R)
           /\ dbCache' = CacheAfter(R) /\ shared' = SharedAfter(R)
  BY DEF InitStat, OpensAlone
<1>3. R \in SUBSET Pooled /\ r \in Repos \ R
  BY <1>1, <1>2, VictimsAreIdle DEF Pooled
<1>4. Sharing(PoolAfter(R), EntriesAfter(R), init, CacheAfter(R), SharedAfter(R))
  BY <1>3, ClosingShares
<1> DEFINE d == CacheAfter(R)[init[r].path]
<1>5. CASE d # None /\ Prewarm(r, d, PoolAfter(R), EntriesAfter(R), CacheAfter(R), SharedAfter(R))
  <2>1. d \in Dbs
    BY <1>1, <1>4, <1>5 DEF Sharing, ShareTypes
  <2> QED
    BY <1>1, <1>3, <1>4, <1>5, <2>1, PrewarmShares
<1>6. CASE /\ d = None /\ ~Opening(init[r].path) /\ init' = [init EXCEPT ![r].phase = "opening"]
           /\ pool' = PoolAfter(R) /\ entries' = EntriesAfter(R)
           /\ dbCache' = CacheAfter(R) /\ shared' = SharedAfter(R)
  <2>1. /\ init'[r].phase = "opening" /\ init'[r].path = init[r].path /\ init'[r].db = init[r].db
        /\ \A q \in Repos \ {r} : init'[q] = init[q]
    BY <1>1, <1>6 DEF InitRecords
  <2>2. EntriesCached(PoolAfter(R), EntriesAfter(R), CacheAfter(R)) /\ OnePath(CacheAfter(R))
        /\ ShareTypes(CacheAfter(R), SharedAfter(R))
        /\ InitsCached(init, CacheAfter(R)) /\ OpenedOnce(init, CacheAfter(R))
        /\ Counted(PoolAfter(R), EntriesAfter(R), init, CacheAfter(R), SharedAfter(R))
    BY <1>4 DEF Sharing
  <2>3. InitsCached(init', CacheAfter(R))
    BY <1>1, <2>1, <2>2 DEF InitsCached
  <2>4. OpenedOnce(init', CacheAfter(R))
    BY <1>6, <2>1, <2>2 DEF OpenedOnce, Opening
  <2>5. \A p \in DbPaths : Sharers(PoolAfter(R), EntriesAfter(R), init', p)
                             = Sharers(PoolAfter(R), EntriesAfter(R), init, p)
    BY <1>1, <2>1 DEF Sharers
  <2>6. Counted(PoolAfter(R), EntriesAfter(R), init', CacheAfter(R), SharedAfter(R))
    BY <2>2, <2>5 DEF Counted
  <2> QED
    BY <1>6, <2>2, <2>3, <2>4, <2>6 DEF DbInv, Sharing
<1> QED
  BY <1>2, <1>5, <1>6

LEMMA InitOpenedShares ==
  ASSUME PoolInv, DbInv, NEW r \in Repos, InitOpened(r)
  PROVE  DbInv'
<1>1. /\ init \in [Repos -> InitRecords] /\ init[r].phase = "opening" /\ init[r].path \in DbPaths
      /\ CheckoutTypes /\ PoolTypes
      /\ \A q \in Repos : init[q].phase = "opening" => init[q].path \in DbPaths
  BY DEF PoolInv, CheckoutInv, PoolTypes, InitOpened
<1> DEFINE d == CHOOSE d \in FreeDbs : TRUE
           C == [dbCache EXCEPT ![init[r].path] = d]
           S == [shared EXCEPT ![d] = [Unused EXCEPT !.state = "open"]]
           I == [init EXCEPT ![r] = [init[r] EXCEPT !.phase = "stat"]]
<1>2. d \in Dbs /\ shared[d].state = "closed"
  BY DEF InitOpened, FreeDbs
<1>3. Prewarm(r, d, pool, entries, C, S)
  BY DEF InitOpened
<1> HIDE DEF d
<1>4. I[r].phase = "stat" /\ I[r].db = None /\ \A q \in Repos \ {r} : I[q] = init[q]
  <2>1. init[r].db = None
    BY <1>1 DEF DbInv, Sharing, InitsCached
  <2> QED
    BY <1>1, <2>1 DEF InitRecords
<1> HIDE DEF I
<1>5. Sharing(pool, entries, I, C, S)
  BY <1>1, <1>2, <1>4, DbOpened DEF DbInv
<1>6. C[init[r].path] = d
  BY <1>1 DEF DbInv, Sharing, ShareTypes
<1> HIDE DEF C, S
<1>7. /\ Sharing(PoolAfter({}), EntriesAfter({}), I, C, S)
      /\ Prewarm(r, d, PoolAfter({}), EntriesAfter({}), C, S)
  BY <1>1, <1>3, <1>5, NothingAfter
<1> QED
  BY <1>1, <1>2, <1>4, <1>6, <1>7, PrewarmShares

\* The books do not change when r, which waited for the extension, is registered.
LEMMA ShareHandedOn ==
  ASSUME NEW P, NEW E, NEW I, NEW C, NEW S, NEW P2, NEW E2, NEW I2, NEW S2, NEW r \in Repos,
         Sharing(P, E, I, C, S), OthersAs(r, P, E, I, P2, E2, I2), P[r] = None,
         I[r].phase = "fts", I2[r].phase = "none", I2[r].db = None,
         P2[r] # None, E2[P2[r]].path = I[r].path, E2[P2[r]].db = I[r].db,
         S2 \in [Dbs -> DbRecords],
         \A d \in Dbs : S2[d].state = S[d].state /\ S2[d].refs = S[d].refs
  PROVE  Sharing(P2, E2, I2, C, S2)
<1>1. /\ I[r].path \in DbPaths /\ I[r].db \in Dbs /\ C[I[r].path] = I[r].db
      /\ EntriesCached(P, E, C) /\ InitsCached(I, C) /\ OpenedOnce(I, C)
      /\ Counted(P, E, I, C, S) /\ C \in [DbPaths -> Dbs \cup {None}]
  BY DEF Sharing, InitsCached, ShareTypes
<1>2. SharesNow(r, I[r].db, I[r].path, P2, E2, I2)
  BY DEF SharesNow
<1>3. EntriesCached(P2, E2, C) /\ InitsCached(I2, C) /\ OpenedOnce(I2, C)
  BY <1>1, <1>2, OthersCached
<1>4. \A p \in DbPaths : Sharers(P2, E2, I2, p) = Sharers(P, E, I, p)
  BY DEF Sharers, OthersAs
<1>5. Counted(P2, E2, I2, C, S2)
  BY <1>1, <1>4 DEF Counted
<1> QED
  BY <1>1, <1>3, <1>5 DEF Sharing, ShareTypes

LEMMA InitFtsDoneShares ==
  ASSUME PoolInv, DbInv, NEW r \in Repos, InitFtsDone(r)
  PROVE  DbInv'
<1> DEFINE d == init[r].db
           p == init[r].path
           e == CHOOSE x \in FreeEntries : TRUE
<1>1. /\ init \in [Repos -> InitRecords] /\ init[r].phase = "fts" /\ pool[r] = None
      /\ pool \in [Repos -> Entries \cup {None}] /\ entries \in [Entries -> EntryRecords]
      /\ shared \in [Dbs -> DbRecords] /\ d \in Dbs /\ p \in DbPaths
  BY DEF PoolInv, CheckoutInv, CheckoutTypes, PoolTypes, OneEntryPerRepo, InitFtsDone,
         DbInv, Sharing, ShareTypes, InitsCached
<1>2. e \in FreeEntries
  BY DEF InitFtsDone, Register
<1>3. /\ pool' = [pool EXCEPT ![r] = e] /\ entries' = [entries EXCEPT ![e] = NewEntry(d, p)]
      /\ init' = [init EXCEPT ![r] = NotInit] /\ dbCache' = dbCache
      /\ \E found \in {"absent", "loaded"} : shared' = [shared EXCEPT ![d].fts = found]
  BY DEF InitFtsDone, Register
<1> HIDE DEF d, p, e
<1>4. /\ e \in Entries /\ e # None /\ \A q \in Repos : pool[q] # e
  BY <1>2, CheckoutAssumption DEF FreeEntries, PoolInv, OneEntryPerRepo, Pooled
<1>5. NewEntry(d, p).path = p /\ NewEntry(d, p).db = d
  BY DEF NewEntry
<1>6. pool'[r] = e /\ entries'[e].path = p /\ entries'[e].db = d /\ init'[r].phase = "none" /\ init'[r].db = None
  BY <1>1, <1>3, <1>4, <1>5 DEF NotInit
<1>7. OthersAs(r, pool, entries, init, pool', entries', init')
  <2>1. ASSUME NEW q \in Repos \ {r}
        PROVE  /\ init'[q] = init[q] /\ pool'[q] = pool[q]
               /\ pool[q] # None => entries'[pool[q]] = entries[pool[q]]
    BY <1>1, <1>3, <1>4
  <2> QED
    BY <2>1 DEF OthersAs
<1>8. /\ shared' \in [Dbs -> DbRecords]
      /\ \A x \in Dbs : shared'[x].state = shared[x].state /\ shared'[x].refs = shared[x].refs
  <2>1. PICK found \in {"absent", "loaded"} : shared' = [shared EXCEPT ![d].fts = found]
    BY <1>3
  <2> DEFINE new == [shared[d] EXCEPT !.fts = found]
  <2>2. new \in DbRecords /\ new.state = shared[d].state /\ new.refs = shared[d].refs
    BY <1>1 DEF DbRecords
  <2>3. shared' = [shared EXCEPT ![d] = new]
    BY <2>1
  <2> HIDE DEF new
  <2> QED
    BY <1>1, <2>2, <2>3
<1>9. Sharing(pool, entries, init, dbCache, shared) /\ init[r].path = p /\ init[r].db = d
  BY DEF DbInv, d, p
<1>10. Sharing(pool', entries', init', dbCache, shared')
  BY <1>1, <1>4, <1>6, <1>7, <1>8, <1>9, ShareHandedOn
<1> QED
  BY <1>3, <1>10 DEF DbInv

LEMMA CloseReposShares ==
  ASSUME PoolInv, DbInv, NEW R \in SUBSET Pooled, CloseRepos(R)
  PROVE  DbInv'
BY ClosingShares DEF CloseRepos, DbInv

\* An initialisation starts, or fails before it has a database.
LEMMA InitStepShares ==
  ASSUME PoolInv, DbInv, NEW r \in Repos, InitStart(r) \/ InitFails(r)
  PROVE  DbInv'
<1>1. /\ UNCHANGED <<pool, entries, dbCache, shared>> /\ init \in [Repos -> InitRecords]
      /\ init[r].phase \in {"none", "stat", "opening"} /\ init[r].db = None
      /\ Sharing(pool, entries, init, dbCache, shared)
  BY DEF InitStart, InitFails, PoolInv, PoolTypes, DbInv, Sharing, InitsCached
<1>2. /\ init'[r].phase \in {"none", "stat"} /\ init'[r].db = None
      /\ \A q \in Repos \ {r} : init'[q] = init[q]
  <2>1. CASE InitStart(r)
    BY <1>1, <2>1 DEF InitStart, InitRecords
  <2>2. CASE InitFails(r)
    BY <1>1, <2>2 DEF InitFails, NotInit
  <2> QED
    BY <2>1, <2>2
<1>3. \A p \in DbPaths : Sharers(pool, entries, init', p) = Sharers(pool, entries, init, p)
  BY <1>1, <1>2 DEF Sharers
<1>4. InitsCached(init', dbCache)
  BY <1>1, <1>2 DEF Sharing, InitsCached
<1>5. OpenedOnce(init', dbCache)
  BY <1>1, <1>2 DEF Sharing, OpenedOnce
<1>6. Counted(pool, entries, init', dbCache, shared)
  BY <1>1, <1>3 DEF Sharing, Counted
<1> QED
  BY <1>1, <1>4, <1>5, <1>6 DEF DbInv, Sharing

\* Calls leave the databases of the entries as they are.
LEMMA CallsShare ==
  ASSUME PoolInv, DbInv, StatesKept, UNCHANGED <<pool, init, dbCache, shared>>
  PROVE  DbInv'
<1>1. \A q \in Repos : pool[q] # None =>
        entries'[pool[q]].path = entries[pool[q]].path /\ entries'[pool[q]].db = entries[pool[q]].db
  BY DEF StatesKept, PoolInv, PoolTypes
<1>2. \A p \in DbPaths : Sharers(pool, entries', init, p) = Sharers(pool, entries, init, p)
  BY <1>1 DEF Sharers
<1>3. EntriesCached(pool, entries', dbCache)
  BY <1>1 DEF DbInv, Sharing, EntriesCached
<1>4. Counted(pool, entries', init, dbCache, shared)
  BY <1>2 DEF DbInv, Sharing, Counted
<1> QED
  BY <1>3, <1>4 DEF DbInv, Sharing

LEMMA DbInvInit == PoolInit => DbInv
<1> SUFFICES ASSUME PoolInit PROVE DbInv
  OBVIOUS
<1>1. /\ \A r \in Repos : pool[r] = None /\ init[r].phase = "none" /\ init[r].db = None
      /\ \A p \in DbPaths : dbCache[p] = None
      /\ dbCache \in [DbPaths -> Dbs \cup {None}]
  BY DEF PoolInit, NotInit
<1>2. shared \in [Dbs -> DbRecords]
  <2>1. Unused \in DbRecords
    BY DEF Unused, DbRecords
  <2> QED
    BY <2>1 DEF PoolInit
<1> QED
  BY <1>1, <1>2
  DEF DbInv, Sharing, ShareTypes, EntriesCached, InitsCached, Counted, OnePath, OpenedOnce

LEMMA DbInvStep == OpensAlone /\ PoolInv /\ DbInv /\ [PoolNext]_poolVars => DbInv'
<1> SUFFICES ASSUME OpensAlone, PoolInv, DbInv, [PoolNext]_poolVars PROVE DbInv'
  OBVIOUS
<1>1. ASSUME NEW r \in Repos, InitStart(r) \/ InitFails(r) PROVE DbInv'
  BY <1>1, InitStepShares
<1>2. ASSUME NEW r \in Repos, InitStat(r) PROVE DbInv'
  BY <1>2, InitStatShares
<1>3. ASSUME NEW r \in Repos, InitOpened(r) PROVE DbInv'
  BY <1>3, InitOpenedShares
<1>4. ASSUME NEW r \in Repos, InitFtsDone(r) PROVE DbInv'
  BY <1>4, InitFtsDoneShares
<1>5. ASSUME NEW r \in Repos, IdleSweep(r) PROVE DbInv'
  BY <1>5, CloseReposShares DEF IdleSweep
<1>6. ASSUME NEW R, Close(R) PROVE DbInv'
  BY <1>6, CloseReposShares DEF Close
<1>7. ASSUME NEW r \in Repos, NEW c \in Callers, Execute(c, r) PROVE DbInv'
  <2>1. pool[r] \in Entries /\ IsOpen(pool[r]) /\ Checkout(c, pool[r])
        /\ UNCHANGED <<pool, init, dbCache, shared>>
    BY <1>7 DEF PoolInv, PoolTypes, OneEntryPerRepo, Pooled, Execute
  <2>2. StatesKept
    BY <2>1, CheckoutPreserves DEF PoolInv
  <2> QED
    BY <2>1, <2>2, CallsShare
<1>8. ASSUME NEW c \in Callers, CallStep(c) PROVE DbInv'
  <2>1. /\ UNCHANGED <<pool, init, dbCache, shared>>
        /\ ReadRows(c) \/ (callers[c].phase \in {"native", "rows"} /\ Checkin(c)) \/ WaiterTimeout(c)
    BY <1>8 DEF CallStep, CallEnds, QueryTimeout
  <2>2. StatesKept
    BY <2>1, RowsPreserve, CheckinPreserves, WaiterTimeoutPreserves DEF PoolInv
  <2> QED
    BY <2>1, <2>2, CallsShare
<1>9. CASE NativeStep \/ UNCHANGED poolVars
  <2>1. UNCHANGED <<entries, pool, init, dbCache, shared>>
    BY <1>9 DEF NativeStep, AbandonedEnds, poolVars
  <2> QED
    BY <2>1 DEF DbInv
<1> QED
  BY <1>1, <1>2, <1>3, <1>4, <1>5, <1>6, <1>7, <1>8, <1>9 DEF PoolNext

\* The database of a pooled repository stays open as long as no directory is
\* opened under two ids at the same time, whatever else fails or is closed: a
\* failed pre-warm may leak a reference, but none is ever given back twice.
THEOREM CarefulPooledDbOpen ==
  ASSUME OpensAlone
  PROVE  PoolSpec => []PooledDbOpen
<1>1. PoolInv /\ DbInv => PooledDbOpen
  <2> SUFFICES ASSUME PoolInv, DbInv PROVE PooledDbOpen
    OBVIOUS
  <2>1. ASSUME NEW r \in Pooled PROVE shared[entries[pool[r]].db].state = "open"
    BY <2>1, CheckoutAssumption DEF DbInv, Sharing, EntriesCached, Counted, Pooled
  <2>2. ASSUME NEW r \in Repos, init[r].db # None PROVE shared[init[r].db].state = "open"
    BY <2>2, CheckoutAssumption DEF DbInv, Sharing, InitsCached, Counted
  <2> QED
    BY <2>1, <2>2 DEF PooledDbOpen
<1>2. PoolInit => PoolInv /\ DbInv
  BY PoolInvInit, DbInvInit
<1>3. PoolInv /\ DbInv /\ [PoolNext]_poolVars => PoolInv' /\ DbInv'
  BY PoolInvStep, DbInvStep
<1> QED
  BY <1>1, <1>2, <1>3, PTL DEF PoolSpec
=============================================================================

--------------------------- MODULE WorkerPool_proofs ---------------------------
(***************************************************************************)
(* Proofs about WorkerPool, for any chunks, number of workers, size of     *)
(* jobs, number of retries and adversity.                                  *)
(*                                                                         *)
(* The inductive invariant IInv says what each worker and its thread have  *)
(* of their job, that every piece of work is a part of the chunk, and, by  *)
(* counting, that each file is in one piece.  The counts are of sets that  *)
(* change by one element or two, or whose elements move by one place       *)
(* (OneApart, Shifted).  At the end of a dispatch all the pieces are       *)
(* results; sorted by their positions they tile the chunk (SortedTile) and *)
(* put together they are the chunk (MergeIsChunk).                         *)
(***************************************************************************)
EXTENDS WorkerPool, FiniteSetTheorems, FunctionTheorems, SequenceTheorems, WellFoundedInduction, TLAPS

-----------------------------------------------------------------------------
(* Counting.                                                               *)

Has(K, i) == IF i \in K THEN 1 ELSE 0

\* A set of numbers that has 0, and the successor of each member, has them all.
LEMMA FromZero ==
  ASSUME NEW T, 0 \in T, \A n \in Nat : n \in T => n + 1 \in T
  PROVE  \A n \in Nat : n \in T
<1> SUFFICES ASSUME NEW m \in Nat, m \notin T PROVE FALSE
  OBVIOUS
<1> DEFINE R == OpToRel(<, Nat)
           B == {n \in Nat : n \notin T}
<1>1. B \subseteq Nat /\ B # {}
  OBVIOUS
<1>2. IsWellFoundedOn(R, Nat)
  BY NatLessThanWellFounded
<1> HIDE DEF R, B
<1>3. PICK n \in B : \A y \in B : ~ (<<y, n>> \in R)
  BY <1>1, <1>2, WFMin
<1>4. \A y \in B : y \in Nat /\ ~(y < n)
  BY <1>1, <1>3 DEF R, OpToRel, B
<1>5. n \in Nat /\ n # 0 /\ n \notin T
  BY <1>3 DEF B
<1>6. n - 1 \in Nat /\ n - 1 < n /\ n = (n - 1) + 1
  BY <1>5
<1>7. n - 1 \in T
  BY <1>4, <1>6 DEF B
<1> QED
  BY <1>5, <1>6, <1>7

\* Two sets that differ at most in one element differ in size by that element.
LEMMA OneApart ==
  ASSUME NEW S, IsFiniteSet(S), NEW K \in SUBSET S, NEW L \in SUBSET S, NEW i,
         \A j \in S : j # i => (j \in K <=> j \in L)
  PROVE  /\ Cardinality(K) \in Nat /\ Cardinality(L) \in Nat
         /\ Cardinality(L) + Has(K, i) = Cardinality(K) + Has(L, i)
<1>1. IsFiniteSet(K) /\ IsFiniteSet(L)
  BY FS_Subset
<1>2. Cardinality(K) \in Nat /\ Cardinality(L) \in Nat
  BY <1>1, FS_CardinalityType
<1>3. CASE i \in K /\ i \notin L
  <2>1. K = L \cup {i}
    BY <1>3
  <2> QED
    BY <1>1, <1>2, <1>3, <2>1, FS_AddElement DEF Has
<1>4. CASE i \in L /\ i \notin K
  <2>1. L = K \cup {i}
    BY <1>4
  <2> QED
    BY <1>1, <1>2, <1>4, <2>1, FS_AddElement DEF Has
<1>5. CASE i \in L <=> i \in K
  <2>1. L = K
    BY <1>5
  <2> QED
    BY <1>2, <2>1
<1> QED
  BY <1>3, <1>4, <1>5

\* The positions from the second on, one less.
LEMMA Shifted ==
  ASSUME NEW n \in Nat, NEW K \in SUBSET (1 .. n + 1)
  PROVE  /\ Cardinality({q \in 1 .. n : q + 1 \in K}) \in Nat
         /\ Cardinality(K) = Cardinality({q \in 1 .. n : q + 1 \in K}) + Has(K, 1)
<1> DEFINE L == {q \in 1 .. n : q + 1 \in K}
           M == K \ {1}
           f == [q \in L |-> q + 1]
<1>1. IsFiniteSet(1 .. n + 1) /\ IsFiniteSet(1 .. n)
  BY FS_Interval
<1>2. IsFiniteSet(K) /\ IsFiniteSet(L) /\ IsFiniteSet(M)
  <2>1. L \in SUBSET (1 .. n) /\ M \in SUBSET (1 .. n + 1)
    OBVIOUS
  <2> HIDE DEF L, M
  <2> QED
    BY <1>1, <2>1, FS_Subset
<1>3. f \in Bijection(L, M)
  <2>1. f \in [L -> M]
    OBVIOUS
  <2>2. \A p, q \in L : f[p] = f[q] => p = q
    OBVIOUS
  <2>3. \A m \in M : \E q \in L : f[q] = m
    <3> SUFFICES ASSUME NEW m \in M PROVE \E q \in L : f[q] = m
      OBVIOUS
    <3>1. m - 1 \in L /\ f[m - 1] = m
      OBVIOUS
    <3> QED
      BY <3>1
  <2> HIDE DEF f, L, M
  <2> QED
    BY <2>1, <2>2, <2>3 DEF Bijection, Injection, Surjection, IsInjective
<1>4. Cardinality(L) = Cardinality(M)
  <2> HIDE DEF f, L, M
  <2> QED
    BY <1>2, <1>3, FS_Bijection DEF ExistsBijection
<1>5. Cardinality(M) \in Nat /\ Cardinality(K) \in Nat /\ Cardinality(L) \in Nat
  <2> HIDE DEF f, L, M
  <2> QED
    BY <1>2, FS_CardinalityType
<1>6. Cardinality(K) = Cardinality(M) + Has(K, 1)
  <2>1. 1 \notin M /\ (1 \in K => K = M \cup {1}) /\ (1 \notin K => K = M)
    OBVIOUS
  <2> HIDE DEF f, L, M
  <2> QED
    BY <1>2, <1>5, <2>1, FS_AddElement DEF Has
<1> QED
  BY <1>4, <1>5, <1>6

\* The ranks of a finite set of numbers are 1, 2, ... up to its size, so that there
\* is one number of each rank.
LEMMA Ranks ==
  ASSUME NEW K \in SUBSET Nat, IsFiniteSet(K)
  PROVE  /\ Cardinality(K) \in Nat
         /\ \A k \in K : Rank(K, k) \in 1 .. Cardinality(K)
         /\ \A j, k \in K : j < k => Rank(K, j) < Rank(K, k)
         /\ \A n \in 1 .. Cardinality(K) : Nth(K, n) \in K /\ Rank(K, Nth(K, n)) = n
         /\ \A m \in Nat : Rank(K, m) \in 0 .. Cardinality(K)
         /\ \A j \in K, m \in Nat : j <= m <=> Rank(K, j) <= Rank(K, m)
<1> DEFINE Upto(k) == {j \in K : j <= k}
           r == [k \in K |-> Rank(K, k)]
<1>1. Cardinality(K) \in Nat
  BY FS_CardinalityType
<1>2. ASSUME NEW k \in K PROVE IsFiniteSet(Upto(k)) /\ Cardinality(Upto(k)) \in 1 .. Cardinality(K)
  <2>1. Upto(k) \in SUBSET K /\ k \in Upto(k)
    OBVIOUS
  <2> HIDE DEF Upto
  <2>2. IsFiniteSet(Upto(k)) /\ Cardinality(Upto(k)) <= Cardinality(K)
    BY <2>1, FS_Subset
  <2>3. Cardinality(Upto(k)) \in Nat /\ Cardinality(Upto(k)) # 0
    BY <2>1, <2>2, FS_CardinalityType, FS_EmptySet
  <2> QED
    BY <2>2, <2>3, <1>1
<1>3. ASSUME NEW j \in K, NEW k \in K, j < k PROVE Rank(K, j) < Rank(K, k)
  <2>1. Upto(j) \in SUBSET Upto(k) /\ Upto(j) # Upto(k)
    <3>1. k \in Upto(k) /\ k \notin Upto(j)
      BY <1>3
    <3>2. \A m \in K : m <= j => m <= k
      <4> SUFFICES ASSUME NEW m \in K, m <= j PROVE m <= k
        OBVIOUS
      <4>1. m \in Nat /\ j \in Nat /\ k \in Nat
        OBVIOUS
      <4> QED
        BY <1>3, <4>1
    <3> QED
      BY <3>1, <3>2
  <2>2. IsFiniteSet(Upto(k)) /\ Cardinality(Upto(k)) \in Nat /\ Cardinality(Upto(j)) \in Nat
    BY <1>2
  <2> HIDE DEF Upto
  <2>3. Cardinality(Upto(j)) <= Cardinality(Upto(k)) /\ Cardinality(Upto(j)) # Cardinality(Upto(k))
    BY <2>1, <2>2, FS_Subset
  <2>4. Rank(K, j) = Cardinality(Upto(j)) /\ Rank(K, k) = Cardinality(Upto(k))
    BY DEF Rank, Upto
  <2> QED
    BY <2>2, <2>3, <2>4
<1>4. \A k \in K : Rank(K, k) \in 1 .. Cardinality(K)
  BY <1>2 DEF Rank
<1>5. r \in Injection(K, 1 .. Cardinality(K))
  <2>1. r \in [K -> 1 .. Cardinality(K)]
    BY <1>4
  <2>2. ASSUME NEW j \in K, NEW k \in K, r[j] = r[k] PROVE j = k
    <3>1. Rank(K, j) = Rank(K, k)
      BY <2>2
    <3>2. Rank(K, j) \in Nat /\ Rank(K, k) \in Nat
      BY <1>1, <1>4
    <3>3. ~ (j < k) /\ ~ (k < j)
      BY <1>3, <3>1, <3>2
    <3> QED
      BY <3>3
  <2> HIDE DEF r
  <2> QED
    BY <2>1, <2>2 DEF Injection, IsInjective
<1>6. r \in Surjection(K, 1 .. Cardinality(K))
  <2>1. IsFiniteSet(1 .. Cardinality(K)) /\ Cardinality(1 .. Cardinality(K)) = Cardinality(K)
    BY <1>1, FS_Interval
  <2> HIDE DEF r
  <2> QED
    BY <1>5, <2>1, FS_Injection
<1>7. ASSUME NEW n \in 1 .. Cardinality(K) PROVE Nth(K, n) \in K /\ Rank(K, Nth(K, n)) = n
  <2>1. \E k \in K : r[k] = n
    <3> HIDE DEF r
    <3> QED
      BY <1>6 DEF Surjection
  <2>2. \E k \in K : Rank(K, k) = n
    BY <2>1
  <2> QED
    BY <2>2 DEF Nth
<1>8. ASSUME NEW m \in Nat PROVE IsFiniteSet(Upto(m)) /\ Rank(K, m) \in 0 .. Cardinality(K)
  <2>1. Upto(m) \in SUBSET K
    OBVIOUS
  <2>2. Rank(K, m) = Cardinality(Upto(m))
    BY DEF Rank
  <2> HIDE DEF Upto
  <2>3. IsFiniteSet(Upto(m)) /\ Cardinality(Upto(m)) <= Cardinality(K)
    BY <2>1, FS_Subset
  <2>4. Cardinality(Upto(m)) \in Nat
    BY <2>3, FS_CardinalityType
  <2> QED
    BY <1>1, <2>2, <2>3, <2>4
<1>9. ASSUME NEW j \in K, NEW m \in Nat PROVE j <= m <=> Rank(K, j) <= Rank(K, m)
  <2>1. Rank(K, j) = Cardinality(Upto(j)) /\ Rank(K, m) = Cardinality(Upto(m))
    BY DEF Rank
  <2>2. IsFiniteSet(Upto(j)) /\ IsFiniteSet(Upto(m)) /\ Rank(K, j) \in Nat /\ Rank(K, m) \in Nat
    <3> HIDE DEF Upto
    <3> QED
      BY <1>1, <1>8
  <2>3. CASE j <= m
    <3>1. Upto(j) \in SUBSET Upto(m)
      <4> SUFFICES ASSUME NEW i \in K, i <= j PROVE i <= m
        OBVIOUS
      <4>1. i \in Nat /\ j \in Nat
        OBVIOUS
      <4> QED
        BY <2>3, <4>1
    <3> HIDE DEF Upto
    <3> QED
      BY <2>1, <2>2, <2>3, <3>1, FS_Subset
  <2>4. CASE m < j
    <3>1. Upto(m) \in SUBSET Upto(j) /\ j \in Upto(j) /\ j \notin Upto(m)
      <4>1. j \in Nat
        OBVIOUS
      <4>2. ASSUME NEW i \in K, i <= m PROVE i <= j
        <5>1. i \in Nat
          OBVIOUS
        <5> QED
          BY <2>4, <4>1, <4>2, <5>1
      <4>3. \A i \in K : i <= m => i <= j
        BY <4>2
      <4>4. j <= j /\ ~ (j <= m)
        BY <2>4, <4>1
      <4> QED
        BY <4>3, <4>4
    <3> HIDE DEF Upto
    <3>2. Cardinality(Upto(m)) <= Cardinality(Upto(j)) /\ Cardinality(Upto(m)) # Cardinality(Upto(j))
      BY <2>2, <3>1, FS_Subset
    <3>3. Rank(K, m) < Rank(K, j)
      BY <2>1, <2>2, <3>2
    <3>4. j \in Nat
      OBVIOUS
    <3> QED
      BY <2>2, <2>4, <3>3, <3>4
  <2> QED
    BY <2>3, <2>4
<1> QED
  BY <1>1, <1>3, <1>4, <1>7, <1>8, <1>9

-----------------------------------------------------------------------------
(* Jobs and the files they are about.                                      *)

Jobs == [start : Nat \ {0}, items : Seq(Files) \ {<<>>}, attempt : Nat]
Outcomes == [start : Nat \ {0}, data : Seq(Files)]

\* The files "items" are those of the chunk c from the place "start" on.
PartOf(c, start, items) ==
  /\ items # <<>>
  /\ start + Len(items) <= Len(c) + 1
  /\ \A k \in DOMAIN items : items[k] = c[start + k - 1]

CoveredIn(queue, k) == {q \in DOMAIN queue : Covers(queue[q].start, queue[q].items, k)}
DoneAmong(rs, k) == {r \in DOMAIN rs : Covers(rs[r].start, rs[r].data, k)}
HeldIn(slots, k) ==
  {i \in Indices : slots[i].at \in {"parsing", "flushing"}
                   /\ Covers(slots[i].job.start, slots[i].job.items, k)}
One(p, q, k) == IF Covers(p, q, k) THEN 1 ELSE 0

LEMMA ChunkTypes ==
  \A k \in 1 .. Len(Chunks) :
    Chunks[k] \in Seq(Files) /\ Chunks[k] # <<>> /\ Len(Chunks[k]) \in Nat \ {0}
<1>1. Chunks \in Seq(Seq(Files) \ {<<>>})
  BY WorkerAssumption
<1> QED
  BY <1>1

LEMMA SubSeqParts ==
  ASSUME NEW S, NEW s \in Seq(S), NEW i \in 1 .. Len(s) + 1, NEW j \in 0 .. Len(s), i <= j + 1
  PROVE  /\ SubSeq(s, i, j) \in Seq(S)
         /\ Len(SubSeq(s, i, j)) = j - i + 1
         /\ \A n \in 1 .. j - i + 1 : SubSeq(s, i, j)[n] = s[i + n - 1]
<1>1. SubSeq(s, i, j) = [n \in 1 .. j - i + 1 |-> s[i + n - 1]]
  OBVIOUS
<1>2. \A n \in 1 .. j - i + 1 : s[i + n - 1] \in S
  OBVIOUS
<1> DEFINE g == [n \in 1 .. j - i + 1 |-> s[i + n - 1]]
<1>3. j - i + 1 \in Nat
  OBVIOUS
<1>4. g \in Seq(S) /\ Len(g) = j - i + 1
  BY <1>2, <1>3
<1> QED
  BY <1>1, <1>4

\* The jobs of a chunk: each is a part of it, and each file is in one of them.
LEMMA JobsOfChunk ==
  ASSUME NEW c \in Seq(Files), c # <<>>, NEW all \in CreateJobs(c)
  PROVE  /\ all \in Seq(Jobs) /\ all # <<>>
         /\ \A n \in 1 .. Len(all) : PartOf(c, all[n].start, all[n].items)
         /\ \A k \in 1 .. Len(c) : \E n \in 1 .. Len(all) :
              \A m \in 1 .. Len(all) : Covers(all[m].start, all[m].items, k) <=> m = n
<1>1. PICK cuts \in SUBSET DOMAIN c : all = JobsAt(c, Ascending(cuts \cup {1}))
  BY DEF CreateJobs
<1> DEFINE K == cuts \cup {1}
           N == Cardinality(K)
           From(n) == Nth(K, n)
           To(n) == IF n = N THEN Len(c) ELSE From(n + 1) - 1
<1>2. Len(c) \in Nat /\ Len(c) >= 1 /\ DOMAIN c = 1 .. Len(c)
  OBVIOUS
<1>3. K \in SUBSET (1 .. Len(c)) /\ 1 \in K /\ IsFiniteSet(K)
  <2>1. K \in SUBSET (1 .. Len(c)) /\ 1 \in K
    BY <1>2
  <2>2. IsFiniteSet(1 .. Len(c))
    BY <1>2, FS_Interval
  <2> HIDE DEF K
  <2> QED
    BY <2>1, <2>2, FS_Subset
<1> HIDE DEF K
<1>4. /\ N \in Nat
      /\ \A n \in 1 .. N : From(n) \in K /\ Rank(K, From(n)) = n
      /\ \A m \in Nat : Rank(K, m) \in 0 .. N
      /\ \A j \in K, m \in Nat : j <= m <=> Rank(K, j) <= Rank(K, m)
  <2>1. K \in SUBSET Nat
    BY <1>2, <1>3
  <2> QED
    BY <1>3, <2>1, Ranks
<1>5. \A m \in Nat : m >= 1 => Rank(K, m) \in 1 .. N
  <2>1. Rank(K, 1) \in 1 .. N
    BY <1>3, Ranks, <1>2, <1>4
  <2> QED
    BY <2>1, <1>3, <1>4
<1>6. N >= 1
  BY <1>4, <1>5
<1>7. DOMAIN Ascending(K) = 1 .. N /\ Len(Ascending(K)) = N /\ \A n \in 1 .. N : Ascending(K)[n] = From(n)
  BY <1>4 DEF Ascending
<1>8. all = [n \in 1 .. N |-> [start |-> From(n), items |-> SubSeq(c, From(n), To(n)), attempt |-> 0]]
  <2> HIDE DEF N, From
  <2>1. \A n \in 1 .. N : n # N => n + 1 \in 1 .. N
    BY <1>4
  <2> QED
    BY <1>1, <1>7, <2>1 DEF JobsAt, K
<1> HIDE DEF N, From
<1>9. \A n \in 1 .. N : From(n) \in 1 .. Len(c)
  BY <1>3, <1>4
<1>10. ASSUME NEW n \in 1 .. N, NEW k \in Nat PROVE From(n) <= k <=> n <= Rank(K, k)
  <2>1. From(n) \in K /\ Rank(K, From(n)) = n
    BY <1>4
  <2>2. From(n) <= k <=> Rank(K, From(n)) <= Rank(K, k)
    BY <1>4, <2>1
  <2> QED
    BY <2>1, <2>2
<1>11. N \in Nat /\ \A n \in 1 .. N : n # N => n + 1 \in 1 .. N
  BY <1>4
<1>12. ASSUME NEW n \in 1 .. N
       PROVE  /\ From(n) \in 1 .. Len(c) /\ To(n) \in 1 .. Len(c) /\ From(n) <= To(n)
              /\ SubSeq(c, From(n), To(n)) \in Seq(Files)
              /\ Len(SubSeq(c, From(n), To(n))) = To(n) - From(n) + 1
              /\ \A k \in 1 .. To(n) - From(n) + 1 : SubSeq(c, From(n), To(n))[k] = c[From(n) + k - 1]
  <2>1. From(n) \in 1 .. Len(c)
    BY <1>9
  <2>2. To(n) \in 1 .. Len(c) /\ From(n) <= To(n)
    <3>1. CASE n = N
      BY <1>2, <2>1, <3>1
    <3>2. CASE n # N
      <4>1. n + 1 \in 1 .. N /\ From(n + 1) \in 1 .. Len(c) /\ From(n) \in Nat
        BY <1>11, <1>9, <2>1, <3>2
      <4>2. ~ (From(n + 1) <= From(n))
        <5>1. Rank(K, From(n)) = n /\ From(n + 1) <= From(n) <=> n + 1 <= Rank(K, From(n))
          BY <1>4, <1>10, <4>1
        <5> QED
          BY <1>4, <1>10, <4>1
      <4> QED
        BY <2>1, <3>2, <4>1, <4>2
    <3> QED
      BY <3>1, <3>2
  <2> HIDE DEF To
  <2> QED
    BY <1>2, <2>1, <2>2, SubSeqParts
<1>13. ASSUME NEW n \in 1 .. N
       PROVE  /\ all[n] \in Jobs /\ PartOf(c, all[n].start, all[n].items)
              /\ \A k \in 1 .. Len(c) : Covers(all[n].start, all[n].items, k) <=> n = Rank(K, k)
  <2>1. all[n] = [start |-> From(n), items |-> SubSeq(c, From(n), To(n)), attempt |-> 0]
    BY <1>8
  <2>2. SubSeq(c, From(n), To(n)) # <<>> /\ From(n) + Len(SubSeq(c, From(n), To(n))) = To(n) + 1
    <3> HIDE DEF To
    <3> QED
      BY <1>2, <1>12
  <2>3. all[n] \in Jobs
    BY <1>12, <2>1, <2>2 DEF Jobs
  <2>4. PartOf(c, all[n].start, all[n].items)
    <3> HIDE DEF To
    <3>1. DOMAIN SubSeq(c, From(n), To(n)) = 1 .. To(n) - From(n) + 1
      BY <1>12
    <3> QED
      BY <1>2, <1>12, <2>1, <2>2, <3>1 DEF PartOf
  <2>5. ASSUME NEW k \in 1 .. Len(c) PROVE Covers(all[n].start, all[n].items, k) <=> n = Rank(K, k)
    <3>1. Covers(all[n].start, all[n].items, k) <=> From(n) <= k /\ k < To(n) + 1
      <4>1. From(n) \in Nat /\ To(n) \in Nat
        BY <1>2, <1>12
      <4> HIDE DEF To
      <4> QED
        BY <2>1, <2>2, <4>1 DEF Covers
    <3>2. k \in Nat /\ Rank(K, k) \in 1 .. N
      BY <1>2, <1>5
    <3>3. From(n) <= k <=> n <= Rank(K, k)
      BY <1>10, <3>2
    <3>4. CASE n = N
      BY <1>2, <3>1, <3>2, <3>3, <3>4
    <3>5. CASE n # N
      <4>1. n + 1 \in 1 .. N /\ From(n + 1) \in 1 .. Len(c)
        BY <1>11, <1>9, <3>5
      <4>2. From(n + 1) <= k <=> n + 1 <= Rank(K, k)
        BY <1>10, <3>2, <4>1
      <4> QED
        <5>1. To(n) = From(n + 1) - 1 /\ n \in Nat
          BY <3>5, <1>11
        <5>2. k < To(n) + 1 <=> ~ (From(n + 1) <= k)
          BY <3>2, <4>1, <5>1
        <5> HIDE DEF To
        <5>3. ~ (n + 1 <= Rank(K, k)) <=> Rank(K, k) <= n
          BY <1>11, <3>2, <5>1
        <5>4. n <= Rank(K, k) /\ Rank(K, k) <= n <=> n = Rank(K, k)
          BY <1>11, <3>2, <5>1
        <5> QED
          BY <3>1, <3>3, <4>2, <5>2, <5>3, <5>4
    <3> QED
      BY <3>4, <3>5
  <2> QED
    BY <2>3, <2>4, <2>5
<1>14. all \in Seq(Jobs) /\ Len(all) = N /\ all # <<>>
  <2>1. all \in [1 .. N -> Jobs]
    <3> HIDE DEF To
    <3>1. DOMAIN all = 1 .. N /\ all = [n \in 1 .. N |-> all[n]]
      BY <1>8
    <3> QED
      BY <1>13, <3>1
  <2> QED
    BY <1>4, <1>6, <2>1
<1>15. \A k \in 1 .. Len(c) : Rank(K, k) \in 1 .. N
  BY <1>2, <1>5
<1> QED
  BY <1>13, <1>14, <1>15

\* What is queued, with the first job of the queue apart.
LEMMA FirstApart ==
  ASSUME NEW queue \in Seq(Jobs), queue # <<>>, NEW k
  PROVE  /\ Cardinality(CoveredIn(Tail(queue), k)) \in Nat
         /\ Cardinality(CoveredIn(queue, k)) =
              Cardinality(CoveredIn(Tail(queue), k)) + One(Head(queue).start, Head(queue).items, k)
<1>1. PICK n \in Nat : Len(queue) = n + 1
  <2>1. Len(queue) \in Nat /\ Len(queue) # 0
    OBVIOUS
  <2>2. Len(queue) - 1 \in Nat /\ Len(queue) = (Len(queue) - 1) + 1
    BY <2>1
  <2> QED
    BY <2>2
<1>2. DOMAIN queue = 1 .. n + 1 /\ DOMAIN Tail(queue) = 1 .. n /\ Head(queue) = queue[1]
      /\ \A q \in 1 .. n : Tail(queue)[q] = queue[q + 1]
  BY <1>1
<1> DEFINE K == CoveredIn(queue, k)
           L == {q \in 1 .. n : q + 1 \in K}
<1>3. K \in SUBSET (1 .. n + 1) /\ \A q \in 1 .. n + 1 : q \in K <=> Covers(queue[q].start, queue[q].items, k)
  BY <1>2 DEF CoveredIn
<1>4. CoveredIn(Tail(queue), k) = L
  <2>1. \A q \in 1 .. n : q + 1 \in 1 .. n + 1
    OBVIOUS
  <2>2. CoveredIn(Tail(queue), k) = {q \in 1 .. n : Covers(queue[q + 1].start, queue[q + 1].items, k)}
    BY <1>2 DEF CoveredIn
  <2> HIDE DEF K
  <2> QED
    BY <1>3, <2>1, <2>2
<1>5. Has(K, 1) = One(Head(queue).start, Head(queue).items, k)
  <2>1. 1 \in 1 .. n + 1
    OBVIOUS
  <2> HIDE DEF K
  <2> QED
    BY <1>2, <1>3, <2>1 DEF Has, One
<1>6. Cardinality(L) \in Nat /\ Cardinality(K) = Cardinality(L) + Has(K, 1)
  <2> HIDE DEF K
  <2> QED
    BY <1>3, Shifted
<1> HIDE DEF L
<1> QED
  BY <1>4, <1>5, <1>6

\* A queue with a job put before it, and with two.
LEMMA OnePut ==
  ASSUME NEW queue \in Seq(Jobs), NEW j \in Jobs, NEW k
  PROVE  /\ Cardinality(CoveredIn(queue, k)) \in Nat
         /\ Cardinality(CoveredIn(<<j>> \o queue, k)) =
              Cardinality(CoveredIn(queue, k)) + One(j.start, j.items, k)
<1>1. /\ <<j>> \o queue \in Seq(Jobs) /\ <<j>> \o queue # <<>>
      /\ Head(<<j>> \o queue) = j /\ Tail(<<j>> \o queue) = queue
  OBVIOUS
<1> DEFINE both == <<j>> \o queue
<1> HIDE DEF both
<1>2. both \in Seq(Jobs) /\ both # <<>> /\ Head(both) = j /\ Tail(both) = queue
  BY <1>1 DEF both
<1>3. /\ Cardinality(CoveredIn(Tail(both), k)) \in Nat
      /\ Cardinality(CoveredIn(both, k)) =
           Cardinality(CoveredIn(Tail(both), k)) + One(Head(both).start, Head(both).items, k)
  BY <1>2, FirstApart
<1> QED
  BY <1>2, <1>3 DEF both

LEMMA TwoPut ==
  ASSUME NEW queue \in Seq(Jobs), NEW i \in Jobs, NEW j \in Jobs, NEW k
  PROVE  Cardinality(CoveredIn(<<i, j>> \o queue, k)) =
           Cardinality(CoveredIn(queue, k)) + One(j.start, j.items, k) + One(i.start, i.items, k)
<1>1. <<i, j>> \o queue = <<i>> \o (<<j>> \o queue) /\ <<j>> \o queue \in Seq(Jobs)
  <2>1. <<i>> \in Seq(Jobs) /\ <<j>> \in Seq(Jobs) /\ <<i, j>> = <<i>> \o <<j>>
    <3>1. <<i>> \in Seq(Jobs) /\ <<j>> \in Seq(Jobs) /\ <<i, j>> \in Seq(Jobs)
      OBVIOUS
    <3> DEFINE p == <<i, j>>
               q == <<i>> \o <<j>>
    <3>2. q \in Seq(Jobs) /\ Len(q) = 2 /\ q[1] = i /\ q[2] = j
      BY <3>1
    <3>3. p \in Seq(Jobs) /\ Len(p) = 2 /\ p[1] = i /\ p[2] = j
      BY <3>1
    <3> HIDE DEF p, q
    <3>4. p = q
      BY <3>2, <3>3, SeqEqual
    <3> QED
      BY <3>1, <3>4 DEF p, q
  <2>2. (<<i>> \o <<j>>) \o queue = <<i>> \o (<<j>> \o queue)
    BY <2>1, ConcatAssociative
  <2>3. <<j>> \o queue \in Seq(Jobs)
    OBVIOUS
  <2> QED
    BY <2>1, <2>2, <2>3
<1>2. PICK rest \in Seq(Jobs) : rest = <<j>> \o queue
  BY <1>1
<1>3. Cardinality(CoveredIn(<<i>> \o rest, k)) = Cardinality(CoveredIn(rest, k)) + One(i.start, i.items, k)
  BY OnePut
<1>4. Cardinality(CoveredIn(rest, k)) = Cardinality(CoveredIn(queue, k)) + One(j.start, j.items, k)
  BY <1>2, OnePut
<1> QED
  BY <1>1, <1>2, <1>3, <1>4

\* The files that workers hold, when one of them changes what it holds.
LEMMA OneHolder ==
  ASSUME NEW f, NEW g, NEW i \in Indices, \A j \in Indices : j # i => g[j] = f[j], NEW k
  PROVE  /\ Cardinality(HeldIn(f, k)) \in Nat /\ Cardinality(HeldIn(g, k)) \in Nat
         /\ Cardinality(HeldIn(g, k)) + Has(HeldIn(f, k), i) =
              Cardinality(HeldIn(f, k)) + Has(HeldIn(g, k), i)
<1>1. IsFiniteSet(Indices)
  BY WorkerAssumption, FS_Interval DEF Indices
<1>2. HeldIn(f, k) \in SUBSET Indices /\ HeldIn(g, k) \in SUBSET Indices
  BY DEF HeldIn
<1>3. \A j \in Indices : j # i => (j \in HeldIn(f, k) <=> j \in HeldIn(g, k))
  BY DEF HeldIn
<1> QED
  BY <1>1, <1>2, <1>3, OneApart

\* Results with one more.
LEMMA OneResult ==
  ASSUME NEW rs \in Seq(Outcomes), NEW r \in Outcomes, NEW k
  PROVE  /\ Cardinality(DoneAmong(rs, k)) \in Nat
         /\ Cardinality(DoneAmong(Append(rs, r), k)) =
              Cardinality(DoneAmong(rs, k)) + One(r.start, r.data, k)
<1>1. PICK n \in Nat : n = Len(rs)
  OBVIOUS
<1> DEFINE S == 1 .. n + 1
           K == DoneAmong(rs, k)
           L == DoneAmong(Append(rs, r), k)
<1>2. /\ DOMAIN rs = 1 .. n /\ DOMAIN Append(rs, r) = 1 .. n + 1
      /\ Append(rs, r)[n + 1] = r /\ \A q \in 1 .. n : Append(rs, r)[q] = rs[q]
  BY <1>1
<1>3. K \in SUBSET S /\ L \in SUBSET S /\ \A q \in S : q # n + 1 => (q \in K <=> q \in L)
  BY <1>2 DEF DoneAmong
<1>4. n + 1 \notin K /\ (n + 1 \in L <=> Covers(r.start, r.data, k))
  BY <1>2 DEF DoneAmong
<1>5. IsFiniteSet(S)
  BY FS_Interval
<1> HIDE DEF S, K, L
<1>6. /\ Cardinality(K) \in Nat /\ Cardinality(L) \in Nat
      /\ Cardinality(L) + Has(K, n + 1) = Cardinality(K) + Has(L, n + 1)
  BY <1>3, <1>5, OneApart
<1>7. Cardinality(L) = Cardinality(K) + One(r.start, r.data, k)
  BY <1>4, <1>6 DEF Has, One
<1> QED
  BY <1>6, <1>7 DEF K, L

\* The halves of a job have its files, each file in one of them.
LEMMA HalvesShare ==
  ASSUME NEW job \in Jobs, Len(job.items) > 1
  PROVE  \E first \in Jobs, second \in Jobs :
           /\ Halves(job) = <<first, second>>
           /\ \A k \in Nat : One(first.start, first.items, k) + One(second.start, second.items, k)
                               = One(job.start, job.items, k)
           /\ \A c \in Seq(Files) : PartOf(c, job.start, job.items) =>
                PartOf(c, first.start, first.items) /\ PartOf(c, second.start, second.items)
<1>1. PICK items \in Seq(Files) : items = job.items
  BY DEF Jobs
<1>2. PICK start \in Nat \ {0} : start = job.start
  BY DEF Jobs
<1>3. PICK n \in Nat : n = Len(items) /\ n > 1
  BY <1>1
<1>4. PICK middle \in Nat : middle = (n + 1) \div 2 /\ 1 <= middle /\ middle < n
  BY <1>3
<1>5. PICK front \in Seq(Files) : front = SubSeq(items, 1, middle)
  <2>1. 1 \in 1 .. Len(items) + 1 /\ middle \in 0 .. Len(items) /\ 1 <= middle + 1
    BY <1>3, <1>4
  <2> QED
    BY <2>1, SubSeqParts
<1>6. PICK back \in Seq(Files) : back = SubSeq(items, middle + 1, n)
  <2>1. middle + 1 \in 1 .. Len(items) + 1 /\ n \in 0 .. Len(items) /\ middle + 1 <= n + 1
    BY <1>3, <1>4
  <2> QED
    BY <2>1, SubSeqParts
<1>7. Len(front) = middle /\ \A k \in 1 .. middle : front[k] = items[k]
  BY <1>3, <1>4, <1>5, SubSeqParts
<1>8. Len(back) = n - middle /\ \A k \in 1 .. n - middle : back[k] = items[middle + k]
  <2>1. /\ middle + 1 \in 1 .. Len(items) + 1 /\ n \in 0 .. Len(items) /\ middle + 1 <= n + 1
        /\ n - (middle + 1) + 1 = n - middle
    BY <1>3, <1>4
  <2>2. Len(back) = n - middle /\ \A k \in 1 .. n - middle : back[k] = items[middle + 1 + k - 1]
    BY <1>6, <2>1, SubSeqParts
  <2> QED
    BY <1>3, <1>4, <2>2
<1> DEFINE first == [job EXCEPT !.items = front]
           second == [job EXCEPT !.start = start + middle, !.items = back]
<1>9. Halves(job) = <<first, second>>
  BY <1>1, <1>2, <1>3, <1>4, <1>5, <1>6 DEF Halves, Jobs
<1>10. front # <<>> /\ back # <<>>
  BY <1>3, <1>4, <1>7, <1>8
<1>11. first \in Jobs /\ first.start = start /\ first.items = front
  BY <1>2, <1>10 DEF Jobs
<1>12. second \in Jobs /\ second.start = start + middle /\ second.items = back
  <2>1. start + middle \in Nat \ {0}
    BY <1>4
  <2> QED
    BY <1>10, <2>1 DEF Jobs
<1> HIDE DEF first, second
<1>13. ASSUME NEW k \in Nat
       PROVE  One(first.start, first.items, k) + One(second.start, second.items, k) = One(job.start, job.items, k)
  <2>1. Covers(first.start, first.items, k) <=> start <= k /\ k < start + middle
    BY <1>7, <1>11 DEF Covers
  <2>2. Covers(second.start, second.items, k) <=> start + middle <= k /\ k < start + n
    <3>1. start + middle + (n - middle) = start + n
      BY <1>3, <1>4
    <3> QED
      BY <1>8, <1>12, <3>1 DEF Covers
  <2>3. Covers(job.start, job.items, k) <=> start <= k /\ k < start + n
    BY <1>1, <1>2, <1>3 DEF Covers
  <2> QED
    BY <1>3, <1>4, <2>1, <2>2, <2>3 DEF One
<1>14. ASSUME NEW c \in Seq(Files), PartOf(c, job.start, job.items)
       PROVE  PartOf(c, first.start, first.items) /\ PartOf(c, second.start, second.items)
  <2>1. start + n <= Len(c) + 1 /\ \A k \in 1 .. n : items[k] = c[start + k - 1]
    BY <1>1, <1>2, <1>3, <1>14 DEF PartOf
  <2>2. PartOf(c, first.start, first.items)
    BY <1>4, <1>7, <1>10, <1>11, <2>1 DEF PartOf
  <2>3. ASSUME NEW k \in 1 .. n - middle PROVE back[k] = c[start + middle + k - 1]
    <3>1. middle + k \in 1 .. n /\ start + (middle + k) - 1 = start + middle + k - 1
      BY <1>4
    <3> QED
      BY <1>8, <2>1, <3>1
  <2>4. PartOf(c, second.start, second.items)
    <3>1. start + middle + (n - middle) = start + n
      BY <1>3, <1>4
    <3>2. start + middle + Len(back) <= Len(c) + 1
      BY <1>8, <2>1, <3>1
    <3>3. DOMAIN back = 1 .. n - middle
      BY <1>8
    <3> QED
      BY <1>10, <1>12, <2>3, <3>2, <3>3 DEF PartOf
  <2> QED
    BY <2>2, <2>4
<1> QED
  BY <1>9, <1>11, <1>12, <1>13, <1>14

-----------------------------------------------------------------------------
(* The merge of the results.                                               *)

\* g[i] is the first i of the n sequences s, put together.
PutTogether(g, s, n) ==
  /\ DOMAIN s = 1 .. n /\ Len(s) = n /\ DOMAIN g = 1 .. n
  /\ g[1] = s[1] /\ \A i \in 1 .. n : i # 1 => g[i] = g[i - 1] \o s[i]

LEMMA FlattenIs ==
  ASSUME NEW s, NEW n \in Nat \ {0}, NEW g, PutTogether(g, s, n)
  PROVE  FlattenSeq(s) = g[n]
<1>1. /\ DOMAIN s = 1 .. n /\ Len(s) = n /\ DOMAIN g = 1 .. n
      /\ g[1] = s[1] /\ \A i \in 1 .. n : i # 1 => g[i] = g[i - 1] \o s[i]
  BY DEF PutTogether
<1> DEFINE F(f) == f = [i \in 1 .. Len(s) |-> IF i = 1 THEN s[i] ELSE f[i - 1] \o s[i]]
           h == CHOOSE f : F(f)
           T == {i \in Nat : i \in 1 .. n => h[i] = g[i]}
           m == [i \in 1 .. n |-> g[i]]
<1>2. F(m)
  <2>1. \A i \in 1 .. n : m[i] = IF i = 1 THEN s[i] ELSE m[i - 1] \o s[i]
    <3> SUFFICES ASSUME NEW i \in 1 .. n PROVE m[i] = IF i = 1 THEN s[i] ELSE m[i - 1] \o s[i]
      OBVIOUS
    <3>1. m[i] = g[i] /\ (i # 1 => i - 1 \in 1 .. n /\ m[i - 1] = g[i - 1])
      OBVIOUS
    <3> HIDE DEF m
    <3> QED
      BY <1>1, <3>1
  <2>2. DOMAIN m = 1 .. n /\ m = [i \in 1 .. n |-> m[i]]
    OBVIOUS
  <2> HIDE DEF m
  <2> QED
    BY <1>1, <2>1, <2>2
<1>3. F(h)
  <2> HIDE DEF F, m
  <2> QED
    BY <1>2
<1>4. FlattenSeq(s) = h[n]
  <2>1. Len(s) # 0 /\ Len(s) = n
    BY <1>1
  <2> QED
    BY <2>1 DEF FlattenSeq
<1>5. \A i \in 1 .. n : h[i] = IF i = 1 THEN s[i] ELSE h[i - 1] \o s[i]
  <2> HIDE DEF h
  <2> QED
    BY <1>1, <1>3
<1> HIDE DEF h, F, m
<1>6. 0 \in T
  OBVIOUS
<1>7. ASSUME NEW i \in Nat, i \in T PROVE i + 1 \in T
  <2> SUFFICES ASSUME i + 1 \in 1 .. n PROVE h[i + 1] = g[i + 1]
    OBVIOUS
  <2>1. CASE i = 0
    BY <1>1, <1>5, <2>1
  <2>2. CASE i # 0
    <3>1. i \in 1 .. n /\ i + 1 # 1 /\ (i + 1) - 1 = i
      BY <2>2
    <3>2. h[i] = g[i]
      BY <1>7, <3>1
    <3>3. h[i + 1] = h[i] \o s[i + 1] /\ g[i + 1] = g[i] \o s[i + 1]
      BY <1>1, <1>5, <3>1
    <3> QED
      BY <3>2, <3>3
  <2> QED
    BY <2>1, <2>2
<1>8. n \in T
  <2> HIDE DEF T
  <2> QED
    BY <1>6, <1>7, FromZero
<1> QED
  BY <1>4, <1>8

\* The results have every file of the chunk c, each in one of them.
Tiles(rs, c) ==
  /\ \A r \in 1 .. Len(rs) : PartOf(c, rs[r].start, rs[r].data)
  /\ \A k \in 1 .. Len(c) : \E r \in 1 .. Len(rs) :
       \A q \in 1 .. Len(rs) : Covers(rs[q].start, rs[q].data, k) <=> q = r

LEMMA OutcomeParts ==
  ASSUME NEW c \in Seq(Files), NEW rs \in Seq(Outcomes), Tiles(rs, c), NEW r \in 1 .. Len(rs)
  PROVE  /\ rs[r].start \in 1 .. Len(c) /\ rs[r].data \in Seq(Files)
         /\ Len(rs[r].data) \in Nat \ {0} /\ rs[r].start + Len(rs[r].data) <= Len(c) + 1
         /\ Covers(rs[r].start, rs[r].data, rs[r].start)
         /\ \A k \in 1 .. Len(rs[r].data) : rs[r].data[k] = c[rs[r].start + k - 1]
<1>1. rs[r] \in Outcomes
  OBVIOUS
<1>2. PICK p \in Nat \ {0}, d \in Seq(Files) : p = rs[r].start /\ d = rs[r].data
  BY <1>1 DEF Outcomes
<1>3. d # <<>> /\ p + Len(d) <= Len(c) + 1 /\ \A k \in DOMAIN d : d[k] = c[p + k - 1]
  BY <1>2 DEF Tiles, PartOf
<1>4. Len(d) \in Nat \ {0} /\ Len(c) \in Nat
  BY <1>3
<1>5. p \in 1 .. Len(c) /\ Covers(p, d, p)
  BY <1>3, <1>4 DEF Covers
<1> QED
  BY <1>2, <1>3, <1>4, <1>5

\* In the order of the results each one starts where the one before it ends, the
\* first at the first file and the last ending with the last.
LEMMA SortedTile ==
  ASSUME NEW c \in Seq(Files), c # <<>>, NEW rs \in Seq(Outcomes), Tiles(rs, c)
  PROVE  /\ Len(rs) \in Nat \ {0} /\ DOMAIN SortedResults(rs) = 1 .. Len(rs)
         /\ \A n \in 1 .. Len(rs) : \E r \in 1 .. Len(rs) : SortedResults(rs)[n] = rs[r]
         /\ SortedResults(rs)[1].start = 1
         /\ \A n \in 1 .. Len(rs) :
              SortedResults(rs)[n].start + Len(SortedResults(rs)[n].data) =
                IF n = Len(rs) THEN Len(c) + 1 ELSE SortedResults(rs)[n + 1].start
<1>1. PICK N \in Nat : N = Len(rs)
  OBVIOUS
<1> DEFINE St(r) == rs[r].start
           End(r) == rs[r].start + Len(rs[r].data)
           K == {St(r) : r \in 1 .. N}
<1>2. /\ Len(c) \in Nat \ {0}
      /\ \A r \in 1 .. N : St(r) \in 1 .. Len(c) /\ End(r) \in 1 .. Len(c) + 1 /\ St(r) < End(r)
      /\ \A r \in 1 .. N, k \in 1 .. Len(c) : Covers(rs[r].start, rs[r].data, k) <=> St(r) <= k /\ k < End(r)
  <2>1. Len(c) \in Nat \ {0}
    OBVIOUS
  <2>2. ASSUME NEW r \in 1 .. N
        PROVE  /\ St(r) \in 1 .. Len(c) /\ End(r) \in 1 .. Len(c) + 1 /\ St(r) < End(r)
               /\ \A k \in 1 .. Len(c) : Covers(rs[r].start, rs[r].data, k) <=> St(r) <= k /\ k < End(r)
    <3>1. PICK p \in 1 .. Len(c), m \in Nat \ {0} : p = rs[r].start /\ m = Len(rs[r].data) /\ p + m <= Len(c) + 1
      BY <1>1, OutcomeParts
    <3>2. \A k \in 1 .. Len(c) : Covers(rs[r].start, rs[r].data, k) <=> p <= k /\ k < p + m
      BY <3>1 DEF Covers
    <3> QED
      BY <2>1, <3>1, <3>2
  <2> QED
    BY <2>1, <2>2
<1>3. ASSUME NEW k \in 1 .. Len(c)
      PROVE  \E r \in 1 .. N : \A q \in 1 .. N : (St(q) <= k /\ k < End(q)) <=> q = r
  <2>1. PICK r \in 1 .. N : \A q \in 1 .. N : Covers(rs[q].start, rs[q].data, k) <=> q = r
    BY <1>1 DEF Tiles
  <2> QED
    BY <1>2, <2>1
<1> HIDE DEF St, End
<1>4. \A p, q \in 1 .. N, k \in 1 .. Len(c) :
        St(p) <= k /\ k < End(p) /\ St(q) <= k /\ k < End(q) => p = q
  BY <1>3
<1>5. \A p, q \in 1 .. N : St(p) = St(q) => p = q
  <2> SUFFICES ASSUME NEW p \in 1 .. N, NEW q \in 1 .. N, St(p) = St(q) PROVE p = q
    OBVIOUS
  <2>1. St(p) \in 1 .. Len(c) /\ St(p) < End(p) /\ St(q) < End(q) /\ St(p) <= St(p)
    BY <1>2
  <2> QED
    BY <1>4, <2>1
<1>6. K \in SUBSET (1 .. Len(c)) /\ K \in SUBSET Nat /\ IsFiniteSet(K) /\ IsFiniteSet(1 .. N) /\ Cardinality(1 .. N) = N
  <2>1. K \in SUBSET (1 .. Len(c))
    BY <1>2
  <2>2. IsFiniteSet(1 .. Len(c)) /\ IsFiniteSet(1 .. N) /\ Cardinality(1 .. N) = N
    <3>1. Len(c) \in Int /\ N \in Int /\ 1 \in Int /\ (1 > N => N = 0) /\ N - 1 + 1 = N
      BY <1>2
    <3>2. Cardinality(1 .. N) = IF 1 > N THEN 0 ELSE N - 1 + 1
      BY <3>1, FS_Interval
    <3>3. IsFiniteSet(1 .. Len(c)) /\ IsFiniteSet(1 .. N)
      BY <3>1, FS_Interval
    <3> QED
      BY <3>1, <3>2, <3>3
  <2> HIDE DEF K
  <2>3. K \in SUBSET Nat
    BY <1>2, <2>1
  <2> QED
    BY <2>1, <2>2, <2>3, FS_Subset
\* A result is at the place of its start among the starts.
<1>7. ASSUME NEW A \in SUBSET (1 .. N) PROVE Cardinality({St(r) : r \in A}) = Cardinality(A)
  <2> DEFINE f == [r \in A |-> St(r)]
             B == {St(r) : r \in A}
  <2>1. f \in [A -> B]
    OBVIOUS
  <2>2. \A p, q \in A : f[p] = f[q] => p = q
    BY <1>5
  <2>3. \A m \in B : \E r \in A : f[r] = m
    OBVIOUS
  <2>4. IsFiniteSet(A)
    BY <1>6, FS_Subset
  <2> HIDE DEF f, B
  <2>5. f \in Bijection(A, B)
    BY <2>1, <2>2, <2>3 DEF Bijection, Injection, Surjection, IsInjective
  <2>6. Cardinality(B) = Cardinality(A)
    BY <2>4, <2>5, FS_Bijection DEF ExistsBijection
  <2> QED
    BY <2>6 DEF B
<1>8. Cardinality(K) = N
  BY <1>6, <1>7
<1> DEFINE Before(j, k) == rs[j].start < rs[k].start \/ (rs[j].start = rs[k].start /\ j <= k)
           Place(k) == Cardinality({j \in DOMAIN rs : Before(j, k)})
<1>9. ASSUME NEW k \in 1 .. N PROVE Place(k) = Rank(K, St(k))
  <2> DEFINE A == {j \in 1 .. N : St(j) <= St(k)}
  <2>1. ASSUME NEW j \in 1 .. N PROVE Before(j, k) <=> St(j) <= St(k)
    <3>1. St(j) \in Nat /\ St(k) \in Nat /\ j \in Nat /\ (St(j) = St(k) => j = k)
      BY <1>2, <1>5
    <3>2. rs[j].start = St(j) /\ rs[k].start = St(k)
      BY DEF St
    <3> QED
      BY <3>1, <3>2
  <2>2. {j \in DOMAIN rs : Before(j, k)} = A
    <3>1. DOMAIN rs = 1 .. N
      BY <1>1
    <3> HIDE DEF Before
    <3> QED
      BY <2>1, <3>1
  <2>3. {j \in K : j <= St(k)} = {St(r) : r \in A}
    OBVIOUS
  <2>4. A \in SUBSET (1 .. N)
    OBVIOUS
  <2> HIDE DEF A, K, Before
  <2>5. Cardinality({St(r) : r \in A}) = Cardinality(A)
    BY <1>7, <2>4
  <2> QED
    BY <2>2, <2>3, <2>5 DEF Rank
<1> HIDE DEF Before
<1>10. /\ \A j, k \in K : j < k => Rank(K, j) < Rank(K, k)
       /\ \A n \in 1 .. N : Nth(K, n) \in K /\ Rank(K, Nth(K, n)) = n
       /\ \A m \in Nat : Rank(K, m) \in 0 .. N
       /\ \A j \in K, m \in Nat : j <= m <=> Rank(K, j) <= Rank(K, m)
  <2> HIDE DEF K
  <2> QED
    BY <1>6, <1>8, Ranks
<1> DEFINE P(n) == CHOOSE k \in DOMAIN rs : Place(k) = n
<1>11. \A n \in 1 .. N : \E r \in 1 .. N : St(r) = Nth(K, n)
  BY <1>10
<1>12. ASSUME NEW n \in 1 .. N PROVE P(n) \in 1 .. N /\ Rank(K, St(P(n))) = n
  <2>1. DOMAIN rs = 1 .. N
    BY <1>1
  <2>2. PICK r \in 1 .. N : St(r) = Nth(K, n)
    BY <1>11
  <2> HIDE DEF K, Place
  <2>3. Place(r) = n
    BY <1>9, <1>10, <2>2
  <2>4. P(n) \in 1 .. N /\ Place(P(n)) = n
    BY <2>1, <2>3
  <2> HIDE DEF P
  <2> QED
    BY <1>9, <2>4
<1>13. /\ DOMAIN SortedResults(rs) = 1 .. N
       /\ \A n \in 1 .. N : SortedResults(rs)[n] = rs[P(n)]
  <2>1. SortedResults(rs) = [n \in DOMAIN rs |-> rs[P(n)]]
    BY DEF SortedResults, Before
  <2>2. DOMAIN rs = 1 .. N
    BY <1>1
  <2> HIDE DEF P
  <2> QED
    BY <2>1, <2>2
<1> HIDE DEF P, Place
<1>14. \A r \in 1 .. N : St(r) \in K
  OBVIOUS
<1>15. \A x \in K : \E r \in 1 .. N : St(r) = x
  OBVIOUS
<1>16. \A x \in K : x \in 1 .. Len(c)
  BY <1>6
<1> HIDE DEF K
\* No result starts inside another one, and one starts where another ends.
<1>17. ASSUME NEW r \in 1 .. N, NEW x \in K, St(r) < x PROVE End(r) <= x
  <2>1. PICK q \in 1 .. N : St(q) = x
    BY <1>15
  <2>2. /\ x \in 1 .. Len(c) /\ x \in Nat /\ x < End(q) /\ End(q) \in Nat
        /\ St(r) \in Nat /\ End(r) \in Nat /\ St(r) < End(r)
    BY <1>2, <1>16, <2>1
  <2>3. q # r
    BY <1>17, <2>1, <2>2
  <2>4. ~ (x < End(r))
    <3> SUFFICES ASSUME x < End(r) PROVE FALSE
      OBVIOUS
    <3>1. St(r) <= x /\ St(q) <= x
      BY <1>17, <2>1, <2>2
    <3> QED
      BY <1>4, <2>2, <2>3, <3>1
  <2> QED
    BY <2>2, <2>4
<1>18. ASSUME NEW r \in 1 .. N, End(r) <= Len(c) PROVE End(r) \in K
  <2>1. /\ St(r) \in 1 .. Len(c) /\ St(r) < End(r) /\ End(r) \in 1 .. Len(c) /\ St(r) \in Nat /\ End(r) \in Nat
    BY <1>2, <1>18
  <2>2. PICK q \in 1 .. N : St(q) <= End(r) /\ End(r) < End(q)
    BY <1>3, <2>1
  <2>3. St(q) \in Nat /\ End(q) \in Nat /\ St(q) \in K
    BY <1>2, <1>14
  <2>4. CASE St(q) = End(r)
    BY <2>3, <2>4
  <2>5. CASE St(q) < End(r)
    <3>1. St(q) <= St(r)
      <4>1. CASE St(r) < St(q)
        BY <1>17, <2>1, <2>3, <2>5, <4>1
      <4> QED
        BY <2>1, <2>3, <4>1
    <3>2. St(r) < End(q) /\ St(r) <= St(r)
      BY <2>1, <2>2, <2>3
    <3>3. q = r
      BY <1>4, <2>1, <3>1, <3>2
    <3> QED
      BY <2>1, <2>2, <3>3
  <2> QED
    BY <2>1, <2>2, <2>3, <2>4, <2>5
<1>19. 1 \in K /\ N \in Nat \ {0}
  <2>1. 1 \in 1 .. Len(c)
    BY <1>2
  <2>2. PICK q \in 1 .. N : St(q) <= 1
    BY <1>3, <2>1
  <2>3. St(q) = 1
    BY <1>2, <2>2
  <2> QED
    BY <1>14, <2>2, <2>3
<1>20. St(P(1)) = 1
  <2>1. P(1) \in 1 .. N /\ Rank(K, St(P(1))) = 1
    BY <1>12, <1>19
  <2>2. PICK x \in K : x = St(P(1))
    BY <1>14, <2>1
  <2>3. \A k \in K : Rank(K, k) >= 1
    <3> SUFFICES ASSUME NEW k \in K PROVE Rank(K, k) >= 1
      OBVIOUS
    <3>1. 1 <= k /\ k \in Nat
      BY <1>16
    <3>2. Rank(K, 1) <= Rank(K, k) /\ Rank(K, 1) <= Rank(K, 1) /\ Rank(K, 1) \in Nat /\ Rank(K, k) \in Nat
      BY <1>10, <1>19, <3>1
    <3>3. Rank(K, 1) # 0
      <4>1. ~ (1 <= 0)
        OBVIOUS
      <4>2. 0 \in Nat /\ (1 <= 0 <=> Rank(K, 1) <= Rank(K, 0)) /\ Rank(K, 0) \in Nat
        BY <1>10, <1>19
      <4> QED
        BY <4>1, <4>2
    <3> QED
      BY <3>2, <3>3
  <2>4. x <= 1
    <3>1. Rank(K, 1) >= 1 /\ Rank(K, 1) \in Nat
      BY <1>10, <1>19, <2>3
    <3>2. x <= 1 <=> Rank(K, x) <= Rank(K, 1)
      BY <1>10
    <3>3. Rank(K, x) = 1
      BY <2>1, <2>2
    <3> QED
      BY <3>1, <3>2, <3>3
  <2> QED
    BY <1>16, <2>2, <2>4
<1>21. ASSUME NEW n \in 1 .. N
       PROVE  End(P(n)) = IF n = N THEN Len(c) + 1 ELSE St(P(n + 1))
  <2>1. PICK r \in 1 .. N : r = P(n) /\ Rank(K, St(r)) = n
    BY <1>12
  <2>2. /\ St(r) \in K /\ St(r) \in Nat /\ End(r) \in Nat /\ St(r) < End(r) /\ End(r) <= Len(c) + 1
        /\ n \in Nat /\ Len(c) \in Nat /\ N \in Nat
    BY <1>2, <1>14
  <2>3. ASSUME End(r) \in K PROVE n < Rank(K, End(r)) /\ Rank(K, End(r)) \in 0 .. N
    BY <1>10, <2>1, <2>2, <2>3
  <2>4. CASE n = N
    <3>1. End(r) \notin K
      BY <2>2, <2>3, <2>4
    <3>2. ~ (End(r) <= Len(c))
      BY <1>18, <3>1
    <3> QED
      BY <2>1, <2>2, <2>4, <3>2
  <2>5. CASE n # N
    <3>1. n + 1 \in 1 .. N
      BY <2>2, <2>5
    <3>2. PICK q \in 1 .. N : q = P(n + 1) /\ Rank(K, St(q)) = n + 1
      BY <1>12, <3>1
    <3>3. St(q) \in K /\ St(q) \in 1 .. Len(c) /\ St(q) \in Nat
      BY <1>2, <1>14
    <3>4. St(r) < St(q)
      <4>1. St(q) <= St(r) <=> Rank(K, St(q)) <= Rank(K, St(r))
        BY <1>10, <2>2, <3>3
      <4>2. ~ (n + 1 <= n)
        BY <2>2
      <4> QED
        BY <2>1, <2>2, <3>2, <3>3, <4>1, <4>2
    <3>5. End(r) <= St(q)
      BY <1>17, <3>3, <3>4
    <3>6. End(r) \in K
      <4>1. End(r) <= Len(c)
        BY <2>2, <3>3, <3>5
      <4> QED
        BY <1>18, <4>1
    <3>7. St(q) <= End(r)
      <4>1. St(q) <= End(r) <=> Rank(K, St(q)) <= Rank(K, End(r))
        BY <1>10, <2>2, <3>3
      <4>2. n + 1 <= Rank(K, End(r))
        BY <2>2, <2>3, <3>6
      <4> QED
        BY <3>2, <4>1, <4>2
    <3> QED
      BY <2>1, <2>2, <2>5, <3>2, <3>3, <3>5, <3>7
  <2> QED
    BY <2>4, <2>5
<1>22. \A n \in 1 .. N : P(n) \in 1 .. N /\ (n # N => n + 1 \in 1 .. N)
  BY <1>12, <1>19
<1>23. Len(rs) \in Nat \ {0} /\ DOMAIN SortedResults(rs) = 1 .. Len(rs)
  BY <1>1, <1>13, <1>19
<1>24. \A n \in 1 .. Len(rs) : \E r \in 1 .. Len(rs) : SortedResults(rs)[n] = rs[r]
  BY <1>1, <1>13, <1>22
<1>25. SortedResults(rs)[1].start = 1
  BY <1>13, <1>19, <1>20 DEF St
<1>26. ASSUME NEW n \in 1 .. Len(rs)
       PROVE  SortedResults(rs)[n].start + Len(SortedResults(rs)[n].data) =
                IF n = Len(rs) THEN Len(c) + 1 ELSE SortedResults(rs)[n + 1].start
  <2>1. n \in 1 .. N /\ End(P(n)) = IF n = N THEN Len(c) + 1 ELSE St(P(n + 1))
    BY <1>1, <1>21
  <2>2. SortedResults(rs)[n] = rs[P(n)] /\ (n # N => SortedResults(rs)[n + 1] = rs[P(n + 1)])
    BY <1>13, <1>22, <2>1
  <2> QED
    BY <1>1, <2>1, <2>2 DEF St, End
<1> QED
  BY <1>23, <1>24, <1>25, <1>26

LEMMA LastPlace ==
  ASSUME NEW q \in Nat, NEW p \in 1 .. q, NEW m \in Nat \ {0}, p + m <= q + 1
  PROVE  p + m - 1 \in 1 .. q /\ p - 1 \in Nat /\ p - 1 + m = p + m - 1
OBVIOUS

\* Merged in the order of their places, the results are the chunk.
LEMMA MergeIsChunk ==
  ASSUME NEW c \in Seq(Files), c # <<>>, NEW rs \in Seq(Outcomes), Tiles(rs, c)
  PROVE  FlattenSeq([k \in DOMAIN rs |-> SortedResults(rs)[k].data]) = c
<1>1. PICK N \in Nat \ {0} : N = Len(rs)
  BY SortedTile
<1>2. PICK t : t = SortedResults(rs)
  OBVIOUS
<1>3. /\ DOMAIN rs = 1 .. N /\ DOMAIN t = 1 .. N
      /\ \A n \in 1 .. N : \E r \in 1 .. N : t[n] = rs[r]
      /\ t[1].start = 1
      /\ \A n \in 1 .. N : t[n].start + Len(t[n].data) = IF n = N THEN Len(c) + 1 ELSE t[n + 1].start
  <2>1. DOMAIN rs = 1 .. Len(rs)
    OBVIOUS
  <2>2. /\ DOMAIN t = 1 .. Len(rs)
        /\ \A n \in 1 .. Len(rs) : \E r \in 1 .. Len(rs) : t[n] = rs[r]
        /\ t[1].start = 1
        /\ \A n \in 1 .. Len(rs) :
             t[n].start + Len(t[n].data) = IF n = Len(rs) THEN Len(c) + 1 ELSE t[n + 1].start
    BY <1>2, SortedTile
  <2> QED
    BY <1>1, <2>1, <2>2
<1>4. ASSUME NEW n \in 1 .. N
      PROVE  /\ t[n].start \in 1 .. Len(c) /\ t[n].data \in Seq(Files) /\ Len(t[n].data) \in Nat \ {0}
             /\ t[n].start + Len(t[n].data) <= Len(c) + 1
             /\ \A k \in 1 .. Len(t[n].data) : t[n].data[k] = c[t[n].start + k - 1]
  <2>1. PICK r \in 1 .. Len(rs) : t[n] = rs[r]
    BY <1>1, <1>3
  <2> QED
    BY <2>1, OutcomeParts
<1> DEFINE s == [k \in 1 .. N |-> t[k].data]
           Upto(n) == t[n].start + Len(t[n].data) - 1
           g == [n \in 1 .. N |-> SubSeq(c, 1, Upto(n))]
<1>5. s = [k \in DOMAIN rs |-> SortedResults(rs)[k].data]
  BY <1>2, <1>3
<1>6. Len(c) \in Nat /\ \A n \in 1 .. N : Upto(n) \in 1 .. Len(c)
  <2>1. Len(c) \in Nat
    OBVIOUS
  <2>2. ASSUME NEW n \in 1 .. N PROVE Upto(n) \in 1 .. Len(c)
    <3>1. PICK p \in 1 .. Len(c), m \in Nat \ {0} : p = t[n].start /\ m = Len(t[n].data) /\ p + m <= Len(c) + 1
      BY <1>4
    <3>2. p + m - 1 \in 1 .. Len(c)
      BY <2>1, <3>1, LastPlace
    <3> QED
      BY <3>1, <3>2
  <2> QED
    BY <2>1, <2>2
<1>7. ASSUME NEW n \in 1 .. N
      PROVE  /\ SubSeq(c, 1, Upto(n)) \in Seq(Files) /\ Len(SubSeq(c, 1, Upto(n))) = Upto(n)
             /\ \A k \in 1 .. Upto(n) : SubSeq(c, 1, Upto(n))[k] = c[k]
  <2>1. PICK m \in 1 .. Len(c) : m = Upto(n)
    BY <1>6
  <2>2. /\ SubSeq(c, 1, m) \in Seq(Files) /\ Len(SubSeq(c, 1, m)) = m - 1 + 1
        /\ \A k \in 1 .. m - 1 + 1 : SubSeq(c, 1, m)[k] = c[1 + k - 1]
    <3>1. 1 \in 1 .. Len(c) + 1 /\ m \in 0 .. Len(c) /\ 1 <= m + 1
      BY <1>6
    <3> QED
      BY <3>1, SubSeqParts
  <2>3. m - 1 + 1 = m /\ \A k \in 1 .. m : 1 + k - 1 = k
    BY <1>6
  <2> HIDE DEF Upto
  <2> QED
    BY <2>1, <2>2, <2>3
<1>8. g[1] = s[1]
  <2>1. 1 \in 1 .. N /\ t[1].start = 1
    BY <1>3
  <2>2. PICK d \in Seq(Files) : d = t[1].data /\ Len(d) \in Nat \ {0} /\ \A k \in 1 .. Len(d) : d[k] = c[1 + k - 1]
    BY <1>4, <2>1
  <2>3. Upto(1) = Len(d)
    BY <2>1, <2>2
  <2>4. PICK e \in Seq(Files) : e = SubSeq(c, 1, Upto(1)) /\ Len(e) = Upto(1) /\ \A k \in 1 .. Upto(1) : e[k] = c[k]
    BY <1>7, <2>1
  <2> HIDE DEF Upto
  <2>5. \A k \in 1 .. Len(d) : d[k] = e[k]
    <3> SUFFICES ASSUME NEW k \in 1 .. Len(d) PROVE d[k] = e[k]
      OBVIOUS
    <3>1. 1 + k - 1 = k
      BY <2>2
    <3> QED
      BY <2>2, <2>3, <2>4, <3>1
  <2>6. d = e
    BY <2>3, <2>4, <2>5, SeqEqual
  <2> QED
    BY <2>1, <2>2, <2>4, <2>6
<1>9. ASSUME NEW n \in 1 .. N, n # 1 PROVE g[n] = g[n - 1] \o s[n]
  <2>1. n - 1 \in 1 .. N /\ n - 1 # N /\ (n - 1) + 1 = n
    BY <1>1, <1>9
  <2>2. PICK d \in Seq(Files), p \in 1 .. Len(c) :
          /\ d = t[n].data /\ p = t[n].start /\ Len(d) \in Nat \ {0}
          /\ \A k \in 1 .. Len(d) : d[k] = c[p + k - 1]
    BY <1>4
  <2>3. Upto(n - 1) = p - 1 /\ Upto(n) = p + Len(d) - 1
    <3>1. t[n - 1].start + Len(t[n - 1].data) = p
      BY <1>3, <2>1, <2>2
    <3>2. PICK x \in Nat, y \in Nat : x = t[n - 1].start /\ y = Len(t[n - 1].data)
      <4>1. t[n - 1].start \in 1 .. Len(c) /\ Len(t[n - 1].data) \in Nat \ {0}
        BY <1>4, <2>1
      <4> QED
        BY <1>6, <4>1
    <3>3. Upto(n - 1) = x + y - 1
      BY <3>2
    <3>4. x + y = p
      BY <3>1, <3>2
    <3>5. Upto(n) = p + Len(d) - 1
      BY <2>2
    <3> QED
      BY <3>3, <3>4, <3>5
  <2> HIDE DEF Upto
  <2>4. PICK e \in Seq(Files) :
          e = SubSeq(c, 1, Upto(n)) /\ Len(e) = Upto(n) /\ \A k \in 1 .. Upto(n) : e[k] = c[k]
    BY <1>7
  <2>5. PICK f \in Seq(Files) :
          f = SubSeq(c, 1, Upto(n - 1)) /\ Len(f) = Upto(n - 1) /\ \A k \in 1 .. Upto(n - 1) : f[k] = c[k]
    BY <1>7, <2>1
  <2>6. Upto(n) \in Nat /\ Upto(n - 1) \in Nat
    BY <1>6, <2>1
  <2>7. PICK l \in Nat, m \in Nat : l = Len(d) /\ m = Len(f) /\ m = p - 1 /\ Len(e) = m + l /\ Upto(n) = m + l /\ Upto(n - 1) = m
    <3>1. PICK l \in Nat : l = Len(d)
      BY <2>2
    <3>2. p \in Nat /\ p - 1 \in Nat /\ p + l - 1 = (p - 1) + l
      BY <1>6
    <3> QED
      BY <2>3, <2>4, <2>5, <3>1, <3>2
  <2>8. f \o d \in Seq(Files) /\ Len(f \o d) = Len(e)
    BY <2>7, ConcatProperties
  <2>9. ASSUME NEW k \in 1 .. Len(e) PROVE (f \o d)[k] = e[k]
    <3>1. k \in 1 .. Upto(n) /\ e[k] = c[k]
      BY <2>4
    <3>2. CASE k <= Len(f)
      <4>1. k \in 1 .. Upto(n - 1) /\ f[k] = c[k]
        BY <2>5, <2>7, <3>1, <3>2
      <4>2. (f \o d)[k] = f[k]
        BY <2>5, <4>1
      <4> QED
        BY <3>1, <4>1, <4>2
    <3>3. CASE k > Len(f)
      <4>1. k - m \in 1 .. l /\ p + (k - m) - 1 = k
        BY <1>6, <2>7, <3>1, <3>3
      <4>2. (f \o d)[k] = d[k - m]
        <5>1. k \in 1 .. Len(f) + Len(d) /\ ~ (k <= Len(f))
          BY <2>7, <3>1, <3>3
        <5> QED
          BY <2>7, <5>1, ConcatProperties
      <4> QED
        BY <2>2, <2>7, <3>1, <4>1, <4>2
    <3>4. k <= Len(f) \/ k > Len(f)
      BY <2>7
    <3> QED
      BY <3>2, <3>3, <3>4
  <2>10. f \o d = e
    BY <2>8, <2>9, SeqEqual
  <2> QED
    BY <2>1, <2>2, <2>4, <2>5, <2>10
<1>10. DOMAIN s = 1 .. N /\ Len(s) = N /\ DOMAIN g = 1 .. N
  BY <1>1
<1>11. g[N] = c
  <2>1. N \in 1 .. N
    BY <1>1
  <2>2. Upto(N) = Len(c)
    <3>1. t[N].start + Len(t[N].data) = Len(c) + 1
      BY <1>3, <2>1
    <3>2. PICK x \in Nat, y \in Nat : x = t[N].start /\ y = Len(t[N].data)
      <4>1. t[N].start \in 1 .. Len(c) /\ Len(t[N].data) \in Nat \ {0}
        BY <1>4, <2>1
      <4> QED
        BY <1>6, <4>1
    <3>3. Upto(N) = x + y - 1
      BY <3>2
    <3>4. x + y = Len(c) + 1
      BY <3>1, <3>2
    <3> QED
      BY <1>6, <3>3, <3>4
  <2>3. SubSeq(c, 1, Len(c)) = c
    OBVIOUS
  <2> HIDE DEF Upto
  <2> QED
    BY <2>1, <2>2, <2>3
<1> HIDE DEF s, g, Upto
<1>12. FlattenSeq(s) = g[N]
  <2>1. \A n \in 1 .. N : n # 1 => g[n] = g[n - 1] \o s[n]
    BY <1>9
  <2>2. PutTogether(g, s, N)
    BY <1>8, <1>10, <2>1 DEF PutTogether
  <2> QED
    BY <2>2, FlattenIs
<1> QED
  BY <1>5, <1>11, <1>12

-----------------------------------------------------------------------------
(* The inductive invariant.                                                *)

SlotRecords ==
  [at : {"idle", "terminating", "starting"}, job : {NoJob}] \cup
  [at : {"parsing", "flushing"}, job : Jobs]
ThreadStates == {"ready", "parsing", "done", "error", "flushing", "result", "gone"}
ThreadRecords == [at : ThreadStates, acc : Seq(Files), dying : BOOLEAN]

LoopTypes ==
  /\ phase \in {"next", "dispatch", "closing", "closed"} /\ chunk \in Nat \ {0}
  /\ stopped \in BOOLEAN /\ poolBroken \in BOOLEAN
QueueTypes == jobs \in Seq(Jobs) /\ results \in Seq(Outcomes) /\ active \in Int
WorkerTypes == slot \in [Indices -> SlotRecords] /\ thread \in [Indices -> ThreadRecords]

\* A dispatch that has not stopped is the one the loop awaits; a stopped one that it
\* still awaits has failed.
Phases ==
  /\ ~stopped => phase = "dispatch" /\ ~poolBroken
  /\ phase = "dispatch" => chunk <= Len(Chunks)
  /\ phase = "dispatch" /\ stopped => poolBroken

\* What thread i has of the job that runWorker(i) is at.
Stage(i) ==
  /\ slot[i].at = "idle" => thread[i].at \in {"ready", "gone"} /\ thread[i].acc = <<>>
  /\ slot[i].at = "parsing" =>
       /\ thread[i].at \in {"parsing", "done", "error", "gone"}
       /\ thread[i].at = "parsing" => thread[i].acc = <<>>
       /\ thread[i].at = "done" => thread[i].acc = slot[i].job.items
  /\ slot[i].at = "flushing" =>
       thread[i].at \in {"flushing", "result"} /\ thread[i].acc = slot[i].job.items
Stages == ~stopped => \A i \in Indices : Stage(i)

Rested(i) == slot[i] = Idle /\ thread[i].at \in {"ready", "gone"} /\ thread[i].acc = <<>>
Clean == stopped /\ ~poolBroken => \A i \in Indices : Rested(i)

\* What is queued, held and done are parts of the chunk.
QueuePieces == ~stopped => \A q \in 1 .. Len(jobs) : PartOf(Chunks[chunk], jobs[q].start, jobs[q].items)
HeldPieces ==
  ~stopped => \A i \in Indices : Busy(i) => PartOf(Chunks[chunk], slot[i].job.start, slot[i].job.items)
DonePieces ==
  ~stopped => \A r \in 1 .. Len(results) : PartOf(Chunks[chunk], results[r].start, results[r].data)

\* WorkConserved.
Conserved ==
  ~stopped => \A k \in 1 .. Len(Chunks[chunk]) :
    Cardinality(CoveredIn(jobs, k)) + Cardinality(HeldIn(slot, k)) + Cardinality(DoneAmong(results, k)) = 1

AtWork(slots) == {i \in Indices : slots[i].at # "idle"}
\* ActiveCounts.
Counted == ~stopped => active = Cardinality(AtWork(slot))

Types == LoopTypes /\ QueueTypes /\ WorkerTypes
Pieces == QueuePieces /\ HeldPieces /\ DonePieces
IInv == Types /\ Phases /\ Stages /\ Clean /\ Pieces /\ Conserved /\ Counted

-----------------------------------------------------------------------------
(* Records.                                                                *)

LEMMA SlotParts ==
  \A r \in SlotRecords :
    /\ r.at \in {"idle", "terminating", "starting", "parsing", "flushing"}
    /\ r.at \in {"parsing", "flushing"} => r.job \in Jobs
    /\ r.at \in {"idle", "terminating", "starting"} => r.job = NoJob
    /\ r.at = "idle" => r = Idle
<1> SUFFICES ASSUME NEW r \in SlotRecords
             PROVE  /\ r.at \in {"idle", "terminating", "starting", "parsing", "flushing"}
                    /\ r.at \in {"parsing", "flushing"} => r.job \in Jobs
                    /\ r.at \in {"idle", "terminating", "starting"} => r.job = NoJob
                    /\ r.at = "idle" => r = Idle
  OBVIOUS
<1>1. CASE r \in [at : {"idle", "terminating", "starting"}, job : {NoJob}]
  BY <1>1 DEF Idle
<1>2. CASE r \in [at : {"parsing", "flushing"}, job : Jobs]
  BY <1>2
<1> QED
  BY <1>1, <1>2 DEF SlotRecords

LEMMA SlotsAre ==
  /\ Idle \in SlotRecords
  /\ [at |-> "terminating", job |-> NoJob] \in SlotRecords
  /\ [at |-> "starting", job |-> NoJob] \in SlotRecords
  /\ \A j \in Jobs : [at |-> "parsing", job |-> j] \in SlotRecords /\ [at |-> "flushing", job |-> j] \in SlotRecords
BY DEF Idle, SlotRecords

LEMMA ThreadParts ==
  \A t \in ThreadRecords : t.at \in ThreadStates /\ t.acc \in Seq(Files) /\ t.dying \in BOOLEAN
BY DEF ThreadRecords

LEMMA ThreadsAre ==
  /\ Gone \in ThreadRecords /\ Gone.at = "gone" /\ Gone.acc = <<>>
  /\ Fresh \in ThreadRecords /\ Fresh.at = "ready" /\ Fresh.acc = <<>>
BY DEF Gone, Fresh, ThreadRecords, ThreadStates

LEMMA ThreadChanged ==
  ASSUME NEW t \in ThreadRecords, NEW a \in ThreadStates
  PROVE  /\ [t EXCEPT !.at = a] \in ThreadRecords
         /\ [t EXCEPT !.at = a].at = a /\ [t EXCEPT !.at = a].acc = t.acc
         /\ [t EXCEPT !.dying = TRUE] \in ThreadRecords
         /\ [t EXCEPT !.dying = TRUE].at = t.at /\ [t EXCEPT !.dying = TRUE].acc = t.acc
BY DEF ThreadRecords

LEMMA Posted ==
  ASSUME NEW t \in ThreadRecords
  PROVE  /\ Post(t, "parsing") \in ThreadRecords /\ Post(t, "parsing").acc = t.acc
         /\ Post(t, "parsing").at = IF t.at = "gone" THEN "gone" ELSE "parsing"
<1>1. "parsing" \in ThreadStates
  BY DEF ThreadStates
<1>2. /\ [t EXCEPT !.at = "parsing"] \in ThreadRecords
      /\ [t EXCEPT !.at = "parsing"].at = "parsing" /\ [t EXCEPT !.at = "parsing"].acc = t.acc
  BY <1>1, ThreadChanged
<1> QED
  BY <1>2 DEF Post

LEMMA InitInv == Init => IInv
<1> SUFFICES ASSUME Init PROVE IInv
  OBVIOUS
<1>1. LoopTypes /\ QueueTypes
  <2>1. LoopTypes
    <3>1. phase \in {"next", "dispatch", "closing", "closed"} /\ chunk \in Nat \ {0}
      BY DEF Init
    <3>2. stopped \in BOOLEAN /\ poolBroken \in BOOLEAN
      BY Zenon DEF Init
    <3> QED
      BY <3>1, <3>2, Zenon DEF LoopTypes
  <2>2. jobs \in Seq(Jobs) /\ results \in Seq(Outcomes)
    BY DEF Init
  <2>3. active \in Int
    BY DEF Init
  <2> QED
    BY <2>1, <2>2, <2>3 DEF QueueTypes
<1>2. WorkerTypes
  BY SlotsAre, ThreadsAre DEF Init, WorkerTypes
<1>3. Phases /\ Stages /\ Pieces /\ Conserved /\ Counted
  BY DEF Init, Phases, Stages, Pieces, QueuePieces, HeldPieces, DonePieces, Conserved, Counted
<1>4. Clean
  BY ThreadsAre DEF Init, Clean, Rested
<1> QED
  BY <1>1, <1>2, <1>3, <1>4 DEF IInv, Types

-----------------------------------------------------------------------------
(* Steps of kinds that many actions are of.                                *)

\* A step that leaves the pool broken and the loop where it is.
LEMMA FailedStep ==
  ASSUME IInv, Types', stopped', poolBroken', phase' = phase, chunk' = chunk
  PROVE  IInv'
<1>1. Phases'
  BY DEF IInv, Phases
<1>2. Stages' /\ Clean' /\ Pieces' /\ Conserved' /\ Counted'
  BY DEF Stages, Clean, Pieces, QueuePieces, HeldPieces, DonePieces, Conserved, Counted
<1> QED
  BY <1>1, <1>2 DEF IInv

\* A step that moves the loop when no dispatch runs.
LEMMA LoopMoves ==
  ASSUME IInv, stopped, UNCHANGED <<dispatchVars, poolBroken>>,
         LoopTypes', phase' # "dispatch", thread' = thread
  PROVE  IInv'
<1>1. Types' /\ Phases'
  BY DEF IInv, Types, QueueTypes, WorkerTypes, Phases, dispatchVars
<1>2. Stages' /\ Pieces' /\ Conserved' /\ Counted'
  BY DEF Stages, Pieces, QueuePieces, HeldPieces, DonePieces, Conserved, Counted, dispatchVars
<1>3. Clean'
  BY DEF IInv, Clean, Rested, dispatchVars
<1> QED
  BY <1>1, <1>2, <1>3 DEF IInv

\* A step of a thread.
LEMMA ThreadMoves ==
  ASSUME IInv, UNCHANGED <<phase, chunk, slot, jobs, results, active, stopped, poolBroken>>,
         NEW i \in Indices, thread' \in [Indices -> ThreadRecords],
         \A j \in Indices : j # i => thread'[j] = thread[j],
         ~stopped => Stage(i)',
         stopped /\ ~poolBroken => Rested(i)'
  PROVE  IInv'
<1>1. Types' /\ Phases'
  BY DEF IInv, Types, LoopTypes, QueueTypes, WorkerTypes, Phases
<1>2. Pieces' /\ Conserved' /\ Counted'
  BY DEF IInv, Pieces, QueuePieces, HeldPieces, DonePieces, Conserved, Counted, Busy
<1>3. Stages'
  BY DEF IInv, Stages, Stage
<1>4. Clean'
  BY DEF IInv, Clean, Rested
<1> QED
  BY <1>1, <1>2, <1>3, <1>4 DEF IInv

\* The worker whose runWorker goes on, with the results rs: with the next job and
\* its thread t, or to rest and, as the last one, to resolve.
GoesOn(i, t, rs) ==
  /\ results' = rs
  /\ UNCHANGED poolBroken
  /\ \/ /\ jobs # <<>>
        /\ slot' = [slot EXCEPT ![i] = [at |-> "parsing", job |-> Head(jobs)]]
        /\ thread' = [thread EXCEPT ![i] = Post(t, "parsing")]
        /\ active' = active
        /\ jobs' = Tail(jobs)
        /\ UNCHANGED <<phase, chunk, graph, stopped>>
     \/ /\ jobs = <<>>
        /\ slot' = [slot EXCEPT ![i] = Idle]
        /\ thread' = [thread EXCEPT ![i] = t]
        /\ active' = active - 1
        /\ jobs' = jobs
        /\ IF active = 1 THEN Resolve(rs) ELSE UNCHANGED <<phase, chunk, graph, stopped>>

\* What the loop sees of a step.
ChunkStep ==
  \/ UNCHANGED <<graph, chunk>>
  \/ chunk <= Len(Chunks) /\ graph' = graph \o Chunks[chunk] /\ chunk' = chunk + 1

\* The sum of Conserved without what worker i holds.
SumWithout(i, rs) ==
  \A k \in 1 .. Len(Chunks[chunk]) :
    Cardinality(CoveredIn(jobs, k)) + Cardinality(HeldIn(slot, k)) + Cardinality(DoneAmong(rs, k)) =
      1 + Has(HeldIn(slot, k), i)

LEMMA AtWorkChanged ==
  ASSUME NEW f, NEW g, NEW i \in Indices, \A j \in Indices : j # i => g[j] = f[j]
  PROVE  /\ Cardinality(AtWork(f)) \in Nat /\ Cardinality(AtWork(g)) \in Nat
         /\ Cardinality(AtWork(g)) + Has(AtWork(f), i) = Cardinality(AtWork(f)) + Has(AtWork(g), i)
<1>1. IsFiniteSet(Indices)
  BY WorkerAssumption, FS_Interval DEF Indices
<1>2. AtWork(f) \in SUBSET Indices /\ AtWork(g) \in SUBSET Indices
  BY DEF AtWork
<1>3. \A j \in Indices : j # i => (j \in AtWork(f) <=> j \in AtWork(g))
  BY DEF AtWork
<1> QED
  BY <1>1, <1>2, <1>3, OneApart

LEMMA RunningChunk ==
  IInv /\ ~stopped =>
    /\ chunk \in 1 .. Len(Chunks) /\ Chunks[chunk] \in Seq(Files) /\ Chunks[chunk] # <<>>
    /\ Len(Chunks[chunk]) \in Nat
<1> SUFFICES ASSUME IInv, ~stopped PROVE chunk \in 1 .. Len(Chunks)
  BY ChunkTypes
<1>1. Len(Chunks) \in Nat
  BY WorkerAssumption
<1> QED
  BY <1>1 DEF IInv, Types, LoopTypes, Phases

\* It takes the next job.
LEMMA NextTaken ==
  ASSUME IInv, ~stopped, NEW i \in Indices, slot[i].at # "idle",
         NEW t \in ThreadRecords, t.at = "ready", t.acc = <<>>, NEW rs \in Seq(Outcomes),
         GoesOn(i, t, rs), jobs # <<>>, SumWithout(i, rs),
         \A r \in 1 .. Len(rs) : PartOf(Chunks[chunk], rs[r].start, rs[r].data)
  PROVE  IInv' /\ ChunkStep
<1>1. /\ results' = rs /\ UNCHANGED <<poolBroken, phase, chunk, graph, stopped>>
      /\ slot' = [slot EXCEPT ![i] = [at |-> "parsing", job |-> Head(jobs)]]
      /\ thread' = [thread EXCEPT ![i] = Post(t, "parsing")]
      /\ active' = active /\ jobs' = Tail(jobs)
  BY DEF GoesOn
<1>2. PICK queue \in Seq(Jobs), f \in [Indices -> SlotRecords], th \in [Indices -> ThreadRecords] :
        queue = jobs /\ f = slot /\ th = thread
  BY DEF IInv, Types, QueueTypes, WorkerTypes
<1>3. PICK j \in Jobs, rest \in Seq(Jobs) :
        /\ j = Head(queue) /\ rest = Tail(queue) /\ Len(queue) \in Nat /\ Len(rest) = Len(queue) - 1
        /\ \A q \in 1 .. Len(rest) : rest[q] = queue[q + 1]
        /\ j = queue[1] /\ Len(queue) >= 1
  <2>1. queue # <<>> /\ Head(queue) = queue[1]
    BY <1>2
  <2>2. /\ Head(queue) \in Jobs /\ Tail(queue) \in Seq(Jobs) /\ Len(Tail(queue)) = Len(queue) - 1
        /\ \A q \in 1 .. Len(Tail(queue)) : Tail(queue)[q] = queue[q + 1]
    BY <2>1, HeadTailProperties
  <2>3. Len(queue) \in Nat /\ Len(queue) >= 1
    BY <2>1
  <2> QED
    BY <2>1, <2>2, <2>3
<1>4. PICK g \in [Indices -> SlotRecords] :
        g = [f EXCEPT ![i] = [at |-> "parsing", job |-> j]]
  BY <1>2, SlotsAre
<1>5. slot' = g /\ jobs' = rest
  BY <1>1, <1>2, <1>3, <1>4
<1>6. \A m \in Indices : m # i => g[m] = f[m]
  BY <1>4
<1>7. g[i] = [at |-> "parsing", job |-> j] /\ g[i].at = "parsing" /\ g[i].job = j
  BY <1>2, <1>4
<1>8. PICK p \in ThreadRecords :
        p = Post(t, "parsing") /\ p.at = "parsing" /\ p.acc = <<>>
  BY Posted
<1>9. thread' \in [Indices -> ThreadRecords] /\ thread'[i] = p /\ \A m \in Indices : m # i => thread'[m] = thread[m]
  BY <1>1, <1>2, <1>8
<1>10. Types'
  <2>1. LoopTypes' /\ WorkerTypes'
    BY <1>1, <1>5, <1>9 DEF IInv, Types, LoopTypes, WorkerTypes
  <2>2. QueueTypes'
    BY <1>1, <1>5 DEF IInv, Types, QueueTypes
  <2> QED
    BY <2>1, <2>2 DEF Types
<1>11. Phases' /\ Clean'
  BY <1>1 DEF IInv, Phases, Clean
<1>12. Stages'
  <2>1. Stage(i)'
    BY <1>5, <1>7, <1>8, <1>9 DEF Stage
  <2>2. ASSUME NEW m \in Indices, m # i PROVE Stage(m)'
    <3>1. slot'[m] = slot[m] /\ thread'[m] = thread[m]
      BY <1>2, <1>5, <1>6, <1>9, <2>2
    <3>2. Stage(m)
      BY DEF IInv, Stages
    <3> QED
      BY <3>1, <3>2 DEF Stage
  <2> QED
    BY <2>1, <2>2 DEF Stages
<1>13. Pieces'
  <2>1. \A q \in 1 .. Len(queue) : PartOf(Chunks[chunk], queue[q].start, queue[q].items)
    BY <1>2 DEF IInv, Pieces, QueuePieces
  <2>2. \A q \in 1 .. Len(rest) : PartOf(Chunks[chunk], rest[q].start, rest[q].items)
    <3> SUFFICES ASSUME NEW q \in 1 .. Len(rest) PROVE PartOf(Chunks[chunk], rest[q].start, rest[q].items)
      OBVIOUS
    <3>1. q + 1 \in 1 .. Len(queue) /\ rest[q] = queue[q + 1]
      BY <1>3
    <3> QED
      BY <2>1, <3>1
  <2>3. QueuePieces'
    BY <1>1, <1>5, <2>2 DEF QueuePieces
  <2>4. PartOf(Chunks[chunk], j.start, j.items)
    BY <1>3, <2>1
  <2>5. HeldPieces'
    <3> SUFFICES ASSUME NEW m \in Indices, Busy(m)' PROVE PartOf(Chunks[chunk], g[m].job.start, g[m].job.items)
      BY <1>1, <1>5 DEF HeldPieces
    <3>1. CASE m = i
      BY <1>7, <2>4, <3>1
    <3>2. CASE m # i
      <4>1. g[m] = slot[m] /\ Busy(m)
        BY <1>2, <1>5, <1>6, <3>2 DEF Busy
      <4> QED
        BY <4>1 DEF IInv, Pieces, HeldPieces
    <3> QED
      BY <3>1, <3>2
  <2>6. DonePieces'
    BY <1>1 DEF DonePieces
  <2> QED
    BY <2>3, <2>5, <2>6 DEF Pieces
<1>14. Conserved'
  <2>1. ASSUME NEW k \in 1 .. Len(Chunks[chunk])
        PROVE  Cardinality(CoveredIn(rest, k)) + Cardinality(HeldIn(g, k)) + Cardinality(DoneAmong(rs, k)) = 1
    <3>1. Cardinality(CoveredIn(queue, k)) + Cardinality(HeldIn(f, k)) + Cardinality(DoneAmong(rs, k)) =
            1 + Has(HeldIn(f, k), i)
      BY <1>2 DEF SumWithout
    <3>2. /\ Cardinality(CoveredIn(rest, k)) \in Nat
          /\ Cardinality(CoveredIn(queue, k)) = Cardinality(CoveredIn(rest, k)) + One(j.start, j.items, k)
      BY <1>2, <1>3, FirstApart
    <3>3. /\ Cardinality(HeldIn(f, k)) \in Nat /\ Cardinality(HeldIn(g, k)) \in Nat
          /\ Cardinality(HeldIn(g, k)) + Has(HeldIn(f, k), i) = Cardinality(HeldIn(f, k)) + Has(HeldIn(g, k), i)
      BY <1>6, OneHolder
    <3>4. Has(HeldIn(g, k), i) = One(j.start, j.items, k)
      <4>1. i \in HeldIn(g, k) <=> Covers(j.start, j.items, k)
        BY <1>7 DEF HeldIn
      <4> QED
        BY <4>1 DEF Has, One
    <3>5. Cardinality(DoneAmong(rs, k)) \in Nat /\ One(j.start, j.items, k) \in Nat /\ Has(HeldIn(f, k), i) \in Nat
      <4>1. IsFiniteSet(DoneAmong(rs, k))
        <5>1. DOMAIN rs = 1 .. Len(rs) /\ Len(rs) \in Nat
          OBVIOUS
        <5>2. IsFiniteSet(DOMAIN rs) /\ DoneAmong(rs, k) \in SUBSET DOMAIN rs
          BY <5>1, FS_Interval DEF DoneAmong
        <5> QED
          BY <5>2, FS_Subset
      <4> QED
        BY <4>1, FS_CardinalityType DEF One, Has
    <3> QED
      BY <3>1, <3>2, <3>3, <3>4, <3>5
  <2> QED
    BY <1>1, <1>5, <2>1 DEF Conserved
<1>15. Counted'
  <2>1. active = Cardinality(AtWork(f))
    BY <1>2 DEF IInv, Counted
  <2>2. i \in AtWork(f) /\ i \in AtWork(g)
    BY <1>2, <1>7 DEF AtWork
  <2>3. Cardinality(AtWork(g)) = Cardinality(AtWork(f))
    BY <1>6, <2>2, AtWorkChanged DEF Has
  <2> QED
    BY <1>1, <1>5, <2>1, <2>3 DEF Counted
<1> QED
  BY <1>1, <1>10, <1>11, <1>12, <1>13, <1>14, <1>15 DEF IInv, ChunkStep

LEMMA DoneFinite ==
  ASSUME NEW rs \in Seq(Outcomes), NEW k
  PROVE  IsFiniteSet(DoneAmong(rs, k)) /\ Cardinality(DoneAmong(rs, k)) \in Nat
<1>1. DOMAIN rs = 1 .. Len(rs) /\ Len(rs) \in Nat
  OBVIOUS
<1>2. IsFiniteSet(DOMAIN rs) /\ DoneAmong(rs, k) \in SUBSET DOMAIN rs
  BY <1>1, FS_Interval DEF DoneAmong
<1>3. IsFiniteSet(DoneAmong(rs, k))
  BY <1>2, FS_Subset
<1> QED
  BY <1>3, FS_CardinalityType

LEMMA QueuedFinite ==
  ASSUME NEW queue \in Seq(Jobs), NEW k
  PROVE  Cardinality(CoveredIn(queue, k)) \in Nat
<1>1. DOMAIN queue = 1 .. Len(queue) /\ Len(queue) \in Nat
  OBVIOUS
<1>2. IsFiniteSet(DOMAIN queue) /\ CoveredIn(queue, k) \in SUBSET DOMAIN queue
  BY <1>1, FS_Interval DEF CoveredIn
<1> QED
  BY <1>2, FS_Subset, FS_CardinalityType

\* Nothing is left to take: the worker rests, and the dispatch resolves if it was the
\* last one.
LEMMA NoneTaken ==
  ASSUME IInv, ~stopped, NEW i \in Indices, slot[i].at # "idle",
         NEW t \in ThreadRecords, t.at = "ready", t.acc = <<>>, NEW rs \in Seq(Outcomes),
         GoesOn(i, t, rs), jobs = <<>>, SumWithout(i, rs),
         \A r \in 1 .. Len(rs) : PartOf(Chunks[chunk], rs[r].start, rs[r].data)
  PROVE  IInv' /\ ChunkStep
<1>1. /\ results' = rs /\ UNCHANGED poolBroken
      /\ slot' = [slot EXCEPT ![i] = Idle] /\ thread' = [thread EXCEPT ![i] = t]
      /\ active' = active - 1 /\ jobs' = jobs
      /\ active = 1 => Resolve(rs)
      /\ active # 1 => UNCHANGED <<phase, chunk, graph, stopped>>
  BY DEF GoesOn
<1>2. PICK f \in [Indices -> SlotRecords], th \in [Indices -> ThreadRecords] : f = slot /\ th = thread
  BY DEF IInv, Types, WorkerTypes
<1>3. PICK g \in [Indices -> SlotRecords] : g = [f EXCEPT ![i] = Idle]
  BY <1>2, SlotsAre
<1>4. slot' = g /\ \A m \in Indices : m # i => g[m] = f[m]
  BY <1>1, <1>2, <1>3
<1>5. g[i] = Idle /\ g[i].at = "idle"
  BY <1>3 DEF Idle
<1>6. thread' \in [Indices -> ThreadRecords] /\ thread'[i] = t /\ \A m \in Indices : m # i => thread'[m] = thread[m]
  BY <1>1, <1>2
<1>7. QueueTypes' /\ WorkerTypes'
  BY <1>1, <1>4, <1>6 DEF IInv, Types, QueueTypes, WorkerTypes
<1>8. active = Cardinality(AtWork(f)) /\ active - 1 = Cardinality(AtWork(g)) /\ Cardinality(AtWork(g)) \in Nat
  <2>1. active = Cardinality(AtWork(f))
    BY <1>2 DEF IInv, Counted
  <2>2. i \in AtWork(f) /\ i \notin AtWork(g)
    BY <1>2, <1>5 DEF AtWork
  <2> QED
    BY <1>4, <2>1, <2>2, AtWorkChanged DEF Has
<1>9. ASSUME NEW k \in 1 .. Len(Chunks[chunk])
      PROVE  Cardinality(CoveredIn(jobs, k)) + Cardinality(HeldIn(g, k)) + Cardinality(DoneAmong(rs, k)) = 1
  <2>1. Cardinality(CoveredIn(jobs, k)) + Cardinality(HeldIn(f, k)) + Cardinality(DoneAmong(rs, k)) =
          1 + Has(HeldIn(f, k), i)
    BY <1>2 DEF SumWithout
  <2>2. /\ Cardinality(HeldIn(f, k)) \in Nat /\ Cardinality(HeldIn(g, k)) \in Nat
        /\ Cardinality(HeldIn(g, k)) + Has(HeldIn(f, k), i) = Cardinality(HeldIn(f, k)) + Has(HeldIn(g, k), i)
    BY <1>4, OneHolder
  <2>3. i \notin HeldIn(g, k)
    BY <1>5 DEF HeldIn
  <2>4. Cardinality(CoveredIn(jobs, k)) = 0
    BY FS_EmptySet DEF CoveredIn
  <2>5. Cardinality(DoneAmong(rs, k)) \in Nat
    BY DoneFinite
  <2> QED
    BY <2>1, <2>2, <2>3, <2>4, <2>5 DEF Has
<1>10. ASSUME NEW m \in Indices, m # i
       PROVE  slot'[m] = slot[m] /\ thread'[m] = thread[m] /\ Stage(m)
  BY <1>2, <1>4, <1>6, <1>10 DEF IInv, Stages
<1>11. CASE active # 1
  <2>1. UNCHANGED <<phase, chunk, graph, stopped, poolBroken>>
    BY <1>1, <1>11
  <2>2. Types' /\ Phases' /\ Clean'
    BY <1>7, <2>1 DEF IInv, Types, LoopTypes, Phases, Clean
  <2>3. Stages'
    <3>1. Stage(i)'
      BY <1>4, <1>5, <1>6 DEF Stage
    <3>2. ASSUME NEW m \in Indices, m # i PROVE Stage(m)'
      BY <1>10, <3>2 DEF Stage
    <3> QED
      BY <3>1, <3>2 DEF Stages
  <2>4. QueuePieces' /\ DonePieces'
    BY <1>1, <2>1 DEF IInv, Pieces, QueuePieces, DonePieces
  <2>5. HeldPieces'
    <3> SUFFICES ASSUME NEW m \in Indices, Busy(m)' PROVE PartOf(Chunks[chunk], g[m].job.start, g[m].job.items)
      BY <1>4, <2>1 DEF HeldPieces
    <3>1. m # i
      BY <1>4, <1>5 DEF Busy
    <3>2. g[m] = slot[m] /\ Busy(m)
      BY <1>4, <1>10, <3>1 DEF Busy
    <3> QED
      BY <3>2 DEF IInv, Pieces, HeldPieces
  <2>6. Conserved'
    BY <1>1, <1>4, <1>9, <2>1 DEF Conserved
  <2>7. Counted'
    BY <1>1, <1>4, <1>8 DEF Counted
  <2> QED
    BY <2>1, <2>2, <2>3, <2>4, <2>5, <2>6, <2>7 DEF IInv, Pieces, ChunkStep
<1>12. CASE active = 1
  <2>1. /\ stopped' /\ phase' = "next" /\ chunk' = chunk + 1 /\ ~poolBroken'
        /\ graph' = graph \o FlattenSeq([k \in DOMAIN rs |-> SortedResults(rs)[k].data])
    BY <1>1, <1>12 DEF Resolve, IInv, Phases
  <2>2. Types'
    <3>1. phase' \in {"next", "dispatch", "closing", "closed"} /\ chunk' \in Nat \ {0}
      BY <2>1 DEF IInv, Types, LoopTypes
    <3>2. stopped' \in BOOLEAN
      BY <1>1, <1>12, Zenon DEF Resolve
    <3>3. poolBroken' \in BOOLEAN
      BY <1>1 DEF IInv, Types, LoopTypes
    <3> QED
      BY <1>7, <3>1, <3>2, <3>3 DEF Types, LoopTypes
  <2>3. Phases' /\ Stages' /\ Pieces' /\ Conserved' /\ Counted'
    BY <2>1 DEF Phases, Stages, Pieces, QueuePieces, HeldPieces, DonePieces, Conserved, Counted
  <2>4. AtWork(g) = {}
    <3>1. Cardinality(AtWork(g)) = 0
      BY <1>8, <1>12
    <3>2. IsFiniteSet(AtWork(g))
      <4>1. IsFiniteSet(Indices) /\ AtWork(g) \in SUBSET Indices
        BY WorkerAssumption, FS_Interval DEF Indices, AtWork
      <4> QED
        BY <4>1, FS_Subset
    <3> QED
      BY <3>1, <3>2, FS_EmptySet
  <2>5. \A m \in Indices : g[m].at = "idle" /\ g[m] = Idle
    <3> SUFFICES ASSUME NEW m \in Indices PROVE g[m].at = "idle" /\ g[m] = Idle
      OBVIOUS
    <3>1. g[m].at = "idle" /\ g[m] \in SlotRecords
      BY <2>4 DEF AtWork
    <3> QED
      BY <3>1, SlotParts
  <2>6. Clean'
    <3> SUFFICES ASSUME NEW m \in Indices PROVE Rested(m)'
      BY DEF Clean
    <3>1. CASE m = i
      BY <1>4, <1>5, <1>6, <3>1 DEF Rested
    <3>2. CASE m # i
      <4>1. slot'[m] = Idle /\ slot[m].at = "idle"
        BY <1>4, <1>10, <2>5, <3>2
      <4> QED
        BY <1>10, <3>2, <4>1 DEF Stage, Rested
    <3> QED
      BY <3>1, <3>2
  <2>7. Tiles(rs, Chunks[chunk])
    <3>1. ASSUME NEW k \in 1 .. Len(Chunks[chunk])
          PROVE \E r \in 1 .. Len(rs) : \A q \in 1 .. Len(rs) : Covers(rs[q].start, rs[q].data, k) <=> q = r
      <4>1. HeldIn(g, k) = {}
        BY <2>5 DEF HeldIn
      <4>2. CoveredIn(jobs, k) = {}
        BY DEF CoveredIn
      <4>3. Cardinality(DoneAmong(rs, k)) = 1
        <5>1. Cardinality(CoveredIn(jobs, k)) = 0 /\ Cardinality(HeldIn(g, k)) = 0
          BY <4>1, <4>2, FS_EmptySet
        <5>2. Cardinality(DoneAmong(rs, k)) \in Nat
          BY DoneFinite
        <5>3. Cardinality(CoveredIn(jobs, k)) + Cardinality(HeldIn(g, k)) + Cardinality(DoneAmong(rs, k)) = 1
          BY <1>9
        <5> QED
          BY <5>1, <5>2, <5>3
      <4>4. PICK r : DoneAmong(rs, k) = {r}
        BY <4>3, DoneFinite, FS_Singleton
      <4>5. DOMAIN rs = 1 .. Len(rs)
        OBVIOUS
      <4>6. \A q \in 1 .. Len(rs) : Covers(rs[q].start, rs[q].data, k) <=> q \in DoneAmong(rs, k)
        BY <4>5 DEF DoneAmong
      <4>7. r \in 1 .. Len(rs)
        BY <4>4, <4>5 DEF DoneAmong
      <4> QED
        BY <4>4, <4>6, <4>7
    <3> QED
      BY <3>1 DEF Tiles
  <2>8. ChunkStep
    <3>1. chunk \in 1 .. Len(Chunks) /\ Chunks[chunk] \in Seq(Files) /\ Chunks[chunk] # <<>>
      BY RunningChunk
    <3>2. PICK c \in Seq(Files) : c = Chunks[chunk] /\ c # <<>>
      BY <3>1
    <3>3. FlattenSeq([k \in DOMAIN rs |-> SortedResults(rs)[k].data]) = c
      BY <2>7, <3>2, MergeIsChunk
    <3>4. chunk <= Len(Chunks)
      BY DEF IInv, Phases
    <3> QED
      BY <2>1, <3>2, <3>3, <3>4 DEF ChunkStep
  <2> QED
    BY <2>2, <2>3, <2>6, <2>8 DEF IInv
<1> QED
  BY <1>11, <1>12

LEMMA WorkerGoesOn ==
  ASSUME IInv, ~stopped, NEW i \in Indices, slot[i].at # "idle",
         NEW t \in ThreadRecords, t.at = "ready", t.acc = <<>>, NEW rs \in Seq(Outcomes),
         GoesOn(i, t, rs), SumWithout(i, rs),
         \A r \in 1 .. Len(rs) : PartOf(Chunks[chunk], rs[r].start, rs[r].data)
  PROVE  IInv' /\ ChunkStep
<1>1. CASE jobs = <<>>
  BY <1>1, NoneTaken
<1>2. CASE jobs # <<>>
  BY <1>2, NextTaken
<1> QED
  BY <1>1, <1>2

\* A worker that keeps a job, or the right to one, and may put others in the queue.
LEMMA SlotMoves ==
  ASSUME IInv, ~stopped, UNCHANGED <<phase, chunk, results, active, stopped, poolBroken>>, Types',
         NEW i \in Indices, NEW f \in [Indices -> SlotRecords], NEW g \in [Indices -> SlotRecords], NEW queue \in Seq(Jobs), NEW queue2 \in Seq(Jobs),
         f = slot, slot' = g, queue = jobs, jobs' = queue2,
         \A j \in Indices : j # i => g[j] = f[j] /\ thread'[j] = thread[j],
         f[i].at # "idle", g[i].at # "idle", Stage(i)',
         \A q \in 1 .. Len(queue2) : PartOf(Chunks[chunk], queue2[q].start, queue2[q].items),
         g[i].at \in {"parsing", "flushing"} => PartOf(Chunks[chunk], g[i].job.start, g[i].job.items),
         \A k \in 1 .. Len(Chunks[chunk]) :
           Cardinality(CoveredIn(queue2, k)) + Has(HeldIn(g, k), i) =
             Cardinality(CoveredIn(queue, k)) + Has(HeldIn(f, k), i)
  PROVE  IInv'
<1>1. Phases' /\ Clean'
  BY DEF IInv, Phases, Clean
<1>2. Stages'
  <2> SUFFICES ASSUME NEW j \in Indices, j # i PROVE Stage(j)'
    BY DEF Stages
  <2>1. slot'[j] = slot[j] /\ thread'[j] = thread[j] /\ Stage(j)
    BY DEF IInv, Stages
  <2> QED
    BY <2>1 DEF Stage
<1>3. QueuePieces' /\ DonePieces'
  BY DEF IInv, Pieces, QueuePieces, DonePieces
<1>4. HeldPieces'
  <2> SUFFICES ASSUME NEW j \in Indices, Busy(j)' PROVE PartOf(Chunks[chunk], g[j].job.start, g[j].job.items)
    BY DEF HeldPieces
  <2>1. CASE j = i
    BY <2>1 DEF Busy
  <2>2. CASE j # i
    <3>1. g[j] = slot[j] /\ Busy(j)
      BY <2>2 DEF Busy
    <3> QED
      BY <3>1 DEF IInv, Pieces, HeldPieces
  <2> QED
    BY <2>1, <2>2
<1>5. Conserved'
  <2>1. PICK rs \in Seq(Outcomes) : rs = results
    BY DEF IInv, Types, QueueTypes
  <2>2. ASSUME NEW k \in 1 .. Len(Chunks[chunk])
        PROVE  Cardinality(CoveredIn(queue2, k)) + Cardinality(HeldIn(g, k)) + Cardinality(DoneAmong(rs, k)) = 1
    <3>1. Cardinality(CoveredIn(queue, k)) + Cardinality(HeldIn(f, k)) + Cardinality(DoneAmong(rs, k)) = 1
      BY <2>1 DEF IInv, Conserved
    <3>2. /\ Cardinality(HeldIn(f, k)) \in Nat /\ Cardinality(HeldIn(g, k)) \in Nat
          /\ Cardinality(HeldIn(g, k)) + Has(HeldIn(f, k), i) = Cardinality(HeldIn(f, k)) + Has(HeldIn(g, k), i)
      <4>1. \A j \in Indices : j # i => g[j] = f[j]
        OBVIOUS
      <4> QED
        BY <4>1, OneHolder
    <3>3. Cardinality(CoveredIn(queue2, k)) + Has(HeldIn(g, k), i) =
            Cardinality(CoveredIn(queue, k)) + Has(HeldIn(f, k), i)
      OBVIOUS
    <3>4. Has(HeldIn(f, k), i) \in Nat /\ Has(HeldIn(g, k), i) \in Nat /\ Cardinality(DoneAmong(rs, k)) \in Nat
      BY DoneFinite DEF Has
    <3>5. Cardinality(CoveredIn(queue, k)) \in Nat /\ Cardinality(CoveredIn(queue2, k)) \in Nat
      BY QueuedFinite
    <3>6. PICK q1 \in Nat, q2 \in Nat, h1 \in Nat, h2 \in Nat, b1 \in Nat, b2 \in Nat, d \in Nat :
            /\ q1 = Cardinality(CoveredIn(queue, k)) /\ q2 = Cardinality(CoveredIn(queue2, k))
            /\ h1 = Cardinality(HeldIn(f, k)) /\ h2 = Cardinality(HeldIn(g, k))
            /\ b1 = Has(HeldIn(f, k), i) /\ b2 = Has(HeldIn(g, k), i) /\ d = Cardinality(DoneAmong(rs, k))
      BY <3>2, <3>4, <3>5
    <3>7. q1 + h1 + d = 1 /\ h2 + b1 = h1 + b2 /\ q2 + b2 = q1 + b1
      BY <3>1, <3>2, <3>3, <3>6
    <3>8. q2 + h2 + d = 1
      BY <3>7
    <3> QED
      BY <3>6, <3>8
  <2> QED
    BY <2>1, <2>2 DEF Conserved
<1>6. Counted'
  <2>1. active = Cardinality(AtWork(f))
    BY DEF IInv, Counted
  <2>2. i \in AtWork(f) /\ i \in AtWork(g)
    BY DEF AtWork
  <2>3. Cardinality(AtWork(g)) = Cardinality(AtWork(f))
    BY <2>2, AtWorkChanged DEF Has
  <2> QED
    BY <2>1, <2>3 DEF Counted
<1> QED
  BY <1>1, <1>2, <1>3, <1>4, <1>5, <1>6 DEF IInv, Pieces

-----------------------------------------------------------------------------
(* Steps of the loop.                                                      *)

LEMMA DispatchStep ==
  ASSUME IInv, Dispatch
  PROVE  IInv' /\ ChunkStep
<1>1. /\ stopped /\ ~poolBroken /\ \A i \in Indices : Rested(i)
      /\ chunk \in 1 .. Len(Chunks) /\ phase' = "dispatch" /\ ~stopped' /\ results' = <<>>
      /\ UNCHANGED <<chunk, graph, poolBroken>>
  <2>1. chunk \in 1 .. Len(Chunks)
    <3>1. Len(Chunks) \in Nat
      BY WorkerAssumption
    <3> QED
      BY <3>1 DEF Dispatch, IInv, Types, LoopTypes
  <2> QED
    BY <2>1 DEF Dispatch, IInv, Phases, Clean
<1>2. PICK c \in Seq(Files) : c = Chunks[chunk] /\ c # <<>>
  BY <1>1, ChunkTypes
<1>3. PICK all \in CreateJobs(c) :
        /\ jobs' = SubSeq(all, PoolSize + 1, Len(all))
        /\ slot' = [i \in Indices |-> IF i <= Len(all) THEN [at |-> "parsing", job |-> all[i]] ELSE Idle]
        /\ thread' = [i \in Indices |-> IF i <= Len(all) THEN Post(thread[i], "parsing") ELSE thread[i]]
        /\ active' = Cardinality({i \in Indices : i <= Len(all)})
  BY <1>2 DEF Dispatch
<1>4. PICK N \in Nat, P \in Nat : N = Len(all) /\ P = PoolSize
  <2>1. all \in Seq(Jobs)
    BY <1>2, JobsOfChunk
  <2> QED
    BY <2>1, WorkerAssumption
<1>5. /\ all \in Seq(Jobs) /\ DOMAIN all = 1 .. N /\ \A n \in 1 .. N : all[n] \in Jobs
      /\ \A n \in 1 .. N : PartOf(c, all[n].start, all[n].items)
      /\ \A k \in 1 .. Len(c) : \E n \in 1 .. N :
           \A m \in 1 .. N : Covers(all[m].start, all[m].items, k) <=> m = n
  <2>1. all \in Seq(Jobs) /\ DOMAIN all = 1 .. N /\ \A n \in 1 .. N : all[n] \in Jobs
    BY <1>2, <1>4, JobsOfChunk
  <2> QED
    BY <1>2, <1>4, <2>1, JobsOfChunk
<1>6. Indices = 1 .. P
  BY <1>4 DEF Indices
<1> DEFINE L == IF N > P THEN N - P ELSE 0
<1>7. PICK queue \in Seq(Jobs) :
        queue = jobs' /\ DOMAIN queue = 1 .. L /\ Len(queue) = L /\ \A n \in 1 .. L : queue[n] = all[n + P]
  <2>1. CASE N > P
    <3>1. P + 1 \in 1 .. Len(all) + 1 /\ N \in 0 .. Len(all) /\ P + 1 <= N + 1 /\ N - (P + 1) + 1 = N - P
      BY <1>4, <2>1
    <3>2. PICK q \in Seq(Jobs) : q = SubSeq(all, P + 1, N) /\ Len(q) = N - P /\ \A n \in 1 .. N - P : q[n] = all[P + 1 + n - 1]
      <4>1. /\ SubSeq(all, P + 1, N) \in Seq(Jobs) /\ Len(SubSeq(all, P + 1, N)) = N - (P + 1) + 1
            /\ \A n \in 1 .. N - (P + 1) + 1 : SubSeq(all, P + 1, N)[n] = all[P + 1 + n - 1]
        BY <1>5, <3>1, SubSeqParts
      <4> QED
        BY <3>1, <4>1
    <3>3. \A n \in 1 .. N - P : P + 1 + n - 1 = n + P
      BY <2>1
    <3>4. L = N - P /\ DOMAIN q = 1 .. N - P
      BY <2>1, <3>2
    <3>5. q = jobs'
      BY <1>3, <1>4, <3>2
    <3>6. \A n \in 1 .. L : q[n] = all[n + P]
      BY <3>2, <3>3, <3>4
    <3> HIDE DEF L
    <3> QED
      BY <3>2, <3>4, <3>5, <3>6
  <2>2. CASE ~ (N > P)
    <3>1. SubSeq(all, P + 1, N) = <<>>
      BY <1>5, <2>2, <1>4
    <3>2. jobs' = <<>> /\ L = 0
      BY <1>3, <1>4, <2>2, <3>1
    <3>3. <<>> \in Seq(Jobs) /\ Len(<<>>) = 0 /\ DOMAIN <<>> = 1 .. 0 /\ \A n \in 1 .. 0 : FALSE
      OBVIOUS
    <3> HIDE DEF L
    <3> QED
      BY <3>2, <3>3
  <2> QED
    BY <2>1, <2>2
<1>8. PICK g \in [Indices -> SlotRecords] :
        /\ slot' = g
        /\ \A i \in Indices : i <= N => g[i] = [at |-> "parsing", job |-> all[i]]
        /\ \A i \in Indices : ~ (i <= N) => g[i] = Idle
  <2>1. \A i \in Indices : i <= N => i \in 1 .. N
    BY <1>6
  <2>2. slot' \in [Indices -> SlotRecords]
    BY <1>3, <1>4, <1>5, <2>1, SlotsAre
  <2> QED
    BY <1>3, <1>4, <2>2
<1>9. \A i \in Indices :
        /\ i <= N => i \in 1 .. N /\ g[i].at = "parsing" /\ g[i].job = all[i]
        /\ ~ (i <= N) => g[i].at = "idle"
  BY <1>6, <1>8 DEF Idle
<1>10. ASSUME NEW i \in Indices
       PROVE  /\ thread'[i] \in ThreadRecords /\ thread'[i].acc = <<>>
              /\ i <= N => thread'[i].at \in {"parsing", "gone"}
              /\ ~ (i <= N) => thread'[i].at \in {"ready", "gone"}
  <2>1. PICK t \in ThreadRecords : t = thread[i] /\ t.at \in {"ready", "gone"} /\ t.acc = <<>>
    BY <1>1 DEF Rested, IInv, Types, WorkerTypes
  <2>2. thread'[i] = IF i <= N THEN Post(t, "parsing") ELSE t
    BY <1>3, <1>4, <2>1
  <2> QED
    BY <2>1, <2>2, Posted
<1>11. Types'
  <2>1. LoopTypes'
    BY <1>1 DEF Dispatch, IInv, Types, LoopTypes
  <2>2. active' \in Int
    <3>1. IsFiniteSet(Indices) /\ {i \in Indices : i <= N} \in SUBSET Indices
      BY <1>4, <1>6, FS_Interval
    <3> QED
      BY <1>3, <1>4, <3>1, FS_Subset, FS_CardinalityType
  <2>3. QueueTypes'
    BY <1>1, <1>7, <2>2 DEF QueueTypes
  <2>4. thread' \in [Indices -> ThreadRecords]
    <3>1. thread' = [i \in Indices |-> thread'[i]]
      BY <1>3
    <3> QED
      BY <1>10, <3>1
  <2> QED
    BY <1>8, <2>1, <2>3, <2>4 DEF Types, WorkerTypes
<1>12. Phases' /\ Clean'
  BY <1>1 DEF Phases, Clean
<1>13. Stages'
  <2> SUFFICES ASSUME NEW i \in Indices PROVE Stage(i)'
    BY DEF Stages
  <2> QED
    BY <1>8, <1>9, <1>10 DEF Stage
<1>14. QueuePieces' /\ DonePieces'
  <2>1. ASSUME NEW n \in 1 .. L PROVE PartOf(c, queue[n].start, queue[n].items)
    <3>1. n + P \in 1 .. N
      BY <2>1
    <3> HIDE DEF L
    <3> QED
      BY <1>5, <1>7, <3>1
  <2> HIDE DEF L
  <2> QED
    BY <1>1, <1>2, <1>7, <2>1 DEF QueuePieces, DonePieces
<1>15. HeldPieces'
  <2> SUFFICES ASSUME NEW i \in Indices, Busy(i)' PROVE PartOf(c, g[i].job.start, g[i].job.items)
    BY <1>1, <1>2, <1>8 DEF HeldPieces
  <2>1. i <= N
    BY <1>8, <1>9 DEF Busy
  <2> QED
    BY <1>5, <1>9, <2>1
<1>16. ASSUME NEW k \in 1 .. Len(c)
       PROVE  Cardinality(CoveredIn(queue, k)) + Cardinality(HeldIn(g, k)) = 1
  <2>1. PICK n \in 1 .. N : \A m \in 1 .. N : Covers(all[m].start, all[m].items, k) <=> m = n
    BY <1>5
  <2>2. ASSUME NEW q \in 1 .. L PROVE q \in CoveredIn(queue, k) <=> q + P = n
    <3>1. q + P \in 1 .. N
      BY <2>2
    <3> HIDE DEF L
    <3> QED
      BY <1>7, <2>1, <3>1 DEF CoveredIn
  <2>3. ASSUME NEW i \in Indices PROVE i \in HeldIn(g, k) <=> i = n
    <3>1. CASE i <= N
      BY <1>9, <2>1, <3>1 DEF HeldIn
    <3>2. CASE ~ (i <= N)
      <4>1. i # n
        BY <3>2
      <4> QED
        BY <1>9, <3>2, <4>1 DEF HeldIn
    <3> QED
      BY <3>1, <3>2
  <2>4. CoveredIn(queue, k) \in SUBSET (1 .. L) /\ HeldIn(g, k) \in SUBSET Indices
    <3> HIDE DEF L
    <3> QED
      BY <1>7 DEF CoveredIn, HeldIn
  <2>5. CASE n <= P
    <3>1. n \in Indices /\ \A q \in 1 .. L : q + P # n
      BY <1>6, <2>5
    <3>2. HeldIn(g, k) = {n}
      BY <2>3, <2>4, <3>1
    <3>3. CoveredIn(queue, k) = {}
      <4> HIDE DEF L
      <4> QED
        BY <2>2, <2>4, <3>1
    <3>4. Cardinality(HeldIn(g, k)) = 1
      BY <3>2, FS_Singleton
    <3>5. Cardinality(CoveredIn(queue, k)) = 0
      BY <3>3, FS_EmptySet
    <3> QED
      BY <3>4, <3>5
  <2>6. CASE ~ (n <= P)
    <3>1. /\ n \notin Indices /\ n - P \in 1 .. L /\ (n - P) + P = n
          /\ \A q \in 1 .. L : q + P = n <=> q = n - P
      BY <1>6, <2>6
    <3>2. HeldIn(g, k) = {}
      BY <2>3, <2>4, <3>1
    <3>3. CoveredIn(queue, k) = {n - P}
      <4> HIDE DEF L
      <4> QED
        BY <2>2, <2>4, <3>1
    <3>4. Cardinality(HeldIn(g, k)) = 0
      BY <3>2, FS_EmptySet
    <3>5. Cardinality(CoveredIn(queue, k)) = 1
      BY <3>3, FS_Singleton
    <3> QED
      BY <3>4, <3>5
  <2> QED
    BY <2>5, <2>6
<1>17. Conserved'
  <2>1. ASSUME NEW k \in 1 .. Len(c)
        PROVE  Cardinality(CoveredIn(queue, k)) + Cardinality(HeldIn(g, k)) + Cardinality(DoneAmong(<<>>, k)) = 1
    <3>1. Cardinality(DoneAmong(<<>>, k)) = 0
      BY FS_EmptySet DEF DoneAmong
    <3> QED
      BY <1>16, <3>1
  <2> QED
    BY <1>1, <1>2, <1>7, <1>8, <2>1 DEF Conserved
<1>18. Counted'
  <2>1. AtWork(g) = {i \in Indices : i <= N}
    BY <1>9 DEF AtWork
  <2> QED
    BY <1>3, <1>4, <1>8, <2>1 DEF Counted
<1> QED
  BY <1>1, <1>11, <1>12, <1>13, <1>14, <1>15, <1>17, <1>18 DEF IInv, Pieces, ChunkStep

LEMMA LoopStepInv ==
  ASSUME IInv, LoopStep
  PROVE  IInv' /\ ChunkStep
<1>1. CASE Dispatch
  BY <1>1, DispatchStep
<1>2. CASE DispatchBroken \/ Reject
  <2>1. /\ stopped /\ chunk <= Len(Chunks) /\ UNCHANGED <<dispatchVars, poolBroken>> /\ thread' = thread
        /\ graph' = graph \o Chunks[chunk] /\ chunk' = chunk + 1 /\ phase' = "next"
    BY <1>2 DEF DispatchBroken, Reject, ParsedSequentially, IInv, Phases
  <2>2. LoopTypes'
    BY <2>1 DEF IInv, Types, LoopTypes, dispatchVars
  <2>3. phase' # "dispatch"
    BY <2>1
  <2>4. IInv'
    BY <2>1, <2>2, <2>3, LoopMoves
  <2> QED
    BY <2>1, <2>4 DEF ChunkStep
<1>3. CASE CloseStarts \/ CloseEnds
  <2>1. /\ stopped /\ UNCHANGED <<chunk, graph, dispatchVars, poolBroken>> /\ thread' = thread
        /\ phase' \in {"closing", "closed"}
    BY <1>3 DEF CloseStarts, CloseEnds, IInv, Phases
  <2>2. LoopTypes'
    BY <2>1 DEF IInv, Types, LoopTypes, dispatchVars
  <2>3. phase' # "dispatch"
    BY <2>1
  <2>4. IInv'
    BY <2>1, <2>2, <2>3, LoopMoves
  <2> QED
    BY <2>1, <2>4 DEF ChunkStep
<1> QED
  BY <1>1, <1>2, <1>3 DEF LoopStep

-----------------------------------------------------------------------------
(* Steps of the threads.                                                   *)

\* While the pool works a busy worker is one of a dispatch that runs, and a worker of
\* none has nothing.
LEMMA IdleWhenStopped ==
  ASSUME IInv, stopped, ~poolBroken, NEW i \in Indices
  PROVE  Rested(i) /\ slot[i].at = "idle" /\ ~Busy(i) /\ thread[i].at \in {"ready", "gone"}
BY DEF IInv, Clean, Rested, Idle, Busy

LEMMA ThreadIs ==
  ASSUME IInv, NEW i \in Indices
  PROVE  thread[i] \in ThreadRecords /\ slot[i] \in SlotRecords
BY DEF IInv, Types, WorkerTypes

LEMMA ThreadStepInv ==
  ASSUME IInv, NEW i \in Indices, ThreadStep(i)
  PROVE  IInv' /\ ChunkStep
<1>1. PICK t \in ThreadRecords : t = thread[i]
  BY ThreadIs
<1>2. thread \in [Indices -> ThreadRecords]
  BY DEF IInv, Types, WorkerTypes
<1>3. UNCHANGED <<phase, chunk, graph, dispatchVars, poolBroken>>
  BY DEF ThreadStep, ThreadParses, ThreadThrows, ThreadFlushes, ThreadDies
<1>4. UNCHANGED <<phase, chunk, slot, jobs, results, active, stopped, poolBroken>>
  BY <1>3 DEF dispatchVars
<1>5. ASSUME NEW u \in ThreadRecords, thread' = [thread EXCEPT ![i] = u],
             ~stopped => Stage(i)', stopped /\ ~poolBroken => Rested(i)'
      PROVE  IInv'
  <2>1. thread' \in [Indices -> ThreadRecords] /\ \A j \in Indices : j # i => thread'[j] = thread[j]
    BY <1>2, <1>5
  <2> QED
    BY <1>4, <1>5, <2>1, ThreadMoves
<1>6. CASE ThreadParses(i)
  <2>1. Busy(i) /\ t.at = "parsing"
    BY <1>1, <1>6 DEF ThreadParses
  <2>2. PICK items \in Seq(Files) : items = slot[i].job.items
    BY <2>1, ThreadIs, SlotParts DEF Busy, Jobs
  <2>3. PICK acc \in Seq(Files) : acc = t.acc \o items
    <3>1. PICK s \in Seq(Files) : s = t.acc
      BY ThreadParts
    <3>2. s \o items \in Seq(Files)
      OBVIOUS
    <3> QED
      BY <3>1, <3>2
  <2>4. PICK u \in ThreadRecords : u = [t EXCEPT !.at = "done", !.acc = acc] /\ u.at = "done" /\ u.acc = acc
    <3>1. "done" \in ThreadStates
      BY DEF ThreadStates
    <3>2. /\ [t EXCEPT !.at = "done", !.acc = acc] \in ThreadRecords
          /\ [t EXCEPT !.at = "done", !.acc = acc].at = "done" /\ [t EXCEPT !.at = "done", !.acc = acc].acc = acc
      BY <3>1 DEF ThreadRecords
    <3> QED
      BY <3>2
  <2>5. thread' = [thread EXCEPT ![i] = u]
    BY <1>1, <1>2, <1>6, <2>2, <2>3, <2>4 DEF ThreadParses
  <2>6. thread'[i] = u
    BY <1>2, <2>5
  <2>7. ~stopped => Stage(i)'
    <3> SUFFICES ASSUME ~stopped PROVE Stage(i)'
      OBVIOUS
    <3>1. Stage(i)
      BY DEF IInv, Stages
    <3>2. slot[i].at = "parsing" /\ t.acc = <<>>
      BY <1>1, <2>1, <3>1 DEF Stage, Busy
    <3>3. acc = items
      BY <2>2, <2>3, <3>2
    <3> QED
      BY <1>4, <2>2, <2>4, <2>6, <3>2, <3>3 DEF Stage
  <2>8. ~ (stopped /\ ~poolBroken)
    BY <2>1, IdleWhenStopped
  <2> QED
    BY <1>3, <1>5, <2>5, <2>7, <2>8 DEF ChunkStep
<1>7. CASE ThreadThrows(i)
  <2>1. Busy(i) /\ t.at = "parsing"
    BY <1>1, <1>7 DEF ThreadThrows
  <2>2. PICK u \in ThreadRecords : u = [t EXCEPT !.at = "error"] /\ u.at = "error"
    <3>1. "error" \in ThreadStates
      BY DEF ThreadStates
    <3>2. [t EXCEPT !.at = "error"] \in ThreadRecords /\ [t EXCEPT !.at = "error"].at = "error"
      BY <3>1, ThreadChanged
    <3> QED
      BY <3>2
  <2>3. thread' = [thread EXCEPT ![i] = u]
    BY <1>1, <1>2, <1>7, <2>2 DEF ThreadThrows
  <2>4. thread'[i] = u
    BY <1>2, <2>3
  <2>5. ~stopped => Stage(i)'
    <3> SUFFICES ASSUME ~stopped PROVE Stage(i)'
      OBVIOUS
    <3>1. Stage(i)
      BY DEF IInv, Stages
    <3>2. slot[i].at = "parsing"
      BY <1>1, <2>1, <3>1 DEF Stage, Busy
    <3> QED
      BY <1>4, <2>2, <2>4, <3>2 DEF Stage
  <2>6. ~ (stopped /\ ~poolBroken)
    BY <2>1, IdleWhenStopped
  <2> QED
    BY <1>3, <1>5, <2>3, <2>5, <2>6 DEF ChunkStep
<1>8. CASE ThreadFlushes(i)
  <2>1. t.at = "flushing"
    BY <1>1, <1>8 DEF ThreadFlushes
  <2>2. PICK u \in ThreadRecords : u = [t EXCEPT !.at = "result"] /\ u.at = "result" /\ u.acc = t.acc
    <3>1. "result" \in ThreadStates
      BY DEF ThreadStates
    <3> QED
      BY <3>1, ThreadChanged
  <2>3. thread' = [thread EXCEPT ![i] = u]
    BY <1>1, <1>2, <1>8, <2>2 DEF ThreadFlushes
  <2>4. thread'[i] = u
    BY <1>2, <2>3
  <2>5. ~stopped => Stage(i)'
    <3> SUFFICES ASSUME ~stopped PROVE Stage(i)'
      OBVIOUS
    <3>1. Stage(i)
      BY DEF IInv, Stages
    <3>2. slot[i].at # "idle" /\ slot[i].at # "parsing"
      BY <1>1, <2>1, <3>1 DEF Stage
    <3> QED
      BY <1>1, <1>4, <2>2, <2>4, <3>1, <3>2 DEF Stage
  <2>6. ~ (stopped /\ ~poolBroken)
    BY <1>1, <2>1, IdleWhenStopped
  <2> QED
    BY <1>3, <1>5, <2>3, <2>5, <2>6 DEF ChunkStep
<1>9. CASE ThreadDies(i)
  <2>1. PICK u \in ThreadRecords : u = [t EXCEPT !.dying = TRUE] /\ u.at = t.at /\ u.acc = t.acc
    <3>1. "done" \in ThreadStates
      BY DEF ThreadStates
    <3> QED
      BY <3>1, ThreadChanged
  <2>2. thread' = [thread EXCEPT ![i] = u]
    BY <1>1, <1>2, <1>9, <2>1 DEF ThreadDies
  <2>3. thread'[i] = u
    BY <1>2, <2>2
  <2>4. ~stopped => Stage(i)'
    <3> SUFFICES ASSUME ~stopped PROVE Stage(i)'
      OBVIOUS
    <3>1. Stage(i)
      BY DEF IInv, Stages
    <3> QED
      BY <1>1, <1>4, <2>1, <2>3, <3>1 DEF Stage
  <2>5. stopped /\ ~poolBroken => Rested(i)'
    <3> SUFFICES ASSUME stopped, ~poolBroken PROVE Rested(i)'
      OBVIOUS
    <3>1. Rested(i)
      BY IdleWhenStopped
    <3> QED
      BY <1>1, <1>4, <2>1, <2>3, <3>1 DEF Rested
  <2> QED
    BY <1>3, <1>5, <2>2, <2>4, <2>5 DEF ChunkStep
<1> QED
  BY <1>6, <1>7, <1>8, <1>9 DEF ThreadStep

-----------------------------------------------------------------------------
(* The events of a dispatch.                                               *)

\* What a worker that is busy in a dispatch that runs has.
LEMMA BusyHas ==
  ASSUME IInv, NEW i \in Indices, Busy(i)
  PROVE  \E job \in Jobs :
           /\ job = slot[i].job
           /\ ~stopped => /\ PartOf(Chunks[chunk], job.start, job.items)
                          /\ \A k : Has(HeldIn(slot, k), i) = One(job.start, job.items, k)
<1>1. PICK job \in Jobs : job = slot[i].job
  BY ThreadIs, SlotParts DEF Busy
<1>2. ~stopped => PartOf(Chunks[chunk], job.start, job.items)
  BY <1>1 DEF IInv, Pieces, HeldPieces
<1>3. ASSUME NEW k PROVE Has(HeldIn(slot, k), i) = One(job.start, job.items, k)
  <2>1. i \in HeldIn(slot, k) <=> Covers(job.start, job.items, k)
    BY <1>1 DEF HeldIn, Busy
  <2> QED
    BY <2>1 DEF Has, One
<1> QED
  BY <1>1, <1>2, <1>3

LEMMA HandleDoneStep ==
  ASSUME IInv, NEW i \in Indices, HandleDone(i)
  PROVE  IInv' /\ ChunkStep
<1>1. /\ ~stopped /\ slot[i].at = "parsing" /\ thread[i].at = "done" /\ Busy(i)
      /\ UNCHANGED <<phase, chunk, graph, jobs, results, active, stopped, poolBroken>>
  BY DEF HandleDone, Busy
<1>2. PICK f \in [Indices -> SlotRecords], queue \in Seq(Jobs), th \in [Indices -> ThreadRecords] :
        f = slot /\ queue = jobs /\ th = thread
  BY DEF IInv, Types, WorkerTypes, QueueTypes
<1>3. PICK job \in Jobs :
        /\ job = slot[i].job /\ PartOf(Chunks[chunk], job.start, job.items)
        /\ \A k : Has(HeldIn(slot, k), i) = One(job.start, job.items, k)
  BY <1>1, BusyHas
<1>4. PICK g \in [Indices -> SlotRecords] :
        /\ g = [f EXCEPT ![i].at = "flushing"] /\ g[i].at = "flushing" /\ g[i].job = job
        /\ \A j \in Indices : j # i => g[j] = f[j]
  <2>1. PICK r \in SlotRecords : r = f[i] /\ r.at = "parsing" /\ r.job = job
    BY <1>1, <1>2, <1>3
  <2>2. r = [at |-> "parsing", job |-> job]
    BY <2>1 DEF SlotRecords
  <2>3. [r EXCEPT !.at = "flushing"] = [at |-> "flushing", job |-> job]
    BY <2>2
  <2>4. [f EXCEPT ![i].at = "flushing"] = [f EXCEPT ![i] = [at |-> "flushing", job |-> job]]
    BY <2>1, <2>3
  <2>5. [at |-> "flushing", job |-> job] \in SlotRecords
    BY SlotsAre
  <2> DEFINE g == [f EXCEPT ![i] = [at |-> "flushing", job |-> job]]
  <2>6. g \in [Indices -> SlotRecords] /\ g[i].at = "flushing" /\ g[i].job = job /\ \A j \in Indices : j # i => g[j] = f[j]
    BY <2>5
  <2> QED
    BY <2>4, <2>6
<1>5. slot' = g
  BY <1>2, <1>4 DEF HandleDone
<1>6. PICK u \in ThreadRecords : u = [th[i] EXCEPT !.at = "flushing"] /\ u.at = "flushing" /\ u.acc = th[i].acc
  <2>1. "flushing" \in ThreadStates /\ th[i] \in ThreadRecords
    BY DEF ThreadStates
  <2>2. /\ [th[i] EXCEPT !.at = "flushing"] \in ThreadRecords
        /\ [th[i] EXCEPT !.at = "flushing"].at = "flushing" /\ [th[i] EXCEPT !.at = "flushing"].acc = th[i].acc
    BY <2>1, ThreadChanged
  <2> QED
    BY <2>2
<1>7. /\ thread' \in [Indices -> ThreadRecords] /\ thread'[i] = u
      /\ \A j \in Indices : j # i => thread'[j] = thread[j]
  <2>1. thread' = [th EXCEPT ![i] = u]
    BY <1>2, <1>6 DEF HandleDone
  <2> QED
    BY <1>2, <2>1
<1>8. Types'
  BY <1>1, <1>5, <1>7 DEF IInv, Types, LoopTypes, QueueTypes, WorkerTypes
<1>9. Stage(i)'
  <2>1. Stage(i)
    BY <1>1 DEF IInv, Stages
  <2> QED
    BY <1>1, <1>2, <1>3, <1>4, <1>5, <1>6, <1>7, <2>1 DEF Stage
<1>10. \A q \in 1 .. Len(queue) : PartOf(Chunks[chunk], queue[q].start, queue[q].items)
  BY <1>1, <1>2 DEF IInv, Pieces, QueuePieces
<1>11. ASSUME NEW k PROVE Has(HeldIn(g, k), i) = Has(HeldIn(f, k), i)
  <2>1. i \in HeldIn(g, k) <=> Covers(job.start, job.items, k)
    BY <1>4 DEF HeldIn
  <2>2. i \in HeldIn(f, k) <=> Covers(job.start, job.items, k)
    BY <1>1, <1>2, <1>3 DEF HeldIn
  <2> QED
    BY <2>1, <2>2 DEF Has
<1>12. IInv'
  <2>1. f[i].at # "idle" /\ g[i].at # "idle" /\ jobs' = queue
    BY <1>1, <1>2, <1>4
  <2>2. PartOf(Chunks[chunk], g[i].job.start, g[i].job.items)
    BY <1>3, <1>4
  <2>3. \A k \in 1 .. Len(Chunks[chunk]) :
          Cardinality(CoveredIn(queue, k)) + Has(HeldIn(g, k), i) = Cardinality(CoveredIn(queue, k)) + Has(HeldIn(f, k), i)
    BY <1>11
  <2>4. \A j \in Indices : j # i => g[j] = f[j] /\ thread'[j] = thread[j]
    BY <1>4, <1>7
  <2>5. UNCHANGED <<phase, chunk, results, active, stopped, poolBroken>>
    BY <1>1
  <2> QED
    BY <1>1, <1>2, <1>5, <1>8, <1>9, <1>10, <2>1, <2>2, <2>3, <2>4, <2>5, SlotMoves
<1> QED
  BY <1>1, <1>12 DEF ChunkStep

\* A step after which the pool is broken, whatever it has done to the workers.
LEMMA Broken ==
  ASSUME IInv, slot' \in [Indices -> SlotRecords], thread' \in [Indices -> ThreadRecords],
         jobs' \in Seq(Jobs), results' = results, active' \in Int,
         UNCHANGED <<phase, chunk, graph>>,
         (stopped' = TRUE /\ poolBroken' = TRUE) \/ (stopped /\ poolBroken /\ UNCHANGED <<stopped, poolBroken>>)
  PROVE  IInv' /\ ChunkStep
<1>1. stopped' \in BOOLEAN /\ poolBroken' \in BOOLEAN /\ stopped' /\ poolBroken'
  <2>1. CASE stopped' = TRUE /\ poolBroken' = TRUE
    BY <2>1, Zenon
  <2>2. CASE stopped /\ poolBroken /\ UNCHANGED <<stopped, poolBroken>>
    BY <2>2 DEF IInv, Types, LoopTypes
  <2> QED
    BY <2>1, <2>2
<1>2. LoopTypes'
  BY <1>1 DEF IInv, Types, LoopTypes
<1>3. Types'
  BY <1>2 DEF IInv, Types, QueueTypes, WorkerTypes
<1>4. IInv'
  BY <1>1, <1>3, FailedStep
<1> QED
  BY <1>4 DEF ChunkStep

\* A worker that is not at rest when the dispatch has stopped is one of a broken pool.
LEMMA BrokenWhenBusy ==
  ASSUME IInv, stopped, NEW i \in Indices, slot[i].at # "idle"
  PROVE  poolBroken
BY IdleWhenStopped

LEMMA HandleErrorStep ==
  ASSUME IInv, NEW i \in Indices, HandleError(i)
  PROVE  IInv' /\ ChunkStep
<1>1. PICK t \in ThreadRecords : t = [thread[i] EXCEPT !.at = "ready"]
  <2>1. "ready" \in ThreadStates /\ thread[i] \in ThreadRecords
    BY ThreadIs DEF ThreadStates
  <2> QED
    BY <2>1, ThreadChanged
<1>2. slot' \in [Indices -> SlotRecords] /\ thread' \in [Indices -> ThreadRecords]
  BY <1>1, SlotsAre DEF HandleError, IInv, Types, WorkerTypes
<1>3. /\ jobs' \in Seq(Jobs) /\ results' = results /\ active' \in Int
      /\ UNCHANGED <<phase, chunk, graph>> /\ stopped' = TRUE /\ poolBroken' = TRUE
  BY DEF HandleError, Fail, IInv, Types, QueueTypes
<1> QED
  BY <1>2, <1>3, Broken

LEMMA HandleExitStep ==
  ASSUME IInv, NEW i \in Indices, HandleExit(i)
  PROVE  IInv' /\ ChunkStep
<1>1. /\ thread' \in [Indices -> ThreadRecords] /\ thread'[i] = Gone
      /\ \A j \in Indices : j # i => thread'[j] = thread[j]
  BY ThreadsAre DEF HandleExit, IInv, Types, WorkerTypes
<1>2. CASE Busy(i)
  <2>1. slot' \in [Indices -> SlotRecords]
    BY <1>2, SlotsAre DEF HandleExit, IInv, Types, WorkerTypes
  <2>2. /\ jobs' \in Seq(Jobs) /\ results' = results /\ active' \in Int
        /\ UNCHANGED <<phase, chunk, graph>> /\ stopped' = TRUE /\ poolBroken' = TRUE
    BY <1>2 DEF HandleExit, Fail, IInv, Types, QueueTypes
  <2> QED
    BY <1>1, <2>1, <2>2, Broken
<1>3. CASE ~ Busy(i)
  <2>1. UNCHANGED <<phase, chunk, graph, slot, jobs, results, active, stopped, poolBroken>>
    BY <1>3 DEF HandleExit
  <2>2. Stage(i)'
    BY <1>1, <1>3, <2>1, ThreadsAre DEF Stage, Busy
  <2>3. stopped /\ ~poolBroken => Rested(i)'
    <3> SUFFICES ASSUME stopped, ~poolBroken PROVE Rested(i)'
      OBVIOUS
    <3>1. slot[i] = Idle
      BY IdleWhenStopped DEF Rested
    <3> QED
      BY <1>1, <2>1, <3>1, ThreadsAre DEF Rested
  <2>4. IInv'
    BY <1>1, <2>1, <2>2, <2>3, ThreadMoves
  <2> QED
    BY <2>1, <2>4 DEF ChunkStep
<1> QED
  BY <1>2, <1>3

LEMMA StartFailsStep ==
  ASSUME IInv, NEW i \in Indices, StartFails(i)
  PROVE  IInv' /\ ChunkStep
<1>1. slot' \in [Indices -> SlotRecords] /\ thread' \in [Indices -> ThreadRecords]
  BY SlotsAre DEF StartFails, IInv, Types, WorkerTypes
<1>2. /\ jobs' \in Seq(Jobs) /\ results' = results /\ active' \in Int
      /\ UNCHANGED <<phase, chunk, graph>> /\ stopped' = TRUE /\ poolBroken' = TRUE
  BY DEF StartFails, Fail, IInv, Types, QueueTypes
<1> QED
  BY <1>1, <1>2, Broken

LEMMA TerminatedStep ==
  ASSUME IInv, NEW i \in Indices, Terminated(i)
  PROVE  IInv' /\ ChunkStep
<1>1. /\ thread' \in [Indices -> ThreadRecords] /\ thread'[i] = Gone
      /\ \A j \in Indices : j # i => thread'[j] = thread[j]
      /\ UNCHANGED <<phase, chunk, graph, jobs, results, active, stopped, poolBroken>>
  BY ThreadsAre DEF Terminated, IInv, Types, WorkerTypes
<1>2. CASE stopped /\ poolBroken
  <2>1. slot' \in [Indices -> SlotRecords]
    BY SlotsAre DEF Terminated, IInv, Types, WorkerTypes
  <2>2. jobs' \in Seq(Jobs) /\ active' \in Int /\ results' = results
    BY <1>1 DEF IInv, Types, QueueTypes
  <2>3. UNCHANGED <<phase, chunk, graph>> /\ UNCHANGED <<stopped, poolBroken>>
    BY <1>1
  <2> QED
    BY <1>1, <1>2, <2>1, <2>2, <2>3, Broken
<1>3. CASE ~ (stopped /\ poolBroken)
  <2>1. ~ Busy(i) /\ (~stopped => slot[i].at = "terminating")
    <3>1. CASE stopped
      BY <1>3, <3>1, IdleWhenStopped
    <3>2. CASE ~stopped
      <4>1. phase = "dispatch"
        BY <3>2 DEF IInv, Phases
      <4>2. slot[i].at = "terminating"
        BY <3>2, <4>1 DEF Terminated
      <4> QED
        BY <4>2 DEF Busy
    <3> QED
      BY <3>1, <3>2
  <2>2. slot' = slot
    BY <2>1 DEF Terminated, IInv, Types, WorkerTypes
  <2>3. ~stopped => Stage(i)'
    BY <1>1, <2>1, <2>2 DEF Stage
  <2>4. stopped /\ ~poolBroken => Rested(i)'
    <3> SUFFICES ASSUME stopped, ~poolBroken PROVE Rested(i)'
      OBVIOUS
    <3>1. slot[i] = Idle
      BY IdleWhenStopped DEF Rested
    <3> QED
      BY <1>1, <2>2, <3>1, ThreadsAre DEF Rested
  <2>5. UNCHANGED <<phase, chunk, slot, jobs, results, active, stopped, poolBroken>>
    BY <1>1, <2>2
  <2>6. IInv'
    BY <1>1, <2>3, <2>4, <2>5, ThreadMoves
  <2> QED
    BY <1>1, <2>6 DEF ChunkStep
<1> QED
  BY <1>2, <1>3

LEMMA ReplaceStep ==
  ASSUME IInv, NEW i \in Indices, Replace(i)
  PROVE  IInv' /\ ChunkStep
<1>1. slot[i].at = "terminating" /\ UNCHANGED <<phase, chunk, graph, jobs, thread, results, stopped, poolBroken>>
  BY DEF Replace
<1>2. CASE stopped
  <2>1. poolBroken
    BY <1>1, <1>2, BrokenWhenBusy
  <2>2. slot' \in [Indices -> SlotRecords] /\ thread' \in [Indices -> ThreadRecords]
    BY <1>2, SlotsAre DEF Replace, IInv, Types, WorkerTypes
  <2>3. jobs' \in Seq(Jobs) /\ active' \in Int /\ results' = results
    BY <1>2 DEF Replace, IInv, Types, QueueTypes
  <2>4. UNCHANGED <<phase, chunk, graph>> /\ UNCHANGED <<stopped, poolBroken>>
    BY <1>1
  <2> QED
    BY <1>2, <2>1, <2>2, <2>3, <2>4, Broken
<1>3. CASE ~stopped
  <2>1. PICK f \in [Indices -> SlotRecords], queue \in Seq(Jobs) : f = slot /\ queue = jobs
    BY DEF IInv, Types, WorkerTypes, QueueTypes
  <2>2. PICK g \in [Indices -> SlotRecords] :
          /\ g = [f EXCEPT ![i].at = "starting"] /\ g[i].at = "starting"
          /\ \A j \in Indices : j # i => g[j] = f[j]
    <3>1. PICK r \in SlotRecords : r = f[i] /\ r.at = "terminating"
      BY <1>1, <2>1
    <3>2. r = [at |-> "terminating", job |-> NoJob]
      BY <3>1 DEF SlotRecords
    <3>3. [r EXCEPT !.at = "starting"] = [at |-> "starting", job |-> NoJob]
      BY <3>2
    <3>4. [f EXCEPT ![i].at = "starting"] = [f EXCEPT ![i] = [at |-> "starting", job |-> NoJob]]
      BY <3>1, <3>3
    <3>5. [at |-> "starting", job |-> NoJob] \in SlotRecords
      BY SlotsAre
    <3> DEFINE g == [f EXCEPT ![i] = [at |-> "starting", job |-> NoJob]]
    <3>6. g \in [Indices -> SlotRecords] /\ g[i].at = "starting" /\ \A j \in Indices : j # i => g[j] = f[j]
      BY <3>5
    <3> QED
      BY <3>4, <3>6
  <2>3. slot' = g /\ active' = active
    BY <1>3, <2>1, <2>2 DEF Replace
  <2>4. Types'
    BY <1>1, <2>3 DEF IInv, Types, LoopTypes, QueueTypes, WorkerTypes
  <2>5. Stage(i)'
    BY <2>2, <2>3 DEF Stage
  <2>6. \A q \in 1 .. Len(queue) : PartOf(Chunks[chunk], queue[q].start, queue[q].items)
    BY <1>3, <2>1 DEF IInv, Pieces, QueuePieces
  <2>7. ASSUME NEW k PROVE Has(HeldIn(g, k), i) = Has(HeldIn(f, k), i)
    <3>1. i \notin HeldIn(g, k) /\ i \notin HeldIn(f, k)
      BY <1>1, <2>1, <2>2 DEF HeldIn
    <3> QED
      BY <3>1 DEF Has
  <2>8. f[i].at # "idle" /\ g[i].at # "idle" /\ jobs' = queue /\ g[i].at \notin {"parsing", "flushing"}
    BY <1>1, <2>1, <2>2
  <2>9. \A k \in 1 .. Len(Chunks[chunk]) :
          Cardinality(CoveredIn(queue, k)) + Has(HeldIn(g, k), i) = Cardinality(CoveredIn(queue, k)) + Has(HeldIn(f, k), i)
    BY <2>7
  <2>10. \A j \in Indices : j # i => g[j] = f[j] /\ thread'[j] = thread[j]
    BY <1>1, <2>2
  <2>11. UNCHANGED <<phase, chunk, results, active, stopped, poolBroken>>
    BY <1>1, <2>3
  <2>12. g[i].at \in {"parsing", "flushing"} => PartOf(Chunks[chunk], g[i].job.start, g[i].job.items)
    BY <2>8
  <2>13. IInv'
    BY <1>3, <2>1, <2>3, <2>4, <2>5, <2>6, <2>8, <2>9, <2>10, <2>11, <2>12, SlotMoves
  <2> QED
    BY <1>1, <2>13 DEF ChunkStep
<1> QED
  BY <1>2, <1>3

\* The parts of a job that go back to the queue hold what it held.
LEMMA RequeuedJobs ==
  ASSUME NEW job \in Jobs, NEW queue \in Seq(Jobs)
  PROVE  /\ Requeued(job) \o queue \in Seq(Jobs)
         /\ \A k \in Nat : Cardinality(CoveredIn(Requeued(job) \o queue, k)) =
                             Cardinality(CoveredIn(queue, k)) + One(job.start, job.items, k)
         /\ \A c \in Seq(Files) :
              /\ PartOf(c, job.start, job.items)
              /\ \A q \in 1 .. Len(queue) : PartOf(c, queue[q].start, queue[q].items)
              => \A q \in 1 .. Len(Requeued(job) \o queue) :
                   PartOf(c, (Requeued(job) \o queue)[q].start, (Requeued(job) \o queue)[q].items)
<1>1. CASE Len(job.items) > 1
  <2>1. PICK first \in Jobs, second \in Jobs :
          /\ Halves(job) = <<first, second>>
          /\ \A k \in Nat : One(first.start, first.items, k) + One(second.start, second.items, k)
                              = One(job.start, job.items, k)
          /\ \A c \in Seq(Files) : PartOf(c, job.start, job.items) =>
               PartOf(c, first.start, first.items) /\ PartOf(c, second.start, second.items)
    BY <1>1, HalvesShare
  <2>2. Requeued(job) = <<first, second>>
    BY <1>1, <2>1 DEF Requeued
  <2>3. PICK all \in Seq(Jobs) : all = <<first, second>> \o queue
    <3>1. <<first, second>> \o queue \in Seq(Jobs)
      OBVIOUS
    <3> QED
      BY <3>1
  <2>4. Len(all) = Len(queue) + 2 /\ all[1] = first /\ all[2] = second /\ \A q \in 1 .. Len(queue) : all[q + 2] = queue[q]
    <3>1. <<first, second>> \in Seq(Jobs) /\ Len(<<first, second>>) = 2 /\ Len(queue) \in Nat
      OBVIOUS
    <3>2. /\ Len(all) = 2 + Len(queue)
          /\ \A q \in 1 .. 2 + Len(queue) : all[q] = IF q <= 2 THEN <<first, second>>[q] ELSE queue[q - 2]
      BY <2>3, <3>1, ConcatProperties
    <3>3. \A q \in 1 .. Len(queue) : q + 2 \in 1 .. 2 + Len(queue) /\ ~ (q + 2 <= 2) /\ (q + 2) - 2 = q
      BY <3>1
    <3>4. 1 \in 1 .. 2 + Len(queue) /\ 2 \in 1 .. 2 + Len(queue) /\ 1 <= 2 /\ 2 <= 2
      BY <3>1
    <3> QED
      BY <3>1, <3>2, <3>3, <3>4
  <2>5. ASSUME NEW k \in Nat
        PROVE  Cardinality(CoveredIn(all, k)) = Cardinality(CoveredIn(queue, k)) + One(job.start, job.items, k)
    <3>1. Cardinality(CoveredIn(<<first, second>> \o queue, k)) =
            Cardinality(CoveredIn(queue, k)) + One(second.start, second.items, k) + One(first.start, first.items, k)
      BY TwoPut
    <3>2. One(first.start, first.items, k) + One(second.start, second.items, k) = One(job.start, job.items, k)
      BY <2>1
    <3>3. /\ One(first.start, first.items, k) \in Nat /\ One(second.start, second.items, k) \in Nat
          /\ Cardinality(CoveredIn(queue, k)) \in Nat
      BY QueuedFinite DEF One
    <3> QED
      BY <2>3, <3>1, <3>2, <3>3
  <2>6. ASSUME NEW c \in Seq(Files), PartOf(c, job.start, job.items),
               \A q \in 1 .. Len(queue) : PartOf(c, queue[q].start, queue[q].items)
        PROVE  \A q \in 1 .. Len(all) : PartOf(c, all[q].start, all[q].items)
    <3> SUFFICES ASSUME NEW q \in 1 .. Len(all) PROVE PartOf(c, all[q].start, all[q].items)
      OBVIOUS
    <3>1. CASE q = 1
      BY <2>1, <2>4, <2>6, <3>1
    <3>2. CASE q = 2
      BY <2>1, <2>4, <2>6, <3>2
    <3>3. CASE q # 1 /\ q # 2
      <4>1. q - 2 \in 1 .. Len(queue) /\ (q - 2) + 2 = q
        BY <2>4, <3>3
      <4>2. all[q] = queue[q - 2]
        BY <2>4, <4>1
      <4> QED
        BY <2>6, <4>1, <4>2
    <3> QED
      BY <3>1, <3>2, <3>3
  <2> QED
    BY <2>2, <2>3, <2>5, <2>6
<1>2. CASE ~ (Len(job.items) > 1)
  <2>1. PICK again \in Jobs : again = [job EXCEPT !.attempt = @ + 1] /\ again.start = job.start /\ again.items = job.items
    <3>1. job.attempt + 1 \in Nat
      BY DEF Jobs
    <3>2. /\ [job EXCEPT !.attempt = @ + 1] \in Jobs /\ [job EXCEPT !.attempt = @ + 1].start = job.start
          /\ [job EXCEPT !.attempt = @ + 1].items = job.items
      BY <3>1 DEF Jobs
    <3> QED
      BY <3>2
  <2>2. Requeued(job) = <<again>>
    BY <1>2, <2>1 DEF Requeued
  <2>3. PICK all \in Seq(Jobs) : all = <<again>> \o queue
    <3>1. <<again>> \o queue \in Seq(Jobs)
      OBVIOUS
    <3> QED
      BY <3>1
  <2>4. Len(all) = Len(queue) + 1 /\ all[1] = again /\ \A q \in 1 .. Len(queue) : all[q + 1] = queue[q]
    <3>1. <<again>> \in Seq(Jobs) /\ Len(<<again>>) = 1 /\ Len(queue) \in Nat
      OBVIOUS
    <3>2. /\ Len(all) = 1 + Len(queue)
          /\ \A q \in 1 .. 1 + Len(queue) : all[q] = IF q <= 1 THEN <<again>>[q] ELSE queue[q - 1]
      BY <2>3, <3>1, ConcatProperties
    <3>3. \A q \in 1 .. Len(queue) : q + 1 \in 1 .. 1 + Len(queue) /\ ~ (q + 1 <= 1) /\ (q + 1) - 1 = q
      BY <3>1
    <3>4. 1 \in 1 .. 1 + Len(queue) /\ 1 <= 1
      BY <3>1
    <3> QED
      BY <3>1, <3>2, <3>3, <3>4
  <2>5. \A k \in Nat : Cardinality(CoveredIn(all, k)) = Cardinality(CoveredIn(queue, k)) + One(job.start, job.items, k)
    <3> SUFFICES ASSUME NEW k \in Nat
                 PROVE  Cardinality(CoveredIn(all, k)) = Cardinality(CoveredIn(queue, k)) + One(job.start, job.items, k)
      OBVIOUS
    <3>1. Cardinality(CoveredIn(<<again>> \o queue, k)) =
            Cardinality(CoveredIn(queue, k)) + One(again.start, again.items, k)
      BY OnePut
    <3> QED
      BY <2>1, <2>3, <3>1
  <2>6. ASSUME NEW c \in Seq(Files), PartOf(c, job.start, job.items),
               \A q \in 1 .. Len(queue) : PartOf(c, queue[q].start, queue[q].items)
        PROVE  \A q \in 1 .. Len(all) : PartOf(c, all[q].start, all[q].items)
    <3> SUFFICES ASSUME NEW q \in 1 .. Len(all) PROVE PartOf(c, all[q].start, all[q].items)
      OBVIOUS
    <3>1. CASE q = 1
      BY <2>1, <2>4, <2>6, <3>1
    <3>2. CASE q # 1
      <4>1. q - 1 \in 1 .. Len(queue) /\ (q - 1) + 1 = q
        BY <2>4, <3>2
      <4>2. all[q] = queue[q - 1]
        BY <2>4, <4>1
      <4> QED
        BY <2>6, <4>1, <4>2
    <3> QED
      BY <3>1, <3>2
  <2> QED
    BY <2>2, <2>3, <2>5, <2>6
<1> QED
  BY <1>1, <1>2

LEMMA IdleTimeoutStep ==
  ASSUME IInv, NEW i \in Indices, IdleTimeout(i)
  PROVE  IInv' /\ ChunkStep
<1>1. Busy(i) /\ slot[i].at # "idle" /\ thread' = thread /\ results' = results
  BY DEF IdleTimeout, Busy
<1>2. PICK job \in Jobs :
        /\ job = slot[i].job
        /\ ~stopped => /\ PartOf(Chunks[chunk], job.start, job.items)
                       /\ \A k : Has(HeldIn(slot, k), i) = One(job.start, job.items, k)
  BY <1>1, BusyHas
<1>3. PICK f \in [Indices -> SlotRecords], queue \in Seq(Jobs) : f = slot /\ queue = jobs
  BY DEF IInv, Types, WorkerTypes, QueueTypes
<1>4. PICK queue2 \in Seq(Jobs) : queue2 = Requeued(job) \o queue
  BY RequeuedJobs
<1>5. CASE Len(job.items) > 1 \/ RetryAllowed(job)
  <2>1. PICK g \in [Indices -> SlotRecords] :
          /\ g = [f EXCEPT ![i] = [at |-> "terminating", job |-> NoJob]] /\ g[i].at = "terminating"
          /\ \A j \in Indices : j # i => g[j] = f[j]
    <3> DEFINE g == [f EXCEPT ![i] = [at |-> "terminating", job |-> NoJob]]
    <3>1. g \in [Indices -> SlotRecords] /\ g[i].at = "terminating" /\ \A j \in Indices : j # i => g[j] = f[j]
      BY SlotsAre
    <3> QED
      BY <3>1
  <2>2. slot' = g /\ jobs' = queue2 /\ UNCHANGED <<phase, chunk, graph, active, stopped, poolBroken>>
    BY <1>2, <1>3, <1>4, <1>5, <2>1 DEF IdleTimeout
  <2>3. CASE stopped
    <3>1. poolBroken
      BY <1>1, <2>3, BrokenWhenBusy
    <3>2. slot' \in [Indices -> SlotRecords] /\ thread' \in [Indices -> ThreadRecords] /\ active' \in Int
      BY <1>1, <2>2 DEF IInv, Types, WorkerTypes, QueueTypes
    <3>3. UNCHANGED <<phase, chunk, graph>> /\ UNCHANGED <<stopped, poolBroken>> /\ jobs' \in Seq(Jobs)
      BY <2>2
    <3> QED
      BY <1>1, <2>3, <3>1, <3>2, <3>3, Broken
  <2>4. CASE ~stopped
    <3>1. Types'
      BY <1>1, <2>2 DEF IInv, Types, LoopTypes, QueueTypes, WorkerTypes
    <3>2. Stage(i)'
      BY <2>1, <2>2 DEF Stage
    <3>3. PICK c \in Seq(Files) : c = Chunks[chunk]
      BY <2>4, RunningChunk
    <3>4. \A q \in 1 .. Len(queue) : PartOf(c, queue[q].start, queue[q].items)
      BY <1>3, <2>4, <3>3 DEF IInv, Pieces, QueuePieces
    <3>5. \A q \in 1 .. Len(queue2) : PartOf(c, queue2[q].start, queue2[q].items)
      BY <1>2, <1>4, <2>4, <3>3, <3>4, RequeuedJobs
    <3>6. ASSUME NEW k \in 1 .. Len(Chunks[chunk])
          PROVE  Cardinality(CoveredIn(queue2, k)) + Has(HeldIn(g, k), i) =
                   Cardinality(CoveredIn(queue, k)) + Has(HeldIn(f, k), i)
      <4>1. k \in Nat
        BY <3>3
      <4>2. Cardinality(CoveredIn(queue2, k)) = Cardinality(CoveredIn(queue, k)) + One(job.start, job.items, k)
        BY <1>4, <4>1, RequeuedJobs
      <4>3. Has(HeldIn(g, k), i) = 0
        BY <2>1 DEF Has, HeldIn
      <4>4. Has(HeldIn(f, k), i) = One(job.start, job.items, k)
        BY <1>2, <1>3, <2>4
      <4>5. Cardinality(CoveredIn(queue, k)) \in Nat /\ One(job.start, job.items, k) \in Nat
        BY QueuedFinite DEF One
      <4> QED
        BY <4>2, <4>3, <4>4, <4>5
    <3>7. f[i].at # "idle" /\ g[i].at # "idle" /\ g[i].at \notin {"parsing", "flushing"}
      BY <1>1, <1>3, <2>1
    <3>8. \A j \in Indices : j # i => g[j] = f[j] /\ thread'[j] = thread[j]
      BY <1>1, <2>1
    <3>9. UNCHANGED <<phase, chunk, results, active, stopped, poolBroken>>
      BY <1>1, <2>2
    <3>10. g[i].at \in {"parsing", "flushing"} => PartOf(Chunks[chunk], g[i].job.start, g[i].job.items)
      BY <3>7
    <3>11. \A q \in 1 .. Len(queue2) : PartOf(Chunks[chunk], queue2[q].start, queue2[q].items)
      BY <3>3, <3>5
    <3>12. IInv'
      BY <1>3, <2>2, <2>4, <3>1, <3>2, <3>6, <3>7, <3>8, <3>9, <3>10, <3>11, SlotMoves
    <3> QED
      BY <2>2, <3>12 DEF ChunkStep
  <2> QED
    BY <2>3, <2>4
<1>6. CASE ~ (Len(job.items) > 1 \/ RetryAllowed(job))
  <2>1. /\ slot' = [slot EXCEPT ![i] = Idle] /\ active' = active - 1 /\ jobs' = jobs
        /\ UNCHANGED <<phase, chunk, graph>> /\ stopped' = TRUE /\ poolBroken' = TRUE
    BY <1>2, <1>6 DEF IdleTimeout, Fail
  <2>2. slot' \in [Indices -> SlotRecords] /\ thread' \in [Indices -> ThreadRecords]
    BY <1>1, <2>1, SlotsAre DEF IInv, Types, WorkerTypes
  <2>3. jobs' \in Seq(Jobs) /\ active' \in Int
    BY <2>1 DEF IInv, Types, QueueTypes
  <2> QED
    BY <1>1, <2>1, <2>2, <2>3, Broken
<1> QED
  BY <1>5, <1>6

LEMMA HandleResultStep ==
  ASSUME IInv, NEW i \in Indices, HandleResult(i)
  PROVE  IInv' /\ ChunkStep
<1>1. ~stopped /\ slot[i].at = "flushing" /\ thread[i].at = "result" /\ Busy(i)
  BY DEF HandleResult, Busy
<1>2. PICK job \in Jobs :
        /\ job = slot[i].job /\ PartOf(Chunks[chunk], job.start, job.items)
        /\ \A k : Has(HeldIn(slot, k), i) = One(job.start, job.items, k)
  BY <1>1, BusyHas
<1>3. thread[i].acc = job.items
  BY <1>1, <1>2 DEF IInv, Stages, Stage
<1>4. PICK t \in ThreadRecords : t = [thread[i] EXCEPT !.at = "ready", !.acc = <<>>] /\ t.at = "ready" /\ t.acc = <<>>
  <2>1. PICK th \in ThreadRecords : th = thread[i]
    BY ThreadIs
  <2>2. /\ [th EXCEPT !.at = "ready", !.acc = <<>>] \in ThreadRecords
        /\ [th EXCEPT !.at = "ready", !.acc = <<>>].at = "ready" /\ [th EXCEPT !.at = "ready", !.acc = <<>>].acc = <<>>
    <3>1. "ready" \in ThreadStates /\ <<>> \in Seq(Files)
      BY DEF ThreadStates
    <3> QED
      BY <3>1 DEF ThreadRecords
  <2> QED
    BY <2>1, <2>2
<1>5. PICK old \in Seq(Outcomes), r \in Outcomes :
        old = results /\ r = [start |-> slot[i].job.start, data |-> thread[i].acc] /\ r.start = job.start /\ r.data = job.items
  <2>1. results \in Seq(Outcomes)
    BY DEF IInv, Types, QueueTypes
  <2>2. [start |-> job.start, data |-> job.items] \in Outcomes
    BY DEF Jobs, Outcomes
  <2> QED
    BY <1>2, <1>3, <2>1, <2>2
<1>6. PICK rs \in Seq(Outcomes) :
        rs = Append(old, r) /\ Len(rs) = Len(old) + 1 /\ rs[Len(old) + 1] = r /\ \A q \in 1 .. Len(old) : rs[q] = old[q]
  <2>1. /\ Append(old, r) \in Seq(Outcomes) /\ Len(Append(old, r)) = Len(old) + 1
        /\ Append(old, r)[Len(old) + 1] = r /\ \A q \in 1 .. Len(old) : Append(old, r)[q] = old[q]
    BY AppendProperties
  <2> QED
    BY <2>1
<1>7. GoesOn(i, t, rs)
  <2>1. /\ results' = rs /\ UNCHANGED poolBroken
        /\ jobs = <<>> => /\ slot' = [slot EXCEPT ![i] = Idle] /\ thread' = [thread EXCEPT ![i] = t]
                          /\ active' = active - 1 /\ jobs' = jobs
        /\ jobs # <<>> => /\ slot' = [slot EXCEPT ![i] = [at |-> "parsing", job |-> Head(jobs)]]
                          /\ thread' = [thread EXCEPT ![i] = Post(t, "parsing")]
                          /\ active' = active - 1 + 1 /\ jobs' = Tail(jobs)
    BY <1>1, <1>4, <1>5, <1>6 DEF HandleResult, RunWorker
  <2>2. IF jobs = <<>> /\ active - 1 = 0 THEN Resolve(rs) ELSE UNCHANGED <<phase, chunk, graph, stopped>>
    BY <1>1, <1>5, <1>6 DEF HandleResult, RunWorker, NothingLeft, Resolve
  <2>3. active \in Int
    BY DEF IInv, Types, QueueTypes
  <2>4. (active - 1 = 0 <=> active = 1) /\ active - 1 + 1 = active
    BY <2>3
  <2> QED
    BY <2>1, <2>2, <2>4 DEF GoesOn
<1>8. SumWithout(i, rs)
  <2> SUFFICES ASSUME NEW k \in 1 .. Len(Chunks[chunk])
               PROVE  Cardinality(CoveredIn(jobs, k)) + Cardinality(HeldIn(slot, k)) + Cardinality(DoneAmong(rs, k)) =
                        1 + Has(HeldIn(slot, k), i)
    BY DEF SumWithout
  <2>1. PICK f \in [Indices -> SlotRecords], queue \in Seq(Jobs) : f = slot /\ queue = jobs
    BY DEF IInv, Types, WorkerTypes, QueueTypes
  <2>2. Cardinality(CoveredIn(queue, k)) + Cardinality(HeldIn(f, k)) + Cardinality(DoneAmong(old, k)) = 1
    BY <1>1, <1>5, <2>1 DEF IInv, Conserved
  <2>3. Cardinality(DoneAmong(rs, k)) = Cardinality(DoneAmong(old, k)) + One(job.start, job.items, k)
    BY <1>5, <1>6, OneResult
  <2>4. Has(HeldIn(f, k), i) = One(job.start, job.items, k)
    BY <1>2, <2>1
  <2>5. \A j \in Indices : j # i => f[j] = f[j]
    OBVIOUS
  <2>6. /\ Cardinality(CoveredIn(queue, k)) \in Nat /\ Cardinality(HeldIn(f, k)) \in Nat
        /\ Cardinality(DoneAmong(old, k)) \in Nat /\ One(job.start, job.items, k) \in Nat
    BY <2>5, QueuedFinite, OneHolder, DoneFinite DEF One
  <2>7. Cardinality(CoveredIn(queue, k)) + Cardinality(HeldIn(f, k)) + Cardinality(DoneAmong(rs, k)) =
          1 + Has(HeldIn(f, k), i)
    BY <2>2, <2>3, <2>4, <2>6
  <2> QED
    BY <2>1, <2>7
<1>9. ASSUME NEW q \in 1 .. Len(rs) PROVE PartOf(Chunks[chunk], rs[q].start, rs[q].data)
  <2>1. CASE q = Len(old) + 1
    BY <1>2, <1>5, <1>6, <2>1
  <2>2. CASE q # Len(old) + 1
    <3>1. q \in 1 .. Len(old) /\ rs[q] = old[q]
      BY <1>6, <2>2
    <3> QED
      BY <1>1, <1>5, <3>1 DEF IInv, Pieces, DonePieces
  <2> QED
    BY <2>1, <2>2
<1>10. slot[i].at # "idle"
  BY <1>1
<1> QED
  BY <1>1, <1>4, <1>7, <1>8, <1>9, <1>10, WorkerGoesOn

LEMMA OnlineStep ==
  ASSUME IInv, NEW i \in Indices, Online(i)
  PROVE  IInv' /\ ChunkStep
<1>1. slot[i].at = "starting" /\ slot[i].at # "idle"
  BY DEF Online
<1>2. CASE stopped
  <2>1. poolBroken
    BY <1>1, <1>2, BrokenWhenBusy
  <2>2. /\ slot' = [slot EXCEPT ![i] = Idle] /\ thread' = [thread EXCEPT ![i] = thread[i]]
        /\ active' = active - 1 /\ jobs' = jobs /\ results' = results
        /\ UNCHANGED <<phase, chunk, graph>> /\ UNCHANGED <<stopped, poolBroken>>
    BY <1>2 DEF Online, RunWorker
  <2>3. slot' \in [Indices -> SlotRecords] /\ thread' \in [Indices -> ThreadRecords]
    BY <2>2, SlotsAre, ThreadIs DEF IInv, Types, WorkerTypes
  <2>4. jobs' \in Seq(Jobs) /\ active' \in Int
    BY <2>2 DEF IInv, Types, QueueTypes
  <2> QED
    BY <1>2, <2>1, <2>2, <2>3, <2>4, Broken
<1>3. CASE ~stopped
  <2>1. PICK t \in ThreadRecords : t = Fresh /\ t.at = "ready" /\ t.acc = <<>>
    BY ThreadsAre
  <2>2. PICK rs \in Seq(Outcomes) : rs = results
    BY DEF IInv, Types, QueueTypes
  <2>3. GoesOn(i, t, rs)
    BY <1>3, <2>1, <2>2 DEF Online, RunWorker, NothingLeft, GoesOn, Resolve, IInv, Types, QueueTypes
  <2>4. SumWithout(i, rs)
    <3> SUFFICES ASSUME NEW k \in 1 .. Len(Chunks[chunk])
                 PROVE  Cardinality(CoveredIn(jobs, k)) + Cardinality(HeldIn(slot, k)) + Cardinality(DoneAmong(rs, k)) =
                          1 + Has(HeldIn(slot, k), i)
      BY DEF SumWithout
    <3>1. Has(HeldIn(slot, k), i) = 0
      BY <1>1 DEF Has, HeldIn
    <3>2. Cardinality(CoveredIn(jobs, k)) + Cardinality(HeldIn(slot, k)) + Cardinality(DoneAmong(results, k)) = 1
      BY <1>3 DEF IInv, Conserved
    <3> QED
      BY <2>2, <3>1, <3>2
  <2>5. \A q \in 1 .. Len(rs) : PartOf(Chunks[chunk], rs[q].start, rs[q].data)
    BY <1>3, <2>2 DEF IInv, Pieces, DonePieces
  <2> QED
    BY <1>1, <1>3, <2>1, <2>3, <2>4, <2>5, WorkerGoesOn
<1> QED
  BY <1>2, <1>3

-----------------------------------------------------------------------------
(* All steps, and the theorems.                                            *)

LEMMA StutterStep ==
  ASSUME IInv, UNCHANGED vars
  PROVE  IInv' /\ ChunkStep
<1>1. /\ UNCHANGED <<phase, chunk, graph, jobs, slot, results, active, stopped>>
      /\ UNCHANGED <<thread, poolBroken>>
  BY DEF vars, dispatchVars
<1>2. Types' /\ Phases' /\ Clean'
  BY <1>1 DEF IInv, Types, LoopTypes, QueueTypes, WorkerTypes, Phases, Clean, Rested
<1>3. Stages'
  BY <1>1 DEF IInv, Stages, Stage
<1>4. Pieces'
  BY <1>1 DEF IInv, Pieces, QueuePieces, HeldPieces, DonePieces, Busy
<1>5. Conserved' /\ Counted'
  BY <1>1 DEF IInv, Conserved, Counted
<1> QED
  BY <1>1, <1>2, <1>3, <1>4, <1>5 DEF IInv, ChunkStep

LEMMA NextStep ==
  IInv /\ [Next]_vars => IInv' /\ ChunkStep
<1> SUFFICES ASSUME IInv, [Next]_vars PROVE IInv' /\ ChunkStep
  OBVIOUS
<1>1. CASE LoopStep
  BY <1>1, LoopStepInv
<1>2. ASSUME NEW i \in Indices, ThreadStep(i) PROVE IInv' /\ ChunkStep
  BY <1>2, ThreadStepInv
<1>3. ASSUME NEW i \in Indices, Event(i) PROVE IInv' /\ ChunkStep
  BY <1>3, HandleDoneStep, HandleResultStep, HandleErrorStep, HandleExitStep, TerminatedStep, ReplaceStep
     DEF Event
<1>4. ASSUME NEW i \in Indices, IdleTimeout(i) PROVE IInv' /\ ChunkStep
  BY <1>4, IdleTimeoutStep
<1>5. ASSUME NEW i \in Indices, Started(i) PROVE IInv' /\ ChunkStep
  BY <1>5, OnlineStep, StartFailsStep DEF Started
<1>6. CASE UNCHANGED vars
  BY <1>6, StutterStep
<1> QED
  BY <1>1, <1>2, <1>3, <1>4, <1>5, <1>6 DEF Next

LEMMA InvariantHolds == Spec => []IInv
BY InitInv, NextStep, PTL DEF Spec

\* While a dispatch runs each file of the chunk is queued once, or with one worker, or in
\* one result: whatever requeueAfterTimeout splits, whoever takes the halves and whenever
\* replaceWorker ends.
THEOREM WorkConservedHolds == Spec => []WorkConserved
<1>1. IInv => WorkConserved
  <2> SUFFICES ASSUME IInv, Running, NEW k \in DOMAIN Chunks[chunk]
               PROVE  Cardinality(QueuedAt(k)) + Cardinality(HeldBy(k)) + Cardinality(DoneIn(k)) = 1
    BY DEF WorkConserved
  <2>1. ~stopped
    BY DEF Running
  <2>2. k \in 1 .. Len(Chunks[chunk])
    BY <2>1, RunningChunk
  <2>3. QueuedAt(k) = CoveredIn(jobs, k) /\ HeldBy(k) = HeldIn(slot, k) /\ DoneIn(k) = DoneAmong(results, k)
    BY DEF QueuedAt, CoveredIn, HeldBy, HeldIn, Busy, DoneIn, DoneAmong
  <2> QED
    BY <2>1, <2>2, <2>3 DEF IInv, Conserved
<1> QED
  BY <1>1, InvariantHolds, PTL

\* activeWorkers is the number of workers that maybeDone has to wait for: those that have
\* a job and those that are being replaced.
THEOREM ActiveCountsHolds == Spec => []ActiveCounts
<1>1. IInv => ActiveCounts
  BY DEF ActiveCounts, Running, IInv, Counted, AtWork
<1> QED
  BY <1>1, InvariantHolds, PTL

\* Between the dispatches of a pool that works no thread has work, parsed files or an
\* unheard message.
THEOREM CleanHandoverHolds == Spec => []CleanHandover
<1>1. IInv => CleanHandover
  <2> SUFFICES ASSUME IInv, phase = "next", ~poolBroken, NEW i \in Indices
               PROVE  slot[i] = Idle /\ thread[i].at \in {"ready", "gone"} /\ thread[i].acc = <<>>
    BY DEF CleanHandover
  <2>1. stopped
    BY DEF IInv, Phases
  <2> QED
    BY <2>1 DEF IInv, Clean, Rested
<1> QED
  BY <1>1, InvariantHolds, PTL

\* The chunks enter the graph whole, once and in order, in whatever order the results of
\* their jobs came and wherever the jobs were cut: the safety part of ParsesChunks, every
\* step of the pool being a step of ParseChunks or none.
THEOREM ParsesInOrder ==
  Spec => Promise!ParseInit /\ [][Promise!ParseChunk]_<<graph, chunk - 1>>
<1>1. Init => Promise!ParseInit
  BY DEF Init, Promise!ParseInit
<1>2. IInv /\ ChunkStep => [Promise!ParseChunk]_<<graph, chunk - 1>>
  <2> SUFFICES ASSUME IInv, chunk <= Len(Chunks), graph' = graph \o Chunks[chunk], chunk' = chunk + 1
               PROVE  Promise!ParseChunk
    BY DEF ChunkStep
  <2>1. PICK n \in Nat, m \in Nat : n = chunk /\ m = Len(Chunks)
    <3>1. Len(Chunks) \in Nat
      BY WorkerAssumption
    <3>2. chunk \in Nat
      BY DEF IInv, Types, LoopTypes
    <3> QED
      BY <3>1, <3>2
  <2>2. n - 1 < m /\ (n - 1) + 1 = n /\ (n + 1) - 1 = (n - 1) + 1
    BY <2>1
  <2> QED
    BY <2>1, <2>2 DEF Promise!ParseChunk
<1>3. IInv /\ [Next]_vars => [Promise!ParseChunk]_<<graph, chunk - 1>>
  BY <1>2, NextStep
<1> QED
  BY <1>1, <1>3, InvariantHolds, PTL DEF Spec
=============================================================================

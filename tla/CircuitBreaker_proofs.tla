------------------------ MODULE CircuitBreaker_proofs ------------------------
(***************************************************************************)
(* Proofs about CircuitBreaker, for every number of calls, every threshold *)
(* and every number of attempts: the fields of the breaker agree, the      *)
(* permit always comes back, and an open circuit bounds the calls under    *)
(* way.                                                                    *)
(***************************************************************************)
EXTENDS CircuitBreaker, FiniteSetTheorems, TLAPS

-----------------------------------------------------------------------------
(* The inductive invariant.                                                *)

\* The calls under way that will report without holding the permit.
Late == {c \in UnderWay : permit[c] # "held"}

\* While the circuit is not closed, no call joins them: a call let in takes the
\* permit, and who loses it does so to one of them that ends.
LateBound ==
  consumer = "fetch" /\ state # "closed" => Cardinality(Late) <= herd

IdleHoldsNothing == \A c \in Calls : call[c] = "idle" => permit[c] = "none"

IInv ==
  /\ BreakerTypeOK /\ Coherent /\ PermitHeld
  /\ IdleHoldsNothing /\ LateBound

LEMMA InitIInv == Init => IInv
<1> SUFFICES ASSUME Init PROVE IInv
  OBVIOUS
<1>1. BreakerTypeOK
  <2>1. healthy \in BOOLEAN /\ probeInFlight \in BOOLEAN
    BY Zenon DEF Init
  <2>2. /\ failures \in 0 .. FailureThreshold /\ herd \in Nat
        /\ attempt \in [Calls -> 0 .. MaxAttempts - 1]
    BY BreakerAssumption DEF Init
  <2> QED
    BY <2>1, <2>2, Zenon DEF Init, BreakerTypeOK
<1>2. Coherent /\ PermitHeld /\ IdleHoldsNothing /\ LateBound
  BY BreakerAssumption DEF Init, Coherent, PermitHeld, IdleHoldsNothing, LateBound, UnderWay
<1> QED
  BY <1>1, <1>2 DEF IInv

-----------------------------------------------------------------------------
(* The breaker.                                                            *)

BreakerTypes ==
  /\ state' \in {"closed", "open", "half-open"}
  /\ failures' \in 0 .. FailureThreshold
  /\ openedAt' \in {"null", "cooling", "over"}
  /\ probeInFlight' \in BOOLEAN

\* Whatever a call reports, and whenever, the fields agree afterwards and the
\* permit is free; only a failure moves the breaker out of closed, to open.
LEMMA RecordEffect ==
  ASSUME IInv, RecordSuccess \/ RecordFailure \/ RecordNeutral
  PROVE  /\ BreakerTypes /\ Coherent' /\ probeInFlight' = FALSE
         /\ state = "closed" /\ state' # "closed" => state' = "open"
<1> USE BreakerAssumption DEF IInv, BreakerTypeOK, Coherent
<1>1. CASE RecordSuccess
  <2>1. /\ failures' \in 0 .. FailureThreshold /\ failures' < FailureThreshold
        /\ state' = "closed" /\ openedAt' = "null"
    BY <1>1 DEF RecordSuccess
  <2>2. probeInFlight' = FALSE
    BY <1>1, Zenon DEF RecordSuccess
  <2> QED
    BY <2>1, <2>2, Zenon DEF BreakerTypes
<1>2. CASE RecordFailure
  <2>1. probeInFlight' = FALSE
    BY <1>2, Zenon DEF RecordFailure
  <2>2. /\ failures' \in 0 .. FailureThreshold
        /\ \/ state' = "open" /\ openedAt' = "cooling" /\ failures' = FailureThreshold
           \/ /\ UNCHANGED <<state, openedAt>>
              /\ (failures < FailureThreshold) <=> (failures' < FailureThreshold)
    BY <1>2 DEF RecordFailure
  <2>3. /\ Coherent'
        /\ state = "closed" /\ state' # "closed" => state' = "open"
    BY <2>1, <2>2
  <2> QED
    BY <2>1, <2>2, <2>3 DEF BreakerTypes
<1>3. CASE RecordNeutral
  BY <1>3 DEF RecordNeutral, BreakerTypes
<1> QED
  BY <1>1, <1>2, <1>3

\* A call let in takes the permit unless the circuit is closed.
LEMMA CheckEffect ==
  ASSUME IInv, Check
  PROVE  /\ BreakerTypes /\ Coherent'
         /\ ~probeInFlight
         /\ probeInFlight' <=> state # "closed"
         /\ state' = "closed" <=> state = "closed"
<1>1. ~Refused /\ state' = GetState /\ probeInFlight' = (probeInFlight \/ GetState = "half-open")
      /\ failures' = failures /\ openedAt' = openedAt
  BY DEF Check
<1>2. CASE state = "closed"
  BY <1>1, <1>2 DEF BreakerTypes, Coherent, GetState, IInv, BreakerTypeOK
<1>3. CASE state = "open"
  <2>1. openedAt = "over" /\ ~probeInFlight
    BY <1>1, <1>3 DEF Refused, GetState, IInv, BreakerTypeOK, Coherent
  <2> QED
    BY <1>1, <1>3, <2>1 DEF BreakerTypes, Coherent, GetState, IInv, BreakerTypeOK
<1>4. CASE state = "half-open"
  <2>1. ~probeInFlight
    BY <1>1, <1>4 DEF Refused, GetState
  <2> QED
    BY <1>1, <1>4, <2>1 DEF BreakerTypes, Coherent, GetState, IInv, BreakerTypeOK
<1> QED
  BY <1>2, <1>3, <1>4 DEF IInv, BreakerTypeOK

-----------------------------------------------------------------------------
(* The calls.                                                              *)

LEMMA LateIsFinite ==
  ASSUME NEW S \in SUBSET Calls
  PROVE  IsFiniteSet(S) /\ Cardinality(S) \in Nat
BY BreakerAssumption, FS_Subset, FS_CardinalityType

\* A call that begins: what it takes of the permit is what check() gave.
LEMMA FetchPreserves ==
  ASSUME IInv, NEW c \in Calls, Fetch(c)
  PROVE  IInv'
<1>1. /\ consumer = "fetch" /\ call[c] = "idle" /\ Check
      /\ permit' = [permit EXCEPT ![c] = IF probeInFlight' THEN "held" ELSE "none"]
      /\ call' = [call EXCEPT ![c] = "fetching"]
      /\ UNCHANGED <<consumer, healthy, attempt, herd>>
  BY DEF Fetch, Begin
<1>2. /\ BreakerTypes /\ Coherent' /\ ~probeInFlight
      /\ probeInFlight' <=> state # "closed"
      /\ state' = "closed" <=> state = "closed"
  BY <1>1, CheckEffect
<1>3. BreakerTypeOK'
  BY <1>1, <1>2 DEF BreakerTypes, BreakerTypeOK, IInv
<1>4. \A d \in Calls : permit[d] # "held"
  BY <1>2 DEF IInv, PermitHeld, IdleHoldsNothing, UnderWay
<1>5. PermitHeld'
  BY <1>1, <1>2, <1>4 DEF PermitHeld, UnderWay, IInv, BreakerTypeOK
<1>6. IdleHoldsNothing'
  BY <1>1 DEF IdleHoldsNothing, IInv, BreakerTypeOK
<1>7. LateBound'
  <2> SUFFICES ASSUME consumer' = "fetch", state' # "closed"
               PROVE  Cardinality(Late)' <= herd'
    BY DEF LateBound
  <2>1. Late' = Late
    BY <1>1, <1>2 DEF Late, UnderWay, IInv, BreakerTypeOK
  <2> QED
    BY <1>1, <1>2, <2>1 DEF LateBound, IInv
<1> QED
  BY <1>2, <1>3, <1>5, <1>6, <1>7 DEF IInv

\* A call that reports and ends: the permit is lost by whoever held it, and the
\* calls that may still report do not grow.
LEMMA ReportPreserves ==
  ASSUME IInv, NEW c \in Calls, call[c] = "fetching",
         RecordSuccess \/ RecordFailure \/ RecordNeutral,
         End(c), Reported(c)
  PROVE  IInv'
<1>1. /\ BreakerTypes /\ Coherent' /\ probeInFlight' = FALSE
      /\ state = "closed" /\ state' # "closed" => state' = "open"
  BY RecordEffect
<1>2. /\ call' = [call EXCEPT ![c] = "idle"]
      /\ attempt' = [attempt EXCEPT ![c] = 0]
      /\ permit' = [d \in Calls |-> IF call'[d] = "idle" THEN "none"
                                    ELSE IF permit[d] = "held" THEN "lost"
                                    ELSE permit[d]]
      /\ herd' = IF state = "closed" /\ state' = "open"
                 THEN Cardinality(UnderWay \ {c}) ELSE herd
      /\ UNCHANGED <<consumer, healthy>>
  BY DEF End, Reported
<1>3. UnderWay' = UnderWay \ {c} /\ Late' = UnderWay \ {c}
  BY <1>2 DEF UnderWay, Late, IInv, BreakerTypeOK
<1>4. BreakerTypeOK'
  <2>1. herd' \in Nat
    BY <1>2, LateIsFinite DEF UnderWay, IInv, BreakerTypeOK
  <2> QED
    BY <1>1, <1>2, <2>1, BreakerAssumption DEF BreakerTypes, BreakerTypeOK, IInv
<1>5. PermitHeld' /\ IdleHoldsNothing'
  BY <1>1, <1>2 DEF PermitHeld, IdleHoldsNothing, UnderWay, IInv, BreakerTypeOK
<1>6. LateBound'
  <2> SUFFICES ASSUME consumer = "fetch", state' # "closed"
               PROVE  Cardinality(UnderWay \ {c}) <= herd'
    BY <1>2, <1>3 DEF LateBound
  <2>1. Cardinality(UnderWay \ {c}) \in Nat
    BY LateIsFinite DEF UnderWay
  <2>2. CASE state = "closed"
    BY <1>1, <1>2, <2>1, <2>2
  <2>3. CASE state # "closed"
    <3>1. herd' = herd /\ Cardinality(Late) <= herd
      BY <1>2, <2>3 DEF IInv, LateBound
    <3>2. Cardinality(UnderWay \ {c}) <= Cardinality(Late)
      <4>1. CASE \A d \in UnderWay : permit[d] = "held" => d = c
        <5>1. UnderWay \ {c} \in SUBSET Late /\ Late \in SUBSET Calls
          BY <4>1 DEF Late, UnderWay
        <5> QED
          BY <5>1, LateIsFinite, FS_Subset
      <4>2. CASE \E d \in UnderWay : permit[d] = "held" /\ d # c
        <5>1. PICK p \in UnderWay : permit[p] = "held" /\ p # c
          BY <4>2
        <5>2. /\ UnderWay \ {c} = (Late \ {c}) \cup {p}
              /\ p \notin Late \ {c} /\ c \in Late
          BY <5>1 DEF Late, UnderWay, IInv, PermitHeld
        <5>3. IsFiniteSet(Late) /\ Cardinality(Late) \in Nat
          BY LateIsFinite DEF Late, UnderWay
        <5>4. /\ IsFiniteSet(Late \ {c})
              /\ Cardinality(Late \ {c}) = Cardinality(Late) - 1
          BY <5>2, <5>3, FS_RemoveElement
        <5>5. Cardinality((Late \ {c}) \cup {p}) = Cardinality(Late \ {c}) + 1
          BY <5>2, <5>4, FS_AddElement
        <5>6. Cardinality(UnderWay \ {c}) = Cardinality((Late \ {c}) \cup {p})
          BY <5>2, Zenon
        <5> QED
          BY <5>3, <5>4, <5>5, <5>6
      <4> QED
        BY <4>1, <4>2
    <3>3. Cardinality(Late) \in Nat
      BY LateIsFinite DEF Late, UnderWay
    <3> QED
      BY <2>1, <3>1, <3>2, <3>3 DEF IInv, BreakerTypeOK
  <2> QED
    BY <2>2, <2>3
<1> QED
  BY <1>1, <1>4, <1>5, <1>6 DEF IInv

\* A download that fails and backs off reports, and stays under way.
LEMMA DownloadBacksOffPreserves ==
  ASSUME IInv, NEW c \in Calls, consumer = "download", call[c] = "fetching",
         RecordFailure, state' # "open", BackOff(c), Reported(c)
  PROVE  IInv'
<1>1. /\ BreakerTypes /\ Coherent' /\ probeInFlight' = FALSE
  BY RecordEffect
<1>2. /\ call' = [call EXCEPT ![c] = "backoff"]
      /\ attempt[c] + 1 < MaxAttempts
      /\ attempt' = [attempt EXCEPT ![c] = @ + 1]
      /\ permit' = [d \in Calls |-> IF call'[d] = "idle" THEN "none"
                                    ELSE IF permit[d] = "held" THEN "lost"
                                    ELSE permit[d]]
      /\ herd' = herd
      /\ UNCHANGED <<consumer, healthy>>
  BY DEF BackOff, Reported
<1>3. BreakerTypeOK'
  BY <1>1, <1>2, BreakerAssumption DEF BreakerTypes, BreakerTypeOK, IInv
<1>4. PermitHeld' /\ IdleHoldsNothing'
  BY <1>1, <1>2 DEF PermitHeld, IdleHoldsNothing, UnderWay, IInv, BreakerTypeOK
<1>5. LateBound'
  BY <1>2 DEF LateBound
<1> QED
  BY <1>1, <1>3, <1>4, <1>5 DEF IInv

\* A step of a call that leaves the breaker and the permits alone.
LEMMA AttemptPreserves ==
  ASSUME IInv, NEW c \in Calls, UNCHANGED <<consumer, healthy, breakerVars, permit, herd>>,
         NEW s \in {"fetching", "backoff"}, call' = [call EXCEPT ![c] = s],
         call[c] = "idle" => consumer = "download",
         \/ attempt' = attempt
         \/ attempt[c] + 1 < MaxAttempts /\ attempt' = [attempt EXCEPT ![c] = @ + 1]
  PROVE  IInv'
<1>1. UNCHANGED <<consumer, healthy, state, failures, openedAt, probeInFlight, permit, herd>>
  BY DEF breakerVars
<1>2. BreakerTypeOK'
  BY <1>1, BreakerAssumption DEF BreakerTypeOK, IInv
<1>3. Coherent'
  BY <1>1, Zenon DEF Coherent, IInv
<1>4. UnderWay' = UnderWay \cup {c}
  BY DEF UnderWay, IInv, BreakerTypeOK
<1>5. PermitHeld' /\ IdleHoldsNothing'
  BY <1>1, <1>4 DEF PermitHeld, IdleHoldsNothing, UnderWay, IInv, BreakerTypeOK
<1>6. LateBound'
  <2>1. CASE consumer = "download"
    BY <1>1, <2>1 DEF LateBound
  <2>2. CASE consumer # "download"
    <3>1. Late' = Late
      BY <1>1, <1>4, <2>2 DEF Late, UnderWay
    <3> QED
      BY <1>1, <3>1 DEF LateBound, IInv
  <2> QED
    BY <2>1, <2>2
<1> QED
  BY <1>2, <1>3, <1>5, <1>6 DEF IInv

LEMMA NextIInv == IInv /\ [Next]_vars => IInv'
<1> SUFFICES ASSUME IInv, [Next]_vars PROVE IInv'
  OBVIOUS
<1>1. ASSUME NEW c \in Calls, Fetch(c) PROVE IInv'
  BY <1>1, FetchPreserves
<1>2. ASSUME NEW c \in Calls, FetchSucceeds(c) \/ FetchIsNeutral(c) \/ FetchExhausted(c)
      PROVE IInv'
  BY <1>2, ReportPreserves DEF FetchSucceeds, FetchIsNeutral, FetchExhausted
<1>3. ASSUME NEW c \in Calls, FetchBacksOff(c) PROVE IInv'
  BY <1>3, AttemptPreserves DEF FetchBacksOff, BackOff
<1>4. ASSUME NEW c \in Calls, Download(c) PROVE IInv'
  BY <1>4, AttemptPreserves DEF Download, Begin
<1>5. ASSUME NEW c \in Calls, DownloadSucceeds(c) \/ DownloadIsNeutral(c) PROVE IInv'
  BY <1>5, ReportPreserves DEF DownloadSucceeds, DownloadIsNeutral
<1>6. ASSUME NEW c \in Calls, DownloadFails(c) PROVE IInv'
  <2>1. CASE End(c)
    BY <1>6, <2>1, ReportPreserves DEF DownloadFails
  <2>2. CASE state' # "open" /\ BackOff(c)
    BY <1>6, <2>2, DownloadBacksOffPreserves DEF DownloadFails
  <2> QED
    BY <1>6, <2>1, <2>2 DEF DownloadFails
<1>7. ASSUME NEW c \in Calls, TryAgain(c) PROVE IInv'
  BY <1>7, AttemptPreserves DEF TryAgain, Begin
<1>8. CASE CooldownElapses
  <2>1. /\ openedAt = "cooling" /\ openedAt' = "over"
        /\ UNCHANGED <<consumer, healthy, state, failures, probeInFlight, call, attempt, permit, herd>>
    BY <1>8 DEF CooldownElapses, callVars
  <2> QED
    BY <2>1 DEF IInv, BreakerTypeOK, Coherent, PermitHeld, IdleHoldsNothing, LateBound,
                Late, UnderWay
<1>9. CASE HealthChanges
  <2>1. /\ healthy' = ~healthy
        /\ UNCHANGED <<consumer, state, failures, openedAt, probeInFlight, call, attempt, permit, herd>>
    BY <1>9 DEF HealthChanges, breakerVars, callVars
  <2> QED
    BY <2>1, Zenon DEF IInv, BreakerTypeOK, Coherent, PermitHeld, IdleHoldsNothing, LateBound,
                Late, UnderWay
<1>10. CASE UNCHANGED vars
  BY <1>10 DEF vars, breakerVars, callVars, IInv, BreakerTypeOK, Coherent, PermitHeld,
               IdleHoldsNothing, LateBound, Late, UnderWay
<1> QED
  BY <1>1, <1>2, <1>3, <1>4, <1>5, <1>6, <1>7, <1>8, <1>9, <1>10
     DEF Next, Start, Answer

-----------------------------------------------------------------------------
(* The theorems.                                                           *)

\* The strengthened invariant holds in every reachable state, for any number of
\* calls, any threshold and any number of attempts.
THEOREM BreakerInvariant == Spec => []IInv
<1>1. Init => IInv
  BY InitIInv
<1>2. IInv /\ [Next]_vars => IInv'
  BY NextIInv
<1> QED
  BY <1>1, <1>2, PTL DEF Spec

\* Every variable has its type.
THEOREM BreakerTypeCorrect == Spec => []BreakerTypeOK
<1>1. IInv => BreakerTypeOK
  BY DEF IInv
<1> QED
  BY <1>1, BreakerInvariant, PTL

\* The four fields agree, whatever is reported late (circuit-breaker.ts:176-193).
THEOREM BreakerCoherent == Spec => []Coherent
<1>1. IInv => Coherent
  BY DEF IInv
<1> QED
  BY <1>1, BreakerInvariant, PTL

\* The permit of the half-open state is in flight exactly while one call under
\* way holds it: it always comes back (circuit-breaker.ts:160).
THEOREM BreakerNeverWedged == Spec => []PermitHeld
<1>1. IInv => PermitHeld
  BY DEF IInv
<1> QED
  BY <1>1, BreakerInvariant, PTL

\* At most one of the calls under way holds the permit.
LEMMA OneAboveLate ==
  ASSUME IInv
  PROVE  Cardinality(UnderWay) <= Cardinality(Late) + 1
<1>1. Late \in SUBSET Calls /\ IsFiniteSet(Late) /\ Cardinality(Late) \in Nat
  BY LateIsFinite DEF Late, UnderWay
<1>2. CASE \E p \in UnderWay : permit[p] = "held"
  <2>1. PICK p \in UnderWay : permit[p] = "held"
    BY <1>2
  <2>2. UnderWay = Late \cup {p} /\ p \notin Late
    BY <2>1 DEF Late, UnderWay, IInv, PermitHeld
  <2>3. Cardinality(UnderWay) = Cardinality(Late \cup {p})
    BY <2>2, Zenon
  <2>4. Cardinality(Late \cup {p}) = Cardinality(Late) + 1
    BY <1>1, <2>2, FS_AddElement
  <2> QED
    BY <1>1, <2>3, <2>4
<1>3. CASE ~ \E p \in UnderWay : permit[p] = "held"
  <2>1. UnderWay = Late
    BY <1>3 DEF Late
  <2> QED
    BY <1>1, <2>1
<1> QED
  BY <1>2, <1>3

\* An open circuit never has more calls under way than when it opened, and one
\* probe, for any number of calls and of late reports.
THEOREM BreakerBoundsTheHerd == Spec => []HerdBound
<1>1. IInv => HerdBound
  <2> SUFFICES ASSUME IInv, consumer = "fetch", state # "closed"
               PROVE  Cardinality(UnderWay) <= herd + 1
    BY DEF HerdBound
  <2>1. Cardinality(Late) <= herd /\ herd \in Nat
    BY DEF IInv, LateBound, BreakerTypeOK
  <2>2. Cardinality(Late) \in Nat /\ Cardinality(UnderWay) \in Nat
    BY LateIsFinite DEF Late, UnderWay
  <2> QED
    BY <2>1, <2>2, OneAboveLate
<1> QED
  BY <1>1, BreakerInvariant, PTL
=============================================================================

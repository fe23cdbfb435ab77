--------------------------- MODULE CircuitBreaker ---------------------------
(***************************************************************************)
(* The circuit breaker of gitnexus-shared (integrations/circuit-breaker.ts)*)
(* with the calls that share one: those of resilientFetch (integrations/   *)
(* resilient-fetch.ts), which ask check() and take the permit of the       *)
(* half-open state, or the model downloads of core/embeddings/hf-env.ts,   *)
(* which only look at getState().                                          *)
(*                                                                         *)
(* check() and each record*() are atomic, as the event loop makes them; a  *)
(* call awaits its request and its back-off, and others run meanwhile.     *)
(*                                                                         *)
(* Abstracted: the time since openedAt (the cooldown runs or is over, at   *)
(* any moment), delays, responses beyond the way they are classified.      *)
(***************************************************************************)
EXTENDS Naturals, FiniteSets

CONSTANTS
  Calls,             \* the calls under way at a time, each made again and again
  FailureThreshold,
  MaxAttempts

ASSUME BreakerAssumption ==
  /\ IsFiniteSet(Calls)
  /\ FailureThreshold \in Nat \ {0} /\ MaxAttempts \in Nat \ {0}

VARIABLES
  consumer,          \* which of the two functions uses this breaker
  healthy,           \* the service answers as it should
  state,
  failures,          \* consecutiveFailures, counted up to the threshold
  openedAt,          \* null, or how far the cooldown has got
  probeInFlight,
  call,              \* what each call awaits
  attempt,
  permit,            \* history: the permit of each call under way
  herd               \* history: the calls under way when the circuit opened

breakerVars == <<state, failures, openedAt, probeInFlight>>
callVars == <<call, attempt, permit, herd>>
vars == <<consumer, healthy, breakerVars, callVars>>

UnderWay == {c \in Calls : call[c] # "idle"}

BreakerTypeOK ==
  /\ consumer \in {"fetch", "download"} /\ healthy \in BOOLEAN
  /\ state \in {"closed", "open", "half-open"}
  /\ failures \in 0 .. FailureThreshold
  /\ openedAt \in {"null", "cooling", "over"}
  /\ probeInFlight \in BOOLEAN
  /\ call \in [Calls -> {"idle", "fetching", "backoff"}]
  /\ attempt \in [Calls -> 0 .. MaxAttempts - 1]
  /\ permit \in [Calls -> {"none", "held", "lost"}]
  /\ herd \in Nat

Init ==
  /\ consumer \in {"fetch", "download"} /\ healthy \in BOOLEAN
  /\ state = "closed" /\ failures = 0 /\ openedAt = "null"
  /\ probeInFlight = FALSE
  /\ call = [c \in Calls |-> "idle"] /\ attempt = [c \in Calls |-> 0]
  /\ permit = [c \in Calls |-> "none"] /\ herd = 0

-----------------------------------------------------------------------------
(* CircuitBreaker.                                                         *)

GetState == IF state = "open" /\ openedAt = "over" THEN "half-open" ELSE state

\* check() throws: in the cooldown, or when the one permit is taken.
Refused ==
  \/ GetState = "open" /\ openedAt # "null"
  \/ GetState = "half-open" /\ probeInFlight

\* A half-open breaker that does not take the permit.
CheckUncounted ==
  /\ ~Refused
  /\ state' = GetState
  /\ UNCHANGED <<probeInFlight, failures, openedAt>>

Check ==
  /\ ~Refused
  /\ state' = GetState
  /\ probeInFlight' = (probeInFlight \/ GetState = "half-open")
  /\ UNCHANGED <<failures, openedAt>>

RecordSuccess ==
  /\ probeInFlight' = FALSE /\ failures' = 0
  /\ state' = "closed" /\ openedAt' = "null"

\* A failed probe that keeps its permit.
RecordFailurePermitKept ==
  /\ failures' = FailureThreshold
  /\ state' = "open" /\ openedAt' = "cooling"
  /\ UNCHANGED probeInFlight

RecordFailure ==
  LET count == IF failures < FailureThreshold THEN failures + 1 ELSE failures
  IN /\ probeInFlight' = FALSE
     /\ failures' = count
     /\ IF state = "half-open" \/ count >= FailureThreshold
        THEN state' = "open" /\ openedAt' = "cooling"
        ELSE UNCHANGED <<state, openedAt>>

\* A neutral outcome that leaves everything alone, the permit too.
RecordNeutralPermitKept == UNCHANGED breakerVars

RecordNeutral ==
  /\ probeInFlight' = FALSE
  /\ UNCHANGED <<state, failures, openedAt>>

-----------------------------------------------------------------------------
(* What a call does besides.                                               *)

Begin(c) ==
  /\ call' = [call EXCEPT ![c] = "fetching"]
  /\ UNCHANGED <<consumer, healthy, attempt, herd>>

BackOff(c) ==
  /\ attempt[c] + 1 < MaxAttempts
  /\ call' = [call EXCEPT ![c] = "backoff"]
  /\ attempt' = [attempt EXCEPT ![c] = @ + 1]

End(c) ==
  /\ call' = [call EXCEPT ![c] = "idle"]
  /\ attempt' = [attempt EXCEPT ![c] = 0]

\* The history of a report: it frees the permit, whoever holds it, and it may
\* open the circuit.
Reported(c) ==
  /\ permit' = [d \in Calls |-> IF call'[d] = "idle" THEN "none"
                                ELSE IF permit[d] = "held" THEN "lost"
                                ELSE permit[d]]
  /\ herd' = IF state = "closed" /\ state' = "open"
             THEN Cardinality(UnderWay \ {c})
             ELSE herd
  /\ UNCHANGED <<consumer, healthy>>

-----------------------------------------------------------------------------
(* resilientFetch.                                                         *)

\* breaker.check(), and the first request.  A call that is refused throws, and
\* leaves the breaker as it was.
Fetch(c) ==
  /\ consumer = "fetch" /\ call[c] = "idle"
  /\ Check
  /\ permit' = [permit EXCEPT ![c] = IF probeInFlight' THEN "held" ELSE "none"]
  /\ Begin(c)

\* 2xx and 3xx.
FetchSucceeds(c) ==
  /\ consumer = "fetch" /\ call[c] = "fetching"
  /\ RecordSuccess
  /\ End(c) /\ Reported(c)

\* A client error, a timeout or an abort: no evidence either way.
FetchIsNeutral(c) ==
  /\ consumer = "fetch" /\ call[c] = "fetching"
  /\ ~healthy
  /\ RecordNeutral
  /\ End(c) /\ Reported(c)

\* 429, 5xx or a network error, with attempts left: nothing is recorded.
FetchBacksOff(c) ==
  /\ consumer = "fetch" /\ call[c] = "fetching"
  /\ ~healthy
  /\ BackOff(c)
  /\ UNCHANGED <<consumer, healthy, breakerVars, permit, herd>>

FetchExhausted(c) ==
  /\ consumer = "fetch" /\ call[c] = "fetching"
  /\ ~healthy
  /\ attempt[c] + 1 >= MaxAttempts
  /\ RecordFailure
  /\ End(c) /\ Reported(c)

-----------------------------------------------------------------------------
(* withHfDownloadRetry.                                                    *)

\* The state is looked at and no permit is taken.
Download(c) ==
  /\ consumer = "download" /\ call[c] = "idle"
  /\ GetState # "open"
  /\ Begin(c)
  /\ UNCHANGED <<breakerVars, permit>>

DownloadSucceeds(c) ==
  /\ consumer = "download" /\ call[c] = "fetching"
  /\ RecordSuccess
  /\ End(c) /\ Reported(c)

\* Any error that is not of the network.
DownloadIsNeutral(c) ==
  /\ consumer = "download" /\ call[c] = "fetching"
  /\ ~healthy
  /\ RecordNeutral
  /\ End(c) /\ Reported(c)

\* Every failed attempt counts; when the circuit is open then, no other is made.
DownloadFails(c) ==
  /\ consumer = "download" /\ call[c] = "fetching"
  /\ ~healthy
  /\ RecordFailure
  /\ IF state' = "open" THEN End(c)
     ELSE \/ BackOff(c)
          \/ attempt[c] + 1 >= MaxAttempts /\ End(c)
  /\ Reported(c)

-----------------------------------------------------------------------------
(* Timers and the service.                                                 *)

\* The sleep between attempts is over.  The breaker is not asked again.
TryAgain(c) ==
  /\ call[c] = "backoff"
  /\ Begin(c)
  /\ UNCHANGED <<breakerVars, permit>>

CooldownElapses ==
  /\ openedAt = "cooling"
  /\ openedAt' = "over"
  /\ UNCHANGED <<consumer, healthy, state, failures, probeInFlight, callVars>>

HealthChanges ==
  /\ healthy' = ~healthy
  /\ UNCHANGED <<consumer, breakerVars, callVars>>

Start(c) == Fetch(c) \/ Download(c)

Answer(c) ==
  \/ FetchSucceeds(c) \/ FetchIsNeutral(c) \/ FetchBacksOff(c) \/ FetchExhausted(c)
  \/ DownloadSucceeds(c) \/ DownloadIsNeutral(c) \/ DownloadFails(c)

Next ==
  \/ \E c \in Calls : Start(c) \/ Answer(c) \/ TryAgain(c)
  \/ CooldownElapses
  \/ HealthChanges

Spec == Init /\ [][Next]_vars

\* Requests are answered or time out, timers fire, and callers call again
\* while they are let in.
FairSpec ==
  /\ Spec
  /\ \A c \in Calls : WF_vars(Start(c)) /\ WF_vars(Answer(c)) /\ WF_vars(TryAgain(c))
  /\ WF_vars(CooldownElapses)

-----------------------------------------------------------------------------
(* Properties.                                                             *)

\* The four fields of the breaker agree at any time: it is closed exactly while
\* the failures are below the threshold and no time of opening is kept, and the
\* permit is only taken half-open.  Late reports of calls let in earlier, which
\* arrive in any state, do not break this (circuit-breaker.ts:176, :183).
Coherent ==
  /\ (state = "closed") <=> (failures < FailureThreshold)
  /\ (state = "closed") <=> (openedAt = "null")
  /\ probeInFlight => state = "half-open"

\* The permit is in flight exactly while one call under way holds it, so it
\* comes back whatever becomes of the calls and the breaker is never wedged
\* half-open (circuit-breaker.ts:160, "Failing to pair leaves the probe permit
\* consumed forever and wedges the breaker").
PermitHeld ==
  /\ probeInFlight <=> \E c \in UnderWay : permit[c] = "held"
  /\ \A c, d \in Calls : permit[c] = "held" /\ permit[d] = "held" => c = d

\* A circuit that has opened lets in no stampede: until it closes, the calls
\* under way are at most those there when it opened, and one probe.  This is
\* what is true of "exactly one in-flight probe" (circuit-breaker.ts:11): a
\* late report of an earlier call gives the permit of the probe away, and a
\* second probe starts, but the reporter is gone by then.
HerdBound ==
  consumer = "fetch" /\ state # "closed" => Cardinality(UnderWay) <= herd + 1

\* When the service is well again for good, the circuit closes for good.
Recovers == <>[]healthy => <>[](state = "closed")

=============================================================================

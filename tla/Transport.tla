------------------------------ MODULE Transport ------------------------------
(***************************************************************************)
(* Transport.get (http/transport.py) to one host: RetryPolicy.run around an *)
(* attempt that passes the host's CircuitBreaker, waits for the token       *)
(* bucket and the semaphore, and sends.  Every call runs on one event loop, *)
(* so a step below is the code between two awaits.                          *)
(***************************************************************************)
EXTENDS Naturals, FiniteSets

CONSTANTS
    Calls,              \* the concurrent Transport.get calls
    Outcomes,           \* what the origin may do with a request, of AllOutcomes
    FailureThreshold,   \* breaker_failure_threshold
    Cooldown,           \* breaker_cooldown_seconds, in ticks of the clock
    MaxRetries,         \* RetryPolicy.max_retries
    MaxConcurrency,     \* permits of the semaphore
    MaxFailures         \* where the model stops counting breaker._failures

(***************************************************************************)
(* An answer is one of:                                                     *)
(*   ok        a status below 400, 304 included                             *)
(*   retryable one of RETRYABLE_STATUSES (408, 429, 500, 502, 503, 504) or  *)
(*             one of the six httpx errors RetryPolicy.run makes retryable   *)
(*   terminal  any other status of 400 and above, a 403 or a 404 say        *)
(*   escaping  an httpx.HTTPError that RetryPolicy.run does not list, such   *)
(*             as ReadError: the transport counts it, nobody translates it   *)
(***************************************************************************)
AllOutcomes == {"ok", "retryable", "terminal", "escaping"}

ASSUME TransportAssumption ==
    /\ Outcomes \subseteq AllOutcomes
    /\ FailureThreshold \in Nat \ {0}
    /\ Cooldown \in Nat \ {0}
    /\ MaxRetries \in Nat
    /\ MaxConcurrency \in Nat \ {0}
    /\ MaxFailures \in Nat
    /\ MaxFailures >= FailureThreshold
    /\ IsFiniteSet(Calls)

VARIABLES
    breaker,    \* the CircuitBreaker of the host
    permits,    \* free permits of Transport._semaphore
    pc,         \* where each call is
    attempt,    \* the loop variable of RetryPolicy.run
    result      \* what the last get of each call returned or raised

vars == <<breaker, permits, pc, attempt, result>>

-----------------------------------------------------------------------------
(* CircuitBreaker.  elapsed is clock() - _opened_at, counted up to Cooldown, *)
(* the only bound it is compared with.                                      *)

Counts == 0..MaxFailures

Times == 0..Cooldown

Breakers ==
    [state: {"closed", "open", "half_open"}, failures: Counts,
     elapsed: Times, probe: {"none", "in_flight"}]

NewBreaker == [state |-> "closed", failures |-> 0, elapsed |-> 0, probe |-> "none"]

(* _maybe_half_open *)
HalfOpened(b) ==
    IF b.state = "open" /\ b.elapsed >= Cooldown
    THEN [b EXCEPT !.state = "half_open", !.probe = "none"]
    ELSE b

(* before_request raises CircuitOpenError *)
Refuses(b) ==
    LET h == HalfOpened(b)
    IN  h.state = "open" \/ (h.state = "half_open" /\ h.probe = "in_flight")

(* Mutant: a half-open breaker does not note that its probe is out.         *)
AfterAdmissionUnnoted(b) == HalfOpened(b)

(* before_request returns: the first caller of a half-open breaker probes *)
AfterAdmission(b) ==
    LET h == HalfOpened(b)
    IN  IF h.state = "half_open" THEN [h EXCEPT !.probe = "in_flight"] ELSE h

RecordSuccess(b) == [b EXCEPT !.state = "closed", !.failures = 0, !.probe = "none"]

Tripped(b) == [b EXCEPT !.state = "open", !.elapsed = 0, !.probe = "none"]

OneMoreFailure(n) == IF n < MaxFailures THEN n + 1 ELSE n

RecordFailure(b) ==
    LET n == OneMoreFailure(b.failures)
    IN  IF b.state = "half_open" THEN Tripped(b)
        ELSE IF b.state = "closed" /\ n >= FailureThreshold
        THEN [Tripped(b) EXCEPT !.failures = n]
        ELSE [b EXCEPT !.failures = n, !.probe = "none"]

-----------------------------------------------------------------------------
Init ==
    /\ breaker = NewBreaker
    /\ permits = MaxConcurrency
    /\ pc = [c \in Calls |-> "idle"]
    /\ attempt = [c \in Calls |-> 0]
    /\ result = [c \in Calls |-> "none"]

Goto(c, place) == pc' = [pc EXCEPT ![c] = place]

Finish(c, outcome) ==
    /\ Goto(c, "idle")
    /\ result' = [result EXCEPT ![c] = outcome]

(* get passes the robots gate and enters RetryPolicy.run. *)
Get(c) ==
    /\ pc[c] = "idle"
    /\ Goto(c, "attempt")
    /\ attempt' = [attempt EXCEPT ![c] = 0]
    /\ result' = [result EXCEPT ![c] = "none"]
    /\ UNCHANGED <<breaker, permits>>

(* Mutant: a refusal starts the cooldown again.                             *)
FailFastRestarting(c) ==
    /\ pc[c] = "attempt"
    /\ Refuses(breaker)
    /\ breaker' = [HalfOpened(breaker) EXCEPT !.elapsed = 0]
    /\ Finish(c, "circuit_open")
    /\ UNCHANGED <<permits, attempt>>

(* before_request raises; run re-raises at once, with no retry. *)
FailFast(c) ==
    /\ pc[c] = "attempt"
    /\ Refuses(breaker)
    /\ breaker' = HalfOpened(breaker)
    /\ Finish(c, "circuit_open")
    /\ UNCHANGED <<permits, attempt>>

(* before_request lets the call pass; it now queues for a token and a permit. *)
Enter(c) ==
    /\ pc[c] = "attempt"
    /\ ~Refuses(breaker)
    /\ breaker' = AfterAdmission(breaker)
    /\ Goto(c, "queued")
    /\ UNCHANGED <<permits, attempt, result>>

(* The token is taken and async with self._semaphore entered. *)
Send(c) ==
    /\ pc[c] = "queued"
    /\ permits > 0
    /\ permits' = permits - 1
    /\ Goto(c, "sent")
    /\ UNCHANGED <<breaker, attempt, result>>

(* The request returns or raises, which leaves the semaphore either way. *)
Answered(c) ==
    /\ pc[c] = "sent"
    /\ permits' = permits + 1
    /\ UNCHANGED attempt

Succeed(c) ==
    /\ "ok" \in Outcomes
    /\ Answered(c)
    /\ breaker' = RecordSuccess(breaker)
    /\ Finish(c, "ok")

(* A counted failure: back off while attempts are left, else raise it. *)
FailRetryably(c) ==
    /\ "retryable" \in Outcomes
    /\ Answered(c)
    /\ breaker' = RecordFailure(breaker)
    /\ IF attempt[c] >= MaxRetries
       THEN Finish(c, "retryable")
       ELSE Goto(c, "backoff") /\ UNCHANGED result

(* A terminal status: raised at once, and told to the breaker by nobody.    *)
FailTerminally(c) ==
    /\ "terminal" \in Outcomes
    /\ Answered(c)
    /\ Finish(c, "terminal")
    /\ UNCHANGED breaker

(* Counted by the transport, then it leaves RetryPolicy.run as it is. *)
Escape(c) ==
    /\ "escaping" \in Outcomes
    /\ Answered(c)
    /\ breaker' = RecordFailure(breaker)
    /\ Finish(c, "httpx_error")

(* Mutant: the attempts are not counted.                                    *)
WakeUncounted(c) ==
    /\ pc[c] = "backoff"
    /\ Goto(c, "attempt")
    /\ UNCHANGED <<breaker, permits, attempt, result>>

(* The backoff or Retry-After sleep of RetryPolicy.run is over. *)
Wake(c) ==
    /\ pc[c] = "backoff"
    /\ attempt' = [attempt EXCEPT ![c] = @ + 1]
    /\ Goto(c, "attempt")
    /\ UNCHANGED <<breaker, permits, result>>

(* /healthz reads every breaker's state property, which may half-open it. *)
ReadState ==
    /\ breaker' = HalfOpened(breaker)
    /\ UNCHANGED <<permits, pc, attempt, result>>

Tick ==
    /\ breaker.elapsed < Cooldown
    /\ breaker' = [breaker EXCEPT !.elapsed = @ + 1]
    /\ UNCHANGED <<permits, pc, attempt, result>>

Step(c) ==
    \/ FailFast(c) \/ Enter(c) \/ Send(c) \/ Wake(c)
    \/ Succeed(c) \/ FailRetryably(c) \/ FailTerminally(c) \/ Escape(c)

Next ==
    \/ Tick
    \/ ReadState
    \/ \E c \in Calls : Get(c) \/ Step(c)

Spec == Init /\ [][Next]_vars

(***************************************************************************)
(* A call that runs is rescheduled; httpx bounds every request by           *)
(* timeout_seconds, so a sent one is answered; asyncio.Semaphore wakes its  *)
(* waiters in order, so one that keeps seeing permits come free gets one;   *)
(* time passes.  Nobody is obliged to call get or to read /healthz.         *)
(***************************************************************************)
Fairness ==
    /\ WF_vars(Tick)
    /\ \A c \in Calls :
        /\ SF_vars(Send(c))
        /\ WF_vars(FailFast(c) \/ Enter(c) \/ Wake(c))
        /\ WF_vars(Succeed(c) \/ FailRetryably(c) \/ FailTerminally(c) \/ Escape(c))

FairSpec == Spec /\ Fairness

-----------------------------------------------------------------------------
Pending == {c \in Calls : pc[c] \in {"queued", "sent"}}
Sent == {c \in Calls : pc[c] = "sent"}

(* Every variable holds a value of its type. *)
TypeOK ==
    /\ breaker \in Breakers
    /\ permits \in 0..MaxConcurrency
    /\ pc \in [Calls -> {"idle", "attempt", "queued", "sent", "backoff"}]
    /\ attempt \in [Calls -> 0..MaxRetries]
    /\ result \in [Calls -> {"none", "circuit_open", "httpx_error"} \cup AllOutcomes]

(***************************************************************************)
(* The breaker is closed exactly while fewer than breaker_failure_threshold *)
(* failures stand since the last success, however late the answers of calls *)
(* admitted before a trip arrive (breaker.py, record_success and            *)
(* record_failure).                                                         *)
(***************************************************************************)
TrippedByThreshold ==
    breaker.state = "closed" <=> breaker.failures < FailureThreshold

(***************************************************************************)
(* A permit is held by the calls on the wire and by nobody else: no exit    *)
(* from an attempt, error or not, leaks one or returns it twice             *)
(* (transport.py, async with self._semaphore).                              *)
(***************************************************************************)
PermitsConserved == permits + Cardinality(Sent) = MaxConcurrency

(* The breaker waits for a probe that nobody will ever report.              *)
ProbeLost == breaker.state = "half_open" /\ breaker.probe = "in_flight" /\ Pending = {}

(***************************************************************************)
(* A breaker that is called again and again does not refuse for ever,       *)
(* unless it has lost its probe: neither refusals, nor late answers, nor    *)
(* health reads put its half-opening off (breaker.py, _maybe_half_open;     *)
(* RUNBOOK.md: "it half-opens automatically after cooldown").               *)
(***************************************************************************)
RefusesForEverOnlyIfLost == []<>(~Refuses(breaker) \/ ProbeLost)

(***************************************************************************)
(* Every get ends, with a result or an error: attempts are finitely many    *)
(* and each of them ends (retry.py, RetryPolicy.run).                       *)
(***************************************************************************)
EveryGetEnds == \A c \in Calls : pc[c] # "idle" ~> pc[c] = "idle"

(* The breaker, seen as the gate of HostGate: a probe is paid for when a    *)
(* cooldown has passed since the trip and the probe of that trip is unspent. *)
GateMode == IF breaker.state = "closed" THEN "closed" ELSE "tripped"

GateBudget ==
    IF \/ breaker.state = "open" /\ breaker.elapsed >= Cooldown
       \/ breaker.state = "half_open" /\ breaker.probe = "none"
    THEN 1 ELSE 0

Gate == INSTANCE HostGate WITH mode <- GateMode, budget <- GateBudget, admitted <- Pending

(***************************************************************************)
(* The breaker implements HostGate: a tripped host sees at most one request *)
(* per cooldown that the gate let through after the trip, whatever late     *)
(* answers close, re-open or ignore (breaker.py, before_request).           *)
(***************************************************************************)
GateSpec == Gate!Spec
=============================================================================

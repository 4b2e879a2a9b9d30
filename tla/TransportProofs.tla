--------------------------- MODULE TransportProofs ---------------------------
(***************************************************************************)
(* The safety properties of Transport for any set of calls, any thresholds  *)
(* and any bounds.  One inductive invariant carries all of them: the type   *)
(* of permits needs their conservation (an answered call returns a permit   *)
(* only if one was out), and the type of attempt and the refinement need    *)
(* the two facts about backoff and half-opening that IInv adds.             *)
(***************************************************************************)
EXTENDS Transport, FiniteSetTheorems, TLAPS

(* RetryPolicy.run sleeps only if another attempt follows. *)
BackoffHasRetries == \A c \in Calls : pc[c] = "backoff" => attempt[c] < MaxRetries

(* _maybe_half_open waits for the cooldown, and half-open nothing restamps it. *)
HalfOpenIsCooled == breaker.state = "half_open" => breaker.elapsed = Cooldown

IInv ==
    /\ TypeOK
    /\ TrippedByThreshold
    /\ PermitsConserved
    /\ BackoffHasRetries
    /\ HalfOpenIsCooled

-----------------------------------------------------------------------------
(* What the transitions of the CircuitBreaker return.                       *)

WellFormed(b) ==
    /\ b.state = "closed" <=> b.failures < FailureThreshold
    /\ b.state = "half_open" => b.elapsed = Cooldown

(* _maybe_half_open keeps a breaker well formed. *)
LEMMA HalfOpenedIsGood ==
    ASSUME NEW b \in Breakers, WellFormed(b)
    PROVE  HalfOpened(b) \in Breakers /\ WellFormed(HalfOpened(b))
  <1>1. CASE b.state = "open" /\ b.elapsed >= Cooldown
    <2>1. HalfOpened(b) = [b EXCEPT !.state = "half_open", !.probe = "none"]
      BY <1>1 DEF HalfOpened
    <2>2. b.elapsed = Cooldown
      BY <1>1, TransportAssumption DEF Breakers, Times
    <2> QED
      BY <1>1, <2>1, <2>2 DEF WellFormed, Breakers
  <1>2. CASE ~(b.state = "open" /\ b.elapsed >= Cooldown)
    BY <1>2 DEF HalfOpened
  <1> QED
    BY <1>1, <1>2

(* So does letting a call pass, *)
LEMMA AfterAdmissionIsGood ==
    ASSUME NEW b \in Breakers, WellFormed(b)
    PROVE  AfterAdmission(b) \in Breakers /\ WellFormed(AfterAdmission(b))
  <1> DEFINE h == HalfOpened(b)
  <1>1. h \in Breakers /\ WellFormed(h)
    BY HalfOpenedIsGood
  <1>2. AfterAdmission(b) = IF h.state = "half_open" THEN [h EXCEPT !.probe = "in_flight"] ELSE h
    BY DEF AfterAdmission
  <1> HIDE DEF h
  <1> QED
    BY <1>1, <1>2 DEF WellFormed, Breakers

(* a recorded success, *)
LEMMA RecordSuccessIsGood ==
    ASSUME NEW b \in Breakers, WellFormed(b)
    PROVE  RecordSuccess(b) \in Breakers /\ WellFormed(RecordSuccess(b))
  <1>1. 0 \in Counts /\ 0 < FailureThreshold
    BY TransportAssumption DEF Counts
  <1> QED
    BY <1>1 DEF WellFormed, RecordSuccess, Breakers

(* a trip, at or after the threshold, *)
LEMMA TrippedIsGood ==
    ASSUME NEW b \in Breakers, NEW n \in Counts, ~(n < FailureThreshold)
    PROVE  /\ [Tripped(b) EXCEPT !.failures = n] \in Breakers
           /\ WellFormed([Tripped(b) EXCEPT !.failures = n])
  <1>1. 0 \in Times
    BY TransportAssumption DEF Times
  <1> QED
    BY <1>1 DEF WellFormed, Tripped, Breakers

(* and a recorded failure, which trips a closed breaker at the threshold. *)
LEMMA RecordFailureIsGood ==
    ASSUME NEW b \in Breakers, WellFormed(b)
    PROVE  RecordFailure(b) \in Breakers /\ WellFormed(RecordFailure(b))
  <1> DEFINE n == OneMoreFailure(b.failures)
  <1>1. n \in Counts /\ n >= b.failures
    BY TransportAssumption DEF OneMoreFailure, Breakers, Counts
  <1>2. b.failures < FailureThreshold \/ ~(n < FailureThreshold)
    BY <1>1, TransportAssumption DEF Breakers, Counts
  <1>3. n >= FailureThreshold <=> ~(n < FailureThreshold)
    BY <1>1, TransportAssumption DEF Counts
  <1> HIDE DEF n
  <1>4. CASE b.state = "half_open"
    <2>1. RecordFailure(b) = Tripped(b)
      BY <1>4 DEF RecordFailure
    <2>2. Tripped(b) = [Tripped(b) EXCEPT !.failures = b.failures]
      BY DEF Tripped, Breakers
    <2>3. b.failures \in Counts /\ ~(b.failures < FailureThreshold)
      BY <1>4 DEF WellFormed, Breakers
    <2> QED
      BY <2>1, <2>2, <2>3, TrippedIsGood
  <1>5. CASE b.state = "closed" /\ n >= FailureThreshold
    <2>1. RecordFailure(b) = [Tripped(b) EXCEPT !.failures = n]
      BY <1>5 DEF RecordFailure, n
    <2> QED
      BY <1>1, <1>3, <1>5, <2>1, TrippedIsGood
  <1>6. CASE b.state # "half_open" /\ ~(b.state = "closed" /\ n >= FailureThreshold)
    <2>1. RecordFailure(b) = [b EXCEPT !.failures = n, !.probe = "none"]
      BY <1>6 DEF RecordFailure, n
    <2> QED
      BY <1>1, <1>2, <1>3, <1>6, <2>1 DEF WellFormed, Breakers
  <1> QED
    BY <1>4, <1>5, <1>6

-----------------------------------------------------------------------------
(* Sending takes a call into Sent. *)
LEMMA SendTakesAPermit ==
    ASSUME IInv, NEW c \in Calls, Send(c)
    PROVE  PermitsConserved' /\ permits' \in 0..MaxConcurrency
  <1>1. Sent' = Sent \cup {c} /\ c \notin Sent
    BY DEF Send, Goto, Sent, IInv, TypeOK
  <1>2. IsFiniteSet(Sent)
    BY TransportAssumption, FS_Subset DEF Sent
  <1>3. Cardinality(Sent') = Cardinality(Sent) + 1
    BY <1>1, <1>2, FS_AddElement
  <1>4. Cardinality(Sent) \in Nat
    BY <1>2, FS_CardinalityType
  <1> QED
    BY <1>3, <1>4, TransportAssumption DEF IInv, TypeOK, PermitsConserved, Send

(* Any answer takes a call out of it. *)
LEMMA AnswerReturnsThePermit ==
    ASSUME IInv, NEW c \in Calls, NEW place \in {"idle", "backoff"},
           Answered(c), Goto(c, place)
    PROVE  PermitsConserved' /\ permits' \in 0..MaxConcurrency
  <1>1. Sent' = Sent \ {c} /\ c \in Sent
    BY DEF Answered, Goto, Sent, IInv, TypeOK
  <1>2. IsFiniteSet(Sent)
    BY TransportAssumption, FS_Subset DEF Sent
  <1>3. Cardinality(Sent') = Cardinality(Sent) - 1
    BY <1>1, <1>2, FS_RemoveElement
  <1>4. Cardinality(Sent) \in Nat /\ Cardinality(Sent') \in Nat
    BY <1>1, <1>2, FS_CardinalityType, FS_RemoveElement
  <1> QED
    BY <1>3, <1>4, TransportAssumption DEF IInv, TypeOK, PermitsConserved, Answered

-----------------------------------------------------------------------------
(* IInv holds initially. *)
LEMMA InitIInv == Init => IInv
  <1> SUFFICES ASSUME Init
               PROVE  IInv
    OBVIOUS
  <1>1. TypeOK
    BY TransportAssumption DEF Init, NewBreaker, TypeOK, Breakers, Counts, Times
  <1>2. PermitsConserved
    <2>1. Sent = {}
      BY DEF Init, Sent
    <2> QED
      BY <2>1, FS_EmptySet, TransportAssumption DEF Init, PermitsConserved
  <1> QED
    BY <1>1, <1>2, TransportAssumption
       DEF Init, NewBreaker, IInv, TrippedByThreshold, BackoffHasRetries, HalfOpenIsCooled

(* The part of the state a call's step writes besides breaker and permits. *)
CallsOK ==
    /\ pc \in [Calls -> {"idle", "attempt", "queued", "sent", "backoff"}]
    /\ attempt \in [Calls -> 0..MaxRetries]
    /\ result \in [Calls -> {"none", "circuit_open", "httpx_error"} \cup AllOutcomes]
    /\ BackoffHasRetries

BreakerOK == breaker \in Breakers /\ WellFormed(breaker)

PermitsOK == PermitsConserved /\ permits \in 0..MaxConcurrency

(* IInv is made of three parts that steps disturb one at a time. *)
LEMMA IInvParts == IInv <=> CallsOK /\ BreakerOK /\ PermitsOK
  BY DEF IInv, TypeOK, TrippedByThreshold, HalfOpenIsCooled, CallsOK, BreakerOK,
         PermitsOK, WellFormed

LEMMA IInvPartsNext == IInv' <=> CallsOK' /\ BreakerOK' /\ PermitsOK'
  BY DEF IInv, TypeOK, TrippedByThreshold, HalfOpenIsCooled, CallsOK, BreakerOK,
         PermitsOK, WellFormed

(* A step that neither sends nor answers keeps the permits. *)
LEMMA NobodyElseMovesPermits ==
    ASSUME IInv, UNCHANGED permits, Sent' = Sent
    PROVE  PermitsOK'
  BY DEF IInv, TypeOK, PermitsConserved, PermitsOK

(* Every step of the specification keeps IInv. *)
LEMMA NextIInv == IInv /\ [Next]_vars => IInv'
  <1> SUFFICES ASSUME IInv, [Next]_vars
               PROVE  CallsOK' /\ BreakerOK' /\ PermitsOK'
    BY IInvPartsNext
  <1> USE IInvParts
  <1>1. CASE Tick
    <2>1. breaker.elapsed + 1 \in Times
      BY <1>1, TransportAssumption DEF Tick, BreakerOK, Breakers, Times
    <2>2. breaker.state # "half_open"
      BY <1>1, TransportAssumption DEF Tick, BreakerOK, Breakers, Times, WellFormed
    <2>3. BreakerOK'
      BY <1>1, <2>1, <2>2 DEF Tick, BreakerOK, WellFormed, Breakers
    <2> QED
      BY <1>1, <2>3 DEF Tick, CallsOK, BackoffHasRetries, PermitsOK, PermitsConserved, Sent
  <1>2. CASE ReadState
    BY <1>2, HalfOpenedIsGood
       DEF ReadState, BreakerOK, CallsOK, BackoffHasRetries, PermitsOK, PermitsConserved, Sent
  <1>3. ASSUME NEW c \in Calls, Get(c)
        PROVE  CallsOK' /\ BreakerOK' /\ PermitsOK'
    <2>1. CallsOK' /\ BreakerOK' /\ UNCHANGED permits
      BY <1>3, TransportAssumption DEF Get, Goto, CallsOK, BackoffHasRetries, BreakerOK
    <2>2. Sent' = Sent
      BY <1>3 DEF Get, Goto, CallsOK, Sent
    <2> QED
      BY <2>1, <2>2, NobodyElseMovesPermits
  <1>4. ASSUME NEW c \in Calls, FailFast(c)
        PROVE  CallsOK' /\ BreakerOK' /\ PermitsOK'
    <2>1. CallsOK' /\ UNCHANGED permits
      BY <1>4 DEF FailFast, Finish, Goto, CallsOK, BackoffHasRetries
    <2>2. BreakerOK'
      BY <1>4, HalfOpenedIsGood DEF FailFast, BreakerOK
    <2>3. Sent' = Sent
      BY <1>4 DEF FailFast, Finish, Goto, CallsOK, Sent
    <2> QED
      BY <2>1, <2>2, <2>3, NobodyElseMovesPermits
  <1>5. ASSUME NEW c \in Calls, Enter(c)
        PROVE  CallsOK' /\ BreakerOK' /\ PermitsOK'
    <2>1. CallsOK' /\ UNCHANGED permits
      BY <1>5 DEF Enter, Goto, CallsOK, BackoffHasRetries
    <2>2. BreakerOK'
      BY <1>5, AfterAdmissionIsGood DEF Enter, BreakerOK
    <2>3. Sent' = Sent
      BY <1>5 DEF Enter, Goto, CallsOK, Sent
    <2> QED
      BY <2>1, <2>2, <2>3, NobodyElseMovesPermits
  <1>6. ASSUME NEW c \in Calls, Send(c)
        PROVE  CallsOK' /\ BreakerOK' /\ PermitsOK'
    BY <1>6, SendTakesAPermit
       DEF Send, Goto, CallsOK, BackoffHasRetries, BreakerOK, PermitsOK
  <1>7. ASSUME NEW c \in Calls, Wake(c)
        PROVE  CallsOK' /\ BreakerOK' /\ PermitsOK'
    <2>1. attempt[c] + 1 \in 0..MaxRetries
      BY <1>7, TransportAssumption DEF Wake, CallsOK, BackoffHasRetries
    <2>2. CallsOK' /\ BreakerOK' /\ UNCHANGED permits
      BY <1>7, <2>1 DEF Wake, Goto, CallsOK, BackoffHasRetries, BreakerOK
    <2>3. Sent' = Sent
      BY <1>7 DEF Wake, Goto, CallsOK, Sent
    <2> QED
      BY <2>2, <2>3, NobodyElseMovesPermits
  <1>8. ASSUME NEW c \in Calls,
               Succeed(c) \/ FailRetryably(c) \/ FailTerminally(c) \/ Escape(c)
        PROVE  CallsOK' /\ BreakerOK' /\ PermitsOK'
    <2>1. Answered(c) /\ \E place \in {"idle", "backoff"} : Goto(c, place)
      BY <1>8 DEF Succeed, FailRetryably, FailTerminally, Escape, Finish
    <2>2. PermitsOK'
      BY <2>1, AnswerReturnsThePermit DEF PermitsOK
    <2>3. breaker' \in {breaker, RecordSuccess(breaker), RecordFailure(breaker)}
      BY <1>8 DEF Succeed, FailRetryably, FailTerminally, Escape
    <2>4. BreakerOK'
      BY <2>3, RecordSuccessIsGood, RecordFailureIsGood DEF BreakerOK
    <2>5. FailRetryably(c) /\ attempt[c] < MaxRetries => CallsOK'
      BY TransportAssumption
         DEF FailRetryably, Answered, Finish, Goto, CallsOK, BackoffHasRetries
    <2>6. ASSUME NEW outcome \in {"httpx_error"} \cup AllOutcomes, Finish(c, outcome)
          PROVE  CallsOK'
      BY <2>1, <2>6 DEF Answered, Finish, Goto, CallsOK, BackoffHasRetries
    <2>7. \/ FailRetryably(c) /\ attempt[c] < MaxRetries
          \/ \E outcome \in {"httpx_error"} \cup AllOutcomes : Finish(c, outcome)
      BY <1>8, TransportAssumption
         DEF Succeed, FailRetryably, FailTerminally, Escape, CallsOK, AllOutcomes
    <2> QED
      BY <2>2, <2>4, <2>5, <2>6, <2>7
  <1>9. CASE UNCHANGED vars
    BY <1>9 DEF vars, CallsOK, BackoffHasRetries, BreakerOK, PermitsOK, PermitsConserved, Sent
  <1> QED
    BY <1>1, <1>2, <1>3, <1>4, <1>5, <1>6, <1>7, <1>8, <1>9 DEF Next, Step

(***************************************************************************)
(* Every variable of the transport keeps a value of its type: the loop of   *)
(* RetryPolicy.run stays within max_retries and the semaphore's count       *)
(* between 0 and max_concurrency.                                           *)
(***************************************************************************)
THEOREM TypeCorrect == Spec => []TypeOK
  <1>1. IInv => TypeOK
    BY DEF IInv
  <1> QED
    BY InitIInv, NextIInv, <1>1, PTL DEF Spec

(***************************************************************************)
(* For every threshold, the breaker is closed exactly while fewer failures  *)
(* than breaker_failure_threshold stand since the last success              *)
(* (record_failure, record_success).                                        *)
(***************************************************************************)
THEOREM TripsAtThreshold == Spec => []TrippedByThreshold
  <1>1. IInv => TrippedByThreshold
    BY DEF IInv
  <1> QED
    BY InitIInv, NextIInv, <1>1, PTL DEF Spec

(***************************************************************************)
(* For any finite set of calls, the free permits and the requests on the    *)
(* wire add up to max_concurrency: no outcome of an attempt leaks a permit. *)
(***************************************************************************)
THEOREM NoPermitLeaks == Spec => []PermitsConserved
  <1>1. IInv => PermitsConserved
    BY DEF IInv
  <1> QED
    BY InitIInv, NextIInv, <1>1, PTL DEF Spec

-----------------------------------------------------------------------------
(* A recorded failure trips the gate or leaves it as it was. *)
LEMMA RecordFailureIsGateFail ==
    ASSUME BreakerOK, breaker' = RecordFailure(breaker)
    PROVE  \/ GateMode' = "tripped" /\ GateBudget' = 0
           \/ GateMode' = GateMode /\ GateBudget' = GateBudget
  <1>1. ~(0 >= Cooldown)
    BY TransportAssumption
  <1>2. CASE breaker.state = "half_open"
    <2>1. breaker'.state = "open" /\ breaker'.elapsed = 0
      BY <1>2 DEF RecordFailure, Tripped, BreakerOK, Breakers
    <2> QED
      BY <1>1, <2>1 DEF GateMode, GateBudget
  <1>3. CASE breaker.state = "closed" /\ OneMoreFailure(breaker.failures) >= FailureThreshold
    <2>1. breaker'.state = "open" /\ breaker'.elapsed = 0
      BY <1>3 DEF RecordFailure, Tripped, BreakerOK, Breakers
    <2> QED
      BY <1>1, <2>1 DEF GateMode, GateBudget
  <1>4. CASE /\ breaker.state # "half_open"
             /\ ~(breaker.state = "closed" /\ OneMoreFailure(breaker.failures) >= FailureThreshold)
    <2>1. breaker'.state = breaker.state /\ breaker'.elapsed = breaker.elapsed
      BY <1>4 DEF RecordFailure, BreakerOK, Breakers
    <2> QED
      BY <1>4, <2>1 DEF GateMode, GateBudget
  <1> QED
    BY <1>2, <1>3, <1>4

(* Half-opening does not show: the cooled open breaker was one probe already. *)
LEMMA HalfOpeningIsHidden ==
    ASSUME BreakerOK, breaker' = HalfOpened(breaker)
    PROVE  GateMode' = GateMode /\ GateBudget' = GateBudget
  <1>1. CASE breaker.state = "open" /\ breaker.elapsed >= Cooldown
    <2>1. breaker'.state = "half_open" /\ breaker'.probe = "none"
      BY <1>1 DEF HalfOpened, BreakerOK, Breakers
    <2> QED
      BY <1>1, <2>1 DEF GateMode, GateBudget
  <1>2. CASE ~(breaker.state = "open" /\ breaker.elapsed >= Cooldown)
    BY <1>2 DEF HalfOpened, GateMode, GateBudget
  <1> QED
    BY <1>1, <1>2

(* An admission by a closed breaker, and by any other, spends the budget.   *)
LEMMA AdmissionIsGateAdmission ==
    ASSUME BreakerOK, ~Refuses(breaker), breaker' = AfterAdmission(breaker)
    PROVE  \/ GateMode = "closed" /\ GateMode' = GateMode /\ GateBudget' = GateBudget
           \/ GateMode = "tripped" /\ GateMode' = GateMode /\ GateBudget = 1 /\ GateBudget' = 0
  <1> DEFINE h == HalfOpened(breaker)
  <1>1. h \in Breakers /\ WellFormed(h)
    BY HalfOpenedIsGood DEF BreakerOK
  <1>2. h.state # "open" /\ (h.state = "half_open" => h.probe = "none")
    BY <1>1 DEF Refuses, Breakers
  <1>3. breaker' = IF h.state = "half_open" THEN [h EXCEPT !.probe = "in_flight"] ELSE h
    BY DEF AfterAdmission
  <1>4. CASE h.state = "closed"
    <2>1. breaker.state = "closed" /\ breaker' = breaker
      BY <1>3, <1>4 DEF HalfOpened, BreakerOK, Breakers
    <2> QED
      BY <2>1 DEF GateMode, GateBudget
  <1>5. CASE h.state = "half_open"
    <2>1. \/ breaker.state = "open" /\ breaker.elapsed >= Cooldown
          \/ breaker.state = "half_open" /\ breaker.probe = "none"
      BY <1>2, <1>5 DEF HalfOpened, BreakerOK, Breakers
    <2>2. breaker'.state = "half_open" /\ breaker'.probe = "in_flight"
      <3> HIDE DEF h
      <3> QED
        BY <1>1, <1>3, <1>5 DEF Breakers
    <2> QED
      BY <2>1, <2>2 DEF GateMode, GateBudget
  <1> QED
    BY <1>1, <1>2, <1>4, <1>5 DEF Breakers

(* The initial states of Transport are initial states of the gate. *)
LEMMA InitGate == Init => Gate!Init
  BY DEF Init, NewBreaker, Gate!Init, GateMode, GateBudget, Pending

(* Every step of Transport is a step of the gate, or does not show. *)
LEMMA NextGate == IInv /\ [Next]_vars => [Gate!Next]_Gate!vars
  <1> SUFFICES ASSUME IInv, [Next]_vars
               PROVE  Gate!Next \/ UNCHANGED Gate!vars
    OBVIOUS
  <1>0. CallsOK /\ BreakerOK
    BY IInvParts
  <1> USE DEF Gate!Next, Gate!vars
  <1>1. CASE Tick
    <2>1. UNCHANGED Pending
      BY <1>1 DEF Tick, Pending
    <2>2. breaker'.state = breaker.state /\ breaker'.probe = breaker.probe
      BY <1>0, <1>1 DEF Tick, BreakerOK, Breakers
    <2>3. GateMode' = GateMode
      BY <2>2 DEF GateMode
    <2>4. CASE breaker.state = "open"
      <3>1. GateMode = "tripped" /\ GateBudget = 0 /\ GateBudget' \in {0, 1}
        BY <1>0, <1>1, <2>2, <2>4, TransportAssumption
           DEF Tick, GateMode, GateBudget, BreakerOK, Breakers, Times
      <3> QED
        BY <2>1, <2>3, <3>1 DEF Gate!CooldownOver
    <2>5. CASE breaker.state # "open"
      <3>1. GateBudget' = GateBudget
        BY <2>2, <2>5 DEF GateBudget
      <3> QED
        BY <2>1, <2>3, <3>1
    <2> QED
      BY <2>4, <2>5
  <1>2. CASE ReadState
    BY <1>0, <1>2, HalfOpeningIsHidden DEF ReadState, Pending
  <1>3. ASSUME NEW c \in Calls, Get(c)
        PROVE  Gate!Next \/ UNCHANGED Gate!vars
    BY <1>0, <1>3 DEF Get, Goto, CallsOK, Pending, GateMode, GateBudget
  <1>4. ASSUME NEW c \in Calls, FailFast(c)
        PROVE  Gate!Next \/ UNCHANGED Gate!vars
    <2>1. UNCHANGED Pending
      BY <1>0, <1>4 DEF FailFast, Finish, Goto, CallsOK, Pending
    <2> QED
      BY <1>0, <1>4, <2>1, HalfOpeningIsHidden DEF FailFast
  <1>5. ASSUME NEW c \in Calls, Enter(c)
        PROVE  Gate!Next \/ UNCHANGED Gate!vars
    <2>1. Pending' = Pending \cup {c} /\ c \notin Pending
      BY <1>0, <1>5 DEF Enter, Goto, CallsOK, Pending
    <2> QED
      BY <1>0, <1>5, <2>1, AdmissionIsGateAdmission DEF Enter, Gate!Admit, Gate!Probe
  <1>6. ASSUME NEW c \in Calls, Send(c) \/ Wake(c)
        PROVE  Gate!Next \/ UNCHANGED Gate!vars
    <2>1. UNCHANGED Pending
      BY <1>0, <1>6 DEF Send, Wake, Goto, CallsOK, Pending
    <2> QED
      BY <1>6, <2>1 DEF Send, Wake, GateMode, GateBudget
  <1>7. ASSUME NEW c \in Calls,
               Succeed(c) \/ FailRetryably(c) \/ FailTerminally(c) \/ Escape(c)
        PROVE  Gate!Next \/ UNCHANGED Gate!vars
    <2>1. Pending' = Pending \ {c} /\ c \in Pending
      BY <1>0, <1>7 DEF Succeed, FailRetryably, FailTerminally, Escape, Answered,
                        Finish, Goto, CallsOK, Pending
    <2>2. CASE Succeed(c)
      <3>1. breaker'.state = "closed"
        BY <1>0, <2>2 DEF Succeed, RecordSuccess, BreakerOK, Breakers
      <3> QED
        BY <2>1, <3>1 DEF Gate!Succeed, GateMode, GateBudget
    <2>3. CASE FailRetryably(c) \/ Escape(c)
      BY <1>0, <2>1, <2>3, RecordFailureIsGateFail DEF FailRetryably, Escape, Gate!Fail
    <2>4. CASE FailTerminally(c)
      BY <2>1, <2>4 DEF FailTerminally, Gate!Fail, GateMode, GateBudget
    <2> QED
      BY <1>7, <2>2, <2>3, <2>4
  <1>8. CASE UNCHANGED vars
    BY <1>8 DEF vars, GateMode, GateBudget, Pending
  <1> QED
    BY <1>1, <1>2, <1>3, <1>4, <1>5, <1>6, <1>7, <1>8 DEF Next, Step

(***************************************************************************)
(* The breaker implements HostGate for every cooldown, threshold and set of *)
(* calls: once tripped, a host gets at most one admitted request per        *)
(* cooldown (before_request, record_success, record_failure).               *)
(***************************************************************************)
THEOREM ImplementsGate == Spec => GateSpec
  BY InitIInv, NextIInv, InitGate, NextGate, PTL DEF Spec, GateSpec, Gate!Spec
=============================================================================

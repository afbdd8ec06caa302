----------------------------- MODULE GuardProofs -----------------------------
(***************************************************************************)
(* Proofs about the two guards of the App: the circuit breaker, alone and  *)
(* inside the event bus, which keeps failing handlers from being called,   *)
(* and the limiter, which keeps the runs of all handlers within a number   *)
(* of slots; for every set of callers, all thresholds and any limit.       *)
(***************************************************************************)
EXTENDS EventBus, ConcurrencyLimiter, FiniteSetTheorems, TLAPS

(***************************************************************************)
(* The circuit breaker.  The bus lets a handler fail by its deadline too,  *)
(* which is not a step of the breaker by itself, so the breaker's          *)
(* invariant is proved for any recorded failure.                           *)
(***************************************************************************)
(* The breaker's invariants are inductive together: SuccessesBelongToWindow *)
(* needs the type bound on successCount, the others need only TypeOK.       *)
BreakerInv ==
    /\ TypeOK
    /\ ClosedIffBelowThreshold
    /\ SuccessesBelongToWindow
    /\ ProbeFlagHasOwner

LEMMA BreakerInit == Init => BreakerInv
  <1> SUFFICES ASSUME Init PROVE BreakerInv
    OBVIOUS
  <1>1. /\ failureCount \in 0..FailureThreshold
        /\ successCount \in 0..(SuccessThreshold - 1)
        /\ ClosedIffBelowThreshold
        /\ SuccessesBelongToWindow
    BY CircuitBreakerAssumption
    DEF CircuitBreakerAssumption, Init, ClosedIffBelowThreshold, SuccessesBelongToWindow
  <1>2. TypeOK
    BY <1>1 DEF Init, TypeOK, CircuitState
  <1>3. ProbeFlagHasOwner
    BY DEF Init, ProbeFlagHasOwner
  <1>4. QED
    BY <1>1, <1>2, <1>3 DEF BreakerInv

(* A recorded failure, of whatever origin.                                 *)
LEMMA FailureStep ==
  ASSUME BreakerInv, NEW c \in Callers, OnFailure, Leave(c), UNCHANGED outage
  PROVE  BreakerInv'
  <1> USE CircuitBreakerAssumption
      DEF CircuitBreakerAssumption, BreakerInv, TypeOK, CircuitState, ClosedIffBelowThreshold,
          SuccessesBelongToWindow, ProbeFlagHasOwner
  <1>1. /\ failureCount' \in 0..FailureThreshold
        /\ successCount' \in 0..(SuccessThreshold - 1)
        /\ state' \in CircuitState
        /\ ClosedIffBelowThreshold'
        /\ SuccessesBelongToWindow'
    BY DEF OnFailure
  <1>2. TypeOK'
    BY <1>1 DEF OnFailure, Leave
  <1>3. ProbeFlagHasOwner'
    BY DEF Leave
  <1>4. QED
    BY <1>1, <1>2, <1>3

LEMMA BreakerStep == BreakerInv /\ [Next]_vars => BreakerInv'
  <1> SUFFICES ASSUME BreakerInv, [Next]_vars
               PROVE  BreakerInv'
    OBVIOUS
  <1> USE CircuitBreakerAssumption
      DEF CircuitBreakerAssumption, BreakerInv, TypeOK, CircuitState, ClosedIffBelowThreshold,
          SuccessesBelongToWindow, ProbeFlagHasOwner, counters
  <1>1. ASSUME NEW c \in Callers, Reject(c) PROVE BreakerInv'
    BY <1>1 DEF Reject, Observed
  <1>2. ASSUME NEW c \in Callers, Admit(c) PROVE BreakerInv'
    BY <1>2 DEF Admit, Observed
  <1>3. ASSUME NEW c \in Callers, AdmitProbe(c) PROVE BreakerInv'
    BY <1>3 DEF AdmitProbe, Observed
  <1>4. ASSUME NEW c \in Callers, Succeed(c) PROVE BreakerInv'
    <2>1. /\ failureCount' \in 0..FailureThreshold
          /\ successCount' \in 0..(SuccessThreshold - 1)
          /\ state' \in CircuitState
          /\ ClosedIffBelowThreshold'
          /\ SuccessesBelongToWindow'
      BY <1>4 DEF Succeed, OnSuccess
    <2>2. TypeOK'
      BY <1>4, <2>1 DEF Succeed, OnSuccess, Leave
    <2>3. ProbeFlagHasOwner'
      BY <1>4 DEF Succeed, Leave
    <2>4. QED
      BY <2>1, <2>2, <2>3
  <1>5. ASSUME NEW c \in Callers, Fail(c) PROVE BreakerInv'
    BY <1>5, FailureStep DEF Fail
  <1>6. ASSUME NEW c \in Callers, FailUncounted(c) PROVE BreakerInv'
    BY <1>6 DEF FailUncounted, Leave
  <1>7. CASE GetState
    BY <1>7 DEF GetState, Observed
  <1>8. CASE Reset
    BY <1>8 DEF Reset
  <1>9. CASE CooldownElapses
    BY <1>9 DEF CooldownElapses
  <1>10. CASE OutageEnds
    BY <1>10 DEF OutageEnds
  <1>11. CASE UNCHANGED vars
    BY <1>11 DEF vars
  <1>12. QED
    BY <1>1, <1>2, <1>3, <1>4, <1>5, <1>6, <1>7, <1>8, <1>9, <1>10, <1>11
    DEF Next, Call, Settle

(* In every behaviour of the breaker, its circuit is closed exactly while  *)
(* fewer than failureThreshold failures stand against the dependency.      *)
THEOREM ClosedIffBelowThresholdHolds == Spec => []ClosedIffBelowThreshold
  <1>1. BreakerInv => ClosedIffBelowThreshold
    BY DEF BreakerInv
  <1>2. QED
    BY BreakerInit, BreakerStep, <1>1, PTL DEF Spec

(* Successes never leak from one half-open window into the next.           *)
THEOREM SuccessesBelongToWindowHolds == Spec => []SuccessesBelongToWindow
  <1>1. BreakerInv => SuccessesBelongToWindow
    BY DEF BreakerInv
  <1>2. QED
    BY BreakerInit, BreakerStep, <1>1, PTL DEF Spec

-----------------------------------------------------------------------------
(* The breaker inside the bus.                                             *)

HealthInv ==
    /\ consecutive \in 0..FailureThreshold
    /\ everFailed \in BOOLEAN
    /\ HealthShowsCircuit

(* What a step of the bus does to the breaker: a step of the breaker, or a *)
(* failure by the deadline.                                                *)
LEMMA BusBreakerStep == BreakerInv /\ [BusNext]_busVars => BreakerInv'
  <1> SUFFICES ASSUME BreakerInv, [BusNext]_busVars
               PROVE  BreakerInv'
    OBVIOUS
  <1>1. ASSUME NEW e \in Events, StartBatch(e) PROVE BreakerInv'
    <2>1. CASE Deliver(e)
      BY <2>1, BreakerStep DEF Deliver, Next, Call, Events
    <2>2. CASE UNCHANGED vars
      BY <2>2, BreakerStep
    <2>3. QED
      BY <1>1, <2>1, <2>2 DEF StartBatch
  <1>2. ASSUME NEW e \in Events, HandlerReturns(e) \/ HandlerThrows(e) PROVE BreakerInv'
    BY <1>2, BreakerStep DEF HandlerReturns, HandlerThrows, Next, Settle, Events
  <1>3. ASSUME NEW e \in Events, Deadline(e) PROVE BreakerInv'
    BY <1>3, FailureStep DEF Deadline, Events
  <1>4. CASE ResetHealth
    BY <1>4, BreakerStep DEF ResetHealth, Next
  <1>5. CASE Background
    BY <1>5, BreakerStep DEF Background, Next
  <1>6. CASE \/ \E e \in Events : \/ AbandonedEnds(e)
                                 \/ \E s \in unsettled[e] : OtherSettles(e, s)
             \/ UNCHANGED busVars
    BY <1>6, BreakerStep DEF AbandonedEnds, OtherSettles, busVars
  <1>7. QED
    BY <1>1, <1>2, <1>3, <1>4, <1>5, <1>6 DEF BusNext

(* A failure goes to the breaker and to the record, a success clears both. *)
LEMMA HealthFailure ==
  ASSUME BreakerInv, HealthInv, OnFailure, RecordFailure
  PROVE  HealthInv'
  <1>1. FailureThreshold \in Nat \ {0}
    BY CircuitBreakerAssumption DEF CircuitBreakerAssumption
  <1>2. failureCount \in 0..FailureThreshold /\ consecutive \in 0..FailureThreshold
    BY DEF BreakerInv, TypeOK, HealthInv
  <1>3. consecutive' \in 1..FailureThreshold /\ everFailed' = TRUE
    BY <1>1, <1>2 DEF RecordFailure
  <1>4. state' = "CLOSED" => state = "CLOSED"
    BY DEF OnFailure
  <1>5. state' = "CLOSED" => consecutive' >= failureCount'
    <2>1. state = "CLOSED" => consecutive >= failureCount
      BY DEF HealthInv, HealthShowsCircuit
    <2>2. QED
      BY <1>1, <1>2, <1>4, <2>1 DEF OnFailure, RecordFailure
  <1>6. QED
    BY <1>1, <1>3, <1>5 DEF HealthInv, HealthShowsCircuit

LEMMA HealthStep == BreakerInv /\ HealthInv /\ [BusNext]_busVars => HealthInv'
  <1> SUFFICES ASSUME BreakerInv, HealthInv, [BusNext]_busVars
               PROVE  HealthInv'
    OBVIOUS
  <1>a. FailureThreshold \in Nat \ {0}
    BY CircuitBreakerAssumption DEF CircuitBreakerAssumption
  <1>b. failureCount \in 0..FailureThreshold /\ consecutive \in 0..FailureThreshold
    BY DEF BreakerInv, TypeOK, HealthInv
  <1>1. ASSUME NEW e \in Events, StartBatch(e) PROVE HealthInv'
    <2>1. CASE Reject(e) /\ UNCHANGED healthVars
      BY <2>1 DEF Reject, Observed, HealthInv, HealthShowsCircuit, counters, healthVars
    <2>2. CASE Observed # "OPEN" /\ Reject(e) /\ RecordFailure
      <3>1. state' # "OPEN" /\ state' = Observed /\ failureCount' = failureCount
        BY <2>2 DEF Reject, counters
      <3>2. consecutive' \in 0..FailureThreshold /\ consecutive' >= consecutive
            /\ everFailed' = TRUE
        BY <2>2, <1>a, <1>b DEF RecordFailure
      <3>3. state' = "CLOSED" => state = "CLOSED"
        BY <3>1 DEF Observed
      <3>4. state' = "CLOSED" => consecutive' >= failureCount'
        BY <1>a, <1>b, <3>1, <3>2, <3>3 DEF HealthInv, HealthShowsCircuit
      <3>5. QED
        BY <3>1, <3>2, <3>4 DEF HealthInv, HealthShowsCircuit
    <2>3. CASE (Admit(e) \/ AdmitProbe(e)) /\ UNCHANGED healthVars
      BY <2>3 DEF Admit, AdmitProbe, HealthInv, HealthShowsCircuit, counters, healthVars
    <2>4. CASE UNCHANGED <<vars, healthVars>>
      BY <2>4 DEF vars, counters, HealthInv, HealthShowsCircuit, healthVars
    <2>5. QED
      BY <1>1, <2>1, <2>2, <2>3, <2>4 DEF StartBatch, Deliver
  <1>2. ASSUME NEW e \in Events, HandlerReturns(e) PROVE HealthInv'
    <2>1. consecutive' = 0 /\ everFailed' = everFailed
      BY <1>2 DEF HandlerReturns, RecordSuccess
    <2>2. \/ state' = "HALF_OPEN"
          \/ state' = "CLOSED" /\ failureCount' = 0
      BY <1>2 DEF HandlerReturns, Succeed, OnSuccess
    <2>3. QED
      BY <1>a, <2>1, <2>2 DEF HealthInv, HealthShowsCircuit
  <1>3. ASSUME NEW e \in Events, HandlerThrows(e) \/ Deadline(e) PROVE HealthInv'
    BY <1>3, HealthFailure DEF HandlerThrows, Fail, Deadline
  <1>4. CASE ResetHealth
    <2>1. /\ consecutive' = 0 /\ failureCount' = 0 /\ state' = "CLOSED"
          /\ everFailed' = FALSE
      BY <1>4 DEF ResetHealth, Reset
    <2>2. consecutive' \in 0..FailureThreshold /\ consecutive' >= failureCount'
      BY <1>a, <2>1
    <2>3. QED
      BY <2>1, <2>2 DEF HealthInv, HealthShowsCircuit
  <1>5. CASE Background
    BY <1>5
    DEF Background, CooldownElapses, OutageEnds, GetState, Observed, counters, healthVars,
        HealthInv, HealthShowsCircuit
  <1>6. CASE \/ \E e \in Events : \/ AbandonedEnds(e)
                                 \/ \E s \in unsettled[e] : OtherSettles(e, s)
             \/ UNCHANGED busVars
    BY <1>6
    DEF AbandonedEnds, OtherSettles, busVars, vars, healthVars, HealthInv, HealthShowsCircuit
  <1>7. QED
    BY <1>1, <1>2, <1>3, <1>4, <1>5, <1>6 DEF BusNext

LEMMA BusAlways == BusSpec => [](BreakerInv /\ HealthInv)
  <1>1. BusInit => BreakerInv /\ HealthInv
    <2> SUFFICES ASSUME BusInit PROVE BreakerInv /\ HealthInv
      OBVIOUS
    <2>1. /\ consecutive = 0 /\ failureCount = 0 /\ state = "CLOSED" /\ everFailed = FALSE
          /\ BreakerInv
      BY BreakerInit DEF BusInit, Init
    <2>2. consecutive \in 0..FailureThreshold /\ consecutive >= failureCount
      BY <2>1, CircuitBreakerAssumption DEF CircuitBreakerAssumption
    <2>3. QED
      BY <2>1, <2>2 DEF HealthInv, HealthShowsCircuit
  <1>2. BreakerInv /\ HealthInv /\ [BusNext]_busVars => (BreakerInv /\ HealthInv)'
    BY BusBreakerStep, HealthStep
  <1>3. QED
    BY <1>1, <1>2, PTL DEF BusSpec

(* A raised probe flag always has a running probe that will lower it, also *)
(* when deadlines of the bus cut probes off.                               *)
THEOREM ProbeFlagHasOwnerHolds == BusSpec => []ProbeFlagHasOwner
  <1>1. BreakerInv => ProbeFlagHasOwner
    BY DEF BreakerInv
  <1>2. QED
    BY BusAlways, <1>1, PTL

(* The record operators look at shows an open circuit, and at least the    *)
(* failures a closed one holds against its subscriber: both are written in *)
(* the same step by every failure, success and reset.                      *)
THEOREM HealthShowsCircuitHolds == BusSpec => []HealthShowsCircuit
  <1>1. HealthInv => HealthShowsCircuit
    BY DEF HealthInv
  <1>2. QED
    BY BusAlways, <1>1, PTL

-----------------------------------------------------------------------------
(***************************************************************************)
(* The limiter.  Its counter and its FIFO implement a bounded set of slot  *)
(* holders.  The argument: a call in the FIFO owns no slot and appears     *)
(* there once, so handing a slot on replaces one holder by one that was    *)
(* none, and the counter stays the number of holders.                      *)
(***************************************************************************)
QueueInv ==
  /\ \A i \in 1..Len(waiters) : pc[waiters[i]] \in {"queued", "expired"}
  /\ \A i, j \in 1..Len(waiters) : waiters[i] = waiters[j] => i = j

CountInv == /\ IsFiniteSet(Holders)
            /\ active = Cardinality(Holders)
            /\ active <= Limit

LimiterInv == LimitTypeOK /\ QueueInv /\ CountInv

(* Nobody holds a slot and nobody waits at first.                          *)
LEMMA LimiterInit == LimitInit => LimiterInv /\ Holders = {}
  <1> SUFFICES ASSUME LimitInit PROVE LimiterInv /\ Holders = {}
    OBVIOUS
  <1>1. Holders = {}
    BY DEF LimitInit, Holders
  <1>2. LimitTypeOK /\ QueueInv
    BY DEF LimitInit, LimitTypeOK, Places, QueueInv
  <1>3. CountInv
    BY <1>1, FS_EmptySet, LimitAssumption DEF LimitInit, CountInv, LimitAssumption
  <1>4. QED
    BY <1>1, <1>2, <1>3 DEF LimiterInv

(* Taking a free slot adds one holder and counts it.                       *)
LEMMA AcquireFreeStep ==
  ASSUME LimiterInv, NEW r \in Runs, AcquireFree(r)
  PROVE  LimiterInv' /\ Pool!Take(r)
  <1> USE DEF LimiterInv, AcquireFree, Move
  <1>1. LimitTypeOK'
    BY DEF LimitTypeOK, Places
  <1>2. QueueInv'
    BY DEF QueueInv, LimitTypeOK
  <1>3. Holders' = Holders \union {r} /\ r \notin Holders
    BY DEF LimitTypeOK, Holders
  <1>4. /\ IsFiniteSet(Holders \union {r})
        /\ Cardinality(Holders \union {r}) = Cardinality(Holders) + 1
    BY <1>3, FS_AddElement DEF CountInv
  <1>5. active \in Nat /\ active < Limit /\ active' = active + 1
    BY DEF LimitTypeOK
  <1>6. CountInv'
    BY <1>3, <1>4, <1>5, LimitAssumption DEF CountInv, LimitAssumption
  <1>7. Pool!Take(r)
    <2>1. Pool!Cardinality(Holders) < Limit
      BY <1>5 DEF CountInv, Cardinality, Pool!Cardinality
    <2>2. QED
      BY <1>3, <2>1 DEF Pool!Take
  <1>8. QED
    BY <1>1, <1>2, <1>6, <1>7

(* Joining the FIFO makes nobody a holder.                                 *)
LEMMA AcquireQueuedStep ==
  ASSUME LimiterInv, NEW r \in Runs, AcquireQueued(r)
  PROVE  LimiterInv' /\ UNCHANGED Holders
  <1> USE DEF LimiterInv, AcquireQueued, Move
  <1>1. LimitTypeOK'
    BY DEF LimitTypeOK, Places
  <1>2. /\ Len(waiters') = Len(waiters) + 1 /\ Len(waiters) \in Nat
        /\ waiters'[Len(waiters) + 1] = r
        /\ \A i \in 1..Len(waiters) : waiters'[i] = waiters[i] /\ waiters[i] \in Runs
    BY DEF LimitTypeOK
  <1>3. \A i \in 1..Len(waiters) : waiters[i] # r
    BY <1>2 DEF QueueInv
  <1>4. pc'[r] = "queued" /\ \A s \in Runs : s # r => pc'[s] = pc[s]
    BY DEF LimitTypeOK
  <1>5. QueueInv'
    BY <1>2, <1>3, <1>4 DEF QueueInv
  <1>6. Holders' = Holders
    BY DEF LimitTypeOK, Holders
  <1>7. CountInv'
    BY <1>6 DEF CountInv
  <1>8. QED
    BY <1>1, <1>5, <1>6, <1>7

(* Waking up, giving up and the reentrant path move no slot.               *)
LEMMA QuietStep ==
  ASSUME LimiterInv, NEW r \in Runs,
         Resume(r) \/ GiveUp(r) \/ EnterNested(r) \/ FinishNested(r)
  PROVE  LimiterInv' /\ UNCHANGED Holders
  <1> USE DEF LimiterInv, Resume, GiveUp, EnterNested, FinishNested, Move
  <1>1. LimitTypeOK'
    BY DEF LimitTypeOK, Places
  <1>2. \A s \in Runs : pc[s] \in {"queued", "expired"} => pc'[s] \in {"queued", "expired"}
    BY DEF LimitTypeOK
  <1>3. waiters' = waiters /\ \A i \in 1..Len(waiters) : waiters[i] \in Runs
    BY DEF LimitTypeOK
  <1>4. QueueInv'
    BY <1>2, <1>3 DEF QueueInv
  <1>5. Holders' = Holders
    BY DEF LimitTypeOK, Holders
  <1>6. CountInv'
    BY <1>5 DEF CountInv
  <1>7. QED
    BY <1>1, <1>4, <1>5, <1>6

(* Releasing a slot frees it, or makes the first waiter its only owner.    *)
LEMMA ReleaseStep ==
  ASSUME LimiterInv, NEW r \in Runs, NEW place \in {"done", "busy"},
         pc[r] \in {"running", "late"}, Release(r, place)
  PROVE  LimiterInv' /\ (Pool!Give(r) \/ \E s \in Runs : Pool!HandOver(r, s))
  <1> USE DEF LimiterInv
  <1>1. r \in Holders
    BY DEF Holders
  <1>2. /\ IsFiniteSet(Holders \ {r})
        /\ Cardinality(Holders \ {r}) = Cardinality(Holders) - 1
        /\ Cardinality(Holders) \in Nat /\ Cardinality(Holders \ {r}) \in Nat
    BY <1>1, FS_RemoveElement, FS_CardinalityType DEF CountInv
  <1>3. CASE waiters = <<>>
    <2>1. active' = active - 1 /\ pc' = [pc EXCEPT ![r] = place] /\ waiters' = waiters
      BY <1>3 DEF Release, Move
    <2>2. active' \in Nat
      BY <1>2, <2>1 DEF CountInv
    <2>3. LimitTypeOK'
      BY <2>1, <2>2 DEF LimitTypeOK, Places
    <2>4. QueueInv'
      BY <1>3, <2>1 DEF QueueInv
    <2>5. Holders' = Holders \ {r}
      BY <2>1 DEF LimitTypeOK, Holders
    <2>6. CountInv'
      BY <1>2, <2>1, <2>5, LimitAssumption DEF CountInv, LimitTypeOK, LimitAssumption
    <2>7. Pool!Give(r)
      BY <1>1, <2>5 DEF Pool!Give
    <2>8. QED
      BY <2>3, <2>4, <2>6, <2>7
  <1>4. CASE waiters # <<>>
    <2> DEFINE s == Head(waiters)
               owner == IF pc[s] = "expired" THEN "late" ELSE "granted"
    <2>1. /\ s \in Runs /\ s = waiters[1]
          /\ Len(waiters) \in Nat /\ Len(waiters) >= 1
          /\ Tail(waiters) \in Seq(Runs) /\ Len(Tail(waiters)) = Len(waiters) - 1
          /\ \A i \in 1..Len(Tail(waiters)) : Tail(waiters)[i] = waiters[i + 1]
          /\ \A i \in 1..Len(waiters) : waiters[i] \in Runs
      BY <1>4 DEF LimitTypeOK
    <2>2. pc[s] \in {"queued", "expired"} /\ s # r
      BY <2>1 DEF QueueInv
    <2>3. /\ active' = active /\ waiters' = Tail(waiters)
          /\ pc' = [pc EXCEPT ![r] = place, ![s] = owner]
      BY <1>4 DEF Release
    <2>4. pc'[r] = place /\ pc'[s] = owner /\ \A t \in Runs \ {r, s} : pc'[t] = pc[t]
      BY <2>1, <2>2, <2>3 DEF LimitTypeOK
    <2>5. LimitTypeOK'
      BY <2>1, <2>3 DEF LimitTypeOK, Places
    <2>6. \A i \in 1..Len(Tail(waiters)) :
            i + 1 \in 1..Len(waiters) /\ waiters[i + 1] # s /\ waiters[i + 1] # r
      BY <2>1 DEF QueueInv
    <2>7. QueueInv'
      <3>1. ASSUME NEW i \in 1..Len(waiters')
            PROVE  pc'[waiters'[i]] \in {"queued", "expired"}
        <4>1. waiters'[i] = waiters[i + 1] /\ i + 1 \in 1..Len(waiters)
          BY <2>1, <2>3, <2>6
        <4>2. pc'[waiters[i + 1]] = pc[waiters[i + 1]]
          BY <2>1, <2>3, <2>4, <2>6, <4>1
        <4>3. QED
          BY <4>1, <4>2 DEF QueueInv
      <3>2. ASSUME NEW i \in 1..Len(waiters'), NEW j \in 1..Len(waiters'),
                   waiters'[i] = waiters'[j]
            PROVE  i = j
        <4>1. waiters[i + 1] = waiters[j + 1] /\ {i + 1, j + 1} \subseteq 1..Len(waiters)
          BY <2>1, <2>3, <2>6, <3>2
        <4>2. QED
          BY <4>1 DEF QueueInv
      <3>3. QED
        BY <3>1, <3>2 DEF QueueInv
    <2>8. Holders' = (Holders \ {r}) \union {s} /\ s \notin Holders
      BY <2>1, <2>2, <2>3, <2>4 DEF LimitTypeOK, Holders
    <2>9. /\ IsFiniteSet((Holders \ {r}) \union {s})
          /\ Cardinality((Holders \ {r}) \union {s}) = Cardinality(Holders)
      <3> DEFINE OtherHolders == Holders \ {r}
      <3>1. IsFiniteSet(OtherHolders) /\ s \notin OtherHolders
        BY <1>2, <2>8
      <3>2. /\ IsFiniteSet(OtherHolders \union {s})
            /\ Cardinality(OtherHolders \union {s}) = Cardinality(OtherHolders) + 1
        <4> HIDE DEF OtherHolders
        <4> QED BY <3>1, FS_AddElement
      <3>3. QED
        BY <1>2, <3>2
    <2>10. CountInv'
      BY <2>3, <2>8, <2>9 DEF CountInv
    <2>11. Pool!HandOver(r, s)
      BY <1>1, <2>8 DEF Pool!HandOver
    <2>12. QED
      BY <2>1, <2>5, <2>7, <2>10, <2>11
  <1>5. QED
    BY <1>3, <1>4

(* Every step of the limiter preserves the invariant and is a step of the  *)
(* slot pool, or none.                                                     *)
LEMMA LimiterStep ==
  LimiterInv /\ [LimitNext]_limitVars => LimiterInv' /\ [Pool!Next]_Holders
  <1> SUFFICES ASSUME LimiterInv, [LimitNext]_limitVars
               PROVE  LimiterInv' /\ [Pool!Next]_Holders
    OBVIOUS
  <1>1. ASSUME NEW r \in Runs, AcquireFree(r) PROVE LimiterInv' /\ [Pool!Next]_Holders
    BY <1>1, AcquireFreeStep DEF Pool!Next
  <1>2. ASSUME NEW r \in Runs, AcquireQueued(r) PROVE LimiterInv' /\ [Pool!Next]_Holders
    BY <1>2, AcquireQueuedStep
  <1>3. ASSUME NEW r \in Runs, Resume(r) \/ GiveUp(r) \/ EnterNested(r) \/ FinishNested(r)
        PROVE LimiterInv' /\ [Pool!Next]_Holders
    BY <1>3, QuietStep
  <1>4. ASSUME NEW r \in Runs, Finish(r) PROVE LimiterInv' /\ [Pool!Next]_Holders
    BY <1>4, ReleaseStep DEF Finish, Pool!Next
  <1>5. ASSUME NEW r \in Runs, ReturnLate(r) PROVE LimiterInv' /\ [Pool!Next]_Holders
    BY <1>5, ReleaseStep DEF ReturnLate, Pool!Next
  <1>6. CASE UNCHANGED limitVars
    BY <1>6 DEF limitVars, LimiterInv, LimitTypeOK, QueueInv, CountInv, Holders
  <1>7. QED
    BY <1>1, <1>2, <1>3, <1>4, <1>5, <1>6 DEF LimitNext

(* The limiter implements a pool of Limit slots, for any limit and any     *)
(* number of calls.                                                        *)
THEOREM ImplementsSlotPoolHolds == LimitSpec => ImplementsSlotPool
  <1>1. LimitInit => Pool!Init
    BY LimiterInit DEF Pool!Init
  <1>2. QED
    BY LimiterInit, LimiterStep, <1>1, PTL DEF LimitSpec, ImplementsSlotPool, Pool!Spec

(* The slot count is the number of calls that own a slot.                  *)
THEOREM SlotsAccountedHolds == LimitSpec => []SlotsAccounted
  <1>1. LimiterInv => SlotsAccounted
    BY DEF LimiterInv, CountInv, SlotsAccounted
  <1>2. QED
    BY LimiterInit, LimiterStep, <1>1, PTL DEF LimitSpec

(* Never do more than Limit runs execute at the same time.                 *)
THEOREM RunsWithinLimitHolds == LimitSpec => []RunsWithinLimit
  <1>1. LimiterInv => RunsWithinLimit
    <2> SUFFICES ASSUME LimiterInv PROVE RunsWithinLimit
      OBVIOUS
    <2> DEFINE R == {r \in Runs : pc[r] = "running"}
    <2>1. R \subseteq Holders
      BY DEF Holders
    <2>2. /\ Cardinality(R) <= Cardinality(Holders)
          /\ Cardinality(R) \in Nat /\ Cardinality(Holders) \in Nat
      BY <2>1, FS_Subset, FS_CardinalityType DEF LimiterInv, CountInv
    <2>3. QED
      BY <2>2, LimitAssumption DEF LimiterInv, CountInv, RunsWithinLimit, LimitAssumption
  <1>2. QED
    BY LimiterInit, LimiterStep, <1>1, PTL DEF LimitSpec

(* A slot is never idle while a call waits: a call joins the FIFO only at  *)
(* the limit, and a release counts the slot free only when nobody waits.   *)
THEOREM NoIdleSlotHolds == LimitSpec => []NoIdleSlot
  <1>1. LimitInit => NoIdleSlot
    BY DEF LimitInit, NoIdleSlot
  <1>2. LimiterInv /\ NoIdleSlot /\ [LimitNext]_limitVars => NoIdleSlot'
    <2> SUFFICES ASSUME LimiterInv, NoIdleSlot, [LimitNext]_limitVars PROVE NoIdleSlot'
      OBVIOUS
    <2> USE DEF NoIdleSlot
    <2>1. active \in Nat /\ active <= Limit /\ Limit \in Nat /\ waiters \in Seq(Runs)
      BY LimitAssumption DEF LimiterInv, LimitTypeOK, CountInv, LimitAssumption
    <2>2. ASSUME NEW r \in Runs, AcquireFree(r) PROVE NoIdleSlot'
      BY <2>1, <2>2 DEF AcquireFree
    <2>3. ASSUME NEW r \in Runs, AcquireQueued(r) PROVE NoIdleSlot'
      BY <2>1, <2>3 DEF AcquireQueued
    <2>4. ASSUME NEW r \in Runs, NEW place, Release(r, place) PROVE NoIdleSlot'
      BY <2>4 DEF Release
    <2>5. ASSUME NEW r \in Runs,
                 Resume(r) \/ GiveUp(r) \/ EnterNested(r) \/ FinishNested(r)
          PROVE  NoIdleSlot'
      BY <2>5 DEF Resume, GiveUp, EnterNested, FinishNested
    <2>6. CASE UNCHANGED limitVars
      BY <2>6 DEF limitVars
    <2>7. QED
      BY <2>2, <2>3, <2>4, <2>5, <2>6 DEF LimitNext, Finish, ReturnLate
  <1>3. QED
    BY LimiterInit, LimiterStep, <1>1, <1>2, PTL DEF LimitSpec

(* Releasing a slot leaves every nested call inside a running one, provided *)
(* no call is nested in the one that releases: the waiter that is woken has *)
(* no run around it.                                                        *)
LEMMA ReleaseKeepsNesting ==
  ASSUME LimiterInv, NestedInsideSlot, NEW r \in Runs, NEW place \in {"done", "busy"},
         pc[r] \in {"running", "late"}, Release(r, place),
         \A s \in Runs \ {r} : Inside[s] = r => pc[s] # "nested"
  PROVE  NestedInsideSlot'
  <1>1. Outermost(r)
    BY DEF NestedInsideSlot
  <1>2. ASSUME NEW s \in Runs, ~Outermost(s)
        PROVE  /\ pc'[s] = pc[s]
               /\ pc[s] = "nested" => pc'[Inside[s]] = pc[Inside[s]]
    <2>1. s # r /\ pc[s] \in {"idle", "nested", "done"} /\ Inside[s] \in Runs
      BY <1>1, <1>2, InsideAssumption DEF NestedInsideSlot, InsideAssumption
    <2>2. pc[s] = "nested" => /\ Inside[s] # r
                              /\ pc[Inside[s]] \in {"running", "nested"}
      BY <1>2, <2>1 DEF NestedInsideSlot
    <2>3. CASE waiters = <<>>
      BY <2>1, <2>2, <2>3 DEF Release, Move, LimiterInv, LimitTypeOK
    <2>4. CASE waiters # <<>>
      <3> DEFINE next == Head(waiters)
                 owner == IF pc[next] = "expired" THEN "late" ELSE "granted"
      <3>1. next = waiters[1] /\ 1 \in 1..Len(waiters)
        BY <2>4 DEF LimiterInv, LimitTypeOK
      <3>2. pc[next] \in {"queued", "expired"}
        BY <3>1 DEF LimiterInv, QueueInv
      <3>3. pc' = [pc EXCEPT ![r] = place, ![next] = owner]
        BY <2>4 DEF Release
      <3>4. s # next /\ (pc[s] = "nested" => Inside[s] # next)
        BY <2>1, <2>2, <3>2
      <3>5. QED
        BY <2>1, <2>2, <3>3, <3>4 DEF LimiterInv, LimitTypeOK
    <2>5. QED
      BY <2>3, <2>4
  <1>3. QED
    BY <1>2 DEF NestedInsideSlot, Outermost

(* A call made inside a run is never queued, and its work ends before the  *)
(* slot it borrows is given back, for any nesting of calls.                *)
THEOREM NestedInsideSlotHolds == LimitSpec => []NestedInsideSlot
  <1>1. LimitInit => NestedInsideSlot
    BY DEF LimitInit, NestedInsideSlot
  <1>2. LimiterInv /\ NestedInsideSlot /\ [LimitNext]_limitVars => NestedInsideSlot'
    <2> SUFFICES ASSUME LimiterInv, NestedInsideSlot, [LimitNext]_limitVars
                 PROVE  NestedInsideSlot'
      OBVIOUS
    <2>1. pc \in [Runs -> Places] /\ \A s \in Runs : Inside[s] \in Runs
      BY InsideAssumption DEF LimiterInv, LimitTypeOK, InsideAssumption
    <2>2. ASSUME NEW r \in Runs,
                 AcquireFree(r) \/ AcquireQueued(r) \/ Resume(r) \/ GiveUp(r)
          PROVE  NestedInsideSlot'
      <3>1. Outermost(r) /\ pc[r] \in {"idle", "granted", "queued"}
        BY <2>2 DEF AcquireFree, AcquireQueued, Resume, GiveUp, NestedInsideSlot
      <3>2. \A s \in Runs : s # r => pc'[s] = pc[s]
        BY <2>1, <2>2 DEF AcquireFree, AcquireQueued, Resume, GiveUp, Move
      <3>3. QED
        BY <2>1, <3>1, <3>2 DEF NestedInsideSlot, Outermost
    <2>3. ASSUME NEW r \in Runs, Finish(r) PROVE NestedInsideSlot'
      BY <2>3, ReleaseKeepsNesting DEF Finish
    <2>4. ASSUME NEW r \in Runs, ReturnLate(r) PROVE NestedInsideSlot'
      <3>1. \A s \in Runs \ {r} : Inside[s] = r => pc[s] # "nested"
        BY <2>4 DEF ReturnLate, NestedInsideSlot, Outermost
      <3>2. QED
        BY <2>4, <3>1, ReleaseKeepsNesting DEF ReturnLate
    <2>5. ASSUME NEW r \in Runs, EnterNested(r) PROVE NestedInsideSlot'
      <3>1. pc'[r] = "nested" /\ \A s \in Runs : s # r => pc'[s] = pc[s]
        BY <2>1, <2>5 DEF EnterNested, Move
      <3>2. pc[r] = "idle" /\ ~Outermost(r) /\ pc[Inside[r]] \in {"running", "nested"}
        BY <2>5 DEF EnterNested
      <3>3. QED
        BY <2>1, <3>1, <3>2 DEF NestedInsideSlot, Outermost
    <2>6. ASSUME NEW r \in Runs, FinishNested(r) PROVE NestedInsideSlot'
      <3>1. pc'[r] = "done" /\ \A s \in Runs : s # r => pc'[s] = pc[s]
        BY <2>1, <2>6 DEF FinishNested, Move
      <3>2. \A s \in Runs \ {r} : Inside[s] = r => pc[s] # "nested"
        BY <2>6 DEF FinishNested
      <3>3. QED
        BY <2>1, <3>1, <3>2 DEF NestedInsideSlot, Outermost
    <2>7. CASE UNCHANGED limitVars
      BY <2>7 DEF limitVars, NestedInsideSlot
    <2>8. QED
      BY <2>2, <2>3, <2>4, <2>5, <2>6, <2>7 DEF LimitNext
  <1>3. QED
    BY LimiterInit, LimiterStep, <1>1, <1>2, PTL DEF LimitSpec
=============================================================================

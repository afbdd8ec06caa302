-------------------------- MODULE AsyncMutexProofs --------------------------
(***************************************************************************)
(* Mutual exclusion, FIFO order and the queue depth of the mutex, for any  *)
(* number of calls and any pattern of timeouts.  The argument: links are   *)
(* numbered without gaps, the settled ones are always a prefix of the      *)
(* chain, and a call is critical only behind a settled link with its own   *)
(* link unsettled, so at most one link is at that frontier.                *)
(*                                                                         *)
(* Then, on top of mutual exclusion, the cool-down, the caps and the daily *)
(* budget of the rate limiter that runs inside the mutex, for any          *)
(* requests, times and store failures.                                     *)
(***************************************************************************)
EXTENDS RateLimiter, FiniteSetTheorems, WellFoundedInduction, TLAPS

Queued == {c \in Calls : pc[c] \in {"waiting", "expired", "critical"}}

(* Each call that entered owns one link, and waits for the one before it.  *)
ChainShape ==
  /\ \A c \in Entered : link[c] \in 1..tail /\ prev[c] = link[c] - 1
  /\ \A c, d \in Entered : link[c] = link[d] => c = d

(* Links settle in the order of the chain.                                 *)
SettledPrefix == \A i \in settled : \A j \in 0..i : j \in settled

(* A link is unsettled exactly while its call waits, holds or is expired.  *)
LinkMatchesPlace ==
  /\ \A c \in Entered : link[c] \in settled <=> pc[c] \in {"left", "failed"}
  /\ \A c \in Calls : pc[c] = "critical" => prev[c] \in settled

MutexInv == TypeOK /\ ChainShape /\ SettledPrefix /\ LinkMatchesPlace

(* The mutex starts with one settled link and nobody in it.                *)
LEMMA MutexInit == Init => MutexInv
  <1> SUFFICES ASSUME Init PROVE MutexInv
    OBVIOUS
  <1>1. TypeOK
    BY DEF Init, TypeOK, Places
  <1>2. Entered = {}
    BY DEF Init, Entered
  <1>3. ChainShape /\ LinkMatchesPlace
    BY <1>2 DEF Init, ChainShape, LinkMatchesPlace
  <1>4. SettledPrefix
    BY DEF Init, SettledPrefix
  <1>5. QED
    BY <1>1, <1>3, <1>4 DEF MutexInv

(* Joining the chain adds the next link and settles nothing.               *)
LEMMA EnqueueStep ==
  ASSUME MutexInv, NEW c \in Calls, Enqueue(c)
  PROVE  MutexInv'
  <1> USE DEF MutexInv
  <1>1. TypeOK'
    BY DEF TypeOK, Enqueue, Places
  <1>2. Entered' = Entered \union {c} /\ c \notin Entered
    BY DEF TypeOK, Enqueue, Entered
  <1>3. ChainShape'
    <2>1. \A d \in Entered : link'[d] = link[d] /\ prev'[d] = prev[d]
      BY <1>2 DEF TypeOK, Enqueue, Entered
    <2>2. link'[c] = tail + 1 /\ prev'[c] = tail /\ tail' = tail + 1
      BY DEF TypeOK, Enqueue
    <2>3. QED
      BY <1>2, <2>1, <2>2 DEF TypeOK, ChainShape
  <1>4. SettledPrefix'
    BY DEF SettledPrefix, Enqueue
  <1>5. LinkMatchesPlace'
    <2>1. \A d \in Entered : link'[d] = link[d] /\ pc'[d] = pc[d]
      BY <1>2 DEF TypeOK, Enqueue, Entered
    <2>2. link'[c] \notin settled' /\ pc'[c] = "waiting"
      BY DEF TypeOK, Enqueue
    <2>3. \A d \in Calls : pc'[d] = "critical" =>
                             pc[d] = "critical" /\ prev'[d] = prev[d]
      BY DEF TypeOK, Enqueue
    <2>4. settled' = settled
      BY DEF Enqueue
    <2>5. QED
      BY <1>2, <2>1, <2>2, <2>3, <2>4 DEF LinkMatchesPlace
  <1>6. QED
    BY <1>1, <1>3, <1>4, <1>5

(* Entering the critical section, or giving up, settles no link.           *)
LEMMA WaiterStep ==
  ASSUME MutexInv, NEW c \in Calls, Acquire(c) \/ TimeOut(c)
  PROVE  MutexInv'
  <1> USE DEF MutexInv
  <1>1. TypeOK'
    BY DEF TypeOK, Acquire, TimeOut, Places
  <1>2. /\ Entered' = Entered
        /\ UNCHANGED <<tail, settled, prev, link>>
    BY DEF TypeOK, Acquire, TimeOut, Entered
  <1>3. ChainShape' /\ SettledPrefix'
    BY <1>2 DEF ChainShape, SettledPrefix
  <1>4. LinkMatchesPlace'
    <2>1. \A d \in Calls : pc'[d] \in {"left", "failed"} <=> pc[d] \in {"left", "failed"}
      BY DEF TypeOK, Acquire, TimeOut
    <2>2. \A d \in Calls : pc'[d] = "critical" => prev[d] \in settled
      BY DEF TypeOK, LinkMatchesPlace, Acquire, TimeOut
    <2>3. QED
      BY <1>2, <2>1, <2>2 DEF LinkMatchesPlace, Entered
  <1>5. QED
    BY <1>1, <1>3, <1>4

(* A link settles only when the one before it has, so a prefix stays one.  *)
LEMMA DoneStep ==
  ASSUME MutexInv, NEW c \in Calls, Inherit(c) \/ Release(c)
  PROVE  MutexInv'
  <1> USE DEF MutexInv
  <1>1. /\ pc[c] \in {"expired", "critical"}
        /\ pc' = [pc EXCEPT ![c] = "failed"] \/ pc' = [pc EXCEPT ![c] = "left"]
        /\ settled' = settled \union {link[c]}
        /\ UNCHANGED <<tail, prev, link>>
    BY DEF Inherit, Release, Done
  <1>2. c \in Entered /\ prev[c] \in settled
    <2>1. c \in Entered
      BY <1>1 DEF Entered
    <2>2. CASE Inherit(c)
      BY <2>1, <2>2 DEF Inherit
    <2>3. CASE Release(c)
      BY <2>1, <2>3 DEF Release, LinkMatchesPlace
    <2>4. QED
      BY <2>2, <2>3
  <1>3. link[c] \in 1..tail /\ prev[c] = link[c] - 1
    BY <1>2 DEF ChainShape
  <1>4. pending' \in Nat
    BY DEF TypeOK, Inherit, Release, Done
  <1>5. TypeOK'
    <2>1. settled' \subseteq 0..tail'
      <3>1. link[c] \in 0..tail /\ settled \subseteq 0..tail
        BY <1>3 DEF TypeOK
      <3>2. settled' = settled \union {link[c]} /\ tail' = tail
        BY <1>1
      <3>3. QED
        BY <3>1, <3>2
    <2>2. pc' \in [Calls -> Places]
      <3>1. CASE pc' = [pc EXCEPT ![c] = "failed"]
        BY <3>1 DEF TypeOK, Places
      <3>2. CASE pc' = [pc EXCEPT ![c] = "left"]
        BY <3>2 DEF TypeOK, Places
      <3>3. QED
        BY <1>1, <3>1, <3>2
    <2>3. QED
      BY <1>1, <1>4, <2>1, <2>2 DEF TypeOK
  <1>6. Entered' = Entered
    BY <1>1, <1>2 DEF TypeOK, Entered
  <1>7. ChainShape'
    BY <1>1, <1>6 DEF ChainShape
  <1>8. SettledPrefix'
    BY <1>1, <1>2, <1>3 DEF TypeOK, SettledPrefix
  <1>9. LinkMatchesPlace'
    <2>1. \A d \in Entered : link[d] \in settled' <=> link[d] \in settled \/ d = c
      BY <1>1, <1>2 DEF ChainShape
    <2>2. \A d \in Entered : d # c => pc'[d] = pc[d]
      BY <1>1 DEF TypeOK, Entered
    <2>3. pc'[c] \in {"left", "failed"}
      BY <1>1 DEF TypeOK
    <2>4. \A d \in Calls : pc'[d] = "critical" => pc[d] = "critical"
      BY <1>1 DEF TypeOK
    <2>5. QED
      BY <1>1, <1>6, <2>1, <2>2, <2>3, <2>4 DEF LinkMatchesPlace
  <1>10. QED
    BY <1>5, <1>7, <1>8, <1>9

(* Every step of the mutex preserves the inductive invariant.              *)
LEMMA MutexStep == MutexInv /\ [Next]_mutexVars => MutexInv'
  <1> SUFFICES ASSUME MutexInv, [Next]_mutexVars PROVE MutexInv'
    OBVIOUS
  <1>1. CASE Next
    BY <1>1, EnqueueStep, WaiterStep, DoneStep DEF Next
  <1>2. CASE UNCHANGED mutexVars
    BY <1>2 DEF mutexVars, MutexInv, TypeOK, ChainShape, SettledPrefix,
                LinkMatchesPlace, Entered
  <1>3. QED
    BY <1>1, <1>2

(* An earlier call's link has settled once a later call is critical.       *)
LEMMA EarlierSettled == MutexInv => FirstComeFirstServed
  <1> SUFFICES ASSUME MutexInv, NEW c \in Entered, NEW d \in Entered,
                      pc[d] = "critical", link[c] < link[d]
               PROVE  link[c] \in settled
    BY DEF FirstComeFirstServed
  <1>1. link[c] \in 0..prev[d]
    BY DEF MutexInv, TypeOK, ChainShape, Entered
  <1>2. prev[d] \in settled
    BY DEF MutexInv, LinkMatchesPlace, Entered
  <1>3. QED
    BY <1>1, <1>2 DEF MutexInv, SettledPrefix

(* At most one call is at the frontier of the settled prefix.              *)
LEMMA OneCritical == MutexInv => MutualExclusion
  <1> SUFFICES ASSUME MutexInv, NEW c \in Calls, NEW d \in Calls,
                      pc[c] = "critical", pc[d] = "critical", c # d
               PROVE  FALSE
    BY DEF MutualExclusion
  <1>1. c \in Entered /\ d \in Entered
    BY DEF Entered
  <1>2. link[c] \notin settled /\ link[d] \notin settled
    BY <1>1 DEF MutexInv, LinkMatchesPlace
  <1>3. link[c] < link[d] \/ link[d] < link[c]
    BY <1>1 DEF MutexInv, TypeOK, ChainShape
  <1>4. QED
    BY <1>1, <1>2, <1>3, EarlierSettled DEF FirstComeFirstServed

(* No two critical sections ever overlap, for any number of calls and any  *)
(* pattern of timeouts.                                                    *)
THEOREM MutualExclusionHolds == Spec => []MutualExclusion
  BY MutexInit, MutexStep, OneCritical, PTL DEF Spec

(* No call is served before one that arrived earlier and still counts.     *)
THEOREM FirstComeFirstServedHolds == Spec => []FirstComeFirstServed
  BY MutexInit, MutexStep, EarlierSettled, PTL DEF Spec

-----------------------------------------------------------------------------
DepthInv == IsFiniteSet(Queued) /\ pending = Cardinality(Queued)

(* Arriving adds one queued call, settling a link removes one, and nothing *)
(* else changes who is queued.                                             *)
LEMMA DepthStep == MutexInv /\ DepthInv /\ [Next]_mutexVars => DepthInv'
  <1> SUFFICES ASSUME MutexInv, DepthInv, [Next]_mutexVars PROVE DepthInv'
    OBVIOUS
  <1>1. ASSUME NEW c \in Calls, Enqueue(c) PROVE DepthInv'
    <2>1. Queued' = Queued \union {c} /\ c \notin Queued
      BY <1>1 DEF MutexInv, TypeOK, Enqueue, Queued
    <2>2. pending' = pending + 1
      BY <1>1 DEF Enqueue
    <2>3. QED
      BY <2>1, <2>2, FS_AddElement DEF DepthInv
  <1>2. ASSUME NEW c \in Calls, Acquire(c) \/ TimeOut(c) PROVE DepthInv'
    <2>1. Queued' = Queued /\ pending' = pending
      BY <1>2 DEF MutexInv, TypeOK, Acquire, TimeOut, Queued
    <2>2. QED
      BY <2>1 DEF DepthInv
  <1>3. ASSUME NEW c \in Calls, Inherit(c) \/ Release(c) PROVE DepthInv'
    <2>1. Queued' = Queued \ {c} /\ c \in Queued
      BY <1>3 DEF MutexInv, TypeOK, Inherit, Release, Queued
    <2>2. pending' = IF pending = 0 THEN 0 ELSE pending - 1
      BY <1>3 DEF Inherit, Release, Done
    <2>3. Cardinality(Queued) # 0 /\ Cardinality(Queued) \in Nat
      BY <2>1, FS_EmptySet, FS_CardinalityType DEF DepthInv
    <2>4. IsFiniteSet(Queued \ {c}) /\ Cardinality(Queued \ {c}) = Cardinality(Queued) - 1
      BY <2>1, FS_RemoveElement DEF DepthInv
    <2>5. QED
      BY <2>1, <2>2, <2>3, <2>4 DEF DepthInv
  <1>4. CASE UNCHANGED mutexVars
    BY <1>4 DEF mutexVars, DepthInv, Queued
  <1>5. QED
    BY <1>1, <1>2, <1>3, <1>4 DEF Next

(* The reported queue depth is the number of calls whose link is pending.  *)
THEOREM DepthCountsUnsettledHolds == Spec => []DepthCountsUnsettled
  <1>1. Init => DepthInv
    <2> SUFFICES ASSUME Init PROVE DepthInv
      OBVIOUS
    <2>1. Queued = {}
      BY DEF Init, Queued
    <2>2. QED
      BY <2>1, FS_EmptySet DEF Init, DepthInv
  <1>2. DepthInv => DepthCountsUnsettled
    BY DEF DepthInv, DepthCountsUnsettled, Queued
  <1>3. QED
    BY MutexInit, MutexStep, DepthStep, <1>1, <1>2, PTL DEF Spec

-----------------------------------------------------------------------------
(* The cool-down of the rate limiter.                                      *)

(* A set of natural numbers with an upper bound has a maximum.             *)
LEMMA MaxOfTimes ==
  ASSUME NEW top \in Nat, NEW S, S \subseteq 0..top, S # {}
  PROVE  Max(S) \in S /\ \A y \in S : y <= Max(S)
  <1> DEFINE T == {n \in Nat : top - n \in S}
  <1>1. T \subseteq Nat /\ T # {}
    <2>1. PICK s \in S : TRUE
      OBVIOUS
    <2>2. top - s \in T
      BY <2>1
    <2>3. QED
      BY <2>2
  <1>2. PICK m \in T : \A n \in T : ~ (<<n, m>> \in OpToRel(<, Nat))
    <2> HIDE DEF T
    <2>1. QED
      BY <1>1, WFMin, NatLessThanWellFounded
  <1>3. ASSUME NEW n \in T PROVE m <= n
    <2>1. n \in Nat /\ m \in Nat
      BY <1>1
    <2>2. n < m => <<n, m>> \in OpToRel(<, Nat)
      BY <2>1 DEF OpToRel
    <2>3. ~ (n < m)
      BY <1>2, <2>2, Zenon
    <2>4. QED
      BY <2>1, <2>3
  <1>4. ASSUME NEW y \in S PROVE y <= top - m
    <2>1. top - y \in T /\ y \in 0..top /\ m \in Nat
      BY <1>1
    <2>2. m <= top - y
      BY <1>3, <2>1
    <2>3. QED
      BY <2>1, <2>2
  <1>5. top - m \in S /\ \A y \in S : top - m >= y
    <2>1. \A y \in S : y \in 0..top /\ top - m \in Int
      BY <1>1
    <2>2. QED
      BY <1>2, <1>4, <2>1
  <1>6. Max(S) \in S /\ \A y \in S : Max(S) >= y
    BY <1>5 DEF Max
  <1>7. Max(S) \in 0..top /\ \A y \in S : y \in 0..top
    BY <1>6
  <1>8. QED
    BY <1>6, <1>7

ClockInv ==
  /\ now \in 0..MaxTime
  /\ started \in [Requests -> Nat] /\ \A r \in Requests : started[r] <= now
  /\ status \in [Requests -> Decided \union {"new", "read", "recorded"}]
  /\ rows \subseteq Row /\ \A x \in rows : x.at <= now
  /\ ledger \subseteq [id : Requests, at : Nat] /\ \A x \in ledger : x.at <= now
  /\ seen = [r \in Requests |-> seen[r]]
  /\ \A r \in Requests : seen[r].last \in 0..MaxTime \union {Never}

(* A reservation is in the table until it is older than the retention.     *)
Kept == \A x \in ledger : \/ x.at + Retention < now
                          \/ \E y \in rows : y.id = x.id /\ y.at = x.at

(* What a request read inside the mutex is still true when it decides: the *)
(* last time it saw is not before any reservation that counts.             *)
Snapshot ==
  \A r \in Requests : status[r] = "read" =>
    /\ pc[r] = "critical"
    /\ "last" \notin seen[r].failed =>
         \A x \in ledger : SamePr(x.id, r) =>
           \/ x.at + Retention < now
           \/ seen[r].last # Never /\ x.at <= seen[r].last

LimiterInv == MutexInv /\ ClockInv /\ Kept /\ Snapshot

(* No cool-down is longer than the rows are kept.                          *)
Patient == \A t \in Tiers : Cooldown[t] <= Retention

LEMMA LimiterStart == LimiterInit => LimiterInv /\ CooldownRespected
  <1> SUFFICES ASSUME LimiterInit PROVE LimiterInv /\ CooldownRespected
    OBVIOUS
  <1>1. MutexInv
    BY MutexInit DEF LimiterInit
  <1>2. ClockInv
    BY LimiterAssumption DEF LimiterAssumption, LimiterInit, ClockInv
  <1>3. Kept /\ Snapshot /\ CooldownRespected
    BY DEF LimiterInit, Kept, Snapshot, CooldownRespected
  <1>4. QED
    BY <1>1, <1>2, <1>3 DEF LimiterInv

(* Steps that move requests along without touching table, ledger or clock. *)
LEMMA MoveStep ==
  ASSUME LimiterInv, NEW r \in Requests,
         \/ Arrive(r) \/ Enter(r) \/ GiveUp(r) \/ SettleBehind(r) \/ Leave(r)
         \/ Deny(r) \/ RethrowReadError(r) \/ ReserveFails(r)
  PROVE  LimiterInv' /\ (CooldownRespected => CooldownRespected')
  <1> USE DEF LimiterInv, Requests
  <1>1. UNCHANGED <<now, rows, ledger, seen>>
    BY DEF Arrive, Enter, GiveUp, SettleBehind, Leave, Deny, RethrowReadError, ReserveFails,
           Conclude, limiterVars
  <1>2. MutexInv'
    <2>1. Next \/ UNCHANGED mutexVars
      BY DEF Next, Arrive, Enter, GiveUp, SettleBehind, Leave, Deny, RethrowReadError,
             ReserveFails, Conclude
    <2>2. QED
      BY <2>1, MutexStep
  <1>3. /\ started' \in [Requests -> Nat] /\ \A s \in Requests : started'[s] <= now
        /\ status' \in [Requests -> Decided \union {"new", "read", "recorded"}]
    <2>1. started' = started \/ started' = [started EXCEPT ![r] = now]
      BY DEF Arrive, Enter, GiveUp, SettleBehind, Leave, Deny, RethrowReadError, ReserveFails,
             Conclude, limiterVars
    <2>2. started' \in [Requests -> Nat] /\ \A s \in Requests : started'[s] <= now
      BY <2>1, LimiterAssumption DEF LimiterAssumption, ClockInv
    <2>3. \/ status' = status
          \/ \E verdict \in Decided : status' = [status EXCEPT ![r] = verdict]
      BY DEF Arrive, Enter, GiveUp, SettleBehind, Leave, Deny, RethrowReadError, ReserveFails,
             Conclude, limiterVars, Decided
    <2>4. QED
      BY <2>2, <2>3 DEF ClockInv
  <1>4. ClockInv' /\ Kept' /\ (CooldownRespected => CooldownRespected')
    BY <1>1, <1>3 DEF ClockInv, Kept, CooldownRespected
  <1>5. Snapshot'
    <2>1. \A s \in Requests : status'[s] = "read" => status[s] = "read"
      BY DEF ClockInv, Decided, Arrive, Enter, GiveUp, SettleBehind, Leave, Deny,
             RethrowReadError, ReserveFails, Conclude, limiterVars
    <2>2. \A s \in Requests : status'[s] = "read" => pc'[s] = pc[s]
      BY <2>1
      DEF MutexInv, TypeOK, Snapshot, Decided, Arrive, Enter, GiveUp, SettleBehind, Leave, Deny,
          RethrowReadError, ReserveFails, Conclude, limiterVars, mutexVars, Enqueue, Acquire,
          TimeOut, Inherit, Release
    <2>3. QED
      BY <1>1, <2>1, <2>2 DEF Snapshot
  <1>6. QED
    BY <1>2, <1>4, <1>5

(* A reading of the last time covers every reservation that is still kept. *)
LEMMA ReadStep ==
  ASSUME LimiterInv, NEW r \in Requests, Read(r)
  PROVE  LimiterInv' /\ (CooldownRespected => CooldownRespected')
  <1> USE DEF LimiterInv
  <1>1. /\ UNCHANGED <<mutexVars, now, started, rows, ledger>>
        /\ status' = [status EXCEPT ![r] = "read"]
        /\ pc[r] = "critical"
    BY DEF Read, TakeReadings
  <1>2. PICK reading :
          seen' = [seen EXCEPT ![r] = reading] /\ reading.last = LastTime(r)
    <2> DEFINE Reading(failed) ==
          [repo |-> IF Tier[r] = "command" THEN RepoCount(r, HourStart(started[r])) ELSE 0,
           user |-> UserCount(r, DayStart(started[r])),
           last |-> LastTime(r),
           tokens |-> TokenSum(DayStart(started[r])),
           failed |-> IF Tier[r] = "command" THEN failed ELSE failed \ {"repo"}]
    <2>1. PICK failed \in ReadFailures : seen' = [seen EXCEPT ![r] = Reading(failed)]
      BY DEF Read, TakeReadings
    <2>2. Reading(failed).last = LastTime(r)
      OBVIOUS
    <2> HIDE DEF Reading
    <2>3. QED
      BY <2>1, <2>2
  <1>3. seen' = [s \in Requests |-> IF s = r THEN reading ELSE seen[s]]
    BY <1>2 DEF ClockInv
  <1> DEFINE times == {x.at : x \in {y \in rows : SamePr(y.id, r)}}
  <1>4. /\ times \subseteq 0..MaxTime
        /\ LastTime(r) = IF times = {} THEN Never ELSE Max(times)
    BY DEF ClockInv, Row, LastTime
  <1>5. times # {} => Max(times) \in times /\ \A t \in times : t <= Max(times)
    <2> HIDE DEF times
    <2>1. QED
      BY <1>4, MaxOfTimes, LimiterAssumption DEF LimiterAssumption
  <1>6. LastTime(r) \in 0..MaxTime \union {Never}
    BY <1>4, <1>5
  <1>7. MutexInv'
    BY <1>1, MutexStep
  <1>8. status' \in [Requests -> Decided \union {"new", "read", "recorded"}]
    BY <1>1 DEF ClockInv
  <1>9. ClockInv' /\ Kept' /\ (CooldownRespected => CooldownRespected')
    <2>1. /\ seen' = [s \in Requests |-> seen'[s]]
          /\ \A s \in Requests : seen'[s].last \in 0..MaxTime \union {Never}
      BY <1>2, <1>3, <1>6 DEF ClockInv
    <2>2. QED
      BY <1>1, <1>8, <2>1 DEF ClockInv, Kept, CooldownRespected
  <1>10. Snapshot'
    <2>1. ASSUME NEW x \in ledger, SamePr(x.id, r)
          PROVE  \/ x.at + Retention < now
                 \/ LastTime(r) # Never /\ x.at <= LastTime(r)
      <3> SUFFICES ASSUME NEW y \in rows, y.id = x.id, y.at = x.at
                   PROVE  LastTime(r) # Never /\ x.at <= LastTime(r)
        BY DEF Kept
      <3>1. x.at \in times
        BY <2>1
      <3>2. Max(times) \in 0..MaxTime /\ LastTime(r) = Max(times) /\ x.at <= Max(times)
        BY <1>4, <1>5, <3>1
      <3>3. QED
        BY <3>2, LimiterAssumption DEF LimiterAssumption, Never
    <2>2. seen'[r].last = LastTime(r)
      BY <1>2, <1>3
    <2>3. \A s \in Requests : s # r => seen'[s] = seen[s] /\ status'[s] = status[s]
      BY <1>1, <1>3 DEF ClockInv
    <2>4. pc' = pc
      BY <1>1 DEF mutexVars
    <2>5. QED
      BY <1>1, <2>1, <2>2, <2>3, <2>4 DEF Snapshot
  <1>11. QED
    BY <1>7, <1>9, <1>10

(* A reservation lies at least the cool-down after every other of its PR   *)
(* and tier: the decision uses a time that is not later than the row's.    *)
LEMMA ReserveStep ==
  ASSUME LimiterInv, NEW r \in Requests, Reserve(r)
  PROVE  /\ LimiterInv'
         /\ Patient /\ CooldownRespected => CooldownRespected'
  <1> USE DEF LimiterInv
  <1> DEFINE row == [id |-> r, at |-> now, tokens |-> Estimate[Tier[r]]]
             entry == [id |-> r, at |-> now]
  <1>1. /\ UNCHANGED <<mutexVars, now, started, seen>>
        /\ pc[r] = "critical" /\ status[r] = "read"
        /\ status' = [status EXCEPT ![r] = "allowed"]
        /\ rows' = rows \union {row} /\ ledger' = ledger \union {entry}
        /\ seen[r].failed = {} /\ ~Denies(r)
    BY DEF Reserve, Conclude
  <1>2. /\ Tier[r] \in Tiers /\ Cooldown[Tier[r]] \in Nat /\ Estimate[Tier[r]] \in Nat
        /\ Patient => Cooldown[Tier[r]] <= Retention
        /\ Retention \in Nat /\ MaxTime \in Nat
        /\ now \in Nat /\ now \in 0..MaxTime /\ started[r] \in Nat /\ started[r] <= now
    BY LimiterAssumption DEF LimiterAssumption, Requests, ClockInv, Patient
  <1>3. ASSUME Patient, NEW x \in ledger, SamePr(x.id, r)
        PROVE  now - x.at >= Cooldown[Tier[r]]
    <2>1. x.at \in Nat /\ seen[r].last \in 0..MaxTime \union {Never}
      BY DEF ClockInv
    <2>2. \/ x.at + Retention < now
          \/ seen[r].last # Never /\ x.at <= seen[r].last
      BY <1>1, <1>3 DEF Snapshot
    <2>3. seen[r].last # Never => started[r] - seen[r].last >= Cooldown[Tier[r]]
      <3> SUFFICES ASSUME seen[r].last # Never
                   PROVE  started[r] - seen[r].last >= Cooldown[Tier[r]]
        OBVIOUS
      <3>1. ~ (started[r] - seen[r].last < Cooldown[Tier[r]])
        BY <1>1 DEF Denies
      <3>2. seen[r].last \in Nat
        BY <1>2, <2>1
      <3>3. QED
        BY <1>2, <3>1, <3>2
    <2>4. CASE x.at + Retention < now
      BY <1>2, <1>3, <2>1, <2>4
    <2>5. CASE seen[r].last # Never /\ x.at <= seen[r].last
      BY <1>2, <2>1, <2>3, <2>5
    <2>6. QED
      BY <2>2, <2>4, <2>5
  <1>4. row \in Row /\ row.at = now /\ row.id = r /\ entry.at = now /\ entry.id = r
    BY <1>2 DEF Row
  <1>5. MutexInv'
    BY <1>1, MutexStep
  <1>6. ClockInv'
    <2>1. rows' \subseteq Row /\ \A x \in rows' : x.at <= now
      BY <1>1, <1>2, <1>4 DEF ClockInv
    <2>2. ledger' \subseteq [id : Requests, at : Nat] /\ \A x \in ledger' : x.at <= now
      BY <1>1, <1>2 DEF ClockInv
    <2>3. status' \in [Requests -> Decided \union {"new", "read", "recorded"}]
      BY <1>1 DEF ClockInv, Decided
    <2>4. QED
      BY <1>1, <2>1, <2>2, <2>3 DEF ClockInv
  <1>7. Kept'
    <2> HIDE DEF row, entry
    <2>1. \A x \in ledger : x.at + Retention < now \/ \E y \in rows' : y.id = x.id /\ y.at = x.at
      BY <1>1 DEF Kept
    <2>2. \E y \in rows' : y.id = entry.id /\ y.at = entry.at
      BY <1>1, <1>4
    <2>3. QED
      BY <1>1, <2>1, <2>2 DEF Kept
  <1>8. Snapshot'
    <2>1. ASSUME NEW s \in Requests, status'[s] = "read"
          PROVE  FALSE
      <3>1. s # r /\ status[s] = "read"
        BY <1>1, <2>1 DEF ClockInv
      <3>2. pc[s] = "critical"
        BY <3>1 DEF Snapshot
      <3>3. QED
        BY <1>1, <3>1, <3>2, OneCritical DEF MutualExclusion, Requests
    <2>2. QED
      BY <2>1 DEF Snapshot
  <1>9. ASSUME Patient, CooldownRespected
        PROVE  CooldownRespected'
    <2> SUFFICES ASSUME NEW x \in ledger', NEW y \in ledger',
                        x.id # y.id, SamePr(x.id, y.id), x.at <= y.at
                 PROVE  y.at - x.at >= Cooldown[Tier[x.id]]
      BY DEF CooldownRespected
    <2>1. CASE x \in ledger /\ y \in ledger
      BY <1>9, <2>1 DEF CooldownRespected
    <2>2. CASE x \in ledger /\ y = entry
      <3>1. SamePr(x.id, r) /\ Tier[x.id] = Tier[r] /\ y.at = now
        BY <1>4, <2>2 DEF SamePr
      <3>2. QED
        BY <1>3, <1>9, <2>2, <3>1
    <2>3. CASE x = entry /\ y \in ledger
      <3>1. SamePr(y.id, r) /\ x.at = now /\ x.id = r
        BY <1>4, <2>3 DEF SamePr
      <3>2. y.at \in Nat /\ y.at <= now
        BY <2>3 DEF ClockInv
      <3>3. y.at = now
        BY <1>2, <3>1, <3>2
      <3>4. now - y.at >= Cooldown[Tier[r]]
        BY <1>3, <1>9, <2>3, <3>1
      <3>5. QED
        BY <3>1, <3>3, <3>4
    <2>4. CASE x = entry /\ y = entry
      BY <2>4
    <2>5. QED
      BY <1>1, <2>1, <2>2, <2>3, <2>4
  <1>10. QED
    BY <1>5, <1>6, <1>7, <1>8, <1>9

(* Reports change no time, and late rows are not reservations.             *)
LEMMA RecordStep ==
  ASSUME LimiterInv, NEW r \in Requests, RecordReview(r)
  PROVE  LimiterInv' /\ (CooldownRespected => CooldownRespected')
  <1> USE DEF LimiterInv
  <1>1. /\ UNCHANGED <<mutexVars, now, started, seen, ledger>>
        /\ status' = [status EXCEPT ![r] = "recorded"]
    BY DEF RecordReview, Reconcile, RecordDegraded
  <1>2. Actual \union {Estimate[Tier[r]]} \subseteq Nat
    BY LimiterAssumption DEF LimiterAssumption, Requests
  <1>3. /\ rows' \subseteq Row /\ \A y \in rows' : y.at <= now
        /\ \A x \in rows : \E y \in rows' : y.id = x.id /\ y.at = x.at
    <2>1. CASE Reconcile(r)
      <3>1. PICK used \in Nat :
              rows' = {IF x.id = r THEN [x EXCEPT !.tokens = used] ELSE x : x \in rows}
        BY <1>2, <2>1 DEF Reconcile
      <3>2. ASSUME NEW x \in rows
            PROVE  /\ [x EXCEPT !.tokens = used] \in Row
                   /\ [x EXCEPT !.tokens = used].id = x.id
                   /\ [x EXCEPT !.tokens = used].at = x.at
                   /\ x \in Row /\ x.at <= now
        BY DEF ClockInv, Row
      <3>3. QED
        BY <3>1, <3>2
    <2>2. CASE RecordDegraded(r)
      <3>1. PICK used \in Nat :
              rows' \in {rows, rows \union {[id |-> r, at |-> now, tokens |-> used]}}
        BY <1>2, <2>2 DEF RecordDegraded
      <3>2. /\ [id |-> r, at |-> now, tokens |-> used] \in Row
            /\ [id |-> r, at |-> now, tokens |-> used].at <= now
        BY LimiterAssumption DEF LimiterAssumption, ClockInv, Row
      <3>3. rows \subseteq Row /\ \A y \in rows : y.at <= now
        BY DEF ClockInv
      <3>4. QED
        BY <3>1, <3>2, <3>3
    <2>3. QED
      BY <2>1, <2>2 DEF RecordReview
  <1>4. MutexInv' /\ pc' = pc
    BY <1>1, MutexStep DEF mutexVars
  <1>5. status' \in [Requests -> Decided \union {"new", "read", "recorded"}]
    BY <1>1 DEF ClockInv
  <1>6. ClockInv' /\ (CooldownRespected => CooldownRespected')
    BY <1>1, <1>3, <1>5 DEF ClockInv, CooldownRespected
  <1>7. Kept'
    BY <1>1, <1>3 DEF Kept
  <1>8. Snapshot'
    <2>1. \A s \in Requests : status'[s] = "read" => status[s] = "read"
      BY <1>1 DEF ClockInv
    <2>2. QED
      BY <1>1, <1>4, <2>1 DEF Snapshot
  <1>9. QED
    BY <1>4, <1>6, <1>7, <1>8

(* An admin's reset forgets table and ledger alike.                        *)
LEMMA ForgetStep ==
  ASSUME LimiterInv, NEW ids, Forget(ids)
  PROVE  LimiterInv' /\ (CooldownRespected => CooldownRespected')
  <1> USE DEF LimiterInv
  <1>1. /\ UNCHANGED <<mutexVars, now, started, seen, status>> /\ pc' = pc
        /\ rows' = {x \in rows : x.id \notin ids}
        /\ ledger' = {x \in ledger : x.id \notin ids}
    BY DEF Forget, mutexVars
  <1>2. MutexInv'
    BY <1>1, MutexStep
  <1>3. ClockInv' /\ (CooldownRespected => CooldownRespected')
    BY <1>1 DEF ClockInv, CooldownRespected
  <1>4. Kept'
    BY <1>1 DEF Kept
  <1>5. Snapshot'
    BY <1>1 DEF Snapshot
  <1>6. QED
    BY <1>2, <1>3, <1>4, <1>5

(* The clean-up only drops rows that are older than the retention.         *)
LEMMA CleanupStep ==
  ASSUME LimiterInv, Cleanup
  PROVE  LimiterInv' /\ (CooldownRespected => CooldownRespected')
  <1> USE DEF LimiterInv
  <1>1. /\ UNCHANGED <<mutexVars, now, started, seen, status, ledger>> /\ pc' = pc
        /\ rows' = {x \in rows : x.at >= now - Retention}
    BY DEF Cleanup, mutexVars
  <1>2. MutexInv'
    BY <1>1, MutexStep
  <1>3. ClockInv' /\ (CooldownRespected => CooldownRespected')
    BY <1>1 DEF ClockInv, CooldownRespected
  <1>4. Kept'
    <2>1. ASSUME NEW x \in ledger, NEW y \in rows, y.id = x.id, y.at = x.at
          PROVE  x.at + Retention < now \/ y \in rows'
      <3>1. x.at \in Nat /\ now \in Nat /\ Retention \in Nat
        BY LimiterAssumption DEF LimiterAssumption, ClockInv
      <3>2. y.at >= now - Retention => y \in rows'
        BY <1>1
      <3>3. QED
        BY <2>1, <3>1, <3>2
    <2>2. QED
      BY <1>1, <2>1 DEF Kept
  <1>5. Snapshot'
    BY <1>1 DEF Snapshot
  <1>6. QED
    BY <1>2, <1>3, <1>4, <1>5

LEMMA TickStep ==
  ASSUME LimiterInv, Tick
  PROVE  LimiterInv' /\ (CooldownRespected => CooldownRespected')
  <1> USE DEF LimiterInv
  <1>1. /\ UNCHANGED <<mutexVars, started, seen, status, rows, ledger>> /\ pc' = pc
        /\ now' = now + 1 /\ now < MaxTime
    BY DEF Tick, mutexVars
  <1>2. MutexInv'
    BY <1>1, MutexStep
  <1>3. MaxTime \in Nat /\ Retention \in Nat /\ now \in Nat /\ now' \in 0..MaxTime
    BY <1>1, LimiterAssumption DEF LimiterAssumption, ClockInv
  <1>4. /\ \A r \in Requests : started[r] \in Nat /\ started[r] <= now
        /\ \A x \in rows : x.at \in Nat /\ x.at <= now
        /\ \A x \in ledger : x.at \in Nat /\ x.at <= now
    BY <1>3 DEF ClockInv, Row
  <1>5. ClockInv'
    BY <1>1, <1>3, <1>4 DEF ClockInv
  <1>6. \A x \in ledger : x.at + Retention < now => x.at + Retention < now'
    BY <1>1, <1>3, <1>4
  <1>7. Kept' /\ Snapshot' /\ (CooldownRespected => CooldownRespected')
    BY <1>1, <1>6 DEF Kept, Snapshot, CooldownRespected
  <1>8. QED
    BY <1>2, <1>5, <1>7

(* Every step preserves the invariant of the limiter.                      *)
LEMMA LimiterStep ==
  LimiterInv /\ [LimiterNext]_vars
    => LimiterInv' /\ (Patient /\ CooldownRespected => CooldownRespected')
  <1> SUFFICES ASSUME LimiterInv, [LimiterNext]_vars
               PROVE  LimiterInv' /\ (Patient /\ CooldownRespected => CooldownRespected')
    OBVIOUS
  <1>1. ASSUME NEW r \in Requests, CheckReview(r)
        PROVE  LimiterInv' /\ (Patient /\ CooldownRespected => CooldownRespected')
    BY <1>1, MoveStep, ReadStep, ReserveStep DEF CheckReview
  <1>2. CASE UNCHANGED vars
    <2>1. MutexInv'
      BY <1>2, MutexStep DEF vars, LimiterInv
    <2>2. QED
      BY <1>2, <2>1
      DEF vars, mutexVars, limiterVars, LimiterInv, ClockInv, Kept, Snapshot, CooldownRespected
  <1>3. QED
    BY <1>1, <1>2, RecordStep, ForgetStep, CleanupStep, TickStep
    DEF LimiterNext, ResetRepo, ResetUser, ResetAll

(* Two reservations on one PR and tier lie at least the cool-down apart,   *)
(* whatever waits, times out, fails to be read or written, is reset or is  *)
(* cleaned up, as long as rows are retained for a cool-down.  The argument *)
(* is mutual exclusion: between the reading of the last time and the       *)
(* reservation no other request reserves.                                  *)
THEOREM CooldownRespectedHolds ==
  ASSUME \A t \in Tiers : Cooldown[t] <= Retention
  PROVE  LimiterSpec => []CooldownRespected
  <1>1. Patient
    BY DEF Patient
  <1>2. LimiterInv /\ CooldownRespected /\ [LimiterNext]_vars
          => (LimiterInv /\ CooldownRespected)'
    BY <1>1, LimiterStep
  <1>3. QED
    BY LimiterStart, <1>2, PTL DEF LimiterSpec

-----------------------------------------------------------------------------
(* The caps of the rate limiter.                                           *)

(* The requests that are counted together.                                 *)
RepoGroup(r) == {s \in Requests : Repo[s] = Repo[r] /\ Tier[s] = "command"}
UserGroup(r) == {s \in Requests : User[s] = User[r]}

(* The start of the period of p ticks that t lies in.                      *)
Start(t, p) == (t \div p) * p

(* The reservations of a group in the period that starts at h, and since   *)
(* the start of the present one.                                           *)
Granted(G, p, h) == {x \in ledger : x.id \in G /\ Start(x.at, p) = h}
Recent(G, p) == {x \in ledger : x.id \in G /\ x.at >= Start(now, p)}

Capped(G, p, cap) == \A h : Cardinality(Granted(G, p, h)) <= cap

TablesFinite ==
  /\ IsFiniteSet(rows) /\ IsFiniteSet(ledger) /\ IsFiniteSet(degraded)
  /\ \A r \in Requests : seen[r].repo \in Nat /\ seen[r].user \in Nat

(* Who has read a count may rely on it until the decision: it covers the   *)
(* reservations of the period, even when that is no longer the period it   *)
(* was read for.                                                           *)
RepoCounted ==
  \A r \in Requests :
    status[r] = "read" /\ Tier[r] = "command" /\ "repo" \notin seen[r].failed
      => Cardinality(Recent(RepoGroup(r), HourTicks)) <= seen[r].repo

UserCounted ==
  \A r \in Requests :
    status[r] = "read" /\ "user" \notin seen[r].failed
      => Cardinality(Recent(UserGroup(r), DayTicks)) <= seen[r].user

RepoInv == RepoCounted /\ \A r \in Requests : Capped(RepoGroup(r), HourTicks, RepoCap)
UserInv == UserCounted /\ \A r \in Requests : Capped(UserGroup(r), DayTicks, UserCap)

(* The start of a period is at most a period ago.                          *)
LEMMA StartOfPeriod ==
  ASSUME NEW p \in Nat \ {0}, NEW t \in Nat
  PROVE  Start(t, p) \in Nat /\ Start(t, p) <= t /\ t < Start(t, p) + p
  <1>1. t \div p \in Int /\ t % p \in 0..(p - 1) /\ t = p * (t \div p) + (t % p)
    OBVIOUS
  <1>2. t \div p \in Nat
    BY <1>1
  <1>3. QED
    BY <1>1, <1>2 DEF Start

(* Later times lie in later periods.                                       *)
LEMMA StartsAscend ==
  ASSUME NEW p \in Nat \ {0}, NEW s \in Nat, NEW t \in Nat, s <= t
  PROVE  Start(s, p) <= Start(t, p)
  <1>1. \A q, d \in Nat : q * p \in Nat /\ d * p \in Nat /\ (q + 1 + d) * p = q * p + p + d * p
    OBVIOUS
  <1>2. s \div p \in Nat /\ t \div p \in Nat
    <2>1. /\ s \div p \in Int /\ s % p \in 0..(p - 1) /\ s = p * (s \div p) + (s % p)
          /\ t \div p \in Int /\ t % p \in 0..(p - 1) /\ t = p * (t \div p) + (t % p)
      OBVIOUS
    <2>2. QED
      BY <2>1
  <1>3. /\ (s \div p) * p <= s
        /\ t < (t \div p) * p + p
    BY StartOfPeriod DEF Start
  <1>4. ASSUME t \div p < s \div p
        PROVE  FALSE
    <2>1. PICK d \in Nat : s \div p = (t \div p) + 1 + d
      <3>1. (s \div p) - (t \div p) - 1 \in Nat
        BY <1>2, <1>4
      <3>2. s \div p = (t \div p) + 1 + ((s \div p) - (t \div p) - 1)
        BY <1>2
      <3>3. QED
        BY <3>1, <3>2
    <2>2. (s \div p) * p = (t \div p) * p + p + d * p /\ d * p \in Nat /\ (t \div p) * p \in Nat
      BY <1>1, <1>2, <2>1
    <2>3. QED
      BY <1>3, <2>2
  <1>5. CASE s \div p = t \div p
    BY <1>1, <1>2, <1>5 DEF Start
  <1>6. CASE s \div p < t \div p
    <2>1. PICK d \in Nat : t \div p = (s \div p) + 1 + d
      <3>1. (t \div p) - (s \div p) - 1 \in Nat
        BY <1>2, <1>6
      <3>2. t \div p = (s \div p) + 1 + ((t \div p) - (s \div p) - 1)
        BY <1>2
      <3>3. QED
        BY <3>1, <3>2
    <2>2. /\ (t \div p) * p = (s \div p) * p + p + d * p
          /\ d * p \in Nat /\ (s \div p) * p \in Nat
      BY <1>1, <1>2, <2>1
    <2>3. QED
      BY <2>2 DEF Start
  <1>7. QED
    BY <1>2, <1>4, <1>5, <1>6

(* Reservations that are forgotten leave every count as low as it was.     *)
LEMMA CountsShrink ==
  ASSUME IsFiniteSet(ledger), ledger' \subseteq ledger, NEW G, NEW p \in Nat \ {0}
  PROVE  /\ \A cap \in Nat : Capped(G, p, cap) => Capped(G, p, cap)'
         /\ ClockInv /\ now' \in Nat /\ now <= now'
              => \A n \in Nat : Cardinality(Recent(G, p)) <= n => Cardinality(Recent(G, p)') <= n
  <1>1. ASSUME NEW h
        PROVE  /\ IsFiniteSet(Granted(G, p, h))
               /\ IsFiniteSet(Granted(G, p, h)')
               /\ Cardinality(Granted(G, p, h)') <= Cardinality(Granted(G, p, h))
    <2>1. Granted(G, p, h) \subseteq ledger /\ Granted(G, p, h)' \subseteq Granted(G, p, h)
      BY DEF Granted, Start
    <2>2. QED
      BY <2>1, FS_Subset
  <1>2. ASSUME NEW cap \in Nat, Capped(G, p, cap)
        PROVE  Capped(G, p, cap)'
    <2>1. ASSUME NEW h
          PROVE  Cardinality(Granted(G, p, h)') <= cap
      <3>1. Cardinality(Granted(G, p, h)) \in Nat /\ Cardinality(Granted(G, p, h)') \in Nat
        BY <1>1, FS_CardinalityType
      <3>2. Cardinality(Granted(G, p, h)) <= cap
        BY <1>2 DEF Capped
      <3>3. QED
        BY <1>1, <3>1, <3>2
    <2>2. QED
      BY <2>1 DEF Capped
  <1>3. ASSUME ClockInv, now' \in Nat, now <= now', NEW n \in Nat, Cardinality(Recent(G, p)) <= n
        PROVE  Cardinality(Recent(G, p)') <= n
    <2>1. now \in Nat /\ \A x \in ledger : x.at \in Nat
      BY <1>3, LimiterAssumption DEF LimiterAssumption, ClockInv
    <2>2. Start(now, p) \in Nat /\ Start(now', p) \in Nat /\ Start(now, p) <= Start(now', p)
      BY <1>3, <2>1, StartOfPeriod, StartsAscend
    <2>3. Recent(G, p) \subseteq ledger
      BY DEF Recent
    <2>4. Recent(G, p)' \subseteq Recent(G, p)
      <3> SUFFICES ASSUME NEW x \in ledger', x.id \in G, x.at >= Start(now', p)
                   PROVE  x \in ledger /\ x.id \in G /\ x.at >= Start(now, p)
        BY DEF Recent, Start
      <3>1. x \in ledger /\ x.at \in Nat
        BY <2>1
      <3>2. QED
        BY <2>2, <3>1
    <2>5. IsFiniteSet(Recent(G, p)) /\ IsFiniteSet(Recent(G, p)')
      BY <2>3, <2>4, FS_Subset
    <2>6. Cardinality(Recent(G, p)') <= Cardinality(Recent(G, p))
      BY <2>4, <2>5, FS_Subset
    <2>7. Cardinality(Recent(G, p)) \in Nat /\ Cardinality(Recent(G, p)') \in Nat
      BY <2>5, FS_CardinalityType
    <2>8. QED
      BY <1>3, <2>6, <2>7
  <1>4. QED
    BY <1>2, <1>3

(* A reservation is one more in its own period, for the groups it is in.   *)
LEMMA CountGrows ==
  ASSUME IsFiniteSet(ledger), ClockInv, NEW r \in Requests,
         ledger' = ledger \union {[id |-> r, at |-> now]},
         NEW G, NEW p \in Nat \ {0}, NEW cap \in Nat, Capped(G, p, cap),
         r \in G => Cardinality(Recent(G, p)) < cap
  PROVE  Capped(G, p, cap)'
  <1> DEFINE entry == [id |-> r, at |-> now]
  <1>1. entry.id = r /\ entry.at = now /\ now \in Nat /\ \A x \in ledger : x.at \in Nat
    BY LimiterAssumption DEF LimiterAssumption, ClockInv
  <1>2. ledger' = ledger \union {entry}
    OBVIOUS
  <1> HIDE DEF entry
  <1> SUFFICES ASSUME NEW h
               PROVE  Cardinality(Granted(G, p, h)') <= cap
    BY DEF Capped
  <1>3. Cardinality(Granted(G, p, h)) <= cap
    BY DEF Capped
  <1>4. IsFiniteSet(Granted(G, p, h)) /\ IsFiniteSet(Recent(G, p))
    <2>1. Granted(G, p, h) \subseteq ledger /\ Recent(G, p) \subseteq ledger
      BY DEF Granted, Recent
    <2>2. QED
      BY <2>1, FS_Subset
  <1>5. CASE r \notin G \/ Start(now, p) # h
    <2>1. Granted(G, p, h)' = Granted(G, p, h)
      BY <1>1, <1>2, <1>5 DEF Granted, Start
    <2>2. QED
      BY <1>3, <2>1
  <1>6. CASE r \in G /\ Start(now, p) = h
    <2>1. Granted(G, p, h)' = Granted(G, p, h) \union {entry}
      BY <1>1, <1>2, <1>6 DEF Granted, Start
    <2>2. Granted(G, p, h) \subseteq Recent(G, p)
      <3> SUFFICES ASSUME NEW x \in ledger, x.id \in G, Start(x.at, p) = h
                   PROVE  x.at >= Start(now, p)
        BY DEF Granted, Recent
      <3>1. Start(x.at, p) \in Nat /\ Start(x.at, p) <= x.at /\ x.at \in Nat
        BY <1>1, StartOfPeriod
      <3>2. QED
        BY <1>6, <3>1
    <2>3. Cardinality(Granted(G, p, h)) <= Cardinality(Recent(G, p))
      BY <1>4, <2>2, FS_Subset
    <2>4. Cardinality(Granted(G, p, h)) \in Nat /\ Cardinality(Recent(G, p)) \in Nat
      BY <1>4, FS_CardinalityType
    <2>5. \/ Cardinality(Granted(G, p, h)') = Cardinality(Granted(G, p, h))
          \/ Cardinality(Granted(G, p, h)') = Cardinality(Granted(G, p, h)) + 1
      BY <1>4, <2>1, FS_AddElement
    <2>6. QED
      BY <1>6, <2>3, <2>4, <2>5
  <1>7. QED
    BY <1>5, <1>6

(* What is counted in the table since the period that a request captured   *)
(* covers the reservations of the period in which it reads: those are not  *)
(* old enough to have been cleaned up.                                     *)
LEMMA RowsCover ==
  ASSUME LimiterInv, IsFiniteSet(rows), NEW r \in Requests, NEW G,
         NEW p \in Nat \ {0}, p <= Retention
  PROVE  Cardinality(Recent(G, p))
           <= Cardinality({y \in rows : y.id \in G /\ y.at >= Start(started[r], p)})
  <1> DEFINE T == {y \in rows : y.id \in G /\ y.at >= Start(started[r], p)}
  <1>1. /\ now \in Nat /\ Retention \in Nat /\ started[r] \in Nat /\ started[r] <= now
        /\ \A x \in ledger : x \in [id : Requests, at : Nat]
        /\ \A y \in rows : y.at \in Nat
    BY LimiterAssumption DEF LimiterAssumption, LimiterInv, ClockInv, Row
  <1>2. /\ Start(started[r], p) \in Nat /\ Start(now, p) \in Nat
        /\ Start(started[r], p) <= Start(now, p) /\ now < Start(now, p) + p
    BY <1>1, StartOfPeriod, StartsAscend
  <1>3. ASSUME NEW x \in Recent(G, p)
        PROVE  \E y \in T : y.id = x.id /\ y.at = x.at
    <2>1. x \in ledger /\ x.id \in G /\ x.at >= Start(now, p) /\ x.at \in Nat
      BY <1>1, <1>3 DEF Recent
    <2>2. ~ (x.at + Retention < now) /\ x.at >= Start(started[r], p)
      BY <1>1, <1>2, <2>1
    <2>3. PICK y \in rows : y.id = x.id /\ y.at = x.at
      BY <2>1, <2>2 DEF LimiterInv, Kept
    <2>4. QED
      BY <2>1, <2>2, <2>3
  <1> DEFINE f == [x \in Recent(G, p) |-> CHOOSE y \in T : y.id = x.id /\ y.at = x.at]
  <1>4. \A x \in Recent(G, p) : f[x] \in T /\ f[x].id = x.id /\ f[x].at = x.at
    BY <1>3
  <1>5. \A x, y \in Recent(G, p) : x.id = y.id /\ x.at = y.at => x = y
    <2>1. \A x \in Recent(G, p) : x \in [id : Requests, at : Nat]
      BY <1>1 DEF Recent
    <2>2. QED
      BY <2>1
  <1>6. f \in [Recent(G, p) -> T]
    <2> HIDE DEF T
    <2>1. QED
      BY <1>4
  <1>7. f \in Injection(Recent(G, p), T)
    <2> HIDE DEF f, T
    <2>1. \A x, y \in Recent(G, p) : f[x] = f[y] => x = y
      BY <1>4, <1>5
    <2>2. QED
      BY <1>6, <2>1 DEF Injection, IsInjective
  <1>8. IsFiniteSet(T)
    BY FS_Subset
  <1>9. QED
    BY <1>7, <1>8, FS_Injection

(* What a reading is made of.                                              *)
LEMMA ReadingsOf ==
  ASSUME ClockInv, NEW r \in Requests, Read(r)
  PROVE  /\ seen'[r].user = UserCount(r, DayStart(started[r]))
         /\ seen'[r].repo = IF Tier[r] = "command" THEN RepoCount(r, HourStart(started[r])) ELSE 0
         /\ seen'[r].tokens = TokenSum(DayStart(started[r]))
         /\ \A s \in Requests : s # r => seen'[s] = seen[s]
  <1>1. PICK failed :
          seen' = [seen EXCEPT ![r] =
            [repo |-> IF Tier[r] = "command" THEN RepoCount(r, HourStart(started[r])) ELSE 0,
             user |-> UserCount(r, DayStart(started[r])),
             last |-> LastTime(r),
             tokens |-> TokenSum(DayStart(started[r])),
             failed |-> failed]]
    BY DEF Read, TakeReadings
  <1> HIDE DEF ClockInv
  <1>2. DOMAIN seen = Requests
    BY DEF ClockInv
  <1>3. QED
    BY <1>1, <1>2

(* What a step may do to the counts: a request reads them, a request       *)
(* reserves, or reservations are forgotten and time passes.                *)
Fades ==
  /\ ledger' \subseteq ledger /\ now' \in Nat /\ now <= now'
  /\ \A r \in Requests : status'[r] = "read" => status[r] = "read" /\ seen'[r] = seen[r]

(* Those are all the steps there are.                                      *)
LEMMA CountingSteps ==
  ASSUME LimiterInv, [LimiterNext]_vars
  PROVE  Fades \/ \E r \in Requests : Read(r) \/ Reserve(r)
  <1>1. now \in Nat
    BY LimiterAssumption DEF LimiterAssumption, LimiterInv, ClockInv
  <1>2. \A r, s \in Requests : \A verdict \in Decided \union {"recorded"} :
          status' = [status EXCEPT ![r] = verdict] /\ status'[s] = "read" => status[s] = "read"
    BY DEF LimiterInv, ClockInv, Decided
  <1>3. ASSUME NEW r \in Requests,
               \/ Arrive(r) \/ Enter(r) \/ GiveUp(r) \/ SettleBehind(r) \/ Leave(r)
               \/ Deny(r) \/ RethrowReadError(r) \/ ReserveFails(r) \/ RecordReview(r)
        PROVE  Fades
    <2>1. UNCHANGED <<now, ledger, seen>>
      BY <1>3 DEF Arrive, Enter, GiveUp, SettleBehind, Leave, Deny, RethrowReadError,
                  ReserveFails, RecordReview, Reconcile, RecordDegraded, Conclude, limiterVars
    <2>2. \/ status' = status
          \/ \E verdict \in Decided \union {"recorded"} : status' = [status EXCEPT ![r] = verdict]
      BY <1>3 DEF Arrive, Enter, GiveUp, SettleBehind, Leave, Deny, RethrowReadError,
                  ReserveFails, RecordReview, Reconcile, RecordDegraded, Conclude, limiterVars,
                  Decided
    <2>3. QED
      BY <1>1, <1>2, <2>1, <2>2 DEF Fades
  <1>4. ASSUME NEW ids, Forget(ids)
        PROVE  Fades
    BY <1>1, <1>4 DEF Forget, Fades
  <1>5. CASE Cleanup \/ Tick \/ UNCHANGED vars
    BY <1>1, <1>5 DEF Cleanup, Tick, vars, limiterVars, Fades
  <1>6. QED
    BY <1>3, <1>4, <1>5
    DEF LimiterNext, CheckReview, ResetRepo, ResetUser, ResetAll

(* The tables stay finite, and counts of them are numbers.                 *)
LEMMA TablesStep ==
  ASSUME LimiterInv, TablesFinite, [LimiterNext]_vars
  PROVE  TablesFinite'
  <1>1. IsFiniteSet(ledger')
    <2>1. CASE Fades
      BY <2>1, FS_Subset DEF TablesFinite, Fades
    <2>2. ASSUME NEW r \in Requests, Read(r) \/ Reserve(r)
          PROVE  IsFiniteSet(ledger')
      <3>1. ledger' = ledger \/ ledger' = ledger \union {[id |-> r, at |-> now]}
        BY <2>2 DEF Read, TakeReadings, Reserve
      <3>2. QED
        BY <3>1, FS_AddElement DEF TablesFinite
    <2>3. QED
      BY <2>1, <2>2, CountingSteps
  <1>2. IsFiniteSet(rows')
    <2>1. \/ rows' \subseteq rows
          \/ \E x : rows' = rows \union {x}
          \/ \E r \in Requests : Reconcile(r)
      <3>1. ASSUME NEW r \in Requests, CheckReview(r)
            PROVE  rows' = rows \/ \E x : rows' = rows \union {x}
        BY <3>1 DEF CheckReview, Arrive, Enter, GiveUp, SettleBehind, Read, TakeReadings, Leave,
                    Deny, RethrowReadError, ReserveFails, Reserve, limiterVars
      <3>2. ASSUME NEW r \in Requests, RecordDegraded(r)
            PROVE  rows' = rows \/ \E x : rows' = rows \union {x}
        BY <3>2 DEF RecordDegraded
      <3>3. ASSUME NEW ids, Forget(ids)
            PROVE  rows' \subseteq rows
        BY <3>3 DEF Forget
      <3>4. CASE Cleanup \/ Tick \/ UNCHANGED vars
        BY <3>4 DEF Cleanup, Tick, vars, limiterVars
      <3>5. QED
        BY <3>1, <3>2, <3>3, <3>4
        DEF LimiterNext, RecordReview, ResetRepo, ResetUser, ResetAll
    <2>2. ASSUME NEW r \in Requests, Reconcile(r)
          PROVE  IsFiniteSet(rows')
      <3>1. PICK used : rows' = {IF x.id = r THEN [x EXCEPT !.tokens = used] ELSE x : x \in rows}
        BY <2>2 DEF Reconcile
      <3> DEFINE f == [x \in rows |-> IF x.id = r THEN [x EXCEPT !.tokens = used] ELSE x]
      <3>2. rows' = {f[x] : x \in rows}
        BY <3>1
      <3>3. f \in Surjection(rows, rows')
        <4>1. f = [x \in rows |-> f[x]]
          OBVIOUS
        <4> HIDE DEF f
        <4>2. QED
          BY <3>2, <4>1 DEF Surjection
      <3>4. QED
        BY <3>3, FS_Surjection DEF TablesFinite
    <2>3. QED
      BY <2>1, <2>2, FS_Subset, FS_AddElement DEF TablesFinite
  <1>3. \A r \in Requests : seen'[r].repo \in Nat /\ seen'[r].user \in Nat
    <2>1. CASE Fades /\ seen' = seen
      BY <2>1 DEF TablesFinite
    <2>2. ASSUME NEW r \in Requests, Read(r)
          PROVE  \A s \in Requests : seen'[s].repo \in Nat /\ seen'[s].user \in Nat
      <3>1. RepoCount(r, HourStart(started[r])) \in Nat /\ UserCount(r, DayStart(started[r])) \in Nat
        BY FS_Subset, FS_CardinalityType DEF RepoCount, UserCount, TablesFinite
      <3>2. QED
        BY <2>2, <3>1, ReadingsOf DEF TablesFinite, LimiterInv
    <2>3. seen' = seen \/ \E r \in Requests : Read(r)
      BY DEF LimiterNext, CheckReview, RecordReview, Arrive, Enter, GiveUp, SettleBehind, Leave,
             Deny, RethrowReadError, ReserveFails, Reserve, Reconcile, RecordDegraded, Conclude,
             ResetRepo, ResetUser, ResetAll, Forget, Cleanup, Tick, vars, limiterVars
    <2>4. QED
      BY <2>2, <2>3 DEF TablesFinite
  <1>4. IsFiniteSet(degraded')
    <2>1. degraded' \subseteq degraded \/ \E x : degraded' \subseteq degraded \union {x}
      <3>1. ASSUME NEW r \in Requests, CheckReview(r) \/ RecordReview(r)
            PROVE  degraded' = degraded \/ degraded' \subseteq degraded \union {[id |-> r, at |-> now]}
        BY <3>1 DEF CheckReview, RecordReview, Arrive, Enter, GiveUp, SettleBehind, Read,
                    TakeReadings, Leave, Deny, RethrowReadError, ReserveFails, Reserve,
                    Reconcile, RecordDegraded, limiterVars
      <3>2. ASSUME NEW ids, Forget(ids)
            PROVE  degraded' \subseteq degraded
        BY <3>2 DEF Forget
      <3>3. CASE Cleanup \/ Tick \/ UNCHANGED vars
        BY <3>3 DEF Cleanup, Tick, vars, limiterVars
      <3>4. QED
        BY <3>1, <3>2, <3>3 DEF LimiterNext, ResetRepo, ResetUser, ResetAll
    <2>2. QED
      BY <2>1, FS_Subset, FS_AddElement DEF TablesFinite
  <1>5. QED
    BY <1>1, <1>2, <1>3, <1>4 DEF TablesFinite

(* While a request reserves no other has anything read: it would be in the *)
(* mutex as well.                                                          *)
LEMMA OnlyReader ==
  ASSUME LimiterInv, NEW r \in Requests, Reserve(r)
  PROVE  \A s \in Requests : status'[s] # "read"
  <1>1. /\ pc[r] = "critical" /\ status' = [status EXCEPT ![r] = "allowed"]
    BY DEF Reserve, Conclude
  <1>2. ASSUME NEW s \in Requests, status'[s] = "read"
        PROVE  FALSE
    <2>1. s # r /\ status[s] = "read"
      BY <1>1, <1>2 DEF LimiterInv, ClockInv
    <2>2. pc[s] = "critical"
      BY <2>1 DEF LimiterInv, Snapshot
    <2>3. QED
      BY <1>1, <2>1, <2>2, OneCritical DEF LimiterInv, MutualExclusion, Requests
  <1>3. QED
    BY <1>2

(* A step preserves the cap of a repository and hour.                      *)
LEMMA RepoStep ==
  ASSUME LimiterInv, TablesFinite, RepoInv, [LimiterNext]_vars
  PROVE  RepoInv'
  <1> USE LimiterAssumption DEF LimiterAssumption
  <1>1. ClockInv /\ IsFiniteSet(ledger) /\ IsFiniteSet(rows)
        /\ \A r \in Requests : seen[r].repo \in Nat
    BY DEF LimiterInv, TablesFinite
  <1>2. CASE Fades
    <2>1. ASSUME NEW r \in Requests
          PROVE  Capped(RepoGroup(r), HourTicks, RepoCap)'
      BY <1>1, <1>2, CountsShrink DEF RepoInv, Fades
    <2>2. ASSUME NEW r \in Requests, status'[r] = "read", Tier[r] = "command",
                 "repo" \notin seen'[r].failed
          PROVE  Cardinality(Recent(RepoGroup(r), HourTicks)') <= seen'[r].repo
      <3>1. status[r] = "read" /\ seen'[r] = seen[r] /\ seen[r].repo \in Nat
        BY <1>1, <1>2, <2>2 DEF Fades
      <3>2. Cardinality(Recent(RepoGroup(r), HourTicks)) <= seen[r].repo
        BY <2>2, <3>1 DEF RepoInv, RepoCounted
      <3>3. QED
        BY <1>1, <1>2, <3>1, <3>2, CountsShrink DEF Fades
    <2>3. QED
      BY <2>1, <2>2 DEF RepoInv, RepoCounted, Recent, RepoGroup, Capped, Granted
  <1>3. ASSUME NEW r \in Requests, Read(r)
        PROVE  RepoInv'
    <2>1. UNCHANGED <<now, started, ledger, rows>> /\ status' = [status EXCEPT ![r] = "read"]
      BY <1>3 DEF Read, TakeReadings
    <2>2. Tier[r] = "command" => Cardinality(Recent(RepoGroup(r), HourTicks)) <= seen'[r].repo
      <3> SUFFICES ASSUME Tier[r] = "command"
                   PROVE  Cardinality(Recent(RepoGroup(r), HourTicks)) <= seen'[r].repo
        OBVIOUS
      <3>1. seen'[r].repo = RepoCount(r, HourStart(started[r]))
        BY <1>1, <1>3, ReadingsOf
      <3>2. {y \in rows : y.id \in RepoGroup(r) /\ y.at >= Start(started[r], HourTicks)}
              = {x \in rows : /\ Repo[x.id] = Repo[r] /\ Tier[x.id] = "command"
                              /\ x.at >= HourStart(started[r])}
        BY <1>1 DEF ClockInv, Row, RepoGroup, HourStart, Start
      <3>3. QED
        BY <1>1, <3>1, <3>2, RowsCover DEF RepoCount
    <2>3. \A s \in Requests : s # r => seen'[s] = seen[s] /\ status'[s] = status[s]
      BY <1>1, <1>3, <2>1, ReadingsOf DEF ClockInv
    <2>4. \A s \in Requests : Recent(RepoGroup(s), HourTicks)' = Recent(RepoGroup(s), HourTicks)
      BY <2>1 DEF Recent, Start, RepoGroup
    <2>5. \A s \in Requests : Capped(RepoGroup(s), HourTicks, RepoCap)'
      BY <2>1 DEF RepoInv, Capped, Granted, Start, RepoGroup
    <2>6. RepoCounted'
      BY <2>2, <2>3, <2>4 DEF RepoInv, RepoCounted
    <2>7. QED
      BY <2>5, <2>6 DEF RepoInv
  <1>4. ASSUME NEW r \in Requests, Reserve(r)
        PROVE  RepoInv'
    <2>1. /\ status[r] = "read" /\ seen[r].failed = {} /\ ~Denies(r)
          /\ ledger' = ledger \union {[id |-> r, at |-> now]}
      BY <1>4 DEF Reserve, Conclude
    <2>2. ASSUME NEW s \in Requests
          PROVE  Capped(RepoGroup(s), HourTicks, RepoCap)'
      <3>1. ASSUME r \in RepoGroup(s)
            PROVE  Cardinality(Recent(RepoGroup(s), HourTicks)) < RepoCap
        <4>1. RepoGroup(s) = RepoGroup(r) /\ Tier[r] = "command"
          BY <3>1 DEF RepoGroup
        <4>2. Cardinality(Recent(RepoGroup(r), HourTicks)) <= seen[r].repo
          BY <2>1, <4>1 DEF RepoInv, RepoCounted
        <4>3. ~ (seen[r].repo >= RepoCap) /\ seen[r].repo \in Nat
          BY <1>1, <2>1, <4>1 DEF Denies
        <4>4. Cardinality(Recent(RepoGroup(r), HourTicks)) \in Nat
          <5>1. Recent(RepoGroup(r), HourTicks) \subseteq ledger
            BY DEF Recent
          <5>2. QED
            BY <1>1, <5>1, FS_Subset, FS_CardinalityType
        <4>5. QED
          BY <4>1, <4>2, <4>3, <4>4
      <3>2. QED
        BY <1>1, <2>1, <3>1, CountGrows DEF RepoInv
    <2>3. RepoCounted'
      BY <1>4, OnlyReader DEF RepoCounted
    <2>4. QED
      BY <2>2, <2>3 DEF RepoInv, Capped, Granted, RepoGroup
  <1>5. QED
    BY <1>2, <1>3, <1>4, CountingSteps

(* A step preserves the cap of a user and day.                             *)
LEMMA UserStep ==
  ASSUME LimiterInv, TablesFinite, UserInv, [LimiterNext]_vars, DayTicks <= Retention
  PROVE  UserInv'
  <1> USE LimiterAssumption DEF LimiterAssumption
  <1>1. ClockInv /\ IsFiniteSet(ledger) /\ IsFiniteSet(rows)
        /\ \A r \in Requests : seen[r].user \in Nat
    BY DEF LimiterInv, TablesFinite
  <1>2. CASE Fades
    <2>1. ASSUME NEW r \in Requests
          PROVE  Capped(UserGroup(r), DayTicks, UserCap)'
      BY <1>1, <1>2, CountsShrink DEF UserInv, Fades
    <2>2. ASSUME NEW r \in Requests, status'[r] = "read", "user" \notin seen'[r].failed
          PROVE  Cardinality(Recent(UserGroup(r), DayTicks)') <= seen'[r].user
      <3>1. status[r] = "read" /\ seen'[r] = seen[r] /\ seen[r].user \in Nat
        BY <1>1, <1>2, <2>2 DEF Fades
      <3>2. Cardinality(Recent(UserGroup(r), DayTicks)) <= seen[r].user
        BY <2>2, <3>1 DEF UserInv, UserCounted
      <3>3. QED
        BY <1>1, <1>2, <3>1, <3>2, CountsShrink DEF Fades
    <2>3. QED
      BY <2>1, <2>2 DEF UserInv, UserCounted, Recent, UserGroup, Capped, Granted
  <1>3. ASSUME NEW r \in Requests, Read(r)
        PROVE  UserInv'
    <2>1. UNCHANGED <<now, started, ledger, rows>> /\ status' = [status EXCEPT ![r] = "read"]
      BY <1>3 DEF Read, TakeReadings
    <2>2. Cardinality(Recent(UserGroup(r), DayTicks)) <= seen'[r].user
      <3>1. seen'[r].user = UserCount(r, DayStart(started[r]))
        BY <1>1, <1>3, ReadingsOf
      <3>2. {y \in rows : y.id \in UserGroup(r) /\ y.at >= Start(started[r], DayTicks)}
              = {x \in rows : User[x.id] = User[r] /\ x.at >= DayStart(started[r])}
        BY <1>1 DEF ClockInv, Row, UserGroup, DayStart, Start
      <3>3. QED
        BY <1>1, <3>1, <3>2, RowsCover DEF UserCount
    <2>3. \A s \in Requests : s # r => seen'[s] = seen[s] /\ status'[s] = status[s]
      BY <1>1, <1>3, <2>1, ReadingsOf DEF ClockInv
    <2>4. \A s \in Requests : Recent(UserGroup(s), DayTicks)' = Recent(UserGroup(s), DayTicks)
      BY <2>1 DEF Recent, Start, UserGroup
    <2>5. \A s \in Requests : Capped(UserGroup(s), DayTicks, UserCap)'
      BY <2>1 DEF UserInv, Capped, Granted, Start, UserGroup
    <2>6. UserCounted'
      BY <2>2, <2>3, <2>4 DEF UserInv, UserCounted
    <2>7. QED
      BY <2>5, <2>6 DEF UserInv
  <1>4. ASSUME NEW r \in Requests, Reserve(r)
        PROVE  UserInv'
    <2>1. /\ status[r] = "read" /\ seen[r].failed = {} /\ ~Denies(r)
          /\ ledger' = ledger \union {[id |-> r, at |-> now]}
      BY <1>4 DEF Reserve, Conclude
    <2>2. ASSUME NEW s \in Requests
          PROVE  Capped(UserGroup(s), DayTicks, UserCap)'
      <3>1. ASSUME r \in UserGroup(s)
            PROVE  Cardinality(Recent(UserGroup(s), DayTicks)) < UserCap
        <4>1. UserGroup(s) = UserGroup(r)
          BY <3>1 DEF UserGroup
        <4>2. Cardinality(Recent(UserGroup(r), DayTicks)) <= seen[r].user
          BY <2>1, <4>1 DEF UserInv, UserCounted
        <4>3. ~ (seen[r].user >= UserCap) /\ seen[r].user \in Nat
          BY <1>1, <2>1, <4>1 DEF Denies
        <4>4. Cardinality(Recent(UserGroup(r), DayTicks)) \in Nat
          <5>1. Recent(UserGroup(r), DayTicks) \subseteq ledger
            BY DEF Recent
          <5>2. QED
            BY <1>1, <5>1, FS_Subset, FS_CardinalityType
        <4>5. QED
          BY <4>1, <4>2, <4>3, <4>4
      <3>2. QED
        BY <1>1, <2>1, <3>1, CountGrows DEF UserInv
    <2>3. UserCounted'
      BY <1>4, OnlyReader DEF UserCounted
    <2>4. QED
      BY <2>2, <2>3 DEF UserInv, Capped, Granted, UserGroup
  <1>5. QED
    BY <1>2, <1>3, <1>4, CountingSteps

(* The counts are right for every request and at every time.               *)
LEMMA LimiterAlways == LimiterSpec => [](LimiterInv /\ TablesFinite)
  <1>1. LimiterInit => LimiterInv /\ TablesFinite
    <2>1. LimiterInit => TablesFinite
      BY FS_EmptySet DEF LimiterInit, TablesFinite
    <2>2. QED
      BY <2>1, LimiterStart
  <1>2. LimiterInv /\ TablesFinite /\ [LimiterNext]_vars => (LimiterInv /\ TablesFinite)'
    BY LimiterStep, TablesStep
  <1>3. QED
    BY <1>1, <1>2, PTL DEF LimiterSpec

(* Nothing has been granted yet at the start.                              *)
LEMMA NothingGranted ==
  ASSUME LimiterInit
  PROVE  RepoInv /\ UserInv
  <1>1. RepoCounted /\ UserCounted
    BY DEF LimiterInit, RepoCounted, UserCounted
  <1>2. \A G, p, h : Granted(G, p, h) = {}
    BY DEF LimiterInit, Granted
  <1>3. \A G, p : \A cap \in Nat : Capped(G, p, cap)
    BY <1>2, FS_EmptySet DEF Capped
  <1>4. QED
    BY <1>1, <1>3, LimiterAssumption DEF LimiterAssumption, RepoInv, UserInv

(* Of what is granted all but the reservations was let through without     *)
(* one.                                                                    *)
LEMMA GrantsOverrun ==
  ASSUME NEW A, NEW B, NEW C, NEW cap \in Nat,
         IsFiniteSet(A), IsFiniteSet(B), C = A \union B, Cardinality(A) <= cap
  PROVE  Cardinality(C) <= cap + Cardinality(B)
  <1>1. /\ Cardinality(C) = Cardinality(A) + Cardinality(B) - Cardinality(A \intersect B)
        /\ IsFiniteSet(A \intersect B)
    BY FS_Union, FS_Intersection
  <1>2. Cardinality(A) \in Nat /\ Cardinality(B) \in Nat /\ Cardinality(A \intersect B) \in Nat
    BY <1>1, FS_CardinalityType
  <1>3. QED
    BY <1>1, <1>2

(* Both caps hold of everything granted when they hold of the reservations *)
(* of every group and period.                                              *)
LEMMA RepoCapKept == ClockInv /\ TablesFinite /\ RepoInv => RepoHourlyCap
  <1> SUFFICES ASSUME ClockInv, TablesFinite, RepoInv, NEW r \in Requests, NEW h
               PROVE  Cardinality(CommandsIn(Grants, r, h))
                        <= RepoCap + Cardinality(CommandsIn(degraded, r, h))
    BY DEF RepoHourlyCap
  <1>1. Granted(RepoGroup(r), HourTicks, h) = CommandsIn(ledger, r, h)
    BY DEF ClockInv, Granted, RepoGroup, HourStart, Start, CommandsIn
  <1>2. Cardinality(CommandsIn(ledger, r, h)) <= RepoCap
    BY <1>1 DEF RepoInv, Capped
  <1>3. CommandsIn(Grants, r, h) = CommandsIn(ledger, r, h) \union CommandsIn(degraded, r, h)
    BY DEF CommandsIn, Grants
  <1>4. IsFiniteSet(CommandsIn(ledger, r, h)) /\ IsFiniteSet(CommandsIn(degraded, r, h))
    BY FS_Subset DEF CommandsIn, TablesFinite
  <1>5. QED
    BY <1>2, <1>3, <1>4, GrantsOverrun, LimiterAssumption DEF LimiterAssumption

LEMMA UserCapKept == ClockInv /\ TablesFinite /\ UserInv => UserDailyCap
  <1> SUFFICES ASSUME ClockInv, TablesFinite, UserInv, NEW r \in Requests, NEW d
               PROVE  Cardinality(ActionsIn(Grants, r, d))
                        <= UserCap + Cardinality(ActionsIn(degraded, r, d))
    BY DEF UserDailyCap
  <1>1. Granted(UserGroup(r), DayTicks, d) = ActionsIn(ledger, r, d)
    BY DEF ClockInv, Granted, UserGroup, DayStart, Start, ActionsIn
  <1>2. Cardinality(ActionsIn(ledger, r, d)) <= UserCap
    BY <1>1 DEF UserInv, Capped
  <1>3. ActionsIn(Grants, r, d) = ActionsIn(ledger, r, d) \union ActionsIn(degraded, r, d)
    BY DEF ActionsIn, Grants
  <1>4. IsFiniteSet(ActionsIn(ledger, r, d)) /\ IsFiniteSet(ActionsIn(degraded, r, d))
    BY FS_Subset DEF ActionsIn, TablesFinite
  <1>5. QED
    BY <1>2, <1>3, <1>4, GrantsOverrun, LimiterAssumption DEF LimiterAssumption

(* The command-tier actions granted to a repository in an hour exceed its  *)
(* cap by no more than were let through without a reservation, for any     *)
(* requests, waits, failures, resets and clean-ups: whoever reserves has   *)
(* counted, since it entered the mutex, at least the reservations of the   *)
(* present hour (RepoCounted).                                             *)
THEOREM RepoHourlyCapHolds == LimiterSpec => []RepoHourlyCap
  <1>1. LimiterInv => ClockInv
    BY DEF LimiterInv
  <1>2. LimiterInv /\ TablesFinite /\ RepoInv /\ [LimiterNext]_vars => RepoInv'
    BY RepoStep
  <1>3. QED
    BY LimiterAlways, NothingGranted, RepoCapKept, <1>1, <1>2, PTL DEF LimiterSpec

(* Nor do a user's actions in a day, as long as rows are retained for a    *)
(* day: with less the clean-up forgets reservations that still count, and  *)
(* the configuration does not rule that out.                               *)
THEOREM CountCapsHolds ==
  ASSUME DayTicks <= Retention
  PROVE  LimiterSpec => []CountCaps
  <1>1. LimiterInv => ClockInv
    BY DEF LimiterInv
  <1>2. LimiterInv /\ TablesFinite /\ UserInv /\ [LimiterNext]_vars => UserInv'
    BY UserStep
  <1>3. LimiterSpec => []UserDailyCap
    BY LimiterAlways, NothingGranted, UserCapKept, <1>1, <1>2, PTL DEF LimiterSpec
  <1>4. QED
    BY RepoHourlyCapHolds, <1>3, PTL DEF CountCaps

(* Both caps as a limiter keeps them that never fails open.                *)
ClosedCaps ==
  \A r \in Requests, t \in 0..MaxTime :
    /\ Cardinality(CommandsIn(Grants, r, HourStart(t))) <= RepoCap
    /\ Cardinality(ActionsIn(Grants, r, DayStart(t))) <= UserCap

(* Where nothing may fail open, which is the default of the configuration, *)
(* the caps hold of everything that is granted.                            *)
THEOREM ClosedCapsHold ==
  ASSUME FailOpen = {}, DayTicks <= Retention
  PROVE  LimiterSpec => []ClosedCaps
  <1>1. LimiterInit => degraded = {}
    BY DEF LimiterInit
  <1>2. degraded = {} /\ [LimiterNext]_vars => (degraded = {})'
    BY DEF LimiterNext, CheckReview, RecordReview, Arrive, Enter, GiveUp, SettleBehind, Read,
           TakeReadings, Leave, Deny, RethrowReadError, ReserveFails, Reserve, Reconcile,
           RecordDegraded, ResetRepo, ResetUser, ResetAll, Forget, Cleanup, Tick, vars,
           limiterVars
  <1>3. LimiterInv /\ TablesFinite /\ UserInv /\ [LimiterNext]_vars => UserInv'
    BY UserStep
  <1>4. ClockInv /\ TablesFinite /\ UserInv /\ RepoHourlyCap /\ degraded = {} => ClosedCaps
    <2> SUFFICES ASSUME RepoHourlyCap, UserDailyCap, degraded = {},
                        NEW r \in Requests, NEW t \in 0..MaxTime
                 PROVE  /\ Cardinality(CommandsIn(Grants, r, HourStart(t))) <= RepoCap
                        /\ Cardinality(ActionsIn(Grants, r, DayStart(t))) <= UserCap
      BY UserCapKept DEF ClosedCaps
    <2>1. /\ Cardinality(CommandsIn(Grants, r, HourStart(t)))
               <= RepoCap + Cardinality(CommandsIn(degraded, r, HourStart(t)))
          /\ Cardinality(ActionsIn(Grants, r, DayStart(t)))
               <= UserCap + Cardinality(ActionsIn(degraded, r, DayStart(t)))
      BY DEF RepoHourlyCap, UserDailyCap
    <2>2. /\ CommandsIn(degraded, r, HourStart(t)) = {}
          /\ ActionsIn(degraded, r, DayStart(t)) = {}
      BY DEF CommandsIn, ActionsIn
    <2>3. RepoCap + 0 = RepoCap /\ UserCap + 0 = UserCap
      BY LimiterAssumption DEF LimiterAssumption
    <2>4. QED
      BY <2>1, <2>2, <2>3, FS_EmptySet
  <1>5. LimiterInv => ClockInv
    BY DEF LimiterInv
  <1>6. QED
    BY LimiterAlways, NothingGranted, RepoHourlyCapHolds, <1>1, <1>2, <1>3, <1>4, <1>5, PTL
    DEF LimiterSpec
-----------------------------------------------------------------------------
(* Sums over finite sets.  The community modules define them by recursion  *)
(* over the subsets; what follows about them is shown on a smallest set    *)
(* for which it would fail.                                                *)

Pick(S) == CHOOSE x \in S : TRUE

(* g sums the weights w over the subsets of S, in the order of Pick.       *)
Unfolded(g, w, S) ==
  [s \in SUBSET S |-> IF s = {} THEN 0 ELSE w[Pick(s)] + g[s \ {Pick(s)}]]
IsSum(g, w, S) == g = Unfolded(g, w, S)

SumOf(w, S) == (CHOOSE g : IsSum(g, w, S))[S]

(* A set of numbers that is not empty has a least member.                  *)
LEMMA LeastOf ==
  ASSUME NEW S \in SUBSET Nat, S # {}
  PROVE  \E m \in S : \A n \in S : m <= n
  <1>1. PICK m \in S : \A n \in S : ~ (<<n, m>> \in OpToRel(<, Nat))
    BY WFMin, NatLessThanWellFounded
  <1>2. ASSUME NEW n \in S, ~ (m <= n)
        PROVE  FALSE
    <2>1. n \in Nat /\ m \in Nat /\ n < m
      BY <1>2
    <2>2. <<n, m>> \in OpToRel(<, Nat)
      BY <2>1 DEF OpToRel
    <2>3. QED
      BY <1>1, <2>2, Zenon
  <1>3. QED
    BY <1>2

LEMMA PickIn == \A s : s # {} => Pick(s) \in s
  BY DEF Pick

LEMMA RestOf ==
  ASSUME NEW S, IsFiniteSet(S), NEW s \in SUBSET S, NEW x \in s
  PROVE  /\ s \ {x} \in SUBSET S
         /\ IsFiniteSet(s \ {x}) /\ Cardinality(s \ {x}) \in Nat
         /\ Cardinality(s) \in Nat /\ Cardinality(s) = Cardinality(s \ {x}) + 1
  <1>1. IsFiniteSet(s) /\ Cardinality(s) \in Nat
    BY FS_Subset, FS_CardinalityType
  <1>2. IsFiniteSet(s \ {x}) /\ Cardinality(s \ {x}) = Cardinality(s) - 1
    BY <1>1, FS_RemoveElement
  <1>3. Cardinality(s \ {x}) \in Nat
    BY <1>2, FS_CardinalityType
  <1>4. QED
    BY <1>1, <1>2, <1>3

(* g is right for the sets of at most n members.                           *)
RightTo(g, n, w, S) ==
  \A s \in SUBSET S : Cardinality(s) <= n => g[s] = Unfolded(g, w, S)[s]

LEMMA RightFurther ==
  ASSUME NEW S, IsFiniteSet(S), NEW w, NEW g, NEW n \in Nat, RightTo(g, n, w, S)
  PROVE  RightTo(Unfolded(g, w, S), n + 1, w, S)
  <1> DEFINE h == Unfolded(g, w, S)
  <1> SUFFICES ASSUME NEW s \in SUBSET S, Cardinality(s) <= n + 1
               PROVE  h[s] = Unfolded(h, w, S)[s]
    BY DEF RightTo
  <1>1. CASE s = {}
    BY <1>1 DEF Unfolded
  <1>2. CASE s # {}
    <2> DEFINE t == s \ {Pick(s)}
    <2>1. /\ t \in SUBSET S
          /\ Cardinality(t) \in Nat
          /\ Cardinality(s) = Cardinality(t) + 1
      BY <1>2, PickIn, RestOf
    <2>2. Cardinality(t) <= n
      BY <2>1
    <2>3. g[t] = h[t]
      BY <2>1, <2>2 DEF RightTo
    <2>4. QED
      BY <1>2, <2>1, <2>3 DEF Unfolded
  <1>3. QED
    BY <1>1, <1>2

(* A finite set has a sum: one that is right for the subsets of at most n  *)
(* members is made right for those of n + 1.                               *)
LEMMA SumExists ==
  ASSUME NEW S, IsFiniteSet(S), NEW w
  PROVE  \E g : IsSum(g, w, S)
  <1> DEFINE Reached == {n \in Nat : \E g : RightTo(g, n, w, S)}
             Missed == Nat \ Reached
  <1>1. 0 \in Reached
    <2>1. \A s \in SUBSET S : Cardinality(s) <= 0 => s = {}
      BY FS_Subset, FS_EmptySet, FS_CardinalityType
    <2>2. RightTo([s \in SUBSET S |-> 0], 0, w, S)
      BY <2>1 DEF RightTo, Unfolded
    <2>3. QED
      BY <2>2
  <1>2. ASSUME NEW n \in Reached
        PROVE  n + 1 \in Reached
    BY RightFurther
  <1>3. Missed = {}
    <2>1. ASSUME Missed # {}
          PROVE  FALSE
      <3>1. PICK m \in Missed : \A n \in Missed : m <= n
        <4> HIDE DEF Reached
        <4>1. QED
          BY <2>1, LeastOf
      <3>2. m # 0 /\ m \in Nat
        BY <1>1, <3>1
      <3>3. m - 1 \in Nat /\ ~ (m <= m - 1)
        BY <3>2
      <3>4. m - 1 \in Reached
        <4> HIDE DEF Reached
        <4>1. QED
          BY <3>1, <3>3
      <3>5. (m - 1) + 1 = m
        BY <3>2
      <3>6. m \in Reached
        <4> HIDE DEF Reached
        <4>1. QED
          BY <1>2, <3>4, <3>5
      <3>7. QED
        BY <3>1, <3>6
    <2>2. QED
      BY <2>1
  <1>4. PICK g : RightTo(g, Cardinality(S), w, S)
    BY <1>3, FS_CardinalityType
  <1>5. \A s \in SUBSET S : Cardinality(s) <= Cardinality(S)
    BY FS_Subset
  <1>6. IsSum(Unfolded(g, w, S), w, S)
    <2>1. \A s \in SUBSET S : g[s] = Unfolded(g, w, S)[s]
      BY <1>4, <1>5 DEF RightTo
    <2>2. QED
      BY <2>1, PickIn DEF IsSum, Unfolded
  <1>7. QED
    BY <1>6

(* Of the subsets with a property of a finite set that has one, some lose  *)
(* the property with any of their members.                                 *)
LEMMA SmallestSubset ==
  ASSUME NEW S, IsFiniteSet(S), NEW Bad \in SUBSET SUBSET S, Bad # {}
  PROVE  \E s \in Bad : \A x \in s : s \ {x} \notin Bad
  <1> DEFINE sizes == {Cardinality(s) : s \in Bad}
  <1>1. \A s \in Bad : Cardinality(s) \in Nat
    BY FS_Subset, FS_CardinalityType
  <1>2. sizes \subseteq Nat /\ sizes # {}
    BY <1>1
  <1>3. PICK m \in sizes : \A n \in sizes : m <= n
    <2> HIDE DEF sizes
    <2>1. QED
      BY <1>2, LeastOf
  <1>4. PICK s \in Bad : Cardinality(s) = m
    OBVIOUS
  <1>5. ASSUME NEW x \in s, s \ {x} \in Bad
        PROVE  FALSE
    <2>1. m <= Cardinality(s \ {x})
      BY <1>3, <1>5
    <2>2. Cardinality(s \ {x}) \in Nat /\ Cardinality(s) = Cardinality(s \ {x}) + 1
      BY RestOf
    <2> HIDE DEF sizes
    <2>3. QED
      BY <1>4, <2>1, <2>2
  <1>6. QED
    BY <1>5

(* Sums of the same weights agree, whatever set they are defined on.       *)
LEMMA SumsAgree ==
  ASSUME NEW S, NEW T, NEW U \in SUBSET (S \cap T), IsFiniteSet(U),
         NEW g, NEW h, NEW v, NEW w, IsSum(g, v, S), IsSum(h, w, T),
         \A x \in U : v[x] = w[x]
  PROVE  g[U] = h[U]
  <1> DEFINE Bad == {s \in SUBSET U : g[s] # h[s]}
  <1>1. ASSUME NEW s \in SUBSET U, s # {}
        PROVE  /\ g[s] = v[Pick(s)] + g[s \ {Pick(s)}]
               /\ h[s] = w[Pick(s)] + h[s \ {Pick(s)}]
               /\ Pick(s) \in s /\ v[Pick(s)] = w[Pick(s)]
    BY <1>1, PickIn DEF IsSum, Unfolded
  <1>2. g[{}] = 0 /\ h[{}] = 0
    BY DEF IsSum, Unfolded
  <1>3. Bad = {}
    <2>1. ASSUME Bad # {}
          PROVE  FALSE
      <3>1. PICK s \in Bad : \A x \in s : s \ {x} \notin Bad
        BY <2>1, SmallestSubset
      <3>2. s \in SUBSET U /\ s # {}
        BY <1>2
      <3>3. Pick(s) \in s /\ s \ {Pick(s)} \notin Bad
        BY <1>1, <3>1, <3>2
      <3>4. g[s \ {Pick(s)}] = h[s \ {Pick(s)}]
        BY <3>2, <3>3
      <3>5. g[s] = h[s]
        BY <1>1, <3>2, <3>4
      <3>6. QED
        BY <3>5
    <2>2. QED
      BY <2>1
  <1>4. QED
    BY <1>3

(* The sum of the weights w over S.                                        *)
LEMMA SumIs ==
  ASSUME NEW S, IsFiniteSet(S), NEW w
  PROVE  /\ S = {} => SumOf(w, S) = 0
         /\ S # {} => /\ Pick(S) \in S
                      /\ SumOf(w, S) = w[Pick(S)] + SumOf(w, S \ {Pick(S)})
  <1> DEFINE R == S \ {Pick(S)}
  <1>1. IsFiniteSet(R) /\ R \in SUBSET (S \cap R) /\ S \in SUBSET S
    BY FS_Subset
  <1>2. PICK g : IsSum(g, w, S) /\ g[S] = SumOf(w, S)
    BY SumExists DEF SumOf
  <1>3. PICK h : IsSum(h, w, R) /\ h[R] = SumOf(w, R)
    BY <1>1, SumExists DEF SumOf
  <1>4. g[R] = h[R]
    <2> HIDE DEF R
    <2>1. QED
      BY <1>1, <1>2, <1>3, SumsAgree
  <1>5. CASE S = {}
    BY <1>1, <1>2, <1>5 DEF IsSum, Unfolded
  <1>6. CASE S # {}
    <2>1. Pick(S) \in S
      BY <1>6, PickIn
    <2>2. g[S] = w[Pick(S)] + g[R]
      BY <1>1, <1>2, <1>6 DEF IsSum, Unfolded
    <2>3. QED
      BY <1>2, <1>3, <1>4, <1>6, <2>1, <2>2
  <1>7. QED
    BY <1>5, <1>6

(* Whatever sums w over the subsets of S has the sum over S.               *)
LEMMA SumUnique ==
  ASSUME NEW S, IsFiniteSet(S), NEW w, NEW h, IsSum(h, w, S)
  PROVE  h[S] = SumOf(w, S)
  <1>1. PICK g : IsSum(g, w, S) /\ g[S] = SumOf(w, S)
    BY SumExists DEF SumOf
  <1>2. QED
    BY <1>1, SumsAgree

(* The sum of natural numbers is one.                                      *)
LEMMA SumNat ==
  ASSUME NEW S, IsFiniteSet(S), NEW w, \A x \in S : w[x] \in Nat
  PROVE  SumOf(w, S) \in Nat
  <1> DEFINE Bad == {s \in SUBSET S : SumOf(w, s) \notin Nat}
  <1>1. ASSUME Bad # {}
        PROVE  FALSE
    <2>1. PICK s \in Bad : \A x \in s : s \ {x} \notin Bad
      BY <1>1, SmallestSubset
    <2>2. /\ s = {} => SumOf(w, s) = 0
          /\ s # {} => /\ Pick(s) \in s
                       /\ SumOf(w, s) = w[Pick(s)] + SumOf(w, s \ {Pick(s)})
      BY FS_Subset, SumIs
    <2>3. s # {} => SumOf(w, s \ {Pick(s)}) \in Nat
      BY <2>1, <2>2
    <2>4. SumOf(w, s) \in Nat
      BY <2>2, <2>3
    <2>5. QED
      BY <2>4
  <1>2. QED
    BY <1>1

(* Any member of a set may be counted first.                               *)
LEMMA SumRemove ==
  ASSUME NEW S, IsFiniteSet(S), NEW w, \A x \in S : w[x] \in Nat, NEW y \in S
  PROVE  SumOf(w, S) = w[y] + SumOf(w, S \ {y})
  <1> DEFINE Bad == {s \in SUBSET S : \E x \in s : SumOf(w, s) # w[x] + SumOf(w, s \ {x})}
  <1>1. ASSUME Bad # {}
        PROVE  FALSE
    <2>1. PICK s \in Bad : \A x \in s : s \ {x} \notin Bad
      BY <1>1, SmallestSubset
    <2>2. PICK x \in s : SumOf(w, s) # w[x] + SumOf(w, s \ {x})
      OBVIOUS
    <2> DEFINE p == Pick(s)
    <2>3. p \in s /\ SumOf(w, s) = w[p] + SumOf(w, s \ {p})
      BY FS_Subset, SumIs
    <2>4. x # p
      BY <2>2, <2>3
    <2>5. SumOf(w, s \ {p}) = w[x] + SumOf(w, (s \ {p}) \ {x})
      <3>1. s \ {p} \notin Bad /\ s \ {p} \in SUBSET S /\ x \in s \ {p}
        BY <2>1, <2>3, <2>4
      <3> HIDE DEF p
      <3>2. QED
        BY <3>1
    <2>6. SumOf(w, s \ {x}) = w[p] + SumOf(w, (s \ {x}) \ {p})
      <3>1. s \ {x} \notin Bad /\ s \ {x} \in SUBSET S /\ p \in s \ {x}
        BY <2>1, <2>3, <2>4
      <3> HIDE DEF p
      <3>2. QED
        BY <3>1
    <2>7. (s \ {p}) \ {x} = (s \ {x}) \ {p}
      OBVIOUS
    <2>8. SumOf(w, (s \ {x}) \ {p}) \in Nat /\ w[x] \in Nat /\ w[p] \in Nat
      BY <2>3, FS_Subset, SumNat
    <2>9. SumOf(w, s) = w[x] + SumOf(w, s \ {x})
      <3> DEFINE k == SumOf(w, (s \ {x}) \ {p})
      <3>1. SumOf(w, s) = w[p] + (w[x] + k)
        BY <2>3, <2>5, <2>7
      <3>2. SumOf(w, s \ {x}) = w[p] + k
        BY <2>6
      <3>3. k \in Nat /\ w[x] \in Nat /\ w[p] \in Nat
        BY <2>8
      <3> HIDE DEF k, p
      <3>4. w[p] + (w[x] + k) = w[x] + (w[p] + k)
        BY <3>3
      <3>5. QED
        BY <3>1, <3>2, <3>4
    <2>10. QED
      BY <2>2, <2>9
  <1>2. QED
    BY <1>1

(* Fewer and lighter members have at most the same sum.                    *)
LEMMA SumCompare ==
  ASSUME NEW S, IsFiniteSet(S), NEW T \in SUBSET S, NEW v, NEW w,
         \A x \in S : w[x] \in Nat,
         \A x \in T : v[x] \in Nat /\ v[x] <= w[x]
  PROVE  SumOf(v, T) <= SumOf(w, S)
  <1> DEFINE Bad == {s \in SUBSET S : ~ (SumOf(v, s \cap T) <= SumOf(w, s))}
  <1>1. ASSUME Bad # {}
        PROVE  FALSE
    <2>1. PICK s \in Bad : \A x \in s : s \ {x} \notin Bad
      BY <1>1, SmallestSubset
    <2>2. IsFiniteSet(s) /\ IsFiniteSet(s \cap T)
      BY FS_Subset
    <2>3. s # {}
      <3>1. SumOf(v, {}) = 0 /\ SumOf(w, {}) = 0
        BY FS_EmptySet, SumIs
      <3>2. ASSUME s = {}
            PROVE  FALSE
        BY <3>1, <3>2
      <3>3. QED
        BY <3>2
    <2>4. PICK x \in s : TRUE
      BY <2>3
    <2> DEFINE r == s \ {x}
    <2>5. SumOf(v, r \cap T) <= SumOf(w, r)
      BY <2>1
    <2>6. SumOf(w, s) = w[x] + SumOf(w, r)
      BY <2>2, SumRemove
    <2>7. SumOf(v, s \cap T) = SumOf(v, r \cap T)
          \/ (x \in T /\ SumOf(v, s \cap T) = v[x] + SumOf(v, r \cap T))
      <3>1. CASE x \in T
        <4>1. SumOf(v, s \cap T) = v[x] + SumOf(v, (s \cap T) \ {x})
          BY <2>2, <3>1, SumRemove
        <4>2. (s \cap T) \ {x} = r \cap T
          OBVIOUS
        <4>3. QED
          BY <3>1, <4>1, <4>2
      <3>2. CASE x \notin T
        <4>1. s \cap T = r \cap T
          BY <3>2
        <4>2. QED
          BY <4>1
      <3>3. QED
        BY <3>1, <3>2
    <2>8. SumOf(v, r \cap T) \in Nat /\ SumOf(w, r) \in Nat
      <3>1. IsFiniteSet(r) /\ IsFiniteSet(r \cap T)
        BY <2>2, FS_Subset
      <3>2. QED
        BY <3>1, SumNat
    <2> HIDE DEF r
    <2>9. w[x] \in Nat /\ (x \in T => v[x] \in Nat /\ v[x] <= w[x])
      OBVIOUS
    <2>10. SumOf(v, s \cap T) <= SumOf(w, s)
      BY <2>5, <2>6, <2>7, <2>8, <2>9
    <2>11. QED
      BY <2>10
  <1>2. SumOf(v, S \cap T) <= SumOf(w, S)
    BY <1>1
  <1>3. S \cap T = T
    OBVIOUS
  <1>4. QED
    BY <1>2, <1>3

-----------------------------------------------------------------------------
(* The daily budget of the rate limiter.                                   *)

(* What the rows count for, as reserved and as reported.                   *)
ChargeOf == [x \in Row |-> Charge(x)]
TokensOf == [x \in Row |-> x.tokens]

ReservedOn(d) == {x \in Reserved : DayStart(x.at) = d}
Charged(d) == SumOf(ChargeOf, ReservedOn(d))

(* Nothing is decided on a request before it enters the mutex.             *)
Undecided == \A r \in Requests : pc[r] \in {"idle", "waiting"} => status[r] = "new"

(* A request has one row at most, and it counts for its estimate until the *)
(* run has been recorded.                                                  *)
OneRowEach ==
  /\ \A x \in ledger \union rows : status[x.id] \in {"allowed", "recorded"}
  /\ \A x \in rows : status[x.id] = "allowed" => x.tokens = Estimate[Tier[x.id]]
  /\ \A x, y \in rows : x.id = y.id => x = y

(* Who has read the tokens of a day may rely on them until the decision:   *)
(* they cover what is reserved, also on a later day.                       *)
TokensCovered(r) ==
  /\ seen[r].tokens \in Nat
  /\ \A d \in Nat : DayStart(now) <= d => Charged(d) <= seen[r].tokens

TokensCounted ==
  \A r \in Requests : status[r] = "read" /\ "tokens" \notin seen[r].failed => TokensCovered(r)

BudgetInv == Undecided /\ OneRowEach /\ TokensCounted /\ \A d : Charged(d) <= Budget

(* The folds of the model are these sums.                                  *)
LEMMA ChargesAre ==
  ASSUME NEW S \in SUBSET Row, IsFiniteSet(S)
  PROVE  MapThenSumSet(Charge, S) = SumOf(ChargeOf, S)
  <1> DEFINE Iterated(g) ==
               [s \in SUBSET S |-> IF s = {} THEN 0 ELSE Charge(Pick(s)) + g[s \ {Pick(s)}]]
             h == CHOOSE g : g = Iterated(g)
  <1>1. ASSUME NEW g
        PROVE  Iterated(g) = Unfolded(g, ChargeOf, S)
    <2>1. \A s \in SUBSET S : s # {} => ChargeOf[Pick(s)] = Charge(Pick(s))
      BY PickIn DEF ChargeOf
    <2>2. QED
      BY <2>1 DEF Unfolded
  <1>2. \E g : g = Iterated(g)
    BY <1>1, SumExists DEF IsSum
  <1>3. IsSum(h, ChargeOf, S)
    <2>1. h = Iterated(h)
      BY <1>2
    <2> HIDE DEF h, Iterated
    <2>2. QED
      BY <1>1, <2>1 DEF IsSum
  <1>4. MapThenSumSet(Charge, S) = h[S]
    BY DEF MapThenSumSet, MapThenFoldSet, Pick
  <1> HIDE DEF h
  <1>5. QED
    BY <1>3, <1>4, SumUnique

LEMMA TokensAre ==
  ASSUME NEW S \in SUBSET Row, IsFiniteSet(S)
  PROVE  MapThenSumSet(LAMBDA x : x.tokens, S) = SumOf(TokensOf, S)
  <1> DEFINE Iterated(g) ==
               [s \in SUBSET S |-> IF s = {} THEN 0 ELSE Pick(s).tokens + g[s \ {Pick(s)}]]
             h == CHOOSE g : g = Iterated(g)
  <1>1. ASSUME NEW g
        PROVE  Iterated(g) = Unfolded(g, TokensOf, S)
    <2>1. \A s \in SUBSET S : s # {} => TokensOf[Pick(s)] = Pick(s).tokens
      BY PickIn DEF TokensOf
    <2>2. QED
      BY <2>1 DEF Unfolded
  <1>2. \E g : g = Iterated(g)
    BY <1>1, SumExists DEF IsSum
  <1>3. IsSum(h, TokensOf, S)
    <2>1. h = Iterated(h)
      BY <1>2
    <2> HIDE DEF h, Iterated
    <2>2. QED
      BY <1>1, <2>1 DEF IsSum
  <1>4. MapThenSumSet(LAMBDA x : x.tokens, S) = h[S]
    BY DEF MapThenSumSet, MapThenFoldSet, Pick
  <1> HIDE DEF h
  <1>5. QED
    BY <1>3, <1>4, SumUnique

(* A row counts for its estimate at most.                                  *)
LEMMA ChargeIs ==
  ASSUME NEW x \in Row
  PROVE  /\ ChargeOf[x] \in Nat /\ TokensOf[x] \in Nat
         /\ ChargeOf[x] <= TokensOf[x] /\ ChargeOf[x] <= Estimate[Tier[x.id]]
         /\ x.tokens = Estimate[Tier[x.id]] => ChargeOf[x] = Estimate[Tier[x.id]]
  <1>1. x.tokens \in Nat /\ Estimate[Tier[x.id]] \in Nat
    BY LimiterAssumption DEF LimiterAssumption, Row, Requests
  <1>2. \A a, b \in Nat : /\ Min({a, b}) \in Nat /\ Min({a, b}) <= a /\ Min({a, b}) <= b
                          /\ a = b => Min({a, b}) = b
    <2> SUFFICES ASSUME NEW a \in Nat, NEW b \in Nat
                 PROVE  /\ Min({a, b}) \in Nat /\ Min({a, b}) <= a /\ Min({a, b}) <= b
                        /\ a = b => Min({a, b}) = b
      OBVIOUS
    <2>1. \E m \in {a, b} : \A n \in {a, b} : m <= n
      OBVIOUS
    <2>2. Min({a, b}) \in {a, b} /\ \A n \in {a, b} : Min({a, b}) <= n
      BY <2>1 DEF Min
    <2>3. QED
      BY <2>2
  <1>3. QED
    BY <1>1, <1>2 DEF ChargeOf, TokensOf, Charge

(* The reservations of a day, and the sums over them.                      *)
LEMMA ChargedIs ==
  ASSUME ClockInv, IsFiniteSet(rows), NEW d
  PROVE  /\ ReservedOn(d) \subseteq rows /\ ReservedOn(d) \subseteq Row
         /\ IsFiniteSet(ReservedOn(d)) /\ Charged(d) \in Nat
  <1>1. ReservedOn(d) \subseteq rows /\ ReservedOn(d) \subseteq Row
    BY DEF ReservedOn, Reserved, ClockInv
  <1>2. IsFiniteSet(ReservedOn(d))
    BY <1>1, FS_Subset
  <1>3. \A x \in ReservedOn(d) : ChargeOf[x] \in Nat
    BY <1>1, ChargeIs
  <1>4. QED
    BY <1>1, <1>2, <1>3, SumNat DEF Charged

(* Before it is in the mutex nothing is decided on a request, and what has *)
(* been reserved stays so until it is recorded.                            *)
LEMMA StatusMoves ==
  ASSUME LimiterInv, Undecided, [LimiterNext]_vars
  PROVE  /\ Undecided'
         /\ \A r \in Requests : status[r] \in {"allowed", "recorded"} =>
              status'[r] = status[r] \/ Reconcile(r)
  <1> USE DEF Requests
  <1>1. status = [r \in Requests |-> status[r]] /\ pc = [r \in Requests |-> pc[r]]
    BY DEF LimiterInv, ClockInv, MutexInv, TypeOK
  <1>2. ASSUME NEW r \in Requests,
               \/ Arrive(r) \/ Enter(r) \/ GiveUp(r) \/ SettleBehind(r) \/ Leave(r)
        PROVE  /\ Undecided'
               /\ \A s \in Requests : status[s] \in {"allowed", "recorded"} =>
                    status'[s] = status[s]
    BY <1>1, <1>2
    DEF Undecided, Arrive, Enter, GiveUp, SettleBehind, Leave, limiterVars, Enqueue, Acquire,
        TimeOut, Inherit, Release
  <1>3. ASSUME NEW r \in Requests,
               \/ Read(r) \/ Deny(r) \/ RethrowReadError(r) \/ Reserve(r) \/ ReserveFails(r)
        PROVE  /\ Undecided'
               /\ \A s \in Requests : status[s] \in {"allowed", "recorded"} =>
                    status'[s] = status[s]
    BY <1>1, <1>3
    DEF Undecided, Read, TakeReadings, Deny, RethrowReadError, Reserve, ReserveFails, Conclude,
        mutexVars
  <1>4. ASSUME NEW r \in Requests, RecordReview(r)
        PROVE  /\ Undecided'
               /\ \A s \in Requests : status[s] \in {"allowed", "recorded"} =>
                    status'[s] = status[s] \/ Reconcile(s)
    BY <1>1, <1>4 DEF Undecided, RecordReview, Reconcile, RecordDegraded, mutexVars
  <1>5. ASSUME UNCHANGED <<mutexVars, status>>
        PROVE  Undecided' /\ status' = status
    BY <1>5 DEF Undecided, mutexVars
  <1>6. ASSUME NEW ids, Forget(ids)
        PROVE  UNCHANGED <<mutexVars, status>>
    BY <1>6 DEF Forget
  <1>7. CASE Cleanup \/ Tick \/ UNCHANGED vars
    BY <1>5, <1>7 DEF Cleanup, Tick, vars, limiterVars
  <1>8. QED
    BY <1>2, <1>3, <1>4, <1>5, <1>6, <1>7
    DEF LimiterNext, CheckReview, ResetRepo, ResetUser, ResetAll

(* Rows are added or rewritten by three actions only.                      *)
LEMMA RowsMove ==
  ASSUME [LimiterNext]_vars
  PROVE  \/ \E r \in Requests : Reserve(r) \/ Reconcile(r) \/ RecordDegraded(r)
         \/ rows' \subseteq rows /\ ledger' \subseteq ledger
  <1>1. ASSUME NEW r \in Requests, CheckReview(r), ~ Reserve(r)
        PROVE  rows' = rows /\ ledger' = ledger
    BY <1>1 DEF CheckReview, Arrive, Enter, GiveUp, SettleBehind, Read, TakeReadings, Leave, Deny,
                RethrowReadError, ReserveFails, limiterVars
  <1>2. ASSUME NEW ids, Forget(ids)
        PROVE  rows' \subseteq rows /\ ledger' \subseteq ledger
    BY <1>2 DEF Forget
  <1>3. CASE Cleanup \/ Tick \/ UNCHANGED vars
    BY <1>3 DEF Cleanup, Tick, vars, limiterVars
  <1>4. QED
    BY <1>1, <1>2, <1>3 DEF LimiterNext, RecordReview, ResetRepo, ResetUser, ResetAll

(* What a run used replaces the estimate it was charged for.               *)
LEMMA ReconcileIs ==
  ASSUME LimiterInv, OneRowEach, NEW r \in Requests, Reconcile(r)
  PROVE  /\ ledger' = ledger /\ status' = [status EXCEPT ![r] = "recorded"]
         /\ status[r] = "allowed"
         /\ \/ rows' = rows /\ \A x \in rows : x.id # r
            \/ \E x \in rows, y \in Row :
                 /\ rows' = (rows \ {x}) \union {y}
                 /\ x.id = r /\ y.id = r /\ y.at = x.at
  <1>1. PICK used \in Actual \union {Estimate[Tier[r]]} :
          rows' = {IF x.id = r THEN [x EXCEPT !.tokens = used] ELSE x : x \in rows}
    BY DEF Reconcile
  <1>2. used \in Nat /\ rows \subseteq Row
    BY LimiterAssumption DEF LimiterAssumption, Requests, LimiterInv, ClockInv
  <1>3. CASE \A x \in rows : x.id # r
    BY <1>1, <1>3 DEF Reconcile
  <1>4. ASSUME NEW x \in rows, x.id = r
        PROVE  \E y \in Row : /\ rows' = (rows \ {x}) \union {y}
                              /\ y.id = r /\ y.at = x.at
    <2> DEFINE y == [x EXCEPT !.tokens = used]
    <2>1. y \in Row /\ y.id = r /\ y.at = x.at
      BY <1>2, <1>4 DEF Row
    <2>2. \A z \in rows : z.id = r <=> z = x
      BY <1>4 DEF OneRowEach
    <2>3. rows' = (rows \ {x}) \union {y}
      BY <1>1, <2>2
    <2>4. QED
      BY <2>1, <2>3
  <1>5. QED
    BY <1>3, <1>4 DEF Reconcile

LEMMA OneRowStep ==
  ASSUME LimiterInv, Undecided, OneRowEach, [LimiterNext]_vars
  PROVE  OneRowEach'
  <1>1. /\ ledger \subseteq [id : Requests, at : Nat]
        /\ rows \subseteq Row /\ \A x \in Row : x.id \in Requests
        /\ status = [r \in Requests |-> status[r]]
    BY DEF LimiterInv, ClockInv, Row
  <1>2. ASSUME NEW r \in Requests, status[r] \in {"read", "degraded"},
               NEW x \in ledger \union rows
        PROVE  x.id # r
    BY <1>2 DEF OneRowEach
  <1>3. ASSUME NEW r \in Requests, Reserve(r)
        PROVE  OneRowEach'
    <2> DEFINE y == [id |-> r, at |-> now, tokens |-> Estimate[Tier[r]]]
    <2>1. /\ status[r] = "read" /\ status' = [status EXCEPT ![r] = "allowed"]
          /\ rows' = rows \union {y} /\ ledger' = ledger \union {[id |-> r, at |-> now]}
      BY <1>3 DEF Reserve, Conclude
    <2>2. /\ \A x \in ledger \union rows : x.id \in Requests /\ x.id # r
          /\ y.id = r /\ y.tokens = Estimate[Tier[r]]
      BY <1>1, <1>2, <2>1
    <2>3. status'[r] = "allowed" /\ \A s \in Requests : s # r => status'[s] = status[s]
      BY <1>1, <2>1
    <2> HIDE DEF y
    <2>4. QED
      BY <2>1, <2>2, <2>3 DEF OneRowEach
  <1>4. ASSUME NEW r \in Requests, Reconcile(r)
        PROVE  OneRowEach'
    <2>1. /\ ledger' = ledger
          /\ status'[r] = "recorded" /\ \A s \in Requests : s # r => status'[s] = status[s]
          /\ \/ rows' = rows /\ \A x \in rows : x.id # r
             \/ \E x \in rows, y \in Row :
                  /\ rows' = (rows \ {x}) \union {y}
                  /\ x.id = r /\ y.id = r /\ y.at = x.at
      BY <1>1, <1>4, ReconcileIs
    <2>2. \A x \in ledger \union rows : x.id \in Requests
      BY <1>1
    <2>3. QED
      BY <2>1, <2>2 DEF OneRowEach
  <1>5. ASSUME NEW r \in Requests, RecordDegraded(r)
        PROVE  OneRowEach'
    <2>1. PICK used : rows' \in {rows, rows \union {[id |-> r, at |-> now, tokens |-> used]}}
      BY <1>5 DEF RecordDegraded
    <2> DEFINE y == [id |-> r, at |-> now, tokens |-> used]
    <2>2. /\ status[r] = "degraded" /\ ledger' = ledger
          /\ status'[r] = "recorded" /\ \A s \in Requests : s # r => status'[s] = status[s]
      BY <1>1, <1>5 DEF RecordDegraded
    <2>3. /\ \A x \in ledger \union rows : x.id \in Requests /\ x.id # r
          /\ y.id = r
      BY <1>1, <1>2, <2>2
    <2>4. rows' = rows \/ rows' = rows \union {y}
      BY <2>1
    <2> HIDE DEF y
    <2>5. QED
      BY <2>2, <2>3, <2>4 DEF OneRowEach
  <1>6. ASSUME rows' \subseteq rows, ledger' \subseteq ledger,
               ~ \E r \in Requests : Reconcile(r)
        PROVE  OneRowEach'
    <2>1. \A x \in ledger \union rows : x.id \in Requests /\ status'[x.id] = status[x.id]
      BY <1>1, <1>6, StatusMoves DEF OneRowEach
    <2>2. QED
      BY <1>6, <2>1 DEF OneRowEach
  <1>7. QED
    BY <1>3, <1>4, <1>5, <1>6, RowsMove

(* Only a reservation adds to what is charged.                             *)
LEMMA ChargesFade ==
  ASSUME LimiterInv, TablesFinite, OneRowEach, [LimiterNext]_vars,
         ~ \E r \in Requests : Reserve(r)
  PROVE  \A d : Charged(d)' \in Nat /\ Charged(d)' <= Charged(d)
  <1>1. ClockInv /\ ClockInv' /\ IsFiniteSet(rows) /\ IsFiniteSet(rows')
    BY LimiterStep, TablesStep DEF LimiterInv, TablesFinite
  <1> SUFFICES ASSUME NEW d
               PROVE  Charged(d)' \in Nat /\ Charged(d)' <= Charged(d)
    OBVIOUS
  <1>2. /\ IsFiniteSet(ReservedOn(d)) /\ ReservedOn(d) \subseteq Row
        /\ IsFiniteSet(ReservedOn(d)') /\ ReservedOn(d)' \subseteq Row
        /\ Charged(d) \in Nat /\ Charged(d)' \in Nat
    <2>1. /\ IsFiniteSet(ReservedOn(d)) /\ ReservedOn(d) \subseteq Row /\ Charged(d) \in Nat
      BY <1>1, ChargedIs
    <2>2. /\ ReservedOn(d)' \subseteq rows' /\ rows' \subseteq Row
      BY <1>1 DEF ReservedOn, Reserved, ClockInv
    <2>3. IsFiniteSet(ReservedOn(d)')
      BY <1>1, <2>2, FS_Subset
    <2>4. \A x \in ReservedOn(d)' : ChargeOf[x] \in Nat
      BY <2>2, ChargeIs
    <2>5. Charged(d)' \in Nat
      BY <2>3, <2>4, SumNat DEF Charged
    <2>6. QED
      BY <2>1, <2>2, <2>3, <2>5
  <1>3. ASSUME NEW S \in SUBSET ReservedOn(d), NEW T \in SUBSET S
        PROVE  SumOf(ChargeOf, T) <= SumOf(ChargeOf, S)
    <2>1. IsFiniteSet(S) /\ \A x \in S : ChargeOf[x] \in Nat
      BY <1>2, FS_Subset, ChargeIs
    <2>2. \A x \in T : ChargeOf[x] \in Nat /\ ChargeOf[x] <= ChargeOf[x]
      BY <2>1
    <2>3. QED
      BY <2>1, <2>2, SumCompare
  <1>4. ASSUME ReservedOn(d)' \subseteq ReservedOn(d)
        PROVE  Charged(d)' <= Charged(d)
    BY <1>3, <1>4 DEF Charged
  <1>5. CASE rows' \subseteq rows /\ ledger' \subseteq ledger
    <2>1. ReservedOn(d)' \subseteq ReservedOn(d)
      BY <1>5 DEF ReservedOn, Reserved, DayStart
    <2>2. QED
      BY <1>2, <1>4, <2>1
  <1>6. ASSUME NEW r \in Requests, RecordDegraded(r)
        PROVE  Charged(d)' <= Charged(d)
    <2>1. PICK used : rows' \in {rows, rows \union {[id |-> r, at |-> now, tokens |-> used]}}
      BY <1>6 DEF RecordDegraded
    <2>2. status[r] = "degraded" /\ ledger' = ledger
      BY <1>6 DEF RecordDegraded
    <2>3. [id |-> r, at |-> now] \notin ledger
      BY <2>2 DEF OneRowEach
    <2>4. ReservedOn(d)' \subseteq ReservedOn(d)
      BY <2>1, <2>2, <2>3 DEF ReservedOn, Reserved, DayStart
    <2>5. QED
      BY <1>4, <2>4
  <1>7. ASSUME NEW r \in Requests, Reconcile(r)
        PROVE  Charged(d)' <= Charged(d)
    <2>1. ledger' = ledger /\ status[r] = "allowed"
      BY <1>7, ReconcileIs
    <2>2. CASE rows' = rows
      BY <1>5, <1>2, <2>1, <2>2
    <2>3. ASSUME NEW x \in rows, NEW y \in Row, rows' = (rows \ {x}) \union {y},
                 x.id = r, y.id = r, y.at = x.at
          PROVE  Charged(d)' <= Charged(d)
      <3>1. ReservedOn(d)' \ {y} \subseteq ReservedOn(d) \ {x}
        BY <2>1, <2>3 DEF ReservedOn, Reserved, DayStart
      <3>2. CASE y \in ReservedOn(d)'
        <4>1. x \in ReservedOn(d)
          BY <2>1, <2>3, <3>2 DEF ReservedOn, Reserved, DayStart
        <4>2. SumOf(ChargeOf, ReservedOn(d)' \ {y}) <= SumOf(ChargeOf, ReservedOn(d) \ {x})
          BY <1>3, <3>1
        <4>3. /\ Charged(d) = ChargeOf[x] + SumOf(ChargeOf, ReservedOn(d) \ {x})
              /\ Charged(d)' = ChargeOf[y] + SumOf(ChargeOf, ReservedOn(d)' \ {y})
          BY <1>2, <3>2, <4>1, ChargeIs, SumRemove DEF Charged
        <4>4. ChargeOf[y] <= ChargeOf[x] /\ ChargeOf[x] \in Nat /\ ChargeOf[y] \in Nat
          <5>1. x \in Row /\ x.tokens = Estimate[Tier[x.id]]
            BY <1>1, <2>1, <2>3 DEF OneRowEach, ClockInv
          <5>2. QED
            BY <2>3, <5>1, ChargeIs
        <4>5. /\ SumOf(ChargeOf, ReservedOn(d)' \ {y}) \in Nat
              /\ SumOf(ChargeOf, ReservedOn(d) \ {x}) \in Nat
          <5>1. IsFiniteSet(ReservedOn(d)' \ {y}) /\ IsFiniteSet(ReservedOn(d) \ {x})
            BY <1>2, FS_Subset
          <5>2. QED
            BY <1>2, <5>1, ChargeIs, SumNat
        <4>6. QED
          BY <4>2, <4>3, <4>4, <4>5
      <3>3. CASE y \notin ReservedOn(d)'
        BY <1>4, <3>1, <3>3
      <3>4. QED
        BY <3>2, <3>3
    <2>4. QED
      BY <1>7, <2>2, <2>3, ReconcileIs
  <1>8. QED
    BY <1>2, <1>5, <1>6, <1>7, RowsMove

(* Tokens that were read cover what is reserved today and on later days.   *)
LEMMA ReadingCovers ==
  ASSUME LimiterInv, TablesFinite, NEW r \in Requests, Read(r)
  PROVE  TokensCovered(r)'
  <1>1. /\ ClockInv /\ IsFiniteSet(rows)
        /\ UNCHANGED <<now, started, rows, ledger>>
    BY DEF LimiterInv, TablesFinite, Read, TakeReadings
  <1>2. /\ started[r] \in Nat /\ now \in Nat /\ started[r] <= now
    BY <1>1, LimiterAssumption DEF LimiterAssumption, ClockInv
  <1>3. /\ DayStart(started[r]) \in Nat /\ DayStart(now) \in Nat
        /\ DayStart(started[r]) <= DayStart(now)
    BY <1>2, LimiterAssumption, StartOfPeriod, StartsAscend DEF LimiterAssumption, DayStart, Start
  <1> DEFINE S == {x \in rows : x.at >= DayStart(started[r])}
  <1>4. /\ S \subseteq Row /\ IsFiniteSet(S)
        /\ \A x \in S : TokensOf[x] \in Nat
    BY <1>1, FS_Subset, ChargeIs DEF ClockInv
  <1>5. seen'[r].tokens = SumOf(TokensOf, S)
    BY <1>1, <1>4, ReadingsOf, TokensAre DEF TokensOf, TokenSum
  <1>6. ASSUME NEW d \in Nat, DayStart(now) <= d
        PROVE  Charged(d) <= SumOf(TokensOf, S)
    <2>1. ASSUME NEW x \in ReservedOn(d)
          PROVE  x \in S /\ ChargeOf[x] \in Nat /\ ChargeOf[x] <= TokensOf[x]
      <3>1. x \in rows /\ DayStart(x.at) = d /\ x \in Row /\ x.at \in Nat
        BY <1>1, LimiterAssumption DEF LimiterAssumption, ReservedOn, Reserved, ClockInv, Row
      <3>2. DayStart(x.at) <= x.at
        BY <3>1, LimiterAssumption, StartOfPeriod DEF LimiterAssumption, DayStart, Start
      <3>3. x.at >= DayStart(started[r])
        BY <1>3, <1>6, <3>1, <3>2
      <3>4. QED
        BY <3>1, <3>3, ChargeIs
    <2> HIDE DEF S
    <2>2. QED
      BY <1>4, <2>1, SumCompare DEF Charged
  <1>7. SumOf(TokensOf, S) \in Nat
    <2> HIDE DEF S
    <2>1. QED
      BY <1>4, SumNat
  <1>8. \A d : Charged(d)' = Charged(d) /\ DayStart(now)' = DayStart(now)
    BY <1>1 DEF Charged, ReservedOn, Reserved, DayStart
  <1> HIDE DEF S
  <1>9. QED
    BY <1>5, <1>6, <1>7, <1>8 DEF TokensCovered

(* A reservation is charged to the day it is made on.                      *)
LEMMA ReservationCharges ==
  ASSUME LimiterInv, TablesFinite, OneRowEach, NEW r \in Requests, Reserve(r), NEW d
  PROVE  IF d = DayStart(now) THEN Charged(d)' = Charged(d) + Estimate[Tier[r]]
                              ELSE Charged(d)' = Charged(d)
  <1> DEFINE y == [id |-> r, at |-> now, tokens |-> Estimate[Tier[r]]]
  <1>1. /\ status[r] = "read"
        /\ rows' = rows \union {y} /\ ledger' = ledger \union {[id |-> r, at |-> now]}
    BY DEF Reserve, Conclude
  <1>2. \A x \in ledger \union rows : x.id # r
    BY <1>1 DEF OneRowEach
  <1>3. ClockInv /\ IsFiniteSet(rows)
    BY DEF LimiterInv, TablesFinite
  <1>4. /\ y \in Row /\ y.tokens = Estimate[Tier[y.id]] /\ y.id = r /\ y.at = now
        /\ Estimate[Tier[r]] \in Nat
    BY <1>3, LimiterAssumption DEF LimiterAssumption, ClockInv, Row, Requests
  <1>5. ChargeOf[y] = Estimate[Tier[r]]
    BY <1>4, ChargeIs
  <1>6. ReservedOn(d)' = IF d = DayStart(now) THEN ReservedOn(d) \union {y} ELSE ReservedOn(d)
    <2>1. \A x \in rows' : [id |-> x.id, at |-> x.at] \in ledger'
            <=> x = y \/ [id |-> x.id, at |-> x.at] \in ledger
      BY <1>1, <1>2, <1>4
    <2>2. Reserved' = Reserved \union {y}
      <3>1. y \in Reserved'
        BY <1>1, <1>4 DEF Reserved
      <3>2. \A x : x \in Reserved' <=> x \in Reserved \/ x = y
        <4> HIDE DEF y
        <4>1. QED
          BY <1>1, <2>1, <3>1 DEF Reserved
      <3>3. QED
        BY <3>2
    <2>3. DayStart(y.at) = DayStart(now)
      BY <1>4
    <2> HIDE DEF y
    <2>4. ReservedOn(d)' = {x \in Reserved' : DayStart(x.at) = d}
      BY DEF ReservedOn, DayStart
    <2>5. QED
      BY <2>2, <2>3, <2>4 DEF ReservedOn
  <1>7. CASE d = DayStart(now)
    <2>1. /\ ReservedOn(d)' = ReservedOn(d) \union {y} /\ y \notin ReservedOn(d)
          /\ IsFiniteSet(ReservedOn(d)) /\ ReservedOn(d) \subseteq Row /\ Charged(d) \in Nat
      <3>1. /\ ReservedOn(d) \subseteq rows /\ ReservedOn(d) \subseteq Row
            /\ IsFiniteSet(ReservedOn(d)) /\ Charged(d) \in Nat
        BY <1>3, ChargedIs
      <3>2. y \notin rows
        BY <1>2, <1>4
      <3>3. QED
        BY <1>6, <1>7, <3>1, <3>2
    <2> HIDE DEF y
    <2>2. IsFiniteSet(ReservedOn(d)') /\ \A x \in ReservedOn(d)' : ChargeOf[x] \in Nat
      BY <1>4, <2>1, FS_AddElement, ChargeIs
    <2>3. Charged(d)' = ChargeOf[y] + SumOf(ChargeOf, ReservedOn(d)' \ {y})
      BY <2>1, <2>2, SumRemove DEF Charged
    <2>4. ReservedOn(d)' \ {y} = ReservedOn(d)
      BY <2>1
    <2>5. SumOf(ChargeOf, ReservedOn(d)' \ {y}) = Charged(d)
      BY <2>4 DEF Charged
    <2>6. QED
      BY <1>4, <1>5, <1>7, <2>1, <2>3, <2>5
  <1>8. CASE d # DayStart(now)
    BY <1>6, <1>8 DEF Charged
  <1>9. QED
    BY <1>7, <1>8

(* Every step preserves the budget.                                        *)
LEMMA BudgetStep ==
  ASSUME LimiterInv, TablesFinite, BudgetInv, [LimiterNext]_vars
  PROVE  BudgetInv'
  <1>1. ClockInv /\ IsFiniteSet(rows) /\ Undecided /\ OneRowEach
    BY DEF LimiterInv, TablesFinite, BudgetInv
  <1>2. Undecided' /\ OneRowEach'
    BY <1>1, StatusMoves, OneRowStep
  <1>3. \A d : Charged(d) \in Nat /\ Charged(d) <= Budget /\ Budget \in Nat
    BY <1>1, ChargedIs, LimiterAssumption DEF BudgetInv, LimiterAssumption
  <1>4. ASSUME NEW r \in Requests, Reserve(r)
        PROVE  TokensCounted' /\ \A d : Charged(d)' <= Budget
    <2>1. TokensCounted'
      BY <1>4, OnlyReader DEF TokensCounted
    <2>2. /\ status[r] = "read" /\ seen[r].failed = {} /\ ~ Denies(r)
      BY <1>4 DEF Reserve, Conclude
    <2>3. TokensCovered(r)
      BY <2>2 DEF BudgetInv, TokensCounted
    <2>4. Estimate[Tier[r]] \in Nat /\ DayStart(now) \in Nat
      BY <1>1, LimiterAssumption, StartOfPeriod
      DEF LimiterAssumption, ClockInv, Requests, DayStart, Start
    <2>5. seen[r].tokens + Estimate[Tier[r]] <= Budget /\ seen[r].tokens \in Nat
      BY <1>3, <2>2, <2>3, <2>4 DEF Denies, TokensCovered
    <2>6. Charged(DayStart(now)) <= seen[r].tokens
      BY <2>3, <2>4 DEF TokensCovered
    <2>7. ASSUME NEW d
          PROVE  Charged(d)' <= Budget
      <3>1. CASE d = DayStart(now)
        BY <1>1, <1>3, <1>4, <2>4, <2>5, <2>6, <3>1, ReservationCharges
      <3>2. CASE d # DayStart(now)
        BY <1>1, <1>3, <1>4, <3>2, ReservationCharges
      <3>3. QED
        BY <3>1, <3>2
    <2>8. QED
      BY <2>1, <2>7
  <1>5. CASE ~ \E r \in Requests : Reserve(r)
    <2>1. \A d : Charged(d)' \in Nat /\ Charged(d)' <= Charged(d)
      BY <1>1, <1>5, ChargesFade
    <2>2. ASSUME NEW r \in Requests, TokensCovered(r), now' \in Nat, now <= now',
                 seen'[r] = seen[r]
          PROVE  TokensCovered(r)'
      <3>1. DayStart(now) \in Nat /\ DayStart(now') \in Nat /\ DayStart(now) <= DayStart(now')
        BY <1>1, <2>2, LimiterAssumption, StartOfPeriod, StartsAscend
        DEF LimiterAssumption, ClockInv, DayStart, Start
      <3>2. ASSUME NEW d \in Nat, DayStart(now') <= d
            PROVE  Charged(d)' <= seen[r].tokens
        <4>1. Charged(d) <= seen[r].tokens /\ seen[r].tokens \in Nat
          BY <2>2, <3>1, <3>2 DEF TokensCovered
        <4>2. QED
          BY <1>3, <2>1, <4>1
      <3>3. QED
        BY <2>2, <3>2 DEF TokensCovered, DayStart
    <2>3. TokensCounted'
      <3>1. CASE Fades
        BY <2>2, <3>1 DEF Fades, BudgetInv, TokensCounted
      <3>2. ASSUME NEW r \in Requests, Read(r)
            PROVE  TokensCounted'
        <4>1. /\ now' = now /\ now \in Nat /\ status' = [status EXCEPT ![r] = "read"]
              /\ \A s \in Requests : s # r => seen'[s] = seen[s] /\ status'[s] = status[s]
          BY <1>1, <3>2, ReadingsOf, LimiterAssumption
          DEF LimiterAssumption, ClockInv, Read, TakeReadings
        <4>2. TokensCovered(r)'
          BY <3>2, ReadingCovers
        <4>3. ASSUME NEW s \in Requests, s # r, status'[s] = "read",
                     "tokens" \notin seen'[s].failed
              PROVE  TokensCovered(s)'
          BY <2>2, <4>1, <4>3 DEF BudgetInv, TokensCounted
        <4>4. QED
          BY <4>2, <4>3 DEF TokensCounted
      <3>3. QED
        BY <1>5, <3>1, <3>2, CountingSteps
    <2>4. QED
      BY <1>2, <1>3, <2>1, <2>3 DEF BudgetInv
  <1>6. QED
    BY <1>2, <1>4, <1>5 DEF BudgetInv

(* The reservations of no day are charged more than the daily budget: who  *)
(* reserves has read, since it entered the mutex, at least what the day is *)
(* charged (TokensCounted), and reports and clean-ups only lower that.     *)
THEOREM DailyBudgetHolds == LimiterSpec => []DailyBudget
  <1>1. LimiterInit => BudgetInv
    <2> SUFFICES ASSUME LimiterInit
                 PROVE  BudgetInv
      OBVIOUS
    <2>1. \A d : ReservedOn(d) = {}
      BY DEF LimiterInit, ReservedOn, Reserved
    <2>2. \A d : Charged(d) = 0
      BY <2>1, FS_EmptySet, SumIs DEF Charged
    <2>3. QED
      BY <2>2, LimiterAssumption
      DEF LimiterAssumption, LimiterInit, BudgetInv, Undecided, OneRowEach, TokensCounted
  <1>2. LimiterInv /\ TablesFinite /\ BudgetInv => DailyBudget
    <2> SUFFICES ASSUME LimiterInv, TablesFinite, BudgetInv, NEW d
                 PROVE  MapThenSumSet(Charge, {x \in Reserved : DayStart(x.at) = d}) <= Budget
      BY DEF DailyBudget
    <2>1. ReservedOn(d) \subseteq Row /\ IsFiniteSet(ReservedOn(d))
      BY ChargedIs DEF LimiterInv, TablesFinite
    <2>2. MapThenSumSet(Charge, ReservedOn(d)) = Charged(d)
      BY <2>1, ChargesAre DEF Charged, ChargeOf
    <2>3. Charged(d) <= Budget
      BY DEF BudgetInv
    <2>4. QED
      BY <2>2, <2>3 DEF ReservedOn
  <1>3. LimiterInv /\ TablesFinite /\ BudgetInv /\ [LimiterNext]_vars => BudgetInv'
    BY BudgetStep
  <1>4. QED
    BY LimiterAlways, <1>1, <1>2, <1>3, PTL DEF LimiterSpec
=============================================================================

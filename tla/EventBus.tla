------------------------------ MODULE EventBus ------------------------------
(***************************************************************************)
(* publish() of lib/src/event-bus/bus.ts, seen from one of its             *)
(* subscribers, the watched one, whose circuit breaker this module         *)
(* extends: the callers of that breaker are the deliveries of events.      *)
(*                                                                         *)
(* A publish runs its subscribers in batches.  executeSubscriber() skips a *)
(* subscriber whose circuit is open, races the handler against a deadline  *)
(* inside the breaker, and keeps the health record operators look at.  A   *)
(* handler that loses the race is abandoned, not stopped.  The other       *)
(* subscribers have breakers and records of their own; here they only      *)
(* settle, which their deadline guarantees.                                *)
(***************************************************************************)
EXTENDS CircuitBreaker

CONSTANTS Batches,       \* the number of batches of a publish
          WatchedBatch,  \* the one the watched subscriber is in
          Others         \* Others[k]: the other subscribers of batch k

Events == Callers

VARIABLES batch,        \* batch[e]: 0, the batch e is in, or Batches + 1
          unsettled,    \* unsettled[e]: other deliveries of that batch still running
          handler,      \* handler[e]: the watched subscriber's handle(e)
          consecutive,  \* health.consecutiveFailures, saturated like failureCount
          everFailed    \* health.failedCalls > 0

healthVars == <<consecutive, everFailed>>
busVars == <<vars, batch, unsettled, handler, healthVars>>

BusInit ==
  /\ Init
  /\ batch = [e \in Events |-> 0]
  /\ unsettled = [e \in Events |-> {}]
  /\ handler = [e \in Events |-> "none"]
  /\ consecutive = 0
  /\ everFailed = FALSE

-----------------------------------------------------------------------------
RecordFailure ==
  /\ consecutive' = IF consecutive < FailureThreshold THEN consecutive + 1 ELSE consecutive
  /\ everFailed' = TRUE

RecordSuccess == consecutive' = 0 /\ UNCHANGED everFailed

(* The synchronous part of executeSubscriber(): skipped, rejected by the   *)
(* breaker, or handed to the handler.                                      *)
Deliver(e) ==
  \/ /\ Observed = "OPEN"
     /\ Reject(e)
     /\ UNCHANGED <<handler, healthVars>>
  \/ /\ Observed # "OPEN"
     /\ Reject(e)
     /\ RecordFailure
     /\ UNCHANGED handler
  \/ /\ Admit(e) \/ AdmitProbe(e)
     /\ handler' = [handler EXCEPT ![e] = "running"]
     /\ UNCHANGED healthVars

(* A batch starts when every delivery of the one before has settled: the   *)
(* whole batch is started in one synchronous stretch.                      *)
StartBatch(e) ==
  /\ batch[e] <= Batches
  /\ unsettled[e] = {}
  /\ role[e] = "idle"
  /\ batch' = [batch EXCEPT ![e] = @ + 1]
  /\ unsettled' = [unsettled EXCEPT ![e] =
                     IF batch[e] < Batches THEN Others[batch[e] + 1] ELSE {}]
  /\ IF batch[e] + 1 = WatchedBatch
     THEN Deliver(e)
     ELSE UNCHANGED <<vars, handler, healthVars>>

OtherSettles(e, s) ==
  /\ s \in unsettled[e]
  /\ unsettled' = [unsettled EXCEPT ![e] = @ \ {s}]
  /\ UNCHANGED <<vars, batch, handler, healthVars>>

(* The handler wins the race.                                              *)
HandlerReturns(e) ==
  /\ handler[e] = "running"
  /\ Succeed(e)
  /\ handler' = [handler EXCEPT ![e] = "ended"]
  /\ RecordSuccess
  /\ UNCHANGED <<batch, unsettled>>

(* The handler throws; this breaker counts every error.                    *)
HandlerThrows(e) ==
  /\ handler[e] = "running"
  /\ Fail(e)
  /\ handler' = [handler EXCEPT ![e] = "ended"]
  /\ RecordFailure
  /\ UNCHANGED <<batch, unsettled>>

(* Mutation: the deadline only aborts the signal; a handler that ignores   *)
(* it keeps the delivery waiting.                                          *)
DeadlineCooperative(e) == handler[e] = "running" /\ UNCHANGED busVars

(* The deadline wins: the failure goes through the breaker, the handler is *)
(* abandoned.                                                              *)
Deadline(e) ==
  /\ handler[e] = "running"
  /\ role[e] # "idle"
  /\ OnFailure
  /\ Leave(e)
  /\ handler' = [handler EXCEPT ![e] = "abandoned"]
  /\ RecordFailure
  /\ UNCHANGED <<outage, batch, unsettled>>

(* An abandoned handler ends at last; its promise has no listener left.    *)
AbandonedEnds(e) ==
  /\ handler[e] = "abandoned"
  /\ handler' = [handler EXCEPT ![e] = "ended"]
  /\ UNCHANGED <<vars, batch, unsettled, healthVars>>

(* Mutation: the record is cleared but the breaker is not.                 *)
ResetRecordOnly ==
  /\ consecutive' = 0
  /\ everFailed' = FALSE
  /\ UNCHANGED <<vars, batch, unsettled, handler>>

ResetHealth ==
  /\ Reset
  /\ consecutive' = 0
  /\ everFailed' = FALSE
  /\ UNCHANGED <<batch, unsettled, handler>>

(* The clock, the environment and getSubscriberCircuitState().             *)
Background ==
  /\ CooldownElapses \/ OutageEnds \/ GetState
  /\ UNCHANGED <<batch, unsettled, handler, healthVars>>

BusNext ==
  \/ \E e \in Events : \/ StartBatch(e)
                       \/ \E s \in unsettled[e] : OtherSettles(e, s)
                       \/ HandlerReturns(e) \/ HandlerThrows(e)
                       \/ Deadline(e) \/ AbandonedEnds(e)
  \/ ResetHealth
  \/ Background

BusSpec == BusInit /\ [][BusNext]_busVars

(* Synchronous code runs on, and each delivery's own deadline fires.       *)
(* Nothing is assumed of the handlers.                                     *)
BusFairness ==
  \A e \in Events :
    /\ WF_busVars(batch[e] > 0 /\ StartBatch(e))
    /\ WF_busVars(\E s \in unsettled[e] : OtherSettles(e, s))
    /\ WF_busVars(Deadline(e))

FairBusSpec == BusSpec /\ BusFairness

-----------------------------------------------------------------------------
BusTypeOK ==
  /\ TypeOK
  /\ batch \in [Events -> 0..(Batches + 1)]
  /\ \A e \in Events : unsettled[e] # {} => unsettled[e] \subseteq Others[batch[e]]
  /\ handler \in [Events -> {"none", "running", "abandoned", "ended"}]
  /\ consecutive \in 0..FailureThreshold
  /\ everFailed \in BOOLEAN

(* What operators see agrees with what the bus does: a subscriber whose    *)
(* circuit is open is on the list of getFailedSubscribers(), and one whose *)
(* circuit is closed shows at least the failures its breaker holds against *)
(* it, through stragglers, probes, rejected calls and resets.              *)
HealthShowsCircuit ==
  /\ state = "OPEN" => consecutive > 0 /\ everFailed
  /\ state = "CLOSED" => consecutive >= failureCount

(* A publish returns although handlers may hang for ever, in every batch.  *)
PublishReturns ==
  \A e \in Events : batch[e] = 1 ~> batch[e] = Batches + 1
=============================================================================

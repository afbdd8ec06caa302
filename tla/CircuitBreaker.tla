--------------------------- MODULE CircuitBreaker ---------------------------
(***************************************************************************)
(* The circuit breaker of lib/src/utils/circuit-breaker.ts: one instance   *)
(* guards one dependency (a GitHub or GitLab API, an event subscriber, the *)
(* state cache) and is shared by every call the process makes to it.       *)
(*                                                                         *)
(* JavaScript runs each handler to its next await, so a step of this       *)
(* module is what call() does before awaiting fn(), or what it does from   *)
(* the settlement of fn() to its own return, finally block included.       *)
(*                                                                         *)
(* Two abstractions.  Time: the code compares Date.now() - lastFailureTime *)
(* with a (possibly jittered) cooldown; "cooled" is the truth of that      *)
(* comparison, made false by each recorded failure and true by the clock.  *)
(* Counting: failureCount is only ever compared with failureThreshold, so  *)
(* it saturates there.                                                     *)
(***************************************************************************)
EXTENDS Naturals, FiniteSets

CONSTANTS
    Callers,            \* the concurrent users of one breaker
    FailureThreshold,   \* options.failureThreshold
    SuccessThreshold    \* options.successThreshold

ASSUME CircuitBreakerAssumption ==
    /\ FailureThreshold \in Nat \ {0}
    /\ SuccessThreshold \in Nat \ {0}

VARIABLES
    state,           \* this.state
    failureCount,    \* this.failureCount, saturated at FailureThreshold
    successCount,    \* this.successCount
    inFlightProbe,   \* this.inFlightProbe
    cooled,          \* Date.now() - this.lastFailureTime >= this.effectiveCooldownMs
    role,            \* per caller: nothing, awaiting fn(), awaiting fn() as a probe
    outage           \* the guarded dependency fails (environment)

vars == <<state, failureCount, successCount, inFlightProbe, cooled, role, outage>>
counters == <<failureCount, successCount>>

CircuitState == {"CLOSED", "OPEN", "HALF_OPEN"}

Init ==
    /\ state = "CLOSED"
    /\ failureCount = 0
    /\ successCount = 0
    /\ inFlightProbe = FALSE
    /\ cooled = TRUE
    /\ role = [c \in Callers |-> "idle"]
    /\ outage = TRUE

-----------------------------------------------------------------------------
(* transitionState(): what the state becomes whenever it is looked at.     *)
Observed == IF state = "OPEN" /\ cooled THEN "HALF_OPEN" ELSE state

(* getState() and getMetrics(), polled by health endpoints and the bus.    *)
GetState ==
    /\ state' = Observed
    /\ UNCHANGED <<counters, inFlightProbe, cooled, role, outage>>

(* call() throws without running fn(): the circuit is open, or it is half  *)
(* open and the probe flag is up.                                          *)
Reject(c) ==
    /\ role[c] = "idle"
    /\ \/ Observed = "OPEN"
       \/ Observed = "HALF_OPEN" /\ inFlightProbe
    /\ state' = Observed
    /\ UNCHANGED <<counters, inFlightProbe, cooled, role, outage>>

(* call() reaches "await fn()" with the circuit closed.                    *)
Admit(c) ==
    /\ role[c] = "idle"
    /\ Observed = "CLOSED"
    /\ role' = [role EXCEPT ![c] = "call"]
    /\ UNCHANGED <<state, counters, inFlightProbe, cooled, outage>>

(* call() reaches "await fn()" as the half-open probe.                     *)
AdmitProbe(c) ==
    /\ role[c] = "idle"
    /\ Observed = "HALF_OPEN"
    /\ ~inFlightProbe
    /\ state' = "HALF_OPEN"
    /\ inFlightProbe' = TRUE
    /\ role' = [role EXCEPT ![c] = "probe"]
    /\ UNCHANGED <<counters, cooled, outage>>

(* Mutation: the flag is lowered only on the success path.          *)
LeaveKeepingFlag(c) ==
    /\ role' = [role EXCEPT ![c] = "idle"]
    /\ UNCHANGED inFlightProbe

(* The finally block of call(): whoever returns lowers the flag.           *)
Leave(c) ==
    /\ role' = [role EXCEPT ![c] = "idle"]
    /\ inFlightProbe' = FALSE

(* onSuccess() counts a success of the half-open window, and resets the    *)
(* breaker in any other state.                                             *)
OnSuccess ==
    IF state = "HALF_OPEN" /\ successCount + 1 < SuccessThreshold
      THEN /\ successCount' = successCount + 1
           /\ UNCHANGED <<state, failureCount>>
      ELSE /\ state' = "CLOSED"
           /\ failureCount' = 0
           /\ successCount' = 0

(* onFailure(): any failure of a half-open window, and the threshold-th    *)
(* failure of a closed one, open the circuit; each restarts the cooldown.  *)
OnFailure ==
    /\ failureCount' = IF failureCount < FailureThreshold THEN failureCount + 1
                                                          ELSE failureCount
    /\ cooled' = FALSE
    /\ IF \/ state = "HALF_OPEN"
          \/ state = "CLOSED" /\ failureCount + 1 >= FailureThreshold
         THEN state' = "OPEN" /\ successCount' = 0
         ELSE UNCHANGED <<state, successCount>>

(* fn() resolved.                                                          *)
Succeed(c) ==
    /\ role[c] # "idle"
    /\ OnSuccess
    /\ Leave(c)
    /\ UNCHANGED <<cooled, outage>>

(* fn() rejected with an error shouldCountFailure() counts.                *)
Fail(c) ==
    /\ role[c] # "idle"
    /\ outage
    /\ OnFailure
    /\ Leave(c)
    /\ UNCHANGED outage

(* fn() rejected with an error the classifier excludes (a 4xx).            *)
FailUncounted(c) ==
    /\ role[c] # "idle"
    /\ Leave(c)
    /\ UNCHANGED <<state, counters, cooled, outage>>

(* reset(), which EventBus.resetHealth() exposes to operators.             *)
Reset ==
    /\ state' = "CLOSED"
    /\ failureCount' = 0
    /\ successCount' = 0
    /\ UNCHANGED <<inFlightProbe, cooled, role, outage>>

(* The clock passes the cooldown of the last failure.                      *)
CooldownElapses ==
    /\ ~cooled
    /\ cooled' = TRUE
    /\ UNCHANGED <<state, counters, inFlightProbe, role, outage>>

(* The dependency recovers for good.                                       *)
OutageEnds ==
    /\ outage
    /\ outage' = FALSE
    /\ UNCHANGED <<state, counters, inFlightProbe, cooled, role>>

Call(c) == Reject(c) \/ Admit(c) \/ AdmitProbe(c)
Settle(c) == Succeed(c) \/ Fail(c) \/ FailUncounted(c)

Next ==
    \/ \E c \in Callers : Call(c) \/ Settle(c)
    \/ GetState \/ Reset \/ CooldownElapses \/ OutageEnds

Spec == Init /\ [][Next]_vars

(***************************************************************************)
(* Fairness: timers fire, the outage ends, callers keep calling, an        *)
(* awaited call settles (each user of the breaker puts a timeout on it),   *)
(* and a recovered dependency does not answer every request with a 4xx.    *)
(* Nothing is assumed of the operator's Reset or of polling.               *)
(***************************************************************************)
Fairness ==
    /\ WF_vars(CooldownElapses)
    /\ WF_vars(OutageEnds)
    /\ \A c \in Callers :
        /\ WF_vars(Call(c))
        /\ WF_vars(Settle(c))
        /\ SF_vars(Succeed(c))

FairSpec == Spec /\ Fairness

-----------------------------------------------------------------------------
TypeOK ==
    /\ state \in CircuitState
    /\ failureCount \in 0..FailureThreshold
    /\ successCount \in 0..(SuccessThreshold - 1)
    /\ inFlightProbe \in BOOLEAN
    /\ cooled \in BOOLEAN
    /\ role \in [Callers -> {"idle", "call", "probe"}]
    /\ outage \in BOOLEAN

(* The circuit is closed exactly while fewer than failureThreshold         *)
(* failures stand against the dependency, whatever late settlements,       *)
(* operator resets and half-open windows came before.  A count left over   *)
(* from an earlier trip would make the first failure after a recovery open *)
(* the circuit again.                                                      *)
ClosedIffBelowThreshold ==
    state = "CLOSED" <=> failureCount < FailureThreshold

(* Successes are only carried inside one half-open window: the             *)
(* "consecutive successes accumulated in the HALF_OPEN probing window" of  *)
(* CircuitBreakerMetrics.  A success kept over a re-opening would close    *)
(* the next window early.                                                  *)
SuccessesBelongToWindow ==
    state # "HALF_OPEN" => successCount = 0

(* A raised probe flag has a probe behind it that will lower it.  A flag   *)
(* with no owner would reject every later half-open call, and the breaker  *)
(* could never close by itself again.                                      *)
ProbeFlagHasOwner ==
    inFlightProbe => \E c \in Callers : role[c] = "probe"

(* When the dependency has recovered and calls keep coming, the circuit    *)
(* closes and stays closed: no interleaving of stragglers, probes and      *)
(* rejections leaves it open for ever.                                     *)
EventuallyClosed == <>[](state = "CLOSED")
=============================================================================

------------------------- MODULE ConcurrencyLimiter -------------------------
(***************************************************************************)
(* The process-wide limiter of app/src/utils/concurrency.ts: a reentrant   *)
(* FIFO semaphore and runWithConcurrencyLimit(), which gives up after a    *)
(* bounded wait and returns a slot that is granted too late.               *)
(*                                                                         *)
(* A run is one call of runWithConcurrencyLimit().  Calls made inside the  *)
(* work of another run (/review -> handlePRReview -> handleAutofixLoop)    *)
(* see that run's slot in their asynchronous context and use it.           *)
(***************************************************************************)
EXTENDS Naturals, FiniteSets, Sequences

CONSTANTS Runs, Limit,
          Inside  \* Inside[r]: the run whose work makes call r, or r itself

ASSUME LimitAssumption == Limit \in Nat \ {0}
ASSUME InsideAssumption == Inside \in [Runs -> Runs]

VARIABLES active,   \* the count of slots in use
          waiters,  \* the FIFO of calls waiting for a slot
          pc        \* where each call is

limitVars == <<active, waiters, pc>>

(* queued: in the FIFO; expired: gave up but still in the FIFO; granted:   *)
(* owns a slot but has not resumed; late: was granted after it gave up;    *)
(* running: its work runs in a slot of its own; nested: its work runs in   *)
(* the slot of the run around it.                                          *)
Places == {"idle", "queued", "expired", "granted", "late", "running",
           "nested", "busy", "done"}

LimitTypeOK == /\ active \in Nat
               /\ waiters \in Seq(Runs)
               /\ pc \in [Runs -> Places]

LimitInit == active = 0 /\ waiters = <<>> /\ pc = [r \in Runs |-> "idle"]

Outermost(r) == Inside[r] = r

Move(r, place) == pc' = [pc EXCEPT ![r] = place]

-----------------------------------------------------------------------------
(* Mutation: a free slot is taken without being counted.                   *)
AcquireUncounted(r) ==
  /\ pc[r] = "idle"
  /\ Outermost(r)
  /\ active < Limit
  /\ Move(r, "granted")
  /\ UNCHANGED <<active, waiters>>

(* acquire() with a slot free.                                             *)
AcquireFree(r) ==
  /\ pc[r] = "idle"
  /\ Outermost(r)
  /\ active < Limit
  /\ active' = active + 1
  /\ Move(r, "granted")
  /\ UNCHANGED waiters

(* acquire() with every slot in use.                                       *)
AcquireQueued(r) ==
  /\ pc[r] = "idle"
  /\ Outermost(r)
  /\ active >= Limit
  /\ waiters' = Append(waiters, r)
  /\ Move(r, "queued")
  /\ UNCHANGED active

(* The race is won by the slot: the work starts.                           *)
Resume(r) == pc[r] = "granted" /\ Move(r, "running") /\ UNCHANGED <<active, waiters>>

(* The race is won by the timer.  The resolver stays in the FIFO.          *)
GiveUp(r) == pc[r] = "queued" /\ Move(r, "expired") /\ UNCHANGED <<active, waiters>>

(* Mutation: the count drops although the slot is handed on.               *)
ReleaseAndCount(r, place) ==
  IF waiters = <<>>
  THEN /\ active' = active - 1
       /\ Move(r, place)
       /\ UNCHANGED waiters
  ELSE LET next == Head(waiters) IN
       /\ waiters' = Tail(waiters)
       /\ active' = active - 1
       /\ pc' = [pc EXCEPT ![r] = place,
                           ![next] = IF pc[next] = "expired" THEN "late" ELSE "granted"]

(* Mutation: the slot is counted free and the waiters are left to sleep.   *)
ReleaseWithoutWaking(r, place) ==
  /\ active' = active - 1
  /\ Move(r, place)
  /\ UNCHANGED waiters

(* release(): the slot goes straight to the first waiter, which may have   *)
(* given up already, and is only counted free when nobody waits.           *)
Release(r, place) ==
  IF waiters = <<>>
  THEN /\ active' = active - 1
       /\ Move(r, place)
       /\ UNCHANGED waiters
  ELSE LET next == Head(waiters) IN
       /\ waiters' = Tail(waiters)
       /\ pc' = [pc EXCEPT ![r] = place,
                           ![next] = IF pc[next] = "expired" THEN "late" ELSE "granted"]
       /\ UNCHANGED active

(* The work of r has returned or thrown, with everything it awaited.       *)
Finish(r) ==
  /\ pc[r] = "running"
  /\ \A s \in Runs \ {r} : Inside[s] = r => pc[s] # "nested"
  /\ Release(r, "done")

(* A slot that arrives after its call gave up is released at once.         *)
ReturnLate(r) == pc[r] = "late" /\ Release(r, "busy")

(* Mutation: a call inside a run queues for a slot of its own.             *)
EnterNestedQueued(r) ==
  /\ pc[r] = "idle"
  /\ ~Outermost(r)
  /\ pc[Inside[r]] \in {"running", "nested"}
  /\ IF active < Limit
     THEN active' = active + 1 /\ Move(r, "granted") /\ UNCHANGED waiters
     ELSE waiters' = Append(waiters, r) /\ Move(r, "queued") /\ UNCHANGED active

(* The reentrant path: the work runs at once in the slot around it.        *)
EnterNested(r) ==
  /\ pc[r] = "idle"
  /\ ~Outermost(r)
  /\ pc[Inside[r]] \in {"running", "nested"}
  /\ Move(r, "nested")
  /\ UNCHANGED <<active, waiters>>

FinishNested(r) ==
  /\ pc[r] = "nested"
  /\ \A s \in Runs \ {r} : Inside[s] = r => pc[s] # "nested"
  /\ Move(r, "done")
  /\ UNCHANGED <<active, waiters>>

LimitNext == \E r \in Runs : \/ AcquireFree(r) \/ AcquireQueued(r) \/ Resume(r)
                             \/ GiveUp(r) \/ Finish(r) \/ ReturnLate(r)
                             \/ EnterNested(r) \/ FinishNested(r)

LimitSpec == LimitInit /\ [][LimitNext]_limitVars

(* Promise reactions run and work ends, in success or failure; that a      *)
(* waiter gives up is possible but never needed.                           *)
LimitFairness == \A r \in Runs : /\ WF_limitVars(Resume(r))
                                 /\ WF_limitVars(Finish(r))
                                 /\ WF_limitVars(ReturnLate(r))
                                 /\ WF_limitVars(FinishNested(r))

FairLimitSpec == LimitSpec /\ LimitFairness

-----------------------------------------------------------------------------
Holders == {r \in Runs : pc[r] \in {"granted", "running", "late"}}

(* No slot is lost and none is made up: the count is exactly the number of *)
(* calls that own a slot, also while one is handed to a call that gave up. *)
SlotsAccounted == active = Cardinality(Holders)

(* "limits how many heavy runs execute simultaneously across ALL repos/PRs".*)
RunsWithinLimit == Cardinality({r \in Runs : pc[r] = "running"}) <= Limit

(* A slot is never idle while a call waits for one.                        *)
NoIdleSlot == waiters # <<>> => active = Limit

(* A call made inside a run is never queued or refused, and its work never *)
(* outlives the slot it borrows: a command can not deadlock with itself.   *)
NestedInsideSlot ==
  \A r \in Runs : ~Outermost(r) =>
    /\ pc[r] \in {"idle", "nested", "done"}
    /\ pc[r] = "nested" => pc[Inside[r]] \in {"running", "nested"}

(* The limiter hands out slots the way SlotPool promises.                  *)
Pool == INSTANCE SlotPool WITH holders <- Holders
ImplementsSlotPool == Pool!Spec

(* A call that does not give up gets its slot once the runs before it end, *)
(* and in the end every slot is back, also one that was handed to a call   *)
(* that had given up in the meantime.                                      *)
WaitersServed ==
  /\ \A r \in Runs : pc[r] = "queued" ~> pc[r] # "queued"
  /\ <>[](active = 0)
=============================================================================

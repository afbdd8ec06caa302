----------------------------- MODULE AsyncMutex -----------------------------
(***************************************************************************)
(* The in-process FIFO mutex of lib/src/utils/rate-limiter.ts.             *)
(*                                                                         *)
(* Every runExclusive() appends a promise, its LINK, to a chain and waits  *)
(* for the link before it.  Links are named by the order in which they are *)
(* created: link 0 is the resolved promise the mutex starts with.  A call  *)
(* that gives up waiting must not resolve its link at once, or the calls   *)
(* behind it would overtake the holder: the link inherits the settlement   *)
(* of its predecessor instead.                                             *)
(***************************************************************************)
EXTENDS Naturals, FiniteSets

CONSTANTS Calls,     \* the invocations of runExclusive() in one execution
          Unbounded  \* those made with timeoutMs <= 0: they wait without a timer

ASSUME UnboundedAssumption == Unbounded \subseteq Calls

VARIABLES tail,      \* the last link of the chain
          settled,   \* the links that have resolved
          prev,      \* prev[c]: the link call c waits for
          link,      \* link[c]: the link call c has to resolve
          pc,        \* where each call is
          pending    \* the queue depth the mutex reports

mutexVars == <<tail, settled, prev, link, pc, pending>>

Places == {"idle", "waiting", "expired", "critical", "left", "failed"}

TypeOK == /\ tail \in Nat
          /\ settled \subseteq 0..tail
          /\ prev \in [Calls -> Nat]
          /\ link \in [Calls -> Nat]
          /\ pc \in [Calls -> Places]
          /\ pending \in Nat

Init == /\ tail = 0
        /\ settled = {0}
        /\ prev = [c \in Calls |-> 0]
        /\ link = [c \in Calls |-> 0]
        /\ pc = [c \in Calls |-> "idle"]
        /\ pending = 0

-----------------------------------------------------------------------------
(* A call reads the tail as its predecessor and becomes the new tail; the  *)
(* two happen in one synchronous stretch.                                  *)
Enqueue(c) ==
  /\ pc[c] = "idle"
  /\ prev' = [prev EXCEPT ![c] = tail]
  /\ tail' = tail + 1
  /\ link' = [link EXCEPT ![c] = tail + 1]
  /\ pending' = pending + 1
  /\ pc' = [pc EXCEPT ![c] = "waiting"]
  /\ UNCHANGED settled

(* The predecessor has settled: the critical section starts.               *)
Acquire(c) ==
  /\ pc[c] = "waiting"
  /\ prev[c] \in settled
  /\ pc' = [pc EXCEPT ![c] = "critical"]
  /\ UNCHANGED <<tail, settled, prev, link, pending>>

(* done(): one call fewer is queued, and its link resolves.                *)
Done(c) ==
  /\ settled' = settled \union {link[c]}
  /\ pending' = IF pending = 0 THEN 0 ELSE pending - 1

(* prev.then(done, done): the link of a call that gave up settles with the *)
(* link before it.                                                         *)
Inherit(c) ==
  /\ pc[c] = "expired"
  /\ prev[c] \in settled
  /\ Done(c)
  /\ pc' = [pc EXCEPT ![c] = "failed"]
  /\ UNCHANGED <<tail, prev, link>>

(* Mutation: the release the comment of the timeout branch warns against.  *)
TimeOutReleasing(c) ==
  /\ c \notin Unbounded
  /\ pc[c] = "waiting"
  /\ prev[c] \notin settled
  /\ Done(c)
  /\ pc' = [pc EXCEPT ![c] = "failed"]
  /\ UNCHANGED <<tail, prev, link>>

(* The wait timer fires before the predecessor settles.  Once it has       *)
(* settled the race is decided in a microtask, before any timer can run.   *)
TimeOut(c) ==
  /\ c \notin Unbounded
  /\ pc[c] = "waiting"
  /\ prev[c] \notin settled
  /\ pc' = [pc EXCEPT ![c] = "expired"]
  /\ UNCHANGED <<tail, settled, prev, link, pending>>

(* The critical section returns or throws: the finally block runs done().  *)
Release(c) ==
  /\ pc[c] = "critical"
  /\ Done(c)
  /\ pc' = [pc EXCEPT ![c] = "left"]
  /\ UNCHANGED <<tail, prev, link>>

Next == \E c \in Calls : \/ Enqueue(c)
                         \/ Acquire(c)
                         \/ TimeOut(c)
                         \/ Inherit(c)
                         \/ Release(c)

Spec == Init /\ [][Next]_mutexVars

(* Promise reactions and timers always run; nothing is said of Release, so *)
(* a critical section may hang for ever.                                   *)
RuntimeFairness == \A c \in Calls : /\ WF_mutexVars(Acquire(c))
                                    /\ WF_mutexVars(TimeOut(c))
                                    /\ WF_mutexVars(Inherit(c))

FairSpec == Spec /\ RuntimeFairness

-----------------------------------------------------------------------------
Entered == {c \in Calls : pc[c] # "idle"}

(* Two critical sections never run at the same time, whatever the order in *)
(* which waiters give up (the doc of AsyncMutex, "FIFO mutual exclusion is *)
(* preserved for the remaining waiters").                                  *)
MutualExclusion ==
  \A c, d \in Calls : pc[c] = "critical" /\ pc[d] = "critical" => c = d

(* The mutex is FIFO: while a call is in its critical section, no call that *)
(* arrived before it is still waiting, inside, or pending behind a holder.  *)
FirstComeFirstServed ==
  \A c, d \in Entered :
    pc[d] = "critical" /\ link[c] < link[d] => link[c] \in settled

(* getQueueDepth() is the number of calls that hold or hold up the mutex,  *)
(* those that gave up but whose link has not settled included.             *)
DepthCountsUnsettled ==
  pending = Cardinality({c \in Calls : pc[c] \in {"waiting", "expired", "critical"}})

(* "a hung store query holding the critical section cannot head-of-line    *)
(* block every repo/user behind it forever": each waiter with a timer gets *)
(* in or fails, even if no critical section ever ends.                     *)
NobodyWaitsForever ==
  \A c \in Calls \ Unbounded : pc[c] = "waiting" ~> pc[c] # "waiting"

(* When critical sections end, every link of the chain settles in the end: *)
(* no call, not even one without a timer, is left behind a waiter that     *)
(* gave up.                                                                *)
NobodyInside == \A c \in Calls : pc[c] # "critical"
ChainDrains == []<>NobodyInside => <>[](\A c \in Entered : link[c] \in settled)
=============================================================================

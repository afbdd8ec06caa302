------------------------ MODULE OpenCodeRunnerProofs ------------------------
(***************************************************************************)
(* Proofs about the runner: no process outlives the parent unsignalled, a  *)
(* stopped run spawns nothing more, and no output of a run that was cut    *)
(* short is taken for a result, for any runs, options and attempts.        *)
(***************************************************************************)
EXTENDS OpenCodeRunner, TLAPS

(* What the proofs need of the types.                                      *)
Shape ==
  /\ parent \in {"up", "shutting", "dead"}
  /\ pc \in [Runs -> Places]
  /\ DOMAIN result = Runs
  /\ child \in [Runs -> {"none", "alive", "termed", "killed"}]
  /\ active \in [Runs -> BOOLEAN]
  /\ timer \in [Runs -> BOOLEAN]

(* A run has an active child, which is in the registry, only while it      *)
(* waits for it, and a timer to kill it only while it has one.             *)
WaitsForChild ==
  \A r \in Runs : /\ active[r] => pc[r] = "running" /\ r \in registered
                  /\ timer[r] => active[r]

(* A run that was cut short is stopped, and from the end of its child on   *)
(* its result says so; it goes back to none of its retries.                *)
CutIsSettled ==
  \A r \in cut : /\ r \in stopped
                 /\ r \in Runs
                 /\ pc[r] \in {"running", "settled", "returned", "done"}
                 /\ pc[r] # "running" => result[r] = "stopped"

RunnerInv == Shape /\ WaitsForChild /\ EveryChildOwned /\ NoSurvivors /\ CutIsSettled

(* The actions of one run, while the parent lives.                         *)
RunStep(r) == Start(r) \/ Proceed(r) \/ Ends(r) \/ Halt(r) \/ ForceKill(r)

-----------------------------------------------------------------------------
LEMMA InitEstablishes == Init => RunnerInv
BY DEF Init, RunnerInv, Shape, WaitsForChild, EveryChildOwned, NoSurvivors, CutIsSettled,
       Places

LEMMA ShapePreserved == RunnerInv /\ [Next]_vars => Shape'
<1> SUFFICES ASSUME RunnerInv, [Next]_vars PROVE Shape'
  OBVIOUS
<1> USE DEF RunnerInv, Shape, Places
<1>1. ASSUME NEW r \in Runs, Start(r) PROVE Shape'
  BY <1>1 DEF Start, Goto, Yield, processes
<1>2. ASSUME NEW r \in Runs, SetUp(r) PROVE Shape'
  BY <1>2 DEF SetUp, Goto, Yield, processes
<1>3. ASSUME NEW r \in Runs, Spawn(r) PROVE Shape'
  BY <1>3 DEF Spawn, Goto, Yield, processes
<1>4. ASSUME NEW r \in Runs, CallAgain(r) PROVE Shape'
  BY <1>4 DEF CallAgain, Goto, processes
<1>5. ASSUME NEW r \in Runs, Retry(r) PROVE Shape'
  BY <1>5 DEF Retry, Advance, Goto, processes
<1>6. ASSUME NEW r \in Runs, Return(r) PROVE Shape'
  BY <1>6 DEF Return, Goto, processes
<1>7. ASSUME NEW r \in Runs, NEW outcome, Exit(r, outcome) PROVE Shape'
  BY <1>7 DEF Exit, Settle, Goto, Yield
<1>8. ASSUME NEW r \in Runs, Halt(r) PROVE Shape'
  BY <1>8 DEF Halt, Terminate, Term
<1>9. ASSUME NEW r \in Runs, ForceKill(r) PROVE Shape'
  BY <1>9 DEF ForceKill, Settle, Goto, Yield
<1>10. CASE Signal
  BY <1>10 DEF Signal, Terminate, Term
<1>11. CASE Die
  BY <1>11 DEF Die, KillAll
<1>12. CASE UNCHANGED vars
  BY <1>12 DEF vars
<1> QED
  BY <1>1, <1>2, <1>3, <1>4, <1>5, <1>6, <1>7, <1>8, <1>9, <1>10, <1>11, <1>12
     DEF Next, Proceed, Ends

LEMMA WaitingPreserved == RunnerInv /\ [Next]_vars => WaitsForChild'
<1> SUFFICES ASSUME RunnerInv, [Next]_vars PROVE WaitsForChild'
  OBVIOUS
<1> USE DEF RunnerInv, Shape, WaitsForChild
<1>1. ASSUME NEW r \in Runs, Start(r) PROVE WaitsForChild'
  BY <1>1 DEF Start, Goto, Yield, processes
<1>2. ASSUME NEW r \in Runs, SetUp(r) PROVE WaitsForChild'
  BY <1>2 DEF SetUp, Goto, Yield, processes
<1>3. ASSUME NEW r \in Runs, Spawn(r) PROVE WaitsForChild'
  BY <1>3 DEF Spawn, Goto, Yield, processes
<1>4. ASSUME NEW r \in Runs, CallAgain(r) PROVE WaitsForChild'
  BY <1>4 DEF CallAgain, Goto, processes
<1>5. ASSUME NEW r \in Runs, Retry(r) PROVE WaitsForChild'
  BY <1>5 DEF Retry, Advance, Goto, processes
<1>6. ASSUME NEW r \in Runs, Return(r) PROVE WaitsForChild'
  BY <1>6 DEF Return, Goto, processes
<1>7. ASSUME NEW r \in Runs, NEW outcome, Exit(r, outcome) PROVE WaitsForChild'
  BY <1>7 DEF Exit, Settle, Goto, Yield
<1>8. ASSUME NEW r \in Runs, Halt(r) PROVE WaitsForChild'
  BY <1>8 DEF Halt, Terminate
<1>9. ASSUME NEW r \in Runs, ForceKill(r) PROVE WaitsForChild'
  BY <1>9 DEF ForceKill, Settle, Goto, Yield
<1>10. CASE Signal
  BY <1>10 DEF Signal, Terminate
<1>11. CASE Die
  BY <1>11 DEF Die
<1>12. CASE UNCHANGED vars
  BY <1>12 DEF vars
<1> QED
  BY <1>1, <1>2, <1>3, <1>4, <1>5, <1>6, <1>7, <1>8, <1>9, <1>10, <1>11, <1>12
     DEF Next, Proceed, Ends

(* A process leaves the registry only when it has ended.                   *)
LEMMA OwnershipPreserved == RunnerInv /\ [Next]_vars => EveryChildOwned'
<1> SUFFICES ASSUME RunnerInv, [Next]_vars PROVE EveryChildOwned'
  OBVIOUS
<1> USE DEF RunnerInv, Shape, EveryChildOwned
<1>1. ASSUME NEW r \in Runs, Start(r) \/ SetUp(r) \/ CallAgain(r) \/ Retry(r) \/ Return(r)
      PROVE  EveryChildOwned'
  BY <1>1 DEF Start, SetUp, CallAgain, Retry, Return, processes
<1>2. ASSUME NEW r \in Runs, Spawn(r) PROVE EveryChildOwned'
  BY <1>2 DEF Spawn, processes
<1>3. ASSUME NEW r \in Runs, NEW outcome, Exit(r, outcome) PROVE EveryChildOwned'
  BY <1>3 DEF Exit, Settle
<1>4. ASSUME NEW r \in Runs, Halt(r) PROVE EveryChildOwned'
  BY <1>4 DEF Halt, Term
<1>5. ASSUME NEW r \in Runs, ForceKill(r) PROVE EveryChildOwned'
  <2>1. r \in registered
    BY <1>5 DEF ForceKill, WaitsForChild
  <2>2. CASE child' = [child EXCEPT ![r] = "none"] /\ registered' = registered \ {r}
    BY <2>2
  <2>3. CASE registered' = registered /\ child' = child
    BY <2>3
  <2>4. CASE child' = [child EXCEPT ![r] = "killed"] /\ registered' = registered
    BY <2>1, <2>4
  <2> QED
    BY <1>5, <2>2, <2>3, <2>4 DEF ForceKill, Settle
<1>6. CASE Signal
  BY <1>6 DEF Signal, Term
<1>7. CASE Die
  BY <1>7 DEF Die, KillAll
<1>8. CASE UNCHANGED vars
  BY <1>8 DEF vars
<1> QED
  BY <1>1, <1>2, <1>3, <1>4, <1>5, <1>6, <1>7, <1>8 DEF Next, Proceed, Ends

(* The parent dies by Signal, with an empty registry, or by Die, which     *)
(* kills all that is in it; nothing is done after that.                    *)
LEMMA SurvivorsPreserved == RunnerInv /\ [Next]_vars => NoSurvivors'
<1> SUFFICES ASSUME RunnerInv, [Next]_vars PROVE NoSurvivors'
  OBVIOUS
<1> USE DEF RunnerInv, Shape, EveryChildOwned, NoSurvivors
<1>1. ASSUME NEW r \in Runs, parent # "dead", RunStep(r) PROVE NoSurvivors'
  <2>1. parent' = parent
    BY <1>1 DEF RunStep, Proceed, Ends, Start, SetUp, Spawn, CallAgain, Retry, Return, Exit,
                Halt, ForceKill
  <2> QED
    BY <1>1, <2>1
<1>2. CASE Signal
  BY <1>2 DEF Signal, Term
<1>3. CASE Die
  BY <1>3 DEF Die, KillAll
<1>4. CASE UNCHANGED vars
  BY <1>4 DEF vars
<1> QED
  BY <1>1, <1>2, <1>3, <1>4 DEF Next, RunStep

(* Only Halt and Signal cut a run, while it waits for its child.           *)
LEMMA CutPreserved == RunnerInv /\ [Next]_vars => CutIsSettled'
<1> SUFFICES ASSUME RunnerInv, [Next]_vars PROVE CutIsSettled'
  OBVIOUS
<1> USE DEF RunnerInv, Shape, WaitsForChild, CutIsSettled
<1>1. ASSUME NEW r \in Runs, Start(r) PROVE CutIsSettled'
  BY <1>1 DEF Start, Goto, Yield
<1>2. ASSUME NEW r \in Runs, SetUp(r) PROVE CutIsSettled'
  BY <1>2 DEF SetUp, Goto, Yield
<1>3. ASSUME NEW r \in Runs, Spawn(r) PROVE CutIsSettled'
  BY <1>3 DEF Spawn, Goto, Yield
<1>4. ASSUME NEW r \in Runs, CallAgain(r) PROVE CutIsSettled'
  BY <1>4 DEF CallAgain, Goto, Stopped
<1>5. ASSUME NEW r \in Runs, Retry(r) PROVE CutIsSettled'
  BY <1>5 DEF Retry, Again, Advance, Goto, Stopped
<1>6. ASSUME NEW r \in Runs, Return(r) PROVE CutIsSettled'
  BY <1>6 DEF Return, Goto
<1>7. ASSUME NEW r \in Runs, NEW outcome, Exit(r, outcome) PROVE CutIsSettled'
  BY <1>7 DEF Exit, Settle, Goto, Yield, Stopped
<1>8. ASSUME NEW r \in Runs, Halt(r) PROVE CutIsSettled'
  BY <1>8 DEF Halt, Terminate
<1>9. ASSUME NEW r \in Runs, ForceKill(r) PROVE CutIsSettled'
  BY <1>9 DEF ForceKill, Settle, Goto, Yield
<1>10. CASE Signal
  BY <1>10 DEF Signal, Terminate, Live
<1>11. CASE Die
  BY <1>11 DEF Die
<1>12. CASE UNCHANGED vars
  BY <1>12 DEF vars
<1> QED
  BY <1>1, <1>2, <1>3, <1>4, <1>5, <1>6, <1>7, <1>8, <1>9, <1>10, <1>11, <1>12
     DEF Next, Proceed, Ends

LEMMA RunnerInvHolds == Spec => []RunnerInv
<1>1. RunnerInv /\ [Next]_vars => RunnerInv'
  BY ShapePreserved, WaitingPreserved, OwnershipPreserved, SurvivorsPreserved, CutPreserved
     DEF RunnerInv
<1> QED
  BY <1>1, InitEstablishes, PTL DEF Spec

-----------------------------------------------------------------------------
(* scheduleForceKill() may settle a run before its process has ended; the  *)
(* registry still has it, so that the parent can reach every process.      *)
THEOREM ChildrenAreOwned == Spec => []EveryChildOwned
BY RunnerInvHolds, PTL DEF RunnerInv

(* When the parent has died by a signal or has run its exit handler, every *)
(* process that had not ended has been sent SIGKILL.                       *)
THEOREM NothingSurvives == Spec => []NoSurvivors
BY RunnerInvHolds, PTL DEF RunnerInv

(* The result of a run whose child was cut short is never its output.      *)
THEOREM CutRunsFail == Spec => []CutNeverSucceeds
<1>1. RunnerInv => CutNeverSucceeds
  BY DEF RunnerInv, CutIsSettled, CutNeverSucceeds
<1> QED
  BY <1>1, RunnerInvHolds, PTL

(* No retry of executeOnce() spawns a process for a run that was stopped.  *)
THEOREM StoppedRunsSpawnNothing == Spec => StoppedSpawnsNothing
<1> DEFINE Quiet == \A r \in Runs : Stopped(r) /\ ~active[r] => ~active'[r]
<1>1. RunnerInv /\ [Next]_vars => Quiet
  <2> SUFFICES ASSUME RunnerInv, [Next]_vars PROVE Quiet
    OBVIOUS
  <2> USE DEF RunnerInv, Shape
  <2>1. ASSUME NEW r \in Runs, Start(r) \/ SetUp(r) \/ CallAgain(r) \/ Retry(r) \/ Return(r)
        PROVE  Quiet
    BY <2>1 DEF Start, SetUp, CallAgain, Retry, Return, processes
  <2>2. ASSUME NEW r \in Runs, Spawn(r) PROVE Quiet
    BY <2>2 DEF Spawn, processes, Stopped
  <2>3. ASSUME NEW r \in Runs, NEW outcome, Exit(r, outcome) PROVE Quiet
    BY <2>3 DEF Exit, Settle
  <2>4. ASSUME NEW r \in Runs, Halt(r) \/ ForceKill(r) PROVE Quiet
    BY <2>4 DEF Halt, Terminate, ForceKill, Settle
  <2>5. CASE Signal \/ Die \/ UNCHANGED vars
    BY <2>5 DEF Signal, Terminate, Die, vars
  <2> QED
    BY <2>1, <2>2, <2>3, <2>4, <2>5 DEF Next, Proceed, Ends
<1>2. [][Quiet]_vars <=> StoppedSpawnsNothing
  BY DEF StoppedSpawnsNothing
<1>3. [Next]_vars /\ RunnerInv => [Quiet]_vars
  BY <1>1
<1> QED
  BY <1>2, <1>3, RunnerInvHolds, PTL DEF Spec
=============================================================================

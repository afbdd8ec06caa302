--------------------------- MODULE OpenCodeRunner ---------------------------
(***************************************************************************)
(* runOpenCode() of lib/src/opencode.ts and the process registry of        *)
(* lib/src/utils/process-registry.ts: runs of the opencode CLI, each one   *)
(* child process at a time, with their retries, their deadline and         *)
(* cancellation, the escalation from SIGTERM to SIGKILL, and the parent's  *)
(* own shutdown.                                                           *)
(*                                                                         *)
(* A run may call itself with fewer options, inside one of its attempts,   *)
(* so its place among the retries is a stack of levels.  Of the output of  *)
(* a failed attempt only the retry it calls for matters.                   *)
(***************************************************************************)
EXTENDS Naturals, Sequences, FiniteSets

CONSTANTS Runs,       \* invocations of runOpenCode
          WithKeys,   \* those whose config carries provider timeout keys
          WithVariant,\* those that send --variant
          WithMCP,    \* those whose config has a dual-emitted mcp block
          Resuming,   \* those with resumeOnNetworkError
          Attempts    \* FORCE_KILL_MAX_ATTEMPTS

ASSUME RunnerAssumption ==
  /\ WithKeys \subseteq Runs /\ WithVariant \subseteq Runs
  /\ WithMCP \subseteq Runs /\ Resuming \subseteq Runs
  /\ Attempts \in Nat \ {0}

VARIABLES parent,     \* this process: up, shutting down, or dead
          noted,      \* the CLI has refused the dual-emitted mcp block
          pc,         \* pc[r]: where run r is
          levels,     \* levels[r]: its calls of runOpenCodeInner
          result,     \* result[r]: what its last attempt came to
          stopped,    \* the runs with a terminationKind
          child,      \* child[r]: its process, as the system has it
          active,     \* active[r]: that process is the run's activeChild
          registered, \* managedProcesses: the runs whose process is in it
          timer,      \* timer[r]: forceKillHandle is set
          tries,      \* tries[r]: forceKillAttempts
          cut         \* history: runs stopped while their child was running

vars == <<parent, noted, pc, levels, result, stopped, child, active, registered, timer,
          tries, cut>>

Failures == {"keys", "variant", "mcp", "net", "other"}
Places == {"idle", "setup", "spawn", "running", "settled", "returned", "done"}
Level == [keys : BOOLEAN, variant : BOOLEAN, mcp : BOOLEAN,
          at : {"first", "mcp", "resume", "full"}]

TypeOK ==
  /\ parent \in {"up", "shutting", "dead"} /\ noted \in BOOLEAN
  /\ pc \in [Runs -> Places]
  /\ \A r \in Runs : levels[r] \in Seq(Level) /\ Len(levels[r]) <= 3
  /\ result \in [Runs -> {"none", "ok", "stopped"} \union Failures]
  /\ child \in [Runs -> {"none", "alive", "termed", "killed"}]
  /\ active \in [Runs -> BOOLEAN]
  /\ {registered, stopped, cut} \subseteq SUBSET Runs
  /\ timer \in [Runs -> BOOLEAN] /\ tries \in [Runs -> 0..Attempts]

Init ==
  /\ parent = "up" /\ noted = FALSE
  /\ pc = [r \in Runs |-> "idle"] /\ levels = [r \in Runs |-> <<>>]
  /\ result = [r \in Runs |-> "none"]
  /\ child = [r \in Runs |-> "none"] /\ active = [r \in Runs |-> FALSE]
  /\ registered = {} /\ stopped = {} /\ cut = {}
  /\ timer = [r \in Runs |-> FALSE] /\ tries = [r \in Runs |-> 0]

processes == <<child, active, registered, timer, tries>>
ladder == <<noted, levels>>

Goto(r, place) == pc' = [pc EXCEPT ![r] = place]
Yield(r, what) == result' = [result EXCEPT ![r] = what]
Stopped(r) == r \in stopped
Top(r) == levels[r][Len(levels[r])]

(* The level of a call with what is left of the options; the mcp block is  *)
(* no longer dual once the CLI has refused it.                             *)
Enter(r, keys, variant) ==
  Append(levels[r], [keys |-> keys, variant |-> variant,
                     mcp |-> r \in WithMCP /\ ~noted, at |-> "first"])

-----------------------------------------------------------------------------
(* A run from its call to its child.                                       *)

(* createOpenCodeRunState: a run that starts while the parent shuts down   *)
(* is cancelled from the outset.                                           *)
Start(r) ==
  /\ pc[r] = "idle"
  /\ IF parent = "up"
     THEN Goto(r, "setup") /\ UNCHANGED <<stopped, result>>
     ELSE /\ stopped' = stopped \union {r}
          /\ Yield(r, "stopped") /\ Goto(r, "done")
  /\ UNCHANGED <<parent, ladder, processes, cut>>

(* The binary is installed and probed, the store of the run made; what     *)
(* fails there is thrown to the caller.                                    *)
SetUp(r) ==
  /\ pc[r] = "setup"
  /\ \/ /\ ~Stopped(r)
        /\ levels' = [levels EXCEPT ![r] = Enter(r, r \in WithKeys, r \in WithVariant)]
        /\ Goto(r, "spawn") /\ UNCHANGED result
     \/ /\ Yield(r, IF Stopped(r) THEN "stopped" ELSE "other")
        /\ Goto(r, "done") /\ UNCHANGED levels
  /\ UNCHANGED <<parent, noted, stopped, processes, cut>>

(* Mutation: only the first attempt asks whether the run was stopped.      *)
SpawnRetrying(r) ==
  /\ pc[r] = "spawn"
  /\ IF Stopped(r) /\ Top(r).at = "first"
     THEN Yield(r, "stopped") /\ Goto(r, "returned") /\ UNCHANGED processes
     ELSE /\ child' = [child EXCEPT ![r] = "alive"]
          /\ active' = [active EXCEPT ![r] = TRUE]
          /\ registered' = registered \union {r}
          /\ Goto(r, "running") /\ UNCHANGED <<result, timer, tries>>
  /\ UNCHANGED <<parent, ladder, stopped, cut>>

(* executeOnce: the last look at the deadline and the signals, the spawn   *)
(* and the registration are one turn of the event loop.                    *)
Spawn(r) ==
  /\ pc[r] = "spawn"
  /\ IF Stopped(r)
     THEN Yield(r, "stopped") /\ Goto(r, "returned") /\ UNCHANGED processes
     ELSE \/ /\ child' = [child EXCEPT ![r] = "alive"]
             /\ active' = [active EXCEPT ![r] = TRUE]
             /\ registered' = registered \union {r}
             /\ Goto(r, "running") /\ UNCHANGED <<result, timer, tries>>
          \/ /\ Yield(r, "other") /\ Goto(r, "settled")    \* spawn fails
             /\ UNCHANGED processes
  /\ UNCHANGED <<parent, ladder, stopped, cut>>

(* Mutation: the registry forgets a child the moment its run settles.      *)
SettleForgetting(r, retained) ==
  /\ active' = [active EXCEPT ![r] = FALSE]
  /\ timer' = [timer EXCEPT ![r] = FALSE]
  /\ registered' = registered \ {r}

(* finishChild and clearActiveChild: the run lets go of its child; the     *)
(* registry keeps one that has not been seen to end.                       *)
Settle(r, retained) ==
  /\ active' = [active EXCEPT ![r] = FALSE]
  /\ timer' = [timer EXCEPT ![r] = FALSE]
  /\ registered' = IF retained THEN registered ELSE registered \ {r}

(* Mutation: the exit code decides, also of a run that was stopped.        *)
ExitAsCoded(r, outcome) ==
  /\ child[r] # "none"
  /\ child' = [child EXCEPT ![r] = "none"]
  /\ IF active[r]
     THEN /\ Settle(r, FALSE)
          /\ Yield(r, outcome) /\ Goto(r, "settled")
     ELSE /\ registered' = registered \ {r}
          /\ UNCHANGED <<active, timer, result, pc>>
  /\ UNCHANGED <<parent, ladder, stopped, tries, cut>>

(* The process ends and its close event arrives.                           *)
Exit(r, outcome) ==
  /\ child[r] # "none"
  /\ child' = [child EXCEPT ![r] = "none"]
  /\ IF active[r]
     THEN /\ Settle(r, FALSE)
          /\ Yield(r, IF Stopped(r) THEN "stopped" ELSE outcome) /\ Goto(r, "settled")
     ELSE /\ registered' = registered \ {r}
          /\ UNCHANGED <<active, timer, result, pc>>
  /\ UNCHANGED <<parent, ladder, stopped, tries, cut>>

-----------------------------------------------------------------------------
(* Retries.                                                                *)

KeysRefused(r) == result[r] = "keys" /\ Top(r).keys
VariantRefused(r) == result[r] = "variant" /\ Top(r).variant

(* The executeOnce of the top level goes on after its child: without the   *)
(* options the CLI refused, the whole run is called again inside it.       *)
CallAgain(r) ==
  /\ pc[r] = "settled"
  /\ \/ /\ KeysRefused(r) /\ ~Stopped(r)
        /\ levels' = [levels EXCEPT ![r] = Enter(r, FALSE, Top(r).variant)]
        /\ Goto(r, "spawn")
     \/ /\ VariantRefused(r) /\ ~Stopped(r)
        /\ levels' = [levels EXCEPT ![r] = Enter(r, Top(r).keys, FALSE)]
        /\ Goto(r, "spawn")
     \/ /\ Stopped(r) \/ ~(KeysRefused(r) \/ VariantRefused(r))
        /\ Goto(r, "returned") /\ UNCHANGED levels
  /\ UNCHANGED <<parent, noted, stopped, processes, cut, result>>

NeedsStrippedMCP(r) == Top(r).at = "first" /\ Top(r).mcp /\ result[r] = "mcp"
NeedsNetworkRetry(r) == Top(r).at \in {"first", "mcp"} /\ r \in Resuming /\ result[r] = "net"
NeedsFullRun(r) == Top(r).at = "resume" /\ result[r] # "ok"
Again(r) == /\ result[r] # "ok" /\ ~Stopped(r)
            /\ NeedsStrippedMCP(r) \/ NeedsNetworkRetry(r) \/ NeedsFullRun(r)

Advance(r, place) ==
  /\ levels' = [levels EXCEPT ![r][Len(levels[r])].at = place]
  /\ Goto(r, "spawn")

(* Once more without the refused half of the mcp block; after a network    *)
(* error, by resuming the session if its id is known, or as a full run.    *)
Retry(r) ==
  /\ pc[r] = "returned" /\ levels[r] # <<>> /\ Again(r)
  /\ \/ NeedsStrippedMCP(r) /\ Advance(r, "mcp") /\ noted' = TRUE
     \/ NeedsNetworkRetry(r) /\ Advance(r, "resume") /\ UNCHANGED noted
     \/ (NeedsNetworkRetry(r) \/ NeedsFullRun(r)) /\ Advance(r, "full") /\ UNCHANGED noted
  /\ UNCHANGED <<parent, stopped, processes, cut, result>>

(* A call returns its last attempt, to the attempt that made it or to the  *)
(* caller of the run.                                                      *)
Return(r) ==
  /\ pc[r] = "returned" /\ levels[r] # <<>> /\ ~Again(r)
  /\ levels' = [levels EXCEPT ![r] = SubSeq(levels[r], 1, Len(levels[r]) - 1)]
  /\ IF Len(levels[r]) = 1 THEN Goto(r, "done") ELSE UNCHANGED pc
  /\ UNCHANGED <<parent, noted, stopped, processes, cut, result>>

-----------------------------------------------------------------------------
(* Termination.                                                            *)

(* terminateOpenCodeRun, for a set of runs at once: a child is sent        *)
(* SIGTERM and its timer armed once.                                       *)
Terminate(rs) ==
  /\ stopped' = stopped \union rs
  /\ timer' = [r \in Runs |-> timer[r] \/ (r \in rs /\ active[r])]
  /\ cut' = cut \union {r \in rs : active[r]}
  /\ UNCHANGED <<active, tries>>

Term(rs) == [r \in Runs |-> IF r \in rs /\ child[r] = "alive" THEN "termed" ELSE child[r]]
Live == {r \in Runs : pc[r] \notin {"idle", "done"}}

(* The deadline of the run, or its caller's signal.                        *)
Halt(r) ==
  /\ r \in Live /\ ~Stopped(r)
  /\ Terminate({r})
  /\ child' = Term({s \in {r} : active[s]})
  /\ UNCHANGED <<parent, ladder, pc, result, registered>>

(* Mutation: a SIGKILL that is not delivered is not sent again.            *)
ForceKillOnce(r) ==
  /\ timer[r]
  /\ tries' = [tries EXCEPT ![r] = @ + 1]
  /\ \/ /\ child' = [child EXCEPT ![r] = "killed"]
        /\ Settle(r, TRUE)
        /\ Yield(r, "stopped") /\ Goto(r, "settled")
     \/ /\ UNCHANGED <<child, active, registered, result, pc>>
        /\ timer' = [timer EXCEPT ![r] = FALSE]
  /\ UNCHANGED <<parent, ladder, stopped, cut>>

(* The timer after SIGTERM, or after a SIGKILL that was not delivered: the *)
(* run settles once the signal is accepted, the group is known to be gone, *)
(* or the attempts are used up, and leaves the process to the registry.    *)
ForceKill(r) ==
  /\ timer[r]
  /\ tries' = [tries EXCEPT ![r] = @ + 1]
  /\ \/ /\ child' = [child EXCEPT ![r] = "killed"]
        /\ Settle(r, TRUE)
        /\ Yield(r, "stopped") /\ Goto(r, "settled")
     \/ /\ child' = [child EXCEPT ![r] = "none"]
        /\ Settle(r, FALSE)
        /\ Yield(r, "stopped") /\ Goto(r, "settled")
     \/ /\ UNCHANGED child
        /\ IF tries[r] + 1 < Attempts
           THEN UNCHANGED <<active, timer, registered, result, pc>>
           ELSE /\ Settle(r, TRUE)
                /\ Yield(r, "stopped") /\ Goto(r, "settled")
  /\ UNCHANGED <<parent, ladder, stopped, cut>>

-----------------------------------------------------------------------------
(* The parent process.                                                     *)

(* terminateAllManagedProcessGroups("SIGKILL").                            *)
KillAll == child' = [r \in Runs |-> IF r \in registered THEN "killed" ELSE child[r]]

(* handleParentSignal, the first signal: every run is cancelled through    *)
(* its composed signal, every registered group is sent SIGTERM, and with   *)
(* none there the parent goes at once.                                     *)
Signal ==
  /\ parent = "up"
  /\ Terminate(Live)
  /\ child' = Term(registered)
  /\ parent' = IF registered = {} THEN "dead" ELSE "shutting"
  /\ UNCHANGED <<ladder, pc, result, registered>>

(* The second signal or the end of the grace period, and the exit handler. *)
Die ==
  /\ parent # "dead"
  /\ parent = "shutting" \/ Live = {}
  /\ KillAll
  /\ parent' = "dead"
  /\ UNCHANGED <<ladder, pc, result, stopped, active, registered, timer, tries, cut>>

-----------------------------------------------------------------------------
Proceed(r) == SetUp(r) \/ Spawn(r) \/ CallAgain(r) \/ Retry(r) \/ Return(r)
Ends(r) == \E outcome \in {"ok"} \union Failures : Exit(r, outcome)

(* Only what the system does itself happens once the parent is dead.       *)
Next ==
  \/ /\ parent # "dead"
     /\ \E r \in Runs : Start(r) \/ Proceed(r) \/ Ends(r) \/ Halt(r) \/ ForceKill(r)
  \/ Signal
  \/ Die

Spec == Init /\ [][Next]_vars

(* The event loop turns and timers fire.  A child need never end.          *)
FairSpec ==
  /\ Spec
  /\ \A r \in Runs : /\ WF_vars(parent # "dead" /\ Proceed(r))
                     /\ WF_vars(parent # "dead" /\ ForceKill(r))

-----------------------------------------------------------------------------
(* Properties.                                                             *)

(* Every process a run has spawned and that has not been seen to end is in *)
(* the registry, whether or not its run has settled: the parent can still  *)
(* reach it (scheduleForceKill, "retaining registry ownership").           *)
EveryChildOwned == \A r \in Runs : child[r] # "none" => r \in registered

(* When the parent dies by its signal or its exit, SIGKILL has gone to     *)
(* every process that had not ended.                                       *)
NoSurvivors == parent = "dead" => \A r \in Runs : child[r] \in {"none", "killed"}

(* A run whose deadline, caller or parent stopped it spawns no more, in    *)
(* whichever retry it is.                                                  *)
StoppedSpawnsNothing ==
  [][\A r \in Runs : Stopped(r) /\ ~active[r] => ~active'[r]]_vars

(* The output of a child that was cut short is never taken for a result.   *)
CutNeverSucceeds == \A r \in cut : pc[r] = "done" => result[r] = "stopped"

(* Once stopped, a run returns, even if its child ignores SIGTERM and      *)
(* SIGKILL cannot be delivered, as long as the parent lives.               *)
StoppedReturns == \A r \in Runs : Stopped(r) ~> (pc[r] = "done" \/ parent = "dead")
=============================================================================

----------------------------- MODULE FixAction -----------------------------
(***************************************************************************)
(* A run of the Action in a fix mode: the loop or the single pass, beside  *)
(* what others do to the pull request and to the run, and then the post    *)
(* step of action/src/post.ts in its own process, which runs the checks    *)
(* once more unless it finds the workspace holding edits that never        *)
(* landed.                                                                 *)
(***************************************************************************)
EXTENDS AutofixLoop, SingleFix

CONSTANT Modes  \* the entry points: a subset of {"loop", "once"}

ASSUME ModesAssumption == Modes \subseteq {"loop", "once"}

VARIABLE posted  \* what the post step measured: "", "skipped", or the tree

actionVars == <<branchVars, loop, once, posted>>

TypeOK ==
  /\ BranchTypeOK /\ LoopTypeOK /\ OnceTypeOK
  /\ posted \in {"", "skipped", "clean", "dirty", "ahead"}

Init ==
  /\ BranchInit /\ LoopInit /\ OnceInit
  /\ posted = ""
  /\ \E mode \in Modes : pc = IF mode = "loop" THEN "fetch" ELSE "once: count"

Running == pc \notin {"done", "over"}

(* runPost: no checks, a reason that says the workspace is the agent's, or *)
(* a workspace with uncommitted edits.  A commit that is only here is seen *)
(* when the local branch follows a remote one, which checkout -B does not  *)
(* arrange.                                                                *)
Post ==
  /\ pc = "done"
  /\ \/ /\ posted' = "skipped"
        /\ checks # "valid" \/ MutatedTree(saved) \/ tree \in {"dirty", "ahead"}
     \/ /\ checks = "valid" /\ ~MutatedTree(saved) /\ tree # "dirty"
        /\ posted' = tree
  /\ Goto("over")
  /\ UNCHANGED <<remote, work, report, pushed, aborted, v, checks, loop, once>>

InLoop == LoopStep /\ UNCHANGED <<checks, once, posted>>
InOnce == OnceStep /\ UNCHANGED <<checks, loop, posted>>
Others == Running /\ (ForeignPush \/ ClosePR \/ Abort) /\ UNCHANGED <<checks, loop, once, posted>>

Next == InLoop \/ InOnce \/ Others \/ Post

Spec == Init /\ [][Next]_actionVars

(* Every await of a run returns: the calls to the platform have timeouts,  *)
(* the agent and the checks are killed at theirs.                          *)
FairSpec ==
  /\ Spec
  /\ WF_actionVars(InLoop)
  /\ WF_actionVars(InOnce)
  /\ WF_actionVars(Post)

-----------------------------------------------------------------------------
(* Properties.                                                             *)

(* A commit the configured checks did not pass never leaves a green job:   *)
(* whatever later iterations, reviews and approvals say, a run that ends   *)
(* with a workspace last measured red, or not measured since its last      *)
(* edit, has failed, unless the pull request was closed (fix.ts, the       *)
(* fail-closed verification state).                                        *)
UnverifiedPushFailsJob ==
  ~Running /\ open /\ own > 0 /\ checks # "none" /\ measured # "green" => failed

(* When a run ends and no change of labels was lost, autofix:ready stands  *)
(* only on a pull request it approved without failing.                     *)
ReadyIsEarned == ~Running /\ "ready" \in labels /\ ~lost => approved /\ ~failed

(* The checks of the head that approve a pull request are those of a head  *)
(* with every commit this run has pushed.                                  *)
GateSeesOwnCommits == approved => gated >= base

(* A single pass never reports changes_made when a commit of it was left   *)
(* behind in the workspace.                                                *)
LostPushNotReported == output = "true" => tree # "ahead"

(* A run ends, however others and the checks behave.                       *)
RunEnds == <>(pc = "over")

(* What the types of the engine say of FixResult.heldForApproval: a fix it *)
(* is set for is held instead of being pushed.                             *)
HeldIsNotPushed == ~heldOut

(* What fix.ts says of its check before the push: no commit goes onto the  *)
(* branch of a pull request closed while the agent was running.            *)
NoPushAfterClose == ~lateOut
=============================================================================

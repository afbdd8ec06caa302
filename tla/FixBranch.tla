----------------------------- MODULE FixBranch -----------------------------
(***************************************************************************)
(* What the fix modes of the Action work on (action/src/fix.ts): the       *)
(* pull request, which others push to and close meanwhile, and the         *)
(* workspace, which the fix agent edits and git commits and pushes from.   *)
(*                                                                         *)
(* Commits of the branch are numbered in the order they reach it.  A push  *)
(* is never forced, so it fails when the branch has moved on, and may fail *)
(* for any other reason.  What a step leaves alone it says itself.         *)
(***************************************************************************)
EXTENDS Naturals

CONSTANTS MaxForeign,  \* bound on the pushes of others
          Settings,    \* what run_checks_after_fix may be: none, valid, rejected
          MaxRetries   \* MAX_VERIFICATION_RETRIES

ASSUME BranchAssumption ==
  /\ MaxForeign \in Nat /\ MaxRetries \in Nat
  /\ Settings \subseteq {"none", "valid", "rejected"}

VARIABLES checks,    \* run_checks_after_fix: unset, parsed, or refused
          pc,        \* where the run of the Action is
          head,      \* the newest commit of the branch
          open,      \* the pull request is neither merged nor closed
          base,      \* the newest commit of the branch the workspace holds
          tree,      \* the workspace: clean, dirty, or ahead of the branch
          measured,  \* what the checks said of the workspace as it is now
          labels,    \* of the autofix labels, those the pull request has
          aborted,   \* the run's signal: its deadline, or a cancellation
          failed,    \* core.setFailed was called
          saved,     \* STATE_fix_exit_reason, what the post step is told
          v,         \* the attempt of the verification, from 0
          held,      \* the safety check holds the edit in the workspace
          own,       \* history: commits this run has pushed
          lost,      \* history: a change of labels failed
          heldOut,   \* history: an edit that was held has been pushed
          lateOut    \* history: a commit was pushed after the closing

remote == <<head, open, own>>
work == <<base, tree, measured, held>>
report == <<labels, lost, failed, saved>>
pushed == <<heldOut, lateOut>>
branchVars == <<checks, pc, remote, work, report, pushed, aborted, v>>

BranchTypeOK ==
  /\ checks \in Settings
  /\ own \in Nat /\ head \in own .. own + MaxForeign /\ base \in 0..head
  /\ tree \in {"clean", "dirty", "ahead"}
  /\ measured \in {"none", "green", "red"}
  /\ labels \subseteq {"autofix", "needs-fix", "ready", "manual"}
  /\ v \in 0..MaxRetries
  /\ {open, aborted, failed, held, lost, heldOut, lateOut} \subseteq BOOLEAN

(* The workspace was checked out at the head the Action was started for.   *)
BranchInit ==
  /\ checks \in Settings
  /\ head = 0 /\ base = 0 /\ own = 0 /\ open = TRUE
  /\ tree = "clean" /\ measured = "none" /\ held = FALSE /\ v = 0
  /\ labels = {"autofix"} /\ lost = FALSE
  /\ aborted = FALSE /\ failed = FALSE /\ saved = "unset"
  /\ heldOut = FALSE /\ lateOut = FALSE

Goto(place) == pc' = place

-----------------------------------------------------------------------------
(* Others.                                                                 *)

ForeignPush ==
  /\ open /\ head - own < MaxForeign
  /\ head' = head + 1
  /\ UNCHANGED <<pc, open, own, work, report, pushed, aborted, v>>

ClosePR ==
  /\ open
  /\ open' = FALSE
  /\ UNCHANGED <<pc, head, own, work, report, pushed, aborted, v>>

Abort ==
  /\ ~aborted
  /\ aborted' = TRUE
  /\ UNCHANGED <<pc, remote, work, report, pushed, v>>

-----------------------------------------------------------------------------
(* The workspace.                                                          *)

(* The engine's runFix edits it, only in ignored files (or the notes that  *)
(* are unlinked again) when the tree stays as it was; a failed or stopped  *)
(* run of the agent may have edited it too.                                *)
AgentEdits ==
  /\ tree' \in {tree, "dirty"}
  /\ measured' = "none"
  /\ held' \in (IF tree' = "dirty" THEN BOOLEAN ELSE {FALSE})
  /\ UNCHANGED base

AgentLeaves == UNCHANGED work

(* git add, commit, checkout -B and push.                                  *)
PushEdits ==
  /\ tree = "dirty" /\ base = head
  /\ head' = head + 1 /\ base' = head' /\ own' = own + 1
  /\ tree' = "clean" /\ held' = FALSE
  /\ heldOut' = (heldOut \/ held)
  /\ lateOut' = (lateOut \/ ~open)
  /\ UNCHANGED <<open, measured>>

(* One of them fails: the edit stays uncommitted, or committed here only.  *)
GitFails ==
  /\ tree' \in (IF tree = "dirty" THEN {"dirty", "ahead"} ELSE {tree})
  /\ UNCHANGED <<remote, base, measured, held, pushed>>

(* One run of the configured checks.                                       *)
MeasureAs(verdict) ==
  /\ measured' = verdict
  /\ UNCHANGED <<base, tree, held>>

-----------------------------------------------------------------------------
(* Labels are changed in one call; when it fails after its retries the run *)
(* goes on.                                                                *)
SetLabels(added, removed) ==
  \/ /\ labels' = (labels \ removed) \union added
     /\ UNCHANGED lost
  \/ /\ lost' = TRUE
     /\ UNCHANGED labels

Stop(reason) == saved' = reason /\ Goto("done")
=============================================================================

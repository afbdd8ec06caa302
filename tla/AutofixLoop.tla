---------------------------- MODULE AutofixLoop ----------------------------
(***************************************************************************)
(* runAutofixLoop() of action/src/fix.ts: review the pull request, have    *)
(* the agent fix what was found, push, verify, and start over, up to       *)
(* maxIterations times, until the review is clean and the checks of the    *)
(* head are green.  Every await is a step, so others push, close the pull  *)
(* request or abort the run between any two of them.                       *)
(*                                                                         *)
(* Findings are one value: a review is "clean", has "findings", is         *)
(* "empty", or was "skipped" because the engine joined another one.        *)
(***************************************************************************)
EXTENDS FixBranch

CONSTANT MaxIterations  \* config.maxIterations

ASSUME LoopAssumption == MaxIterations \in Nat \ {0}

VARIABLES i,           \* the iteration, from 0
          sha,         \* prHeadSha: the head last fetched
          result,      \* the review of this iteration
          reused,      \* skippedPostReview: it is the one on the pull request
          reason,      \* exitReason
          unverified,  \* verificationFailed
          approved,
          gated        \* history: the head whose checks let the loop approve

loop == <<i, sha, result, reused, reason, unverified, approved, gated>>

LoopTypeOK ==
  /\ i \in 0..MaxIterations
  /\ sha \in 0..head /\ gated \in 0..head
  /\ result \in {"none", "clean", "findings"}
  /\ reason \in {"approved", "no-changes", "git-failure", "ci-waiting",
                 "verification-failed", "review-undelivered", "exhausted"}
  /\ {reused, unverified, approved} \subseteq BOOLEAN

LoopInit ==
  /\ i = 0 /\ sha = 0 /\ gated = 0
  /\ result = "none" /\ reused = FALSE /\ reason = "exhausted"
  /\ unverified = FALSE /\ approved = FALSE

(* Mutation: an iteration that is continued is not counted.                *)
NextIterationUncounted ==
  /\ UNCHANGED i
  /\ Goto("fetch")

(* continue: the next iteration, or the end of the loop.                   *)
NextIteration ==
  /\ i' = i + 1
  /\ Goto(IF i + 1 < MaxIterations THEN "fetch" ELSE "terminal")

(* break.                                                                  *)
LeaveFor(why) == reason' = why /\ Goto("terminal")

others == <<remote, work, pushed, aborted>>
idle == <<v, sha, result, reused, unverified, approved, gated>>

-----------------------------------------------------------------------------
(* The head is fetched.  In the first iteration the review it already      *)
(* carries, if there is one, is taken over.  A wait for CI does not        *)
(* outlive the iteration it ended.                                         *)
Fetch ==
  /\ pc = "fetch"
  /\ reason' = (IF reason = "ci-waiting" THEN "exhausted" ELSE reason)
  /\ UNCHANGED <<others, labels, lost, i, v, unverified, approved, gated>>
  /\ \/ /\ failed' = TRUE
        /\ Stop("context-failure")
        /\ UNCHANGED <<sha, result, reused>>
     \/ /\ aborted
        /\ Goto("graceful")
        /\ UNCHANGED <<failed, saved, sha, result, reused>>
     \/ /\ ~aborted
        /\ sha' = head
        /\ UNCHANGED <<failed, saved>>
        /\ \/ /\ Goto("review")
              /\ result' = "none" /\ reused' = FALSE
           \/ /\ i = 0
              /\ Goto("deliver")
              /\ result' \in {"clean", "findings"} /\ reused' = TRUE

(* engine.reviewPR returns; the head that was reviewed is sha.             *)
Review ==
  /\ pc = "review"
  /\ UNCHANGED <<others, report, v, sha, reused, unverified, approved, gated>>
  /\ \/ /\ aborted
        /\ Goto("graceful")
        /\ UNCHANGED <<i, result, reason>>
     \/ /\ ~aborted            \* skipped
        /\ NextIteration
        /\ UNCHANGED <<result, reason>>
     \/ /\ ~aborted            \* empty
        /\ LeaveFor("no-changes")
        /\ UNCHANGED <<i, result>>
     \/ /\ ~aborted
        /\ result' \in {"clean", "findings"}
        /\ Goto("refresh")
        /\ UNCHANGED <<i, reason>>

(* Mutation: verdict and gate stay with the commit the run started for.    *)
RefreshNothing ==
  /\ pc = "refresh"
  /\ sha' = 0
  /\ Goto("deliver")
  /\ UNCHANGED <<others, report, i, v, result, reused, reason, unverified, approved,
                 gated>>

(* The head is fetched again, for the verdict and for the CI gate.         *)
Refresh ==
  /\ pc = "refresh"
  /\ UNCHANGED <<others, report, v, result, reused, reason, unverified, approved, gated>>
  /\ \/ /\ NextIteration
        /\ UNCHANGED sha
     \/ /\ sha' = head
        /\ Goto("deliver")
        /\ UNCHANGED i

AfterDelivery == IF result = "clean" THEN "gate" ELSE "context"

(* postReview: an answer without success is as good as an exception, the   *)
(* iteration ends without approval, fix or commit.                         *)
Deliver ==
  /\ pc = "deliver"
  /\ UNCHANGED <<others, failed, saved, idle>>
  /\ \/ /\ Goto(AfterDelivery)
        /\ UNCHANGED <<labels, lost, i, reason>>
     \/ /\ ~reused
        /\ SetLabels({"autofix"}, {"ready"})
        /\ reason' = "review-undelivered"
        /\ NextIteration

(* checkHeadCIGreen on sha: anything but a finished, successful rollup     *)
(* keeps the pull request waiting.                                         *)
Gate ==
  /\ pc = "gate"
  /\ UNCHANGED <<others, failed, saved, v, sha, result, reused, unverified>>
  /\ \/ /\ approved' = TRUE /\ gated' = sha
        /\ SetLabels({"ready"}, {"autofix", "needs-fix"})
        /\ LeaveFor("approved")
        /\ UNCHANGED i
     \/ /\ SetLabels({"autofix"}, {"ready"})
        /\ reason' = "ci-waiting"
        /\ NextIteration
        /\ UNCHANGED <<approved, gated>>

GatherContext ==
  /\ pc = "context"
  /\ UNCHANGED <<others, labels, lost, v, loop>>
  /\ \/ /\ failed' = TRUE
        /\ Stop("context-failure")
     \/ /\ Goto("fix")
        /\ UNCHANGED <<failed, saved>>

(* engine.runFix returns.                                                  *)
Fix ==
  /\ pc = "fix"
  /\ UNCHANGED <<remote, pushed, aborted, report, i, idle>>
  /\ \/ /\ AgentEdits
        /\ \/ aborted /\ Goto("graceful") /\ UNCHANGED reason
           \/ ~aborted /\ LeaveFor("no-changes")   \* stuck
           \/ ~aborted /\ Goto("commit") /\ UNCHANGED reason
     \/ /\ AgentLeaves
        /\ IF aborted THEN Goto("graceful") /\ UNCHANGED reason
                      ELSE LeaveFor("no-changes")

(* Where the iteration goes once its edit is pushed, or was none.          *)
StartChecks ==
  CASE checks = "none" -> NextIteration /\ UNCHANGED <<v, unverified>>
    [] checks = "rejected" -> unverified' = TRUE /\ NextIteration /\ UNCHANGED v
    [] checks = "valid" -> v' = 0 /\ Goto("verify") /\ UNCHANGED <<i, unverified>>

Commit ==
  /\ pc = "commit"
  /\ UNCHANGED <<report, aborted, sha, result, reused, approved, gated>>
  /\ \/ tree = "clean" /\ StartChecks /\ UNCHANGED <<remote, work, pushed, reason>>
     \/ PushEdits /\ StartChecks /\ UNCHANGED reason
     \/ /\ tree = "dirty"
        /\ GitFails
        /\ LeaveFor("git-failure")
        /\ UNCHANGED <<i, v, unverified>>

-----------------------------------------------------------------------------
(* Verification, and the agent's retries with its output.                  *)

GiveUpVerifying == unverified' = TRUE /\ NextIteration

(* Mutation: the last attempt is not counted as a failure.                 *)
VerifyForgivingLast ==
  /\ pc = "verify"
  /\ UNCHANGED <<remote, pushed, report, aborted, v, sha, result, reused, reason, approved, gated>>
  /\ \/ /\ aborted
        /\ Goto("graceful")
        /\ UNCHANGED <<work, i, unverified>>
     \/ /\ ~aborted
        /\ MeasureAs("green")
        /\ unverified' = FALSE
        /\ NextIteration
     \/ /\ ~aborted
        /\ MeasureAs("red")
        /\ IF v < MaxRetries THEN Goto("refetch") /\ UNCHANGED <<i, unverified>>
                             ELSE NextIteration /\ UNCHANGED unverified

Verify ==
  /\ pc = "verify"
  /\ UNCHANGED <<remote, pushed, report, aborted, v, sha, result, reused, reason, approved, gated>>
  /\ \/ /\ aborted
        /\ Goto("graceful")
        /\ UNCHANGED <<work, i, unverified>>
     \/ /\ ~aborted
        /\ MeasureAs("green")
        /\ unverified' = FALSE
        /\ NextIteration
     \/ /\ ~aborted
        /\ MeasureAs("red")
        /\ IF v < MaxRetries THEN Goto("refetch") /\ UNCHANGED <<i, unverified>>
                             ELSE GiveUpVerifying

(* The pull request and its context, for the agent to try again.  The two  *)
(* ways out of here and of RetryFix when aborted do not save the reason.   *)
Refetch ==
  /\ pc = "refetch"
  /\ UNCHANGED <<others, report, v, sha, result, reused, reason, approved, gated>>
  /\ \/ aborted /\ Goto("graceful unsaved") /\ UNCHANGED <<i, unverified>>
     \/ ~aborted /\ GiveUpVerifying
     \/ ~aborted /\ Goto("retry") /\ UNCHANGED <<i, unverified>>

RetryFix ==
  /\ pc = "retry"
  /\ UNCHANGED <<remote, pushed, report, aborted, v, sha, result, reused, reason, approved, gated>>
  /\ \/ /\ aborted
        /\ AgentEdits \/ AgentLeaves
        /\ Goto("graceful unsaved")
        /\ UNCHANGED <<i, unverified>>
     \/ ~aborted /\ AgentLeaves /\ GiveUpVerifying
     \/ ~aborted /\ AgentEdits /\ Goto("recommit") /\ UNCHANGED <<i, unverified>>

Recommit ==
  /\ pc = "recommit"
  /\ UNCHANGED <<labels, lost, saved, aborted, sha, result, reused, approved, gated>>
  /\ \/ /\ tree = "clean"
        /\ GiveUpVerifying
        /\ UNCHANGED <<remote, work, pushed, failed, reason, v>>
     \/ /\ PushEdits
        /\ v' = v + 1 /\ Goto("verify")
        /\ UNCHANGED <<failed, reason, i, unverified>>
     \/ /\ tree = "dirty"
        /\ GitFails
        /\ failed' = TRUE
        /\ LeaveFor("git-failure")
        /\ UNCHANGED <<i, v, unverified>>

-----------------------------------------------------------------------------
(* The ends of a run.                                                      *)

(* handleTimeoutGracefully: what the agent has done so far is pushed.      *)
Graceful ==
  /\ pc \in {"graceful", "graceful unsaved"}
  /\ \/ tree = "clean" /\ UNCHANGED <<remote, work, pushed>>
     \/ PushEdits
     \/ tree = "dirty" /\ GitFails
  /\ failed' = TRUE
  /\ saved' = IF pc = "graceful" THEN "cancelled" ELSE saved
  /\ Goto("done")
  /\ UNCHANGED <<labels, lost, aborted, v, loop>>

MutatedTree(why) == why \in {"no-changes", "git-failure"}
ManualReview == SetLabels({"manual"}, {"autofix", "needs-fix", "ready"})

(* Mutation: a failed verification only adds its label.                    *)
TerminalKeepingReady ==
  /\ pc = "terminal"
  /\ IF unverified THEN SetLabels({"manual"}, {"autofix", "needs-fix"}) /\ failed' = TRUE
     ELSE IF approved \/ reason = "ci-waiting" THEN UNCHANGED <<labels, lost, failed>>
     ELSE ManualReview /\ failed' = TRUE
  /\ Stop(reason)
  /\ UNCHANGED <<others, v, loop>>

(* A red verification no later one has cleared overrides the reason, an    *)
(* approval included, except when the workspace holds edits of the agent   *)
(* that never landed.                                                      *)
Terminal ==
  /\ pc = "terminal"
  /\ UNCHANGED <<others, i, v, sha, result, reused, unverified, approved, gated>>
  /\ LET red == unverified /\ ~MutatedTree(reason)
     IN /\ reason' = IF red THEN "verification-failed" ELSE reason
        /\ IF red \/ (~approved /\ reason # "ci-waiting")
           THEN ManualReview /\ failed' = TRUE
           ELSE UNCHANGED <<labels, lost, failed>>
        /\ Stop(reason')

LoopStep ==
  Fetch \/ Review \/ Refresh \/ Deliver \/ Gate \/ GatherContext \/ Fix \/ Commit
    \/ Verify \/ Refetch \/ RetryFix \/ Recommit \/ Graceful \/ Terminal
=============================================================================

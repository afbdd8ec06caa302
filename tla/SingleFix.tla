----------------------------- MODULE SingleFix -----------------------------
(***************************************************************************)
(* runFix() of action/src/fix.ts: one pass of the fix agent over the       *)
(* review a pull request already has, one push, and the verification of    *)
(* it with the agent's retries.                                            *)
(***************************************************************************)
EXTENDS FixBranch

VARIABLES seen,    \* the pull request was open when it was last fetched
          output   \* changes_made

once == <<seen, output>>

OnceTypeOK == seen \in BOOLEAN /\ output \in {"unset", "true", "false"}
OnceInit == seen = TRUE /\ output = "unset"

outside == <<remote, aborted>>

StopWith(reason, out) == output' = out /\ Stop(reason)
FailWith(reason, out) == failed' = TRUE /\ StopWith(reason, out)
Made == IF own > 0 THEN "true" ELSE "false"

(* The markers of the reviews are counted; a list that cannot be had whole *)
(* ends the run, and so does one with maxIterations of them.               *)
Count ==
  /\ pc = "once: count"
  /\ UNCHANGED <<outside, work, pushed, v, seen>>
  /\ \/ Goto("once: fetch") /\ UNCHANGED <<report, output>>
     \/ FailWith("context-failure", "false") /\ UNCHANGED <<labels, lost>>
     \/ /\ SetLabels({"manual"}, {"autofix", "needs-fix", "ready"})
        /\ FailWith("exhausted", "false")

FetchOnce ==
  /\ pc = "once: fetch"
  /\ UNCHANGED <<outside, work, pushed, v, labels, lost>>
  /\ \/ seen' = open /\ Goto("once: fix") /\ UNCHANGED <<failed, saved, output>>
     \/ FailWith("context-failure", "false") /\ UNCHANGED seen

(* engine.runFix returns; that the agent was stuck is not looked at.       *)
FixOnce ==
  /\ pc = "once: fix"
  /\ UNCHANGED <<outside, pushed, v, seen, labels, lost>>
  /\ \/ aborted /\ (AgentEdits \/ AgentLeaves) /\ FailWith("cancelled", "false")
     \/ /\ ~aborted
        /\ UNCHANGED <<failed, saved, output>>
        /\ \/ AgentLeaves /\ Goto("once: finish")
           \/ AgentEdits /\ Goto("once: commit")

(* The state of the pull request is the one fetched before the agent ran.  *)
CommitOnce ==
  /\ pc = "once: commit"
  /\ UNCHANGED <<aborted, v, seen, labels, lost>>
  /\ \/ ~seen /\ StopWith("pr-closed", "false") /\ UNCHANGED <<remote, work, pushed, failed>>
     \/ seen /\ GitFails /\ FailWith("git-failure", "false")
     \/ /\ seen /\ PushEdits
        /\ Goto(CASE checks = "none" -> "once: finish"
                  [] checks = "valid" -> "once: verify"
                  [] checks = "rejected" -> "once: unverified")
        /\ UNCHANGED <<failed, saved, output>>

VerifyOnce ==
  /\ pc = "once: verify"
  /\ UNCHANGED <<outside, pushed, v, seen, labels, lost>>
  /\ \/ aborted /\ FailWith("cancelled", Made) /\ UNCHANGED work
     \/ /\ ~aborted
        /\ UNCHANGED <<failed, saved, output>>
        /\ \/ MeasureAs("green") /\ Goto("once: finish")
           \/ /\ MeasureAs("red")
              /\ Goto(IF v < MaxRetries THEN "once: refetch" ELSE "once: unverified")

RefetchOnce ==
  /\ pc = "once: refetch"
  /\ UNCHANGED <<outside, work, pushed, v, report, output>>
  /\ \/ seen' = open /\ Goto("once: retry")
     \/ Goto("once: unverified") /\ UNCHANGED seen

(* A retry that changes nothing has the checks run once more.              *)
RetryOnce ==
  /\ pc = "once: retry"
  /\ UNCHANGED <<outside, pushed, seen, labels, lost>>
  /\ \/ aborted /\ (AgentEdits \/ AgentLeaves) /\ FailWith("cancelled", Made) /\ UNCHANGED v
     \/ /\ ~aborted
        /\ UNCHANGED <<failed, saved, output>>
        /\ \/ AgentLeaves /\ v' = v + 1 /\ Goto("once: verify")
           \/ AgentEdits /\ Goto("once: recommit") /\ UNCHANGED v

(* Mutation: a push that fails is taken for one that went through.         *)
RecommitOnceDeaf ==
  /\ pc = "once: recommit"
  /\ UNCHANGED <<aborted, seen, labels, lost, failed, saved, output>>
  /\ PushEdits \/ GitFails
  /\ v' = v + 1 /\ Goto("once: verify")

RecommitOnce ==
  /\ pc = "once: recommit"
  /\ UNCHANGED <<aborted, seen, labels, lost>>
  /\ \/ ~seen /\ StopWith("pr-closed", "false") /\ UNCHANGED <<remote, work, pushed, v, failed>>
     \/ seen /\ GitFails /\ FailWith("git-failure", "false") /\ UNCHANGED v
     \/ /\ seen /\ PushEdits
        /\ v' = v + 1 /\ Goto("once: verify")
        /\ UNCHANGED <<failed, saved, output>>

Unverified ==
  /\ pc = "once: unverified"
  /\ SetLabels({"manual"}, {"autofix", "needs-fix", "ready"})
  /\ FailWith("verification-failed", Made)
  /\ UNCHANGED <<outside, work, pushed, v, seen>>

Finish ==
  /\ pc = "once: finish"
  /\ SetLabels({}, {"needs-fix"})
  /\ StopWith(IF own > 0 THEN "success" ELSE "no-changes", Made)
  /\ UNCHANGED <<outside, work, pushed, v, failed, seen>>

OnceStep ==
  Count \/ FetchOnce \/ FixOnce \/ CommitOnce \/ VerifyOnce \/ RefetchOnce
    \/ RetryOnce \/ RecommitOnce \/ Unverified \/ Finish
=============================================================================

-------------------------- MODULE FixActionProofs --------------------------
(***************************************************************************)
(* Proofs about the fix modes: a commit that the checks did not pass, a    *)
(* label that was not earned, a gate that saw an old head and a push that  *)
(* was lost, for any number of iterations, retries and pushes of others.   *)
(***************************************************************************)
EXTENDS FixAction, TLAPS

(* Where a run may be: in an iteration, where its last edit has been dealt *)
(* with; from the edit to the end of the iteration; in a single pass,      *)
(* before its push; at its end.                                            *)
Settled == {"fetch", "review", "refresh", "deliver", "gate", "context", "fix"}
Unsettled == {"commit", "verify", "refetch", "retry", "recommit"}
Unpushed == {"once: count", "once: fetch", "once: fix", "once: commit"}
Ended == {"done", "over"}

(* The setting never changes, and an approval ends the loop.               *)
ControlInv ==
  /\ checks \in {"none", "valid", "rejected"}
  /\ approved => pc \in Ended \cup {"terminal"}

(* The commits of the branch, and what the gate has seen of them.          *)
HeadInv ==
  /\ head \in Nat /\ base \in Nat /\ sha \in Nat /\ gated \in Nat
  /\ own \in Nat /\ base <= head
  /\ pc \in {"deliver", "gate"} => sha >= base
  /\ approved => gated >= base

(* The commits of this run passed the checks, if there are any of both.    *)
Proven == checks # "none" /\ own > 0 => measured = "green"

(* An iteration starts from a proven workspace or remembers that it does   *)
(* not; only an approval and a wait for CI leave without failing.          *)
IterationProven == pc \in Settled => unverified \/ Proven
ReasonCurrent == pc \in Settled \cup Unsettled => pc = "fetch" \/ reason # "ci-waiting"
ApprovalReason == pc = "terminal" /\ approved => reason = "approved"
LeftProven ==
  pc = "terminal" /\ reason \in {"approved", "ci-waiting"} => unverified \/ Proven

(* A single pass pushes once before it is verified, and what it saw of the *)
(* pull request was so.                                                    *)
SeenClosed == ~seen => ~open
NothingPushed == pc \in Unpushed => own = 0
FinishProven == pc = "once: finish" => Proven

EndProven == pc \in Ended => failed \/ ~open \/ Proven

CheckInv ==
  /\ IterationProven /\ ReasonCurrent /\ ApprovalReason /\ LeftProven
  /\ SeenClosed /\ NothingPushed /\ FinishProven /\ EndProven

LabelInv ==
  /\ "ready" \in labels => approved
  /\ failed => pc \in Ended \/ (pc = "terminal" /\ ~approved)
  /\ pc \in Ended /\ "ready" \in labels /\ ~lost => ~failed

PushInv ==
  /\ tree = "ahead" => pc \in Ended \cup {"terminal"}
  /\ output = "true" => pc \in Ended /\ tree # "ahead"

USE DEF Settled, Unsettled, Unpushed, Ended

-----------------------------------------------------------------------------
LEMMA InitEstablishes == Init => HeadInv /\ CheckInv /\ LabelInv /\ PushInv /\ ControlInv
<1> SUFFICES ASSUME Init PROVE HeadInv /\ CheckInv /\ LabelInv /\ PushInv /\ ControlInv
  OBVIOUS
<1> USE DEF BranchInit, LoopInit, OnceInit
<1>1. pc \in {"fetch", "once: count"} /\ ~approved /\ ~failed
  BY ModesAssumption DEF Init
<1>2. head = 0 /\ base = 0 /\ sha = 0 /\ gated = 0 /\ own = 0
  BY DEF Init
<1>3. pc \notin {"deliver", "gate", "terminal", "once: finish"} \cup Ended \cup Unsettled
  BY <1>1
<1>4. ~approved
  BY <1>1
<1>5. HeadInv
  BY ONLY <1>2 DEF HeadInv
<1>6. ControlInv
  BY <1>1, BranchAssumption DEF Init, ControlInv
<1>7. open /\ seen /\ reason = "exhausted" /\ tree = "clean" /\ output = "unset"
  BY DEF Init
<1>8. Proven
  BY <1>2 DEF Proven
<1>9. CheckInv
  BY ONLY <1>2, <1>3, <1>4, <1>7, <1>8 DEF CheckInv, IterationProven, ReasonCurrent,
     ApprovalReason,
     LeftProven, SeenClosed, NothingPushed, FinishProven, EndProven
<1>10. labels = {"autofix"}
  BY DEF Init
<1>11. LabelInv /\ PushInv
  BY <1>1, <1>7, <1>10 DEF LabelInv, PushInv
<1> QED
  BY <1>5, <1>6, <1>9, <1>11

(* The parts of the two steps of the workspace that matter here.           *)
LEMMA EditsInPlace ==
  AgentEdits => base' = base /\ measured' = "none" /\ tree' \in {tree, "dirty"}
BY DEF AgentEdits

LEMMA PushLands ==
  PushEdits => /\ base = head /\ head' = head + 1 /\ base' = head + 1 /\ own' = own + 1
               /\ tree' = "clean" /\ open' = open /\ measured' = measured
BY DEF PushEdits

(* Where the workspace may be pushed from, it is, or the heads stay.       *)
HeadStep ==
  \/ UNCHANGED <<head, base, own>>
  \/ head' = head + 1 /\ base' = head + 1 /\ own' = own + 1

LEMMA HeadsMove == Commit \/ Graceful \/ CommitOnce \/ RecommitOnce => HeadStep
BY PushLands DEF HeadStep, Commit, Graceful, CommitOnce, RecommitOnce, GitFails,
   remote, work

(* Only the gate approves, and the loop leaves for its end with it.        *)
LEMMA ApprovalPreserved == ControlInv /\ [Next]_actionVars => ControlInv'
<1> SUFFICES ASSUME ControlInv, [Next]_actionVars PROVE ControlInv'
  OBVIOUS
<1> USE DEF ControlInv, Goto, loop, once, others, idle, outside, remote, work, report,
        pushed
<1>1. CASE Fetch /\ UNCHANGED <<checks, once, posted>>
  BY <1>1 DEF Fetch, Stop
<1>2. CASE Review /\ UNCHANGED <<checks, once, posted>>
  BY <1>2 DEF Review, NextIteration, LeaveFor
<1>3. CASE Refresh /\ UNCHANGED <<checks, once, posted>>
  BY <1>3 DEF Refresh, NextIteration
<1>4. CASE Deliver /\ UNCHANGED <<checks, once, posted>>
  BY <1>4 DEF Deliver, NextIteration, AfterDelivery, SetLabels
<1>5. CASE Gate /\ UNCHANGED <<checks, once, posted>>
  BY <1>5 DEF Gate, NextIteration, LeaveFor, SetLabels
<1>6. CASE GatherContext /\ UNCHANGED <<checks, once, posted>>
  BY <1>6 DEF GatherContext, Stop
<1>7. CASE Fix /\ UNCHANGED <<checks, once, posted>>
  BY <1>7, EditsInPlace DEF Fix, LeaveFor, AgentLeaves
<1>8. CASE Commit /\ UNCHANGED <<checks, once, posted>>
  BY <1>8, PushLands DEF Commit, StartChecks, NextIteration, LeaveFor, GitFails
<1>9. CASE Verify /\ UNCHANGED <<checks, once, posted>>
  BY <1>9 DEF Verify, NextIteration, GiveUpVerifying, MeasureAs
<1>10. CASE Refetch /\ UNCHANGED <<checks, once, posted>>
  BY <1>10 DEF Refetch, NextIteration, GiveUpVerifying
<1>11. CASE RetryFix /\ UNCHANGED <<checks, once, posted>>
  BY <1>11, EditsInPlace DEF RetryFix, NextIteration, GiveUpVerifying, AgentLeaves
<1>12. CASE Recommit /\ UNCHANGED <<checks, once, posted>>
  BY <1>12, PushLands DEF Recommit, NextIteration, GiveUpVerifying, LeaveFor, GitFails
<1>13. CASE Graceful /\ UNCHANGED <<checks, once, posted>>
  BY <1>13, PushLands DEF Graceful, GitFails
<1>14. CASE Terminal /\ UNCHANGED <<checks, once, posted>>
  BY <1>14 DEF Terminal, ManualReview, MutatedTree, Stop, SetLabels
<1>15. CASE Count /\ UNCHANGED <<checks, loop, posted>>
  BY <1>15 DEF Count, SetLabels, FailWith, StopWith, Stop
<1>16. CASE FetchOnce /\ UNCHANGED <<checks, loop, posted>>
  BY <1>16 DEF FetchOnce, FailWith, StopWith, Stop
<1>17. CASE FixOnce /\ UNCHANGED <<checks, loop, posted>>
  BY <1>17, EditsInPlace DEF FixOnce, FailWith, StopWith, Stop, AgentLeaves
<1>18. CASE CommitOnce /\ UNCHANGED <<checks, loop, posted>>
  BY <1>18, PushLands DEF CommitOnce, FailWith, StopWith, Stop, GitFails
<1>19. CASE VerifyOnce /\ UNCHANGED <<checks, loop, posted>>
  BY <1>19 DEF VerifyOnce, FailWith, StopWith, Stop, MeasureAs, Made
<1>20. CASE RefetchOnce /\ UNCHANGED <<checks, loop, posted>>
  BY <1>20 DEF RefetchOnce
<1>21. CASE RetryOnce /\ UNCHANGED <<checks, loop, posted>>
  BY <1>21, EditsInPlace DEF RetryOnce, FailWith, StopWith, Stop, AgentLeaves, Made
<1>22. CASE RecommitOnce /\ UNCHANGED <<checks, loop, posted>>
  BY <1>22, PushLands DEF RecommitOnce, FailWith, StopWith, Stop, GitFails
<1>23. CASE Unverified /\ UNCHANGED <<checks, loop, posted>>
  BY <1>23 DEF Unverified, FailWith, StopWith, Stop, SetLabels, Made
<1>24. CASE Finish /\ UNCHANGED <<checks, loop, posted>>
  BY <1>24 DEF Finish, StopWith, Stop, SetLabels, Made
<1>25. CASE ForeignPush /\ UNCHANGED <<checks, loop, once, posted>>
  BY <1>25 DEF ForeignPush
<1>26. CASE ClosePR /\ UNCHANGED <<checks, loop, once, posted>>
  BY <1>26 DEF ClosePR
<1>27. CASE Abort /\ UNCHANGED <<checks, loop, once, posted>>
  BY <1>27 DEF Abort
<1>28. CASE Post
  BY <1>28 DEF Post
<1>29. CASE UNCHANGED actionVars
  BY <1>29 DEF actionVars, branchVars
<1> QED
  BY <1>1, <1>2, <1>3, <1>4, <1>5, <1>6, <1>7, <1>8, <1>9, <1>10, <1>11, <1>12, <1>13,
     <1>14, <1>15, <1>16, <1>17, <1>18, <1>19, <1>20, <1>21, <1>22, <1>23, <1>24,
     <1>25, <1>26, <1>27, <1>28, <1>29
     DEF Next, InLoop, InOnce, Others, LoopStep, OnceStep

(* The head the loop has fetched is at least the newest commit it pushed,  *)
(* from the fetch after the review to the gate.                            *)
LEMMA HeadPreserved == ControlInv /\ HeadInv /\ [Next]_actionVars => HeadInv'
<1> SUFFICES ASSUME ControlInv, HeadInv, [Next]_actionVars PROVE HeadInv'
  OBVIOUS
<1> USE DEF ControlInv, HeadInv, Goto, loop, once, others, idle, outside, remote,
        work, report, pushed
<1>1. CASE Fetch /\ UNCHANGED <<checks, once, posted>>
  BY <1>1 DEF Fetch, Stop
<1>2. CASE Review /\ UNCHANGED <<checks, once, posted>>
  BY <1>2 DEF Review, NextIteration, LeaveFor
<1>3. CASE Refresh /\ UNCHANGED <<checks, once, posted>>
  BY <1>3 DEF Refresh, NextIteration
<1>4. CASE Deliver /\ UNCHANGED <<checks, once, posted>>
  BY <1>4 DEF Deliver, NextIteration, AfterDelivery, SetLabels
<1>5. CASE Gate /\ UNCHANGED <<checks, once, posted>>
  BY <1>5 DEF Gate, NextIteration, LeaveFor, SetLabels
<1>6. CASE GatherContext /\ UNCHANGED <<checks, once, posted>>
  BY <1>6 DEF GatherContext, Stop
<1>7. CASE Fix /\ UNCHANGED <<checks, once, posted>>
  BY <1>7, EditsInPlace DEF Fix, LeaveFor, AgentLeaves
<1>8. CASE Commit /\ UNCHANGED <<checks, once, posted>>
  <2>1. HeadStep
    BY <1>8, HeadsMove
  <2> USE <1>8, PushLands DEF Commit, StartChecks, NextIteration, LeaveFor, GitFails
  <2>2. ~approved'
    OBVIOUS
  <2>3. pc' \notin {"deliver", "gate"}
    OBVIOUS
  <2>4. UNCHANGED <<sha, gated>>
    OBVIOUS
  <2>5. HeadInv'
    BY ONLY <2>1, <2>2, <2>3, <2>4, HeadInv DEF HeadInv, HeadStep
  <2> QED
    BY <2>1, <2>2, <2>3, <2>4, <2>5
<1>9. CASE Verify /\ UNCHANGED <<checks, once, posted>>
  BY <1>9 DEF Verify, NextIteration, GiveUpVerifying, MeasureAs
<1>10. CASE Refetch /\ UNCHANGED <<checks, once, posted>>
  BY <1>10 DEF Refetch, NextIteration, GiveUpVerifying
<1>11. CASE RetryFix /\ UNCHANGED <<checks, once, posted>>
  BY <1>11, EditsInPlace DEF RetryFix, NextIteration, GiveUpVerifying, AgentLeaves
<1>12. CASE Recommit /\ UNCHANGED <<checks, once, posted>>
  BY <1>12, PushLands DEF Recommit, NextIteration, GiveUpVerifying, LeaveFor, GitFails
<1>13. CASE Graceful /\ UNCHANGED <<checks, once, posted>>
  <2>1. HeadStep
    BY <1>13, HeadsMove
  <2> USE <1>13, PushLands DEF Graceful, GitFails
  <2>2. ~approved'
    OBVIOUS
  <2>3. pc' \notin {"deliver", "gate"}
    OBVIOUS
  <2>4. UNCHANGED <<sha, gated>>
    OBVIOUS
  <2>5. HeadInv'
    BY ONLY <2>1, <2>2, <2>3, <2>4, HeadInv DEF HeadInv, HeadStep
  <2> QED
    BY <2>1, <2>2, <2>3, <2>4, <2>5
<1>14. CASE Terminal /\ UNCHANGED <<checks, once, posted>>
  BY <1>14 DEF Terminal, ManualReview, MutatedTree, Stop, SetLabels
<1>15. CASE Count /\ UNCHANGED <<checks, loop, posted>>
  BY <1>15 DEF Count, SetLabels, FailWith, StopWith, Stop
<1>16. CASE FetchOnce /\ UNCHANGED <<checks, loop, posted>>
  BY <1>16 DEF FetchOnce, FailWith, StopWith, Stop
<1>17. CASE FixOnce /\ UNCHANGED <<checks, loop, posted>>
  BY <1>17, EditsInPlace DEF FixOnce, FailWith, StopWith, Stop, AgentLeaves
<1>18. CASE CommitOnce /\ UNCHANGED <<checks, loop, posted>>
  <2>1. HeadStep
    BY <1>18, HeadsMove
  <2> USE <1>18, PushLands DEF CommitOnce, FailWith, StopWith, Stop, GitFails
  <2>2. ~approved'
    OBVIOUS
  <2>3. pc' \notin {"deliver", "gate"}
    OBVIOUS
  <2>4. UNCHANGED <<sha, gated>>
    OBVIOUS
  <2>5. HeadInv'
    BY ONLY <2>1, <2>2, <2>3, <2>4, HeadInv DEF HeadInv, HeadStep
  <2> QED
    BY <2>1, <2>2, <2>3, <2>4, <2>5
<1>19. CASE VerifyOnce /\ UNCHANGED <<checks, loop, posted>>
  BY <1>19 DEF VerifyOnce, FailWith, StopWith, Stop, MeasureAs, Made
<1>20. CASE RefetchOnce /\ UNCHANGED <<checks, loop, posted>>
  BY <1>20 DEF RefetchOnce
<1>21. CASE RetryOnce /\ UNCHANGED <<checks, loop, posted>>
  BY <1>21, EditsInPlace DEF RetryOnce, FailWith, StopWith, Stop, AgentLeaves, Made
<1>22. CASE RecommitOnce /\ UNCHANGED <<checks, loop, posted>>
  <2>1. HeadStep
    BY <1>22, HeadsMove
  <2> USE <1>22, PushLands DEF RecommitOnce, FailWith, StopWith, Stop, GitFails
  <2>2. ~approved'
    OBVIOUS
  <2>3. pc' \notin {"deliver", "gate"}
    OBVIOUS
  <2>4. UNCHANGED <<sha, gated>>
    OBVIOUS
  <2>5. HeadInv'
    BY ONLY <2>1, <2>2, <2>3, <2>4, HeadInv DEF HeadInv, HeadStep
  <2> QED
    BY <2>1, <2>2, <2>3, <2>4, <2>5
<1>23. CASE Unverified /\ UNCHANGED <<checks, loop, posted>>
  BY <1>23 DEF Unverified, FailWith, StopWith, Stop, SetLabels, Made
<1>24. CASE Finish /\ UNCHANGED <<checks, loop, posted>>
  BY <1>24 DEF Finish, StopWith, Stop, SetLabels, Made
<1>25. CASE ForeignPush /\ UNCHANGED <<checks, loop, once, posted>>
  BY <1>25 DEF ForeignPush
<1>26. CASE ClosePR /\ UNCHANGED <<checks, loop, once, posted>>
  BY <1>26 DEF ClosePR
<1>27. CASE Abort /\ UNCHANGED <<checks, loop, once, posted>>
  BY <1>27 DEF Abort
<1>28. CASE Post
  BY <1>28 DEF Post
<1>29. CASE UNCHANGED actionVars
  BY <1>29 DEF actionVars, branchVars
<1> QED
  BY <1>1, <1>2, <1>3, <1>4, <1>5, <1>6, <1>7, <1>8, <1>9, <1>10, <1>11, <1>12, <1>13,
     <1>14, <1>15, <1>16, <1>17, <1>18, <1>19, <1>20, <1>21, <1>22, <1>23, <1>24,
     <1>25, <1>26, <1>27, <1>28, <1>29
     DEF Next, InLoop, InOnce, Others, LoopStep, OnceStep

(* A workspace is settled only by a green run of the checks, by having no  *)
(* checks or no commits, or by remembering that it is unverified.          *)
LEMMA ChecksPreserved == ControlInv /\ CheckInv /\ [Next]_actionVars => CheckInv'
<1> SUFFICES ASSUME ControlInv, CheckInv, [Next]_actionVars PROVE CheckInv'
  OBVIOUS
<1> USE DEF ControlInv, CheckInv, Goto, loop, once, others, idle, outside, remote,
        work, report, pushed, Proven, IterationProven, ReasonCurrent, ApprovalReason,
        LeftProven, SeenClosed, NothingPushed, FinishProven, EndProven
<1>1. CASE Fetch /\ UNCHANGED <<checks, once, posted>>
  BY <1>1 DEF Fetch, Stop
<1>2. CASE Review /\ UNCHANGED <<checks, once, posted>>
  BY <1>2 DEF Review, NextIteration, LeaveFor
<1>3. CASE Refresh /\ UNCHANGED <<checks, once, posted>>
  BY <1>3 DEF Refresh, NextIteration
<1>4. CASE Deliver /\ UNCHANGED <<checks, once, posted>>
  BY <1>4 DEF Deliver, NextIteration, AfterDelivery, SetLabels
<1>5. CASE Gate /\ UNCHANGED <<checks, once, posted>>
  <2> USE <1>5 DEF Gate, NextIteration, LeaveFor, SetLabels
  <2>1. IterationProven'
    OBVIOUS
  <2>2. ReasonCurrent'
    OBVIOUS
  <2>3. ApprovalReason'
    OBVIOUS
  <2>4. LeftProven'
    OBVIOUS
  <2>5. SeenClosed'
    OBVIOUS
  <2>6. NothingPushed'
    OBVIOUS
  <2>7. FinishProven'
    OBVIOUS
  <2>8. EndProven'
    OBVIOUS
  <2> QED
    BY <2>1, <2>2, <2>3, <2>4, <2>5, <2>6, <2>7, <2>8
<1>6. CASE GatherContext /\ UNCHANGED <<checks, once, posted>>
  BY <1>6 DEF GatherContext, Stop
<1>7. CASE Fix /\ UNCHANGED <<checks, once, posted>>
  BY <1>7, EditsInPlace DEF Fix, LeaveFor, AgentLeaves
<1>8. CASE Commit /\ UNCHANGED <<checks, once, posted>>
  <2> USE <1>8, PushLands DEF Commit, StartChecks, NextIteration, LeaveFor, GitFails
  <2>1. IterationProven'
    OBVIOUS
  <2>2. ReasonCurrent'
    OBVIOUS
  <2>3. ApprovalReason'
    OBVIOUS
  <2>4. LeftProven'
    OBVIOUS
  <2>5. SeenClosed'
    OBVIOUS
  <2>6. NothingPushed'
    OBVIOUS
  <2>7. FinishProven'
    OBVIOUS
  <2>8. EndProven'
    OBVIOUS
  <2> QED
    BY <2>1, <2>2, <2>3, <2>4, <2>5, <2>6, <2>7, <2>8
<1>9. CASE Verify /\ UNCHANGED <<checks, once, posted>>
  BY <1>9 DEF Verify, NextIteration, GiveUpVerifying, MeasureAs
<1>10. CASE Refetch /\ UNCHANGED <<checks, once, posted>>
  BY <1>10 DEF Refetch, NextIteration, GiveUpVerifying
<1>11. CASE RetryFix /\ UNCHANGED <<checks, once, posted>>
  BY <1>11, EditsInPlace DEF RetryFix, NextIteration, GiveUpVerifying, AgentLeaves
<1>12. CASE Recommit /\ UNCHANGED <<checks, once, posted>>
  <2> USE <1>12, PushLands DEF Recommit, NextIteration, GiveUpVerifying, LeaveFor,
          GitFails
  <2>1. IterationProven'
    OBVIOUS
  <2>2. ReasonCurrent'
    OBVIOUS
  <2>3. ApprovalReason'
    OBVIOUS
  <2>4. LeftProven'
    OBVIOUS
  <2>5. SeenClosed'
    OBVIOUS
  <2>6. NothingPushed'
    OBVIOUS
  <2>7. FinishProven'
    OBVIOUS
  <2>8. EndProven'
    OBVIOUS
  <2> QED
    BY <2>1, <2>2, <2>3, <2>4, <2>5, <2>6, <2>7, <2>8
<1>13. CASE Graceful /\ UNCHANGED <<checks, once, posted>>
  <2> USE <1>13, PushLands DEF Graceful, GitFails
  <2>1. IterationProven'
    OBVIOUS
  <2>2. ReasonCurrent'
    OBVIOUS
  <2>3. ApprovalReason'
    OBVIOUS
  <2>4. LeftProven'
    OBVIOUS
  <2>5. SeenClosed'
    OBVIOUS
  <2>6. NothingPushed'
    OBVIOUS
  <2>7. FinishProven'
    OBVIOUS
  <2>8. EndProven'
    OBVIOUS
  <2> QED
    BY <2>1, <2>2, <2>3, <2>4, <2>5, <2>6, <2>7, <2>8
<1>14. CASE Terminal /\ UNCHANGED <<checks, once, posted>>
  BY <1>14 DEF Terminal, ManualReview, MutatedTree, Stop, SetLabels
<1>15. CASE Count /\ UNCHANGED <<checks, loop, posted>>
  BY <1>15 DEF Count, SetLabels, FailWith, StopWith, Stop
<1>16. CASE FetchOnce /\ UNCHANGED <<checks, loop, posted>>
  <2> USE <1>16 DEF FetchOnce, FailWith, StopWith, Stop
  <2>1. IterationProven'
    OBVIOUS
  <2>2. ReasonCurrent'
    OBVIOUS
  <2>3. ApprovalReason'
    OBVIOUS
  <2>4. LeftProven'
    OBVIOUS
  <2>5. SeenClosed'
    OBVIOUS
  <2>6. NothingPushed'
    OBVIOUS
  <2>7. FinishProven'
    OBVIOUS
  <2>8. EndProven'
    OBVIOUS
  <2> QED
    BY <2>1, <2>2, <2>3, <2>4, <2>5, <2>6, <2>7, <2>8
<1>17. CASE FixOnce /\ UNCHANGED <<checks, loop, posted>>
  <2> USE <1>17, EditsInPlace DEF FixOnce, FailWith, StopWith, Stop, AgentLeaves
  <2>1. own' = 0
    OBVIOUS
  <2>2. Proven'
    BY ONLY <2>1 DEF Proven
  <2>3. IterationProven'
    OBVIOUS
  <2>4. ReasonCurrent'
    OBVIOUS
  <2>5. ApprovalReason'
    OBVIOUS
  <2>6. LeftProven'
    OBVIOUS
  <2>7. SeenClosed'
    OBVIOUS
  <2>8. NothingPushed'
    OBVIOUS
  <2>9. FinishProven'
    BY ONLY <2>2 DEF FinishProven
  <2>10. EndProven'
    OBVIOUS
  <2> QED
    BY <2>1, <2>2, <2>3, <2>4, <2>5, <2>6, <2>7, <2>8, <2>9, <2>10
<1>18. CASE CommitOnce /\ UNCHANGED <<checks, loop, posted>>
  <2> USE <1>18, PushLands DEF CommitOnce, FailWith, StopWith, Stop, GitFails
  <2>1. IterationProven'
    OBVIOUS
  <2>2. ReasonCurrent'
    OBVIOUS
  <2>3. ApprovalReason'
    OBVIOUS
  <2>4. LeftProven'
    OBVIOUS
  <2>5. SeenClosed'
    OBVIOUS
  <2>6. NothingPushed'
    OBVIOUS
  <2>7. FinishProven'
    OBVIOUS
  <2>8. EndProven'
    OBVIOUS
  <2> QED
    BY <2>1, <2>2, <2>3, <2>4, <2>5, <2>6, <2>7, <2>8
<1>19. CASE VerifyOnce /\ UNCHANGED <<checks, loop, posted>>
  BY <1>19 DEF VerifyOnce, FailWith, StopWith, Stop, MeasureAs, Made
<1>20. CASE RefetchOnce /\ UNCHANGED <<checks, loop, posted>>
  <2> USE <1>20 DEF RefetchOnce
  <2>1. IterationProven'
    OBVIOUS
  <2>2. ReasonCurrent'
    OBVIOUS
  <2>3. ApprovalReason'
    OBVIOUS
  <2>4. LeftProven'
    OBVIOUS
  <2>5. SeenClosed'
    OBVIOUS
  <2>6. NothingPushed'
    OBVIOUS
  <2>7. FinishProven'
    OBVIOUS
  <2>8. EndProven'
    OBVIOUS
  <2> QED
    BY <2>1, <2>2, <2>3, <2>4, <2>5, <2>6, <2>7, <2>8
<1>21. CASE RetryOnce /\ UNCHANGED <<checks, loop, posted>>
  BY <1>21, EditsInPlace DEF RetryOnce, FailWith, StopWith, Stop, AgentLeaves, Made
<1>22. CASE RecommitOnce /\ UNCHANGED <<checks, loop, posted>>
  <2> USE <1>22, PushLands DEF RecommitOnce, FailWith, StopWith, Stop, GitFails
  <2>1. IterationProven'
    OBVIOUS
  <2>2. ReasonCurrent'
    OBVIOUS
  <2>3. ApprovalReason'
    OBVIOUS
  <2>4. LeftProven'
    OBVIOUS
  <2>5. SeenClosed'
    OBVIOUS
  <2>6. NothingPushed'
    OBVIOUS
  <2>7. FinishProven'
    OBVIOUS
  <2>8. EndProven'
    OBVIOUS
  <2> QED
    BY <2>1, <2>2, <2>3, <2>4, <2>5, <2>6, <2>7, <2>8
<1>23. CASE Unverified /\ UNCHANGED <<checks, loop, posted>>
  BY <1>23 DEF Unverified, FailWith, StopWith, Stop, SetLabels, Made
<1>24. CASE Finish /\ UNCHANGED <<checks, loop, posted>>
  BY <1>24 DEF Finish, StopWith, Stop, SetLabels, Made
<1>25. CASE ForeignPush /\ UNCHANGED <<checks, loop, once, posted>>
  BY <1>25 DEF ForeignPush
<1>26. CASE ClosePR /\ UNCHANGED <<checks, loop, once, posted>>
  BY <1>26 DEF ClosePR
<1>27. CASE Abort /\ UNCHANGED <<checks, loop, once, posted>>
  BY <1>27 DEF Abort
<1>28. CASE Post
  BY <1>28 DEF Post
<1>29. CASE UNCHANGED actionVars
  BY <1>29 DEF actionVars, branchVars
<1> QED
  BY <1>1, <1>2, <1>3, <1>4, <1>5, <1>6, <1>7, <1>8, <1>9, <1>10, <1>11, <1>12, <1>13,
     <1>14, <1>15, <1>16, <1>17, <1>18, <1>19, <1>20, <1>21, <1>22, <1>23, <1>24,
     <1>25, <1>26, <1>27, <1>28, <1>29
     DEF Next, InLoop, InOnce, Others, LoopStep, OnceStep

(* autofix:ready is set with an approval only, and an approval that fails  *)
(* afterwards takes it off again.                                          *)
LEMMA LabelsPreserved == ControlInv /\ LabelInv /\ [Next]_actionVars => LabelInv'
<1> SUFFICES ASSUME ControlInv, LabelInv, [Next]_actionVars PROVE LabelInv'
  OBVIOUS
<1> USE DEF ControlInv, LabelInv, Goto, loop, once, others, idle, outside, remote,
        work, report, pushed
<1>1. CASE Fetch /\ UNCHANGED <<checks, once, posted>>
  BY <1>1 DEF Fetch, Stop
<1>2. CASE Review /\ UNCHANGED <<checks, once, posted>>
  BY <1>2 DEF Review, NextIteration, LeaveFor
<1>3. CASE Refresh /\ UNCHANGED <<checks, once, posted>>
  BY <1>3 DEF Refresh, NextIteration
<1>4. CASE Deliver /\ UNCHANGED <<checks, once, posted>>
  BY <1>4 DEF Deliver, NextIteration, AfterDelivery, SetLabels
<1>5. CASE Gate /\ UNCHANGED <<checks, once, posted>>
  BY <1>5 DEF Gate, NextIteration, LeaveFor, SetLabels
<1>6. CASE GatherContext /\ UNCHANGED <<checks, once, posted>>
  BY <1>6 DEF GatherContext, Stop
<1>7. CASE Fix /\ UNCHANGED <<checks, once, posted>>
  BY <1>7, EditsInPlace DEF Fix, LeaveFor, AgentLeaves
<1>8. CASE Commit /\ UNCHANGED <<checks, once, posted>>
  BY <1>8, PushLands DEF Commit, StartChecks, NextIteration, LeaveFor, GitFails
<1>9. CASE Verify /\ UNCHANGED <<checks, once, posted>>
  BY <1>9 DEF Verify, NextIteration, GiveUpVerifying, MeasureAs
<1>10. CASE Refetch /\ UNCHANGED <<checks, once, posted>>
  BY <1>10 DEF Refetch, NextIteration, GiveUpVerifying
<1>11. CASE RetryFix /\ UNCHANGED <<checks, once, posted>>
  BY <1>11, EditsInPlace DEF RetryFix, NextIteration, GiveUpVerifying, AgentLeaves
<1>12. CASE Recommit /\ UNCHANGED <<checks, once, posted>>
  BY <1>12, PushLands DEF Recommit, NextIteration, GiveUpVerifying, LeaveFor, GitFails
<1>13. CASE Graceful /\ UNCHANGED <<checks, once, posted>>
  BY <1>13, PushLands DEF Graceful, GitFails
<1>14. CASE Terminal /\ UNCHANGED <<checks, once, posted>>
  BY <1>14 DEF Terminal, ManualReview, MutatedTree, Stop, SetLabels
<1>15. CASE Count /\ UNCHANGED <<checks, loop, posted>>
  <2>1. ~approved' /\ pc \notin Ended \cup {"terminal"}
    BY <1>15 DEF Count
  <2>2. "ready" \notin labels'
    <3>1. \/ labels' = labels
          \/ labels' = (labels \ {"autofix", "needs-fix", "ready"}) \cup {"manual"}
      BY <1>15 DEF Count, SetLabels, FailWith, StopWith, Stop
    <3>2. "ready" \notin labels
      BY <1>15, <2>1
    <3>3. QED
      BY <3>1, <3>2
  <2>3. failed' => pc' = "done"
    BY <1>15, <2>1 DEF Count, FailWith, StopWith, Stop
  <2> QED
    BY <2>1, <2>2, <2>3
<1>16. CASE FetchOnce /\ UNCHANGED <<checks, loop, posted>>
  <2> USE <1>16 DEF FetchOnce, FailWith, StopWith, Stop
  <2>1. ~approved' /\ pc \notin Ended \cup {"terminal"}
    OBVIOUS
  <2>2. "ready" \notin labels'
    OBVIOUS
  <2>3. failed' => pc' = "done"
    OBVIOUS
  <2> QED
    BY <2>1, <2>2, <2>3
<1>17. CASE FixOnce /\ UNCHANGED <<checks, loop, posted>>
  <2> USE <1>17, EditsInPlace DEF FixOnce, FailWith, StopWith, Stop, AgentLeaves
  <2>1. ~approved' /\ pc \notin Ended \cup {"terminal"}
    OBVIOUS
  <2>2. "ready" \notin labels'
    OBVIOUS
  <2>3. failed' => pc' = "done"
    OBVIOUS
  <2> QED
    BY <2>1, <2>2, <2>3
<1>18. CASE CommitOnce /\ UNCHANGED <<checks, loop, posted>>
  <2> USE <1>18, PushLands DEF CommitOnce, FailWith, StopWith, Stop, GitFails
  <2>1. ~approved' /\ pc \notin Ended \cup {"terminal"}
    OBVIOUS
  <2>2. "ready" \notin labels'
    OBVIOUS
  <2>3. failed' => pc' = "done"
    OBVIOUS
  <2> QED
    BY <2>1, <2>2, <2>3
<1>19. CASE VerifyOnce /\ UNCHANGED <<checks, loop, posted>>
  <2> USE <1>19 DEF VerifyOnce, FailWith, StopWith, Stop, MeasureAs, Made
  <2>1. ~approved' /\ pc \notin Ended \cup {"terminal"}
    OBVIOUS
  <2>2. "ready" \notin labels'
    OBVIOUS
  <2>3. failed' => pc' = "done"
    OBVIOUS
  <2> QED
    BY <2>1, <2>2, <2>3
<1>20. CASE RefetchOnce /\ UNCHANGED <<checks, loop, posted>>
  <2> USE <1>20 DEF RefetchOnce
  <2>1. ~approved' /\ pc \notin Ended \cup {"terminal"}
    OBVIOUS
  <2>2. "ready" \notin labels'
    OBVIOUS
  <2>3. failed' => pc' = "done"
    OBVIOUS
  <2> QED
    BY <2>1, <2>2, <2>3
<1>21. CASE RetryOnce /\ UNCHANGED <<checks, loop, posted>>
  <2> USE <1>21, EditsInPlace DEF RetryOnce, FailWith, StopWith, Stop, AgentLeaves, Made
  <2>1. ~approved' /\ pc \notin Ended \cup {"terminal"}
    OBVIOUS
  <2>2. "ready" \notin labels'
    OBVIOUS
  <2>3. failed' => pc' = "done"
    OBVIOUS
  <2> QED
    BY <2>1, <2>2, <2>3
<1>22. CASE RecommitOnce /\ UNCHANGED <<checks, loop, posted>>
  <2> USE <1>22, PushLands DEF RecommitOnce, FailWith, StopWith, Stop, GitFails
  <2>1. ~approved' /\ pc \notin Ended \cup {"terminal"}
    OBVIOUS
  <2>2. "ready" \notin labels'
    OBVIOUS
  <2>3. failed' => pc' = "done"
    OBVIOUS
  <2> QED
    BY <2>1, <2>2, <2>3
<1>23. CASE Unverified /\ UNCHANGED <<checks, loop, posted>>
  <2>1. ~approved' /\ pc \notin Ended \cup {"terminal"}
    BY <1>23 DEF Unverified
  <2>2. "ready" \notin labels'
    <3>1. \/ labels' = labels
          \/ labels' = (labels \ {"autofix", "needs-fix", "ready"}) \cup {"manual"}
      BY <1>23 DEF Unverified, SetLabels
    <3>2. "ready" \notin labels
      BY <1>23, <2>1
    <3>3. QED
      BY <3>1, <3>2
  <2>3. failed' => pc' = "done"
    BY <1>23, <2>1 DEF Unverified, FailWith, StopWith, Stop
  <2> QED
    BY <2>1, <2>2, <2>3
<1>24. CASE Finish /\ UNCHANGED <<checks, loop, posted>>
  <2> USE <1>24 DEF Finish, StopWith, Stop, SetLabels, Made
  <2>1. ~approved' /\ pc \notin Ended \cup {"terminal"}
    OBVIOUS
  <2>2. "ready" \notin labels'
    OBVIOUS
  <2>3. failed' => pc' = "done"
    OBVIOUS
  <2> QED
    BY <2>1, <2>2, <2>3
<1>25. CASE ForeignPush /\ UNCHANGED <<checks, loop, once, posted>>
  BY <1>25 DEF ForeignPush
<1>26. CASE ClosePR /\ UNCHANGED <<checks, loop, once, posted>>
  BY <1>26 DEF ClosePR
<1>27. CASE Abort /\ UNCHANGED <<checks, loop, once, posted>>
  BY <1>27 DEF Abort
<1>28. CASE Post
  BY <1>28 DEF Post
<1>29. CASE UNCHANGED actionVars
  BY <1>29 DEF actionVars, branchVars
<1> QED
  BY <1>1, <1>2, <1>3, <1>4, <1>5, <1>6, <1>7, <1>8, <1>9, <1>10, <1>11, <1>12, <1>13,
     <1>14, <1>15, <1>16, <1>17, <1>18, <1>19, <1>20, <1>21, <1>22, <1>23, <1>24,
     <1>25, <1>26, <1>27, <1>28, <1>29
     DEF Next, InLoop, InOnce, Others, LoopStep, OnceStep

(* A commit left behind ends the run, and its output with it.              *)
LEMMA PushPreserved == ControlInv /\ PushInv /\ [Next]_actionVars => PushInv'
<1> SUFFICES ASSUME ControlInv, PushInv, [Next]_actionVars PROVE PushInv'
  OBVIOUS
<1> USE DEF ControlInv, PushInv, Goto, loop, once, others, idle, outside, remote,
        work, report, pushed
<1>1. CASE Fetch /\ UNCHANGED <<checks, once, posted>>
  BY <1>1 DEF Fetch, Stop
<1>2. CASE Review /\ UNCHANGED <<checks, once, posted>>
  BY <1>2 DEF Review, NextIteration, LeaveFor
<1>3. CASE Refresh /\ UNCHANGED <<checks, once, posted>>
  BY <1>3 DEF Refresh, NextIteration
<1>4. CASE Deliver /\ UNCHANGED <<checks, once, posted>>
  BY <1>4 DEF Deliver, NextIteration, AfterDelivery, SetLabels
<1>5. CASE Gate /\ UNCHANGED <<checks, once, posted>>
  BY <1>5 DEF Gate, NextIteration, LeaveFor, SetLabels
<1>6. CASE GatherContext /\ UNCHANGED <<checks, once, posted>>
  BY <1>6 DEF GatherContext, Stop
<1>7. CASE Fix /\ UNCHANGED <<checks, once, posted>>
  BY <1>7, EditsInPlace DEF Fix, LeaveFor, AgentLeaves
<1>8. CASE Commit /\ UNCHANGED <<checks, once, posted>>
  BY <1>8, PushLands DEF Commit, StartChecks, NextIteration, LeaveFor, GitFails
<1>9. CASE Verify /\ UNCHANGED <<checks, once, posted>>
  BY <1>9 DEF Verify, NextIteration, GiveUpVerifying, MeasureAs
<1>10. CASE Refetch /\ UNCHANGED <<checks, once, posted>>
  BY <1>10 DEF Refetch, NextIteration, GiveUpVerifying
<1>11. CASE RetryFix /\ UNCHANGED <<checks, once, posted>>
  BY <1>11, EditsInPlace DEF RetryFix, NextIteration, GiveUpVerifying, AgentLeaves
<1>12. CASE Recommit /\ UNCHANGED <<checks, once, posted>>
  BY <1>12, PushLands DEF Recommit, NextIteration, GiveUpVerifying, LeaveFor, GitFails
<1>13. CASE Graceful /\ UNCHANGED <<checks, once, posted>>
  BY <1>13, PushLands DEF Graceful, GitFails
<1>14. CASE Terminal /\ UNCHANGED <<checks, once, posted>>
  BY <1>14 DEF Terminal, ManualReview, MutatedTree, Stop, SetLabels
<1>15. CASE Count /\ UNCHANGED <<checks, loop, posted>>
  BY <1>15 DEF Count, SetLabels, FailWith, StopWith, Stop
<1>16. CASE FetchOnce /\ UNCHANGED <<checks, loop, posted>>
  BY <1>16 DEF FetchOnce, FailWith, StopWith, Stop
<1>17. CASE FixOnce /\ UNCHANGED <<checks, loop, posted>>
  BY <1>17, EditsInPlace DEF FixOnce, FailWith, StopWith, Stop, AgentLeaves
<1>18. CASE CommitOnce /\ UNCHANGED <<checks, loop, posted>>
  BY <1>18, PushLands DEF CommitOnce, FailWith, StopWith, Stop, GitFails
<1>19. CASE VerifyOnce /\ UNCHANGED <<checks, loop, posted>>
  BY <1>19 DEF VerifyOnce, FailWith, StopWith, Stop, MeasureAs, Made
<1>20. CASE RefetchOnce /\ UNCHANGED <<checks, loop, posted>>
  BY <1>20 DEF RefetchOnce
<1>21. CASE RetryOnce /\ UNCHANGED <<checks, loop, posted>>
  BY <1>21, EditsInPlace DEF RetryOnce, FailWith, StopWith, Stop, AgentLeaves, Made
<1>22. CASE RecommitOnce /\ UNCHANGED <<checks, loop, posted>>
  BY <1>22, PushLands DEF RecommitOnce, FailWith, StopWith, Stop, GitFails
<1>23. CASE Unverified /\ UNCHANGED <<checks, loop, posted>>
  BY <1>23 DEF Unverified, FailWith, StopWith, Stop, SetLabels, Made
<1>24. CASE Finish /\ UNCHANGED <<checks, loop, posted>>
  BY <1>24 DEF Finish, StopWith, Stop, SetLabels, Made
<1>25. CASE ForeignPush /\ UNCHANGED <<checks, loop, once, posted>>
  BY <1>25 DEF ForeignPush
<1>26. CASE ClosePR /\ UNCHANGED <<checks, loop, once, posted>>
  BY <1>26 DEF ClosePR
<1>27. CASE Abort /\ UNCHANGED <<checks, loop, once, posted>>
  BY <1>27 DEF Abort
<1>28. CASE Post
  BY <1>28 DEF Post
<1>29. CASE UNCHANGED actionVars
  BY <1>29 DEF actionVars, branchVars
<1> QED
  BY <1>1, <1>2, <1>3, <1>4, <1>5, <1>6, <1>7, <1>8, <1>9, <1>10, <1>11, <1>12, <1>13,
     <1>14, <1>15, <1>16, <1>17, <1>18, <1>19, <1>20, <1>21, <1>22, <1>23, <1>24,
     <1>25, <1>26, <1>27, <1>28, <1>29
     DEF Next, InLoop, InOnce, Others, LoopStep, OnceStep

-----------------------------------------------------------------------------
FixInv == ControlInv /\ HeadInv /\ CheckInv /\ LabelInv /\ PushInv

(* The invariants hold together: each needs of the others only that an     *)
(* approval ends the loop.                                                 *)
LEMMA FixInvHolds == Spec => []FixInv
<1>1. Init => FixInv
  BY InitEstablishes DEF FixInv
<1>2. FixInv /\ [Next]_actionVars => FixInv'
  BY ApprovalPreserved, HeadPreserved, ChecksPreserved, LabelsPreserved, PushPreserved
     DEF FixInv
<1> QED
  BY <1>1, <1>2, PTL DEF Spec

(* A run of fix.ts that has pushed commits the configured checks did not   *)
(* pass ends failed, unless the pull request was closed, however many      *)
(* iterations and retries it has and whatever its last review said.        *)
THEOREM UnprovenPushFails == Spec => []UnverifiedPushFailsJob
<1>1. FixInv => UnverifiedPushFailsJob
  BY DEF FixInv, CheckInv, EndProven, Proven, UnverifiedPushFailsJob, Running
<1> QED
  BY <1>1, FixInvHolds, PTL

(* When a run ends and the platform took every change of labels,           *)
(* autofix:ready stands only on a pull request it approved without failing *)
(* (the end of runAutofixLoop in fix.ts).                                   *)
THEOREM ReadyWasEarned == Spec => []ReadyIsEarned
<1>1. FixInv => ReadyIsEarned
  BY DEF FixInv, LabelInv, ReadyIsEarned, Running
<1> QED
  BY <1>1, FixInvHolds, PTL

(* The loop approves on the checks of a head that has every commit it has  *)
(* pushed: fix.ts fetches the head between the review and its gate.        *)
THEOREM GateIsFresh == Spec => []GateSeesOwnCommits
<1>1. FixInv => GateSeesOwnCommits
  BY DEF FixInv, HeadInv, GateSeesOwnCommits
<1> QED
  BY <1>1, FixInvHolds, PTL

(* changes_made is true only when no commit was left behind here: a push   *)
(* that fails ends a single pass with false.                               *)
THEOREM ReportedPushesLanded == Spec => []LostPushNotReported
<1>1. FixInv => LostPushNotReported
  BY DEF FixInv, PushInv, LostPushNotReported
<1> QED
  BY <1>1, FixInvHolds, PTL
=============================================================================

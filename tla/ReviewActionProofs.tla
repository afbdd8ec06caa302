------------------------- MODULE ReviewActionProofs -------------------------
(***************************************************************************)
(* Proofs about the jobs of the review mode: what a green job promises,    *)
(* what an approval means, where the findings are, and which threads are   *)
(* started and resolved, for any findings, batches, ways of posting and    *)
(* numbers of jobs.                                                        *)
(***************************************************************************)
EXTENDS ReviewAction, TLAPS

(* Where a job is before it posts, while it posts, and after that.         *)
Early == {"start", "threads", "prepare", "excluded", "single", "batches", "stream batches",
          "synthesize", "agents"}
Checking == {"verify", "verify single", "verify batches", "verify agents"}
Reviewed == {"stream", "returned"}
Posting == {"post", "post body", "post comments", "post summary"}
Over == {"resolve", "delivered", "undelivered", "post threw", "threw", "aborted", "done"}

(* The types, and that postReview is called no more often than it may be.  *)
TypeInv ==
  /\ TypeOK
  /\ pc \in Early \cup Checking \cup Reviewed \cup Posting \cup Over
  /\ pc = "post" => calls < Attempts
  /\ pc \in Early \cup Checking \cup Reviewed => NoReview /\ resolved = {}

USE DEF Early, Checking, Reviewed, Posting, Over

-----------------------------------------------------------------------------
(* What the verification may not do: make a result ready.                  *)
LEMMA VerifiedResult ==
  ASSUME NEW r \in Result, NEW kept \in SUBSET Issue, NEW secret \in BOOLEAN
  PROVE  LET r1 == applyBudgetedContextDegradation(Verified(r, kept, secret))
         IN  r1 \in Result /\ (r1.ready => r.ready /\ ~vulnerable /\ ~cut)
<1> DEFINE r1 == [r EXCEPT !.issues = kept]
           r2 == IF secret THEN mergeSecretIssues(r1) ELSE r1
           r3 == mergeScaIssues(r2)
           r4 == applyBudgetedContextDegradation(r3)
<1>1. r1 \in Result /\ r1.ready = r.ready
  BY DEF Result
<1>2. r2 \in Result /\ r2.ready = r.ready
  BY <1>1 DEF mergeSecretIssues, Result, Issue, Static
<1> HIDE DEF r2
<1>3. r3 \in Result /\ (r3.ready => r.ready /\ ~vulnerable)
  BY <1>2 DEF mergeScaIssues, Result, Issue, Static
<1> HIDE DEF r3
<1>4. r4 \in Result /\ (r4.ready => r.ready /\ ~vulnerable /\ ~cut)
  BY <1>3 DEF applyBudgetedContextDegradation, Result
<1>5. applyBudgetedContextDegradation(Verified(r, kept, secret)) = r4
  BY DEF Verified, r2, r3
<1> QED
  BY <1>4, <1>5

LEMMA EmptyResult == emptyResult \in Result /\ ~emptyResult.ready /\ 0 \in 0..Batches
<1>1. emptyResult \in Result /\ ~emptyResult.ready
  BY DEF emptyResult, Result
<1>2. 0 \in 0..Batches
  BY PipelineAssumption
<1> QED
  BY <1>1, <1>2

(* The findings of the dependency scan do not make a result ready.         *)
LEMMA ScaResult ==
  ASSUME NEW r \in Result, ~r.ready
  PROVE  mergeScaIssues(r) \in Result /\ ~mergeScaIssues(r).ready
<1>1. r.issues \cup {"sca"} \in SUBSET Issue
  BY DEF Result, Issue, Static
<1>2. CASE vulnerable
  <2>1. mergeScaIssues(r) = [r EXCEPT !.issues = @ \cup {"sca"}, !.ready = FALSE]
    BY <1>2 DEF mergeScaIssues
  <2> QED
    BY <1>1, <2>1 DEF Result
<1>3. CASE ~vulnerable
  BY <1>3 DEF mergeScaIssues
<1> QED
  BY <1>2, <1>3

(* A failed single run is not ready.                                       *)
LEMMA SingleFailedResult == SingleFailed => result' \in Result /\ ~result'.ready
<1>1. ASSUME NEW text \in BOOLEAN
      PROVE  /\ [emptyResult EXCEPT !.text = text, !.blind = TRUE] \in Result
             /\ ~[emptyResult EXCEPT !.text = text, !.blind = TRUE].ready
  BY DEF emptyResult, Result
<1> QED
  BY <1>1, ScaResult DEF SingleFailed

(* Nor is a review of nothing.                                             *)
LEMMA ExcludedResult == Excluded => result' \in Result /\ ~result'.ready
<1>1. ASSUME NEW text \in BOOLEAN, NEW secret \in BOOLEAN
      PROVE  LET r == [emptyResult EXCEPT !.text = text]
                 r2 == IF secret THEN mergeSecretIssues(r) ELSE r
             IN  r2 \in Result /\ ~r2.ready
  BY DEF emptyResult, Result, mergeSecretIssues, Issue, Static
<1> QED
  BY <1>1, ScaResult DEF Excluded

(* The batches' findings as they are: ready only when nothing failed.      *)
LEMMA FallbackResult ==
  ASSUME found \subseteq Finding
  PROVE  Fallback \in Result /\ (Fallback.ready => bad = 0)
<1> DEFINE good == found = {} /\ bad = 0
           part == bad > 0
<1>1. ASSUME NEW g \in BOOLEAN, NEW b \in BOOLEAN
      PROVE  LET r == [emptyResult EXCEPT !.issues = found, !.text = TRUE,
                                          !.ready = g, !.blind = b]
             IN  r \in Result /\ r.ready = g
  BY DEF emptyResult, Result, Issue
<1>2. good \in BOOLEAN /\ part \in BOOLEAN /\ (good => bad = 0)
  OBVIOUS
<1> HIDE DEF good, part
<1>3. Fallback = [emptyResult EXCEPT !.issues = found, !.text = TRUE,
                                     !.ready = good, !.blind = part]
  BY DEF Fallback, good, part
<1> QED
  BY <1>1, <1>2, <1>3

(* What the agents answer is a result.                                     *)
LEMMA AgentsResult ==
  found \subseteq Finding /\ result \in Result /\ ReviewWithAgents
    => result' \in Result /\ found' \subseteq Finding
<1> SUFFICES ASSUME found \subseteq Finding, result \in Result, ReviewWithAgents
             PROVE  result' \in Result /\ found' \subseteq Finding
  OBVIOUS
<1>1. ASSUME found' \in SUBSET Finding, Answer(found') PROVE result' \in Result
  BY <1>1 DEF Answer, emptyResult, Result, Issue
<1>2. ASSUME found' \in SUBSET Finding, NEW ready \in BOOLEAN,
             result' = [emptyResult EXCEPT !.issues = found', !.text = TRUE,
                                           !.ready = ready, !.blind = TRUE]
      PROVE  result' \in Result
  BY <1>2 DEF emptyResult, Result, Issue
<1>3. ASSUME result' \in Salvaged PROVE result' \in Result
  BY <1>3 DEF Salvaged, Failed, emptyResult, Result, Issue
<1> QED
  BY <1>1, <1>2, <1>3 DEF ReviewWithAgents

(* A synthesis after a failed batch is not ready.                          *)
LEMMA SynthesizeResult ==
  found \subseteq Finding /\ result \in Result /\ ~result.ready /\ Synthesize
    => result' \in Result /\ (result'.ready => bad = 0)
<1> SUFFICES ASSUME found \subseteq Finding, result \in Result, ~result.ready, Synthesize
             PROVE  result' \in Result /\ (result'.ready => bad = 0)
  OBVIOUS
<1>1. ASSUME NEW issues \in SUBSET Finding, NEW ready \in BOOLEAN, NEW text \in BOOLEAN,
             result' = applyPartialBatchDegradation(
                 [emptyResult EXCEPT !.issues = issues, !.ready = ready, !.text = text])
      PROVE  result' \in Result /\ (result'.ready => bad = 0)
  BY <1>1 DEF applyPartialBatchDegradation, emptyResult, Result, Issue
<1> QED
  BY <1>1, FallbackResult DEF Synthesize

(* Nor does the verification make one ready, whichever way it ends.        *)
LEMMA VerifyResult ==
  found \subseteq Finding /\ result \in Result /\ (result.ready => bad = 0) /\ Verify
    => /\ result' \in Result
       /\ result'.ready => bad = 0
       /\ pc' \in Reviewed => (result'.ready => ~vulnerable /\ ~cut)
<1> SUFFICES ASSUME found \subseteq Finding, result \in Result, result.ready => bad = 0, Verify
             PROVE  /\ result' \in Result
                    /\ result'.ready => bad = 0
                    /\ pc' \in Reviewed => (result'.ready => ~vulnerable /\ ~cut)
  OBVIOUS
<1>1. CASE \E kept \in SUBSET result.issues, secret \in BOOLEAN :
             result' = applyBudgetedContextDegradation(Verified(result, kept, secret))
  <2>1. result.issues \subseteq Issue
    BY DEF Result
  <2> QED
    BY <1>1, <2>1, VerifiedResult
<1>2. CASE SingleFailed
  BY <1>2, SingleFailedResult
<1>3. CASE result' = Fallback /\ Goto("verify")
  BY <1>3, FallbackResult DEF Goto
<1>4. CASE Goto("threw") /\ UNCHANGED result
  BY <1>4 DEF Goto
<1> QED
  BY <1>1, <1>2, <1>3, <1>4 DEF Verify

-----------------------------------------------------------------------------
(* The result on its way through the pipeline.                             *)
ResultInv ==
  /\ pc \in Early => ~result.ready
  /\ pc \in {"excluded", "single", "agents", "verify single", "verify agents"} => bad = 0
  /\ result.ready => bad = 0
  /\ pc \in Reviewed \cup Posting \cup {"resolve", "delivered"} =>
       (result.ready => ~cut /\ ~vulnerable)

LEMMA PipelineKeepsResult ==
  PipelineTypeOK /\ ResultInv /\ PipelineStep => PipelineTypeOK' /\ ResultInv'
<1> SUFFICES ASSUME PipelineTypeOK, ResultInv, PipelineStep
             PROVE  PipelineTypeOK' /\ ResultInv'
  OBVIOUS
<1> USE DEF PipelineTypeOK, ResultInv, Goto
<1>0. emptyResult \in Result /\ ~emptyResult.ready /\ 0 \in 0..Batches
  BY EmptyResult
<1>1. CASE Prepare
  BY <1>0, <1>1 DEF Prepare
<1>2. CASE Excluded
  <2>1. /\ pc = "excluded" /\ pc' = "returned"
        /\ UNCHANGED <<vulnerable, cut, found, bad, partial>>
    BY <1>2 DEF Excluded
  <2> QED
    BY <1>2, <2>1, ExcludedResult
<1>3. CASE ReviewSingle
  <2>1. CASE SingleFailed /\ pc' = "returned" /\ UNCHANGED found
    BY <1>3, <2>1, SingleFailedResult DEF ReviewSingle
  <2>2. CASE pc' = "verify single" /\ found' \in SUBSET Finding /\ Answer(found')
    <3>1. result' \in Result
      BY <2>2 DEF Answer, emptyResult, Result, Issue
    <3> QED
      BY <1>3, <2>2, <3>1 DEF ReviewSingle
  <2>3. CASE pc' = "threw" /\ UNCHANGED <<found, result>>
    BY <1>3, <2>3 DEF ReviewSingle
  <2> QED
    BY <1>3, <2>1, <2>2, <2>3 DEF ReviewSingle
<1>4. CASE ReviewBatches
  BY <1>4 DEF ReviewBatches
<1>5. CASE Synthesize
  <2>1. result' \in Result /\ (result'.ready => bad = 0)
    BY <1>5, SynthesizeResult DEF Synthesize
  <2>2. /\ pc' \in {"verify batches", "verify", "threw"}
        /\ UNCHANGED <<vulnerable, cut, found, bad, partial>>
    BY <1>5 DEF Synthesize
  <2> QED
    BY <2>1, <2>2
<1>6. CASE ReviewWithAgents
  <2>1. /\ pc = "agents"
        /\ pc' \in {"verify agents", "verify", "threw"}
        /\ UNCHANGED <<vulnerable, cut, bad>> /\ partial' \in BOOLEAN
    BY <1>6 DEF ReviewWithAgents
  <2> QED
    BY <1>6, <2>1, AgentsResult
<1>7. CASE Verify
  <2>1. /\ pc' \in {"stream", "returned", "verify", "threw"}
        /\ found' \subseteq Finding
        /\ UNCHANGED <<vulnerable, cut, bad, partial>>
    BY <1>7 DEF Verify
  <2> QED
    BY <1>7, <2>1, VerifyResult
<1> QED
  BY <1>1, <1>2, <1>3, <1>4, <1>5, <1>6, <1>7 DEF PipelineStep
-----------------------------------------------------------------------------
(* Types.                                                                  *)

(* resolveReviewEvent approves only what is ready and not blind.           *)
LEMMA ReviewEvent ==
  /\ resolveReviewEvent \in {"COMMENT", "APPROVE", "REQUEST_CHANGES"}
  /\ resolveReviewEvent = "APPROVE" => result.ready /\ ~result.blind
BY DEF resolveReviewEvent

(* The findings in the body, or of which it says that some are left out,   *)
(* and those that are lost in one of the known ways.                       *)
Accounted == body \cup omitted \cup gone

(* What createReview leaves on the pull request.                           *)
LEMMA CreatedReview ==
  ASSUME NEW inline, createReview(inline)
  PROVE  /\ event' \in {"COMMENT", "APPROVE", "REQUEST_CHANGES"}
         /\ event' = "APPROVE" => result.ready /\ ~result.blind
         /\ body' \subseteq Fresh /\ omitted' \subseteq Fresh /\ gone' \subseteq Fresh
         /\ Fresh \ inline \subseteq Accounted'
<1> DEFINE rest == Fresh \ (inline \cup Beside(inline))
<1>1. Beside(inline) \subseteq Fresh
  BY DEF Beside
<1>2. /\ omitted' \in SUBSET rest
      /\ \/ event' = resolveReviewEvent /\ gone' = Beside(inline)
         \/ /\ event' = "COMMENT"
            /\ \E clipped \in SUBSET (rest \ omitted') : gone' = Beside(inline) \cup clipped
      /\ body' = rest \ (omitted' \cup gone')
  BY DEF createReview
<1>3. gone' \subseteq Fresh /\ Beside(inline) \subseteq gone'
  BY <1>1, <1>2
<1>4. /\ event' \in {"COMMENT", "APPROVE", "REQUEST_CHANGES"}
      /\ event' = "APPROVE" => result.ready /\ ~result.blind
  BY <1>2, ReviewEvent
<1> QED
  BY <1>2, <1>3, <1>4 DEF Accounted

LEMMA FreshTypes == result \in Result => Fresh \subseteq result.issues /\ result.issues \subseteq Issue
BY DEF Fresh, Unstreamed, Result

LEMMA Bounds ==
  /\ Attempts \in Nat \ {0} /\ MaxThreads \in Nat \ {0} /\ Runs \in Nat \ {0}
  /\ 0 \in 0..Attempts /\ 1 \in 0..Attempts /\ 0 \in 0..MaxThreads
<1>1. Attempts \in Nat \ {0} /\ MaxThreads \in Nat \ {0} /\ Runs \in Nat \ {0}
  BY ThreadsAssumption, ActionAssumption
<1> QED
  BY <1>1

(* A thread more for some findings, up to the bound.                       *)
LEMMA ThreadTypes ==
  ASSUME NEW fs, Thread(fs), open \in [Issue -> 0..MaxThreads]
  PROVE  open' \in [Issue -> 0..MaxThreads]
BY Bounds DEF Thread

LEMMA InitTypes == Init => TypeInv /\ ResultInv
<1>1. 0 \in 0..Batches /\ 0 \in 0..Attempts /\ 0 \in 0..MaxThreads /\ 1 \in 1..Runs
  BY PipelineAssumption, Bounds
<1> QED
  BY <1>1, EmptyResult DEF Init, TypeInv, TypeOK, PipelineInit, PipelineTypeOK, ThreadsInit,
     ThreadsTypeOK, NoReview, ResultInv

(* The actions of the pipeline leave the postings alone, those of the job  *)
(* the pipeline.                                                           *)
LEMMA TypesPreserved ==
  TypeInv /\ ResultInv /\ [Next]_actionVars => TypeInv' /\ ResultInv'
<1> SUFFICES ASSUME TypeInv, ResultInv, [Next]_actionVars PROVE TypeInv' /\ ResultInv'
  OBVIOUS
<1>0. Fresh \subseteq Issue
  BY FreshTypes DEF TypeInv, TypeOK, PipelineTypeOK
<1> USE DEF Goto, job, threads, knowledge, posting
<1>1. CASE PipelineStep /\ UNCHANGED <<run, job, posted>>
  <2>1. PipelineTypeOK' /\ ResultInv'
    BY <1>1, PipelineKeepsResult DEF TypeInv, TypeOK
  <2>2. /\ pc \in Early \cup Checking
        /\ pc' \in Early \cup Checking \cup Reviewed \cup {"threw"}
    BY <1>1 DEF PipelineStep, Prepare, Excluded, ReviewSingle, ReviewBatches, Synthesize,
                ReviewWithAgents, Verify
  <2> QED
    BY <1>1, <2>1, <2>2 DEF posted, TypeInv, TypeOK, ThreadsTypeOK, NoReview
<1> USE DEF pipeline, posted
<1>2. CASE Start
  BY <1>2 DEF Start, Fail, PipelineTypeOK, TypeInv, TypeOK, ThreadsTypeOK, NoReview, ResultInv
<1>3. CASE FetchThreads
  BY <1>3 DEF FetchThreads, PipelineTypeOK, TypeInv, TypeOK, ThreadsTypeOK, NoReview, ResultInv
<1>4. CASE Stream
  <2>1. open' \in [Issue -> 0..MaxThreads]
    BY <1>4, ThreadTypes DEF Stream, TypeInv, TypeOK, ThreadsTypeOK
  <2>2. (IF pc = "stream" THEN result.issues ELSE found) \subseteq Issue
    BY DEF PipelineTypeOK, Result, Issue, TypeInv, TypeOK, ThreadsTypeOK, NoReview, ResultInv
  <2>3. streamed' \subseteq Issue /\ lossy' \in BOOLEAN
    BY <1>4, <2>2 DEF Stream, TypeInv, TypeOK, ThreadsTypeOK
  <2>4. UNCHANGED <<run, job, closed, knowledge, posting, resolved, pipeline>>
    BY <1>4 DEF Stream
  <2>5. \/ pc = "stream" /\ pc' = "returned"
        \/ pc = "stream batches" /\ pc' = "synthesize"
    BY <1>4 DEF Stream, AfterStream
  <2>6. ResultInv'
    BY <2>4, <2>5 DEF ResultInv
  <2> QED
    <3>1. ThreadsTypeOK'
      BY <2>1, <2>3, <2>4 DEF TypeInv, TypeOK, ThreadsTypeOK
    <3>2. TypeOK'
      BY <2>4, <3>1 DEF TypeInv, TypeOK, PipelineTypeOK
    <3>3. NoReview' /\ resolved' = {}
      BY <2>4, <2>5 DEF TypeInv, NoReview
    <3> QED
      BY <2>5, <2>6, <3>2, <3>3 DEF TypeInv
<1>5. CASE Returned
  <2>1. calls < Attempts
    BY <1>5, Bounds DEF Returned, TypeInv, NoReview
  <2>2. /\ pc = "returned" /\ pc' \in {"done", "post"} /\ failed' \in BOOLEAN
        /\ UNCHANGED <<run, skipped, outputs, posted, pipeline>>
    BY <1>5 DEF Returned, Fail, TypeInv, TypeOK
  <2>3. TypeOK'
    BY <2>2 DEF TypeInv, TypeOK, PipelineTypeOK, ThreadsTypeOK
  <2>4. ResultInv'
    BY <2>2 DEF ResultInv
  <2> QED
    BY <2>1, <2>2, <2>3, <2>4 DEF TypeInv
<1>6. CASE GiveUp
  BY <1>6 DEF GiveUp, Fail, PipelineTypeOK, TypeInv, TypeOK, ThreadsTypeOK, NoReview, ResultInv
<1>7. CASE Finish
  BY <1>7, ActionAssumption DEF Finish, PipelineTypeOK, TypeInv, TypeOK, ThreadsTypeOK, NoReview, ResultInv
<1>8. CASE PostBatched /\ UNCHANGED <<run, job>>
  <2>1. open' \in [Issue -> 0..MaxThreads]
    BY <1>8, ThreadTypes DEF PostBatched, TypeInv, TypeOK, ThreadsTypeOK
  <2>2. /\ body' \subseteq Issue /\ omitted' \subseteq Issue /\ gone' \subseteq Issue
        /\ event' \in {"none", "COMMENT", "APPROVE", "REQUEST_CHANGES"}
        /\ placed' \subseteq Issue
    <3>1. placed' \subseteq Issue
      BY <1>0, <1>8 DEF PostBatched
    <3>2. CASE createReview(placed')
      <4>1. /\ event' \in {"COMMENT", "APPROVE", "REQUEST_CHANGES"}
            /\ body' \subseteq Fresh /\ omitted' \subseteq Fresh /\ gone' \subseteq Fresh
        BY <3>2, CreatedReview
      <4> QED
        BY <1>0, <3>1, <4>1
    <3>3. CASE UNCHANGED <<body, omitted, event, gone>>
      BY <3>1, <3>3 DEF TypeInv, TypeOK, ThreadsTypeOK
    <3> QED
      BY <1>8, <3>1, <3>2, <3>3 DEF PostBatched
  <2>3. 1 \in 0..Attempts
    BY Bounds
  <2>4. /\ pc = "post" /\ pc' \in {"resolve", "post body"} /\ calls' = 1 /\ lossy' \in BOOLEAN
        /\ UNCHANGED <<closed, knowledge, streamed, resolved, pipeline, run, job>>
    BY <1>8 DEF PostBatched, TypeInv, TypeOK, ThreadsTypeOK
  <2> QED
    BY <2>1, <2>2, <2>3, <2>4 DEF PipelineTypeOK, TypeInv, TypeOK, ThreadsTypeOK, NoReview, ResultInv
<1>9. CASE PostBody /\ UNCHANGED <<run, job>>
  <2>1. /\ body' \subseteq Issue /\ omitted' \subseteq Issue /\ gone' \subseteq Issue
        /\ event' \in {"none", "COMMENT", "APPROVE", "REQUEST_CHANGES"}
    <3>1. CASE createReview(placed)
      <4>1. /\ event' \in {"COMMENT", "APPROVE", "REQUEST_CHANGES"}
            /\ body' \subseteq Fresh /\ omitted' \subseteq Fresh /\ gone' \subseteq Fresh
        BY <3>1, CreatedReview
      <4> QED
        BY <1>0, <4>1
    <3>2. CASE UNCHANGED <<body, omitted, event, gone>>
      BY <3>2 DEF TypeInv, TypeOK, ThreadsTypeOK
    <3> QED
      BY <1>9, <3>1, <3>2 DEF PostBody
  <2>2. /\ pc' \in {"resolve", "post comments", "undelivered"} /\ lossy' \in BOOLEAN
        /\ pc = "post body"
        /\ UNCHANGED <<threads, knowledge, streamed, placed, calls, resolved, pipeline, run, job>>
    BY <1>9 DEF PostBody, TypeInv, TypeOK, ThreadsTypeOK
  <2> QED
    BY <2>1, <2>2 DEF PipelineTypeOK, TypeInv, TypeOK, ThreadsTypeOK, NoReview, ResultInv
<1>10. CASE PostComments /\ UNCHANGED <<run, job>>
  <2>1. open' \in [Issue -> 0..MaxThreads]
    BY <1>10, ThreadTypes DEF PostComments, TypeInv, TypeOK, ThreadsTypeOK
  <2>2. body' \subseteq Issue /\ gone' \subseteq Issue /\ lossy' \in BOOLEAN
    BY <1>10 DEF PostComments, TypeInv, TypeOK, ThreadsTypeOK
  <2>3. /\ pc = "post comments" /\ pc' \in {"resolve", "post threw"}
        /\ UNCHANGED <<closed, knowledge, streamed, placed, omitted, event, calls, resolved, pipeline, run, job>>
    BY <1>10 DEF PostComments
  <2> QED
    BY <2>1, <2>2, <2>3 DEF PipelineTypeOK, TypeInv, TypeOK, ThreadsTypeOK, NoReview, ResultInv
<1>11. CASE PostArray /\ UNCHANGED <<run, job>>
  <2>1. open' \in [Issue -> 0..MaxThreads]
    BY <1>11, ThreadTypes DEF PostArray, TypeInv, TypeOK, ThreadsTypeOK
  <2>2. /\ body' \subseteq Issue /\ omitted' \subseteq Issue /\ gone' \subseteq Issue
        /\ event' \in {"none", "COMMENT", "APPROVE", "REQUEST_CHANGES"}
        /\ placed' \subseteq Issue
    <3>1. placed' \subseteq Issue
      BY <1>0, <1>11 DEF PostArray
    <3>2. CASE createReview(placed')
      <4>1. /\ event' \in {"COMMENT", "APPROVE", "REQUEST_CHANGES"}
            /\ body' \subseteq Fresh /\ omitted' \subseteq Fresh /\ gone' \subseteq Fresh
        BY <3>2, CreatedReview
      <4> QED
        BY <1>0, <3>1, <4>1
    <3>3. CASE UNCHANGED <<body, omitted, event, gone>>
      BY <3>1, <3>3 DEF TypeInv, TypeOK, ThreadsTypeOK
    <3> QED
      BY <1>11, <3>1, <3>2, <3>3 DEF PostArray
  <2>3. calls' \in 0..Attempts /\ (pc' = "post" => calls' < Attempts)
    <3>1. calls \in 0..Attempts /\ calls < Attempts /\ calls' = calls + 1
      BY <1>11 DEF PostArray, TypeInv, TypeOK, ThreadsTypeOK
    <3>2. calls' \in 0..Attempts
      BY <3>1, Bounds
    <3> QED
      BY <1>11, <3>2 DEF PostArray
  <2>4. /\ pc = "post" /\ pc' \in {"resolve", "post", "post threw", "post summary"}
        /\ lossy' \in BOOLEAN
        /\ UNCHANGED <<closed, knowledge, streamed, resolved, pipeline, run, job>>
    BY <1>11 DEF PostArray, TypeInv, TypeOK, ThreadsTypeOK
  <2> QED
    BY <2>1, <2>2, <2>3, <2>4 DEF PipelineTypeOK, TypeInv, TypeOK, ThreadsTypeOK, NoReview, ResultInv
<1>12. CASE PostSummary /\ UNCHANGED <<run, job>>
  <2>1. /\ body' \subseteq Issue /\ omitted' \subseteq Issue /\ gone' \subseteq Issue
        /\ event' \in {"none", "COMMENT", "APPROVE", "REQUEST_CHANGES"}
    <3>1. CASE createReview({})
      BY <1>0, <3>1, CreatedReview
    <3>2. CASE UNCHANGED <<body, omitted, event, gone>>
      BY <3>2 DEF TypeInv, TypeOK, ThreadsTypeOK
    <3> QED
      BY <1>12, <3>1, <3>2 DEF PostSummary
  <2>2. /\ pc = "post summary" /\ pc' \in {"resolve", "undelivered"} /\ lossy' \in BOOLEAN
        /\ UNCHANGED <<threads, knowledge, streamed, placed, calls, resolved, pipeline, run, job>>
    BY <1>12 DEF PostSummary, TypeInv, TypeOK, ThreadsTypeOK
  <2> QED
    BY <2>1, <2>2 DEF PipelineTypeOK, TypeInv, TypeOK, ThreadsTypeOK, NoReview, ResultInv
<1>13. CASE ResolveAddressed /\ UNCHANGED <<run, job>>
  <2>1. PICK findings : ResolveOtherThan(findings)
    BY <1>13 DEF ResolveAddressed
  <2>2. open' \in [Issue -> 0..MaxThreads] /\ closed' \subseteq Issue /\ resolved' \subseteq Issue
    BY <2>1, Bounds DEF ResolveOtherThan, TypeInv, TypeOK, ThreadsTypeOK
  <2>3. /\ pc = "resolve" /\ pc' = "delivered" /\ placed' = {}
        /\ UNCHANGED <<knowledge, streamed, body, omitted, event, calls, gone, lossy, pipeline, run, job>>
    BY <1>13, <2>1 DEF ResolveOtherThan
  <2> QED
    BY <2>2, <2>3 DEF PipelineTypeOK, TypeInv, TypeOK, ThreadsTypeOK, NoReview, ResultInv
<1>14. CASE ResolveByHand /\ UNCHANGED <<run, job>>
  <2>1. open' \in [Issue -> 0..MaxThreads] /\ closed' \subseteq Issue
    <3>1. PICK f \in Issue : open' = [open EXCEPT ![f] = 0] /\ closed' = closed \cup {f}
      BY <1>14 DEF ResolveByHand
    <3>2. 0 \in 0..MaxThreads
      BY Bounds
    <3> QED
      BY <3>1, <3>2 DEF TypeInv, TypeOK, ThreadsTypeOK
  <2>2. UNCHANGED <<pc, knowledge, streamed, posting, lossy, resolved, pipeline, run, job>>
    BY <1>14 DEF ResolveByHand
  <2>3. PipelineTypeOK' /\ ResultInv'
    BY <2>2 DEF pipeline, PipelineTypeOK, ResultInv, TypeInv, TypeOK
  <2>4. ThreadsTypeOK' /\ (NoReview <=> NoReview') /\ calls' = calls /\ resolved' = resolved
    BY <2>1, <2>2 DEF posting, knowledge, ThreadsTypeOK, NoReview, TypeInv, TypeOK
  <2> QED
    BY <2>2, <2>3, <2>4 DEF TypeInv, TypeOK, job
<1>15. CASE NextRun
  <2>1. run' \in 1..Runs
    BY <1>15, Bounds DEF NextRun, TypeInv, TypeOK
  <2>2. PipelineTypeOK'
    BY <1>15, EmptyResult DEF NextRun, PipelineTypeOK
  <2>3. 0 \in 0..Attempts
    BY Bounds
  <2>4. ThreadsTypeOK' /\ NoReview'
    BY <1>15, <2>3 DEF NextRun, TypeInv, TypeOK, ThreadsTypeOK, NoReview
  <2>5. ResultInv'
    BY <1>15, EmptyResult DEF NextRun, ResultInv
  <2>6. /\ pc' = "start" /\ resolved' = {}
        /\ failed' = FALSE /\ skipped' = FALSE /\ outputs' = FALSE
    BY <1>15 DEF NextRun, Goto
  <2>7. TypeOK'
    BY <2>1, <2>2, <2>4, <2>6 DEF TypeOK
  <2> QED
    BY <2>4, <2>5, <2>6, <2>7 DEF TypeInv
<1>16. CASE UNCHANGED actionVars
  <2>1. UNCHANGED <<pc, run, job, posted, pipeline>>
    BY <1>16 DEF actionVars
  <2>2. PipelineTypeOK' /\ ResultInv'
    BY <2>1 DEF pipeline, PipelineTypeOK, ResultInv, TypeInv, TypeOK
  <2>3. ThreadsTypeOK' /\ (NoReview <=> NoReview') /\ calls' = calls /\ resolved' = resolved
    BY <2>1 DEF posted, threads, posting, knowledge, ThreadsTypeOK, NoReview, TypeInv, TypeOK
  <2> QED
    BY <2>1, <2>2, <2>3 DEF TypeInv, TypeOK, job
<1> QED
  BY <1>1, <1>2, <1>3, <1>4, <1>5, <1>6, <1>7, <1>8, <1>9, <1>10, <1>11, <1>12, <1>13, <1>14,
     <1>15, <1>16 DEF Next, JobStep, PostStep

LEMMA TypesHold == Spec => [](TypeInv /\ ResultInv)
BY InitTypes, TypesPreserved, PTL DEF Spec

-----------------------------------------------------------------------------
(* The verdict and the end of a job.                                       *)

DeliveryInv ==
  /\ ApprovalMeansReviewed
  /\ pc \in {"post comments", "resolve", "delivered"} => event # "none"
  /\ outputs => pc = "done" /\ event # "none"
  /\ pc = "done" /\ ~failed /\ ~skipped => outputs

LEMMA InitDelivery == Init => DeliveryInv
BY DEF Init, DeliveryInv, ApprovalMeansReviewed, ThreadsInit, NoReview

LEMMA DeliveryPreserved ==
  TypeInv /\ ResultInv /\ DeliveryInv /\ [Next]_actionVars => DeliveryInv'
<1> SUFFICES ASSUME TypeInv, ResultInv, DeliveryInv, [Next]_actionVars PROVE DeliveryInv'
  OBVIOUS
<1> USE DEF DeliveryInv, Goto, job, threads, knowledge, posting
<1>1. CASE PipelineStep /\ UNCHANGED <<run, job, posted>>
  <2>1. /\ pc \in Early \cup Checking
        /\ pc' \in Early \cup Checking \cup Reviewed \cup {"threw"}
    BY <1>1 DEF PipelineStep, Prepare, Excluded, ReviewSingle, ReviewBatches, Synthesize,
                ReviewWithAgents, Verify
  <2>2. event' = "none" /\ outputs' = outputs
    BY <1>1, <2>1 DEF TypeInv, NoReview, posted
  <2> QED
    BY <2>1, <2>2 DEF ApprovalMeansReviewed
<1> USE DEF posted, pipeline, ApprovalMeansReviewed
<1>a. ASSUME Fail, pc # "done" PROVE DeliveryInv'
  BY <1>a DEF Fail
<1>2. CASE Start
  <2>1. CASE skipped' = TRUE /\ Goto("done") /\ UNCHANGED <<run, failed, outputs, posted, pipeline>>
    BY <1>2, <2>1 DEF Start
  <2>2. CASE Goto("threads") /\ UNCHANGED <<run, job, posted, pipeline>>
    BY <1>2, <2>2 DEF Start
  <2> QED
    BY <1>a, <1>2, <2>1, <2>2 DEF Start
<1>3. CASE FetchThreads
  BY <1>3 DEF FetchThreads
<1>4. CASE Stream
  <2>1. UNCHANGED <<run, job, closed, knowledge, posting, resolved, pipeline>>
    BY <1>4 DEF Stream
  <2>2. /\ pc \in {"stream", "stream batches"}
        /\ pc' \in {"returned", "synthesize"}
    BY <1>4 DEF Stream, AfterStream
  <2> QED
    BY <2>1, <2>2
<1>5. CASE Returned
  <2>1. CASE Goto("post") /\ UNCHANGED <<run, job, posted, pipeline>>
    BY <1>5, <2>1 DEF Returned
  <2> QED
    BY <1>a, <1>5, <2>1 DEF Returned
<1>6. CASE GiveUp
  BY <1>a, <1>6 DEF GiveUp
<1>7. CASE Finish
  BY <1>7 DEF Finish
<1>8. ASSUME NEW inline, createReview(inline), pc \in Posting, UNCHANGED <<job, pipeline>>,
             pc' # "done"
      PROVE  DeliveryInv'
  <2>1. /\ event' # "none"
        /\ event' = "APPROVE" => result.ready /\ ~result.blind
    BY <1>8, CreatedReview
  <2> QED
    BY <1>8, <2>1 DEF ResultInv
<1>9. CASE PostBatched /\ UNCHANGED <<run, job>>
  BY <1>8, <1>9 DEF PostBatched
<1>10. CASE PostBody /\ UNCHANGED <<run, job>>
  BY <1>8, <1>10 DEF PostBody
<1>11. CASE PostComments /\ UNCHANGED <<run, job>>
  BY <1>11 DEF PostComments
<1>12. CASE PostArray /\ UNCHANGED <<run, job>>
  BY <1>8, <1>12 DEF PostArray
<1>13. CASE PostSummary /\ UNCHANGED <<run, job>>
  BY <1>8, <1>13 DEF PostSummary
<1>14. CASE ResolveAddressed /\ UNCHANGED <<run, job>>
  BY <1>14 DEF ResolveAddressed, ResolveOtherThan
<1>15. CASE ResolveByHand /\ UNCHANGED <<run, job>>
  BY <1>15 DEF ResolveByHand
<1>16. CASE NextRun
  BY <1>16 DEF NextRun
<1>17. CASE UNCHANGED actionVars
  BY <1>17 DEF actionVars
<1> QED
  BY <1>1, <1>2, <1>3, <1>4, <1>5, <1>6, <1>7, <1>9, <1>10, <1>11, <1>12, <1>13, <1>14,
     <1>15, <1>16, <1>17 DEF Next, JobStep, PostStep

LEMMA DeliveryHolds == Spec => []DeliveryInv
BY InitTypes, TypesPreserved, InitDelivery, DeliveryPreserved, PTL DEF Spec

-----------------------------------------------------------------------------
(* Findings and threads.                                                   *)

(* The findings with a thread, open or resolved: there are never fewer.    *)
Threaded == {f \in Issue : open[f] > 0 \/ f \in closed}

(* Until a job streams, nothing has been streamed.                         *)
BeforeStream == {"start", "threads", "prepare", "excluded", "single", "batches",
                 "stream batches", "agents", "verify single", "verify agents", "stream"}

(* Until a job posts, it has read the threads there are, or streamed them. *)
Informed == (Early \ {"start", "threads"}) \cup Checking \cup Reviewed \cup Posting

ThreadsInv ==
  /\ seen \cup streamed \subseteq Threaded
  /\ pc \in BeforeStream => streamed = {}
  /\ streamed \cap seen = {}
  /\ NoDuplicateThreads
  /\ ~lossy /\ pc \in Informed => Threaded \subseteq seen \cup streamed
  /\ pc \in {"post body", "post comments"} => placed \subseteq Fresh
  /\ pc = "post comments" => Fresh \ placed \subseteq Accounted
  /\ pc \in {"resolve", "delivered"} \/ outputs =>
       result.issues \subseteq Threaded \cup Accounted
  /\ resolved # {} => pc \in {"delivered", "done"}
  /\ CommentsStayOpen

USE DEF BeforeStream, Informed

(* Comments on findings without a thread start one for each.               *)
LEMMA ThreadStarts ==
  ASSUME NEW fs \in SUBSET Issue, Thread(fs), open \in [Issue -> 0..MaxThreads],
         UNCHANGED closed
  PROVE  /\ Threaded' = Threaded \cup fs
         /\ NoDuplicateThreads /\ lossy' = lossy /\ (~lossy => fs \cap Threaded = {})
              => NoDuplicateThreads'
<1>1. \A f \in Issue : open'[f] = IF f \in fs /\ open[f] < MaxThreads THEN open[f] + 1 ELSE open[f]
  BY DEF Thread
<1>2. \A f \in Issue : open[f] \in Nat /\ open[f] <= MaxThreads
  OBVIOUS
<1>3. Threaded' = Threaded \cup fs
  BY <1>1, <1>2, Bounds DEF Threaded
<1>4. ASSUME NoDuplicateThreads, lossy' = lossy, ~lossy => fs \cap Threaded = {}
      PROVE  NoDuplicateThreads'
  BY <1>1, <1>2, <1>4, Bounds DEF Threaded, NoDuplicateThreads
<1> QED
  BY <1>3, <1>4

(* Resolving threads keeps them.                                           *)
LEMMA ThreadsResolved ==
  ASSUME NEW fs \in SUBSET Issue, open \in [Issue -> 0..MaxThreads],
         \A f \in fs : open[f] > 0,
         open' = [f \in Issue |-> IF f \in fs THEN 0 ELSE open[f]],
         closed' = closed \cup fs
  PROVE  /\ Threaded' = Threaded
         /\ NoDuplicateThreads /\ lossy' = lossy => NoDuplicateThreads'
<1>1. \A f \in Issue : open[f] \in Nat
  OBVIOUS
<1>2. \A f \in Issue : open'[f] = IF f \in fs THEN 0 ELSE open[f]
  OBVIOUS
<1>3. Threaded' = Threaded
  BY <1>1, <1>2 DEF Threaded
<1>4. ASSUME NoDuplicateThreads, lossy' = lossy PROVE NoDuplicateThreads'
  BY <1>1, <1>2, <1>4 DEF NoDuplicateThreads
<1> QED
  BY <1>3, <1>4

LEMMA InitThreads == Init => ThreadsInv
BY Bounds DEF Init, ThreadsInv, ThreadsInit, NoReview, Threaded, NoDuplicateThreads,
   CommentsStayOpen, StillReportedStaysOpen

(* No step of the pipeline is taken after the streaming but on the way to  *)
(* the end of the review.                                                  *)
LEMMA PipelineKeepsThreads ==
  TypeInv /\ ThreadsInv /\ DeliveryInv /\ PipelineStep /\ UNCHANGED <<run, job, posted>>
    => ThreadsInv'
<1> SUFFICES ASSUME TypeInv, ThreadsInv, DeliveryInv, PipelineStep, UNCHANGED <<run, job, posted>>
             PROVE  ThreadsInv'
  OBVIOUS
<1> USE DEF Goto
<1>1. \/ /\ pc \in BeforeStream
         /\ pc' \in BeforeStream \cup {"verify", "returned", "threw"}
      \/ /\ pc \in {"synthesize", "verify", "verify batches"}
         /\ pc' \in {"verify batches", "verify", "returned", "threw"}
  BY DEF PipelineStep, Prepare, Excluded, ReviewSingle, ReviewBatches, Synthesize,
         ReviewWithAgents, Verify
<1>2. pc \in Informed
  BY DEF PipelineStep, Prepare, Excluded, ReviewSingle, ReviewBatches, Synthesize,
         ReviewWithAgents, Verify
<1>3. resolved = {} /\ ~outputs
  BY <1>1 DEF TypeInv, DeliveryInv
<1>4. UNCHANGED <<open, closed, seen, streamed, lossy, resolved, outputs, way>>
  BY DEF posted, threads, knowledge, job
<1>5. Threaded' = Threaded
  BY <1>4 DEF Threaded
<1>6. CommentsStayOpen' /\ NoDuplicateThreads'
  BY <1>3, <1>4 DEF CommentsStayOpen, StillReportedStaysOpen, NoDuplicateThreads, ThreadsInv
<1> QED
  BY <1>1, <1>2, <1>3, <1>4, <1>5, <1>6 DEF ThreadsInv

LEMMA ThreadsPreserved ==
  TypeInv /\ DeliveryInv /\ ThreadsInv /\ [Next]_actionVars => ThreadsInv'
<1> SUFFICES ASSUME TypeInv, DeliveryInv, ThreadsInv, [Next]_actionVars PROVE ThreadsInv'
  OBVIOUS
<1> USE DEF Goto, job, threads, knowledge, posting
<1>0. /\ open \in [Issue -> 0..MaxThreads] /\ closed \subseteq Issue
      /\ seen \subseteq Issue /\ live \subseteq seen /\ streamed \subseteq Issue
      /\ placed \subseteq Issue /\ lossy \in BOOLEAN
      /\ found \subseteq Issue /\ result.issues \subseteq Issue
      /\ Fresh \subseteq result.issues
  BY FreshTypes DEF TypeInv, TypeOK, ThreadsTypeOK, PipelineTypeOK, Issue
<1>1. CASE PipelineStep /\ UNCHANGED <<run, job, posted>>
  BY <1>1, PipelineKeepsThreads
<1> USE DEF posted, pipeline
<1>2. ASSUME UNCHANGED <<threads, knowledge, streamed, lossy, resolved, pipeline, body, omitted, gone, placed>>
      PROVE  /\ Threaded' = Threaded /\ Fresh' = Fresh /\ Accounted' = Accounted
             /\ NoDuplicateThreads' /\ CommentsStayOpen'
  BY <1>2 DEF Threaded, Fresh, Unstreamed, Accounted, NoDuplicateThreads, CommentsStayOpen,
              StillReportedStaysOpen, ThreadsInv
<1>3. CASE Start \/ Returned \/ GiveUp \/ Finish
  <2>1. /\ UNCHANGED <<threads, knowledge, streamed, lossy, resolved, pipeline, body, omitted, gone, placed>>
        /\ pc \in {"start", "returned", "aborted", "threw", "post threw", "undelivered", "delivered"}
        /\ \/ pc = "delivered" /\ pc' = "done"
           \/ pc # "delivered" /\ UNCHANGED outputs /\ pc' = "done"
           \/ pc = "start" /\ UNCHANGED outputs /\ pc' = "threads"
           \/ pc = "returned" /\ UNCHANGED outputs /\ pc' = "post"
    BY <1>3 DEF Start, Returned, GiveUp, Finish, Fail
  <2>2. ~outputs
    BY <2>1 DEF DeliveryInv
  <2>3. UNCHANGED <<Threaded, Fresh, Accounted>> /\ NoDuplicateThreads' /\ CommentsStayOpen'
    BY <1>2, <2>1
  <2>4. UNCHANGED <<seen, streamed, lossy, placed, result, resolved>>
    BY <2>1
  <2>5. CASE pc = "delivered" /\ pc' = "done"
    BY <2>3, <2>4, <2>5 DEF ThreadsInv
  <2>6. CASE pc = "start" /\ UNCHANGED outputs /\ pc' = "threads"
    BY <2>2, <2>3, <2>4, <2>6 DEF ThreadsInv
  <2>7. CASE pc = "returned" /\ UNCHANGED outputs /\ pc' = "post"
    BY <2>2, <2>3, <2>4, <2>7 DEF ThreadsInv
  <2>8. CASE pc # "delivered" /\ UNCHANGED outputs /\ pc' = "done"
    BY <2>2, <2>3, <2>4, <2>8 DEF ThreadsInv
  <2> QED
    BY <2>1, <2>5, <2>6, <2>7, <2>8
<1>4. CASE FetchThreads
  <2>1. /\ pc = "threads" /\ pc' \in {"prepare", "aborted"}
        /\ UNCHANGED <<run, job, threads, way, streamed, posting, resolved, pipeline>>
    BY <1>4 DEF FetchThreads
  <2>2. \/ seen' = {f \in Issue : open[f] > 0} \cup closed /\ lossy' = lossy
        \/ seen' = {} /\ lossy' = TRUE
    BY <1>4 DEF FetchThreads
  <2>3. Threaded' = Threaded /\ streamed' = {} /\ ~outputs' /\ resolved' = {}
    BY <2>1 DEF Threaded, ThreadsInv, DeliveryInv, TypeInv
  <2>4. seen' \subseteq Threaded /\ (~lossy' => seen' = Threaded)
    BY <1>0, <2>2 DEF Threaded
  <2>5. NoDuplicateThreads' /\ CommentsStayOpen'
    BY <2>1, <2>2, <2>3 DEF ThreadsInv, NoDuplicateThreads, CommentsStayOpen, StillReportedStaysOpen
  <2> QED
    BY <2>1, <2>3, <2>4, <2>5 DEF ThreadsInv
<1>5. CASE Stream
  <2>1. PICK arrived \in SUBSET Issue : \E heard \in SUBSET arrived :
          /\ arrived \cap seen = {}
          /\ Thread(arrived) /\ streamed' = heard /\ lossy' = (lossy \/ heard # arrived)
    <3> DEFINE issues == IF pc = "stream" THEN result.issues ELSE found
    <3>1. issues \subseteq Issue
      BY <1>0
    <3>2. \E arrived \in SUBSET (issues \ seen) : \E heard \in SUBSET arrived :
            Thread(arrived) /\ streamed' = heard /\ lossy' = (lossy \/ heard # arrived)
      BY <1>5 DEF Stream
    <3> QED
      BY <3>1, <3>2
  <2>2. /\ UNCHANGED <<run, job, closed, knowledge, posting, resolved, pipeline>>
        /\ pc \in {"stream", "stream batches"} /\ pc' \in {"returned", "synthesize"}
    BY <1>5 DEF Stream, AfterStream
  <2>3. streamed = {} /\ ~outputs /\ resolved = {} /\ (~lossy => Threaded \subseteq seen)
    BY <2>2 DEF ThreadsInv, DeliveryInv, TypeInv
  <2>4. Threaded' = Threaded \cup arrived
    BY <1>0, <2>1, <2>2, ThreadStarts
  <2>5. NoDuplicateThreads'
    <3>1. CASE lossy'
      BY <3>1 DEF NoDuplicateThreads
    <3>2. CASE ~lossy'
      <4>1. ~lossy /\ arrived \cap Threaded = {} /\ lossy' = lossy
        BY <1>0, <2>1, <2>3, <3>2
      <4> QED
        BY <1>0, <2>1, <2>2, <4>1, ThreadStarts DEF ThreadsInv
    <3> QED
      BY <3>1, <3>2
  <2>6. CommentsStayOpen'
    BY <2>2, <2>3 DEF CommentsStayOpen, StillReportedStaysOpen
  <2> QED
    BY <2>1, <2>2, <2>3, <2>4, <2>5, <2>6 DEF ThreadsInv
<1>6. CASE UNCHANGED actionVars
  BY <1>2, <1>6 DEF actionVars, ThreadsInv
<1>7. CASE NextRun
  <2>1. UNCHANGED <<open, closed, way, lossy>> /\ seen' = {} /\ streamed' = {} /\ resolved' = {}
        /\ pc' = "start" /\ outputs' = FALSE
    BY <1>7 DEF NextRun
  <2>2. Threaded' = Threaded /\ NoDuplicateThreads' /\ CommentsStayOpen'
    BY <2>1 DEF Threaded, NoDuplicateThreads, ThreadsInv, CommentsStayOpen, StillReportedStaysOpen
  <2> QED
    BY <2>1, <2>2 DEF ThreadsInv
<1>8. CASE ResolveByHand /\ UNCHANGED <<run, job>>
  <2>1. PICK f \in Issue : /\ open[f] > 0 /\ open' = [open EXCEPT ![f] = 0]
                           /\ closed' = closed \cup {f}
    BY <1>8 DEF ResolveByHand
  <2>2. open' = [g \in Issue |-> IF g \in {f} THEN 0 ELSE open[g]]
    BY <1>0, <2>1
  <2>3. UNCHANGED <<pc, knowledge, streamed, posting, lossy, resolved, pipeline, run, job>>
    BY <1>8 DEF ResolveByHand
  <2>4. Threaded' = Threaded /\ NoDuplicateThreads'
    <3>1. {f} \in SUBSET Issue /\ \A g \in {f} : open[g] > 0
      BY <2>1
    <3> QED
      BY <1>0, <2>1, <2>2, <2>3, <3>1, ThreadsResolved DEF ThreadsInv
  <2>5. Fresh' = Fresh /\ Accounted' = Accounted /\ CommentsStayOpen'
    BY <2>3 DEF Fresh, Unstreamed, Accounted, ThreadsInv, CommentsStayOpen, StillReportedStaysOpen
  <2> QED
    BY <2>3, <2>4, <2>5 DEF ThreadsInv
<1>9. CASE ResolveAddressed /\ UNCHANGED <<run, job>>
  <2> DEFINE spared == IF way = "reviews-array" THEN Fresh ELSE Unstreamed
  <2>1. PICK fs \in SUBSET {f \in live \ spared : open[f] > 0} :
          /\ open' = [f \in Issue |-> IF f \in fs THEN 0 ELSE open[f]]
          /\ closed' = closed \cup fs /\ resolved' = fs
    BY <1>9 DEF ResolveAddressed, ResolveOtherThan
  <2>2. /\ pc = "resolve" /\ pc' = "delivered"
        /\ UNCHANGED <<knowledge, streamed, body, omitted, event, calls, gone, lossy, pipeline, run, job>>
    BY <1>9 DEF ResolveAddressed, ResolveOtherThan
  <2>3. fs \subseteq Issue /\ fs \subseteq seen /\ \A f \in fs : open[f] > 0
    BY <1>0, <2>1
  <2>4. Threaded' = Threaded /\ NoDuplicateThreads'
    BY <1>0, <2>1, <2>2, <2>3, ThreadsResolved DEF ThreadsInv
  <2>5. CommentsStayOpen'
    <3>1. ASSUME way # "reviews-array", NEW f \in fs, f \in result.issues PROVE FALSE
      <4>1. f \notin Unstreamed
        BY <2>1, <3>1
      <4>2. f \in streamed /\ f \in seen
        BY <2>3, <3>1, <4>1 DEF Unstreamed
      <4> QED
        BY <4>2 DEF ThreadsInv
    <3> QED
      BY <2>1, <2>2, <3>1 DEF CommentsStayOpen, StillReportedStaysOpen
  <2>6. Accounted' = Accounted
    BY <2>2 DEF Accounted
  <2> QED
    BY <2>2, <2>4, <2>5, <2>6 DEF ThreadsInv
<1>10. ASSUME NEW fs \in SUBSET Fresh, Thread(fs), pc \in Posting,
              pc' \in Posting \cup {"resolve", "undelivered", "post threw"},
              UNCHANGED <<closed, knowledge, streamed, resolved, pipeline, run, job>>,
              lossy' = lossy \/ lossy' = TRUE,
              ~lossy' /\ pc' \in Posting => fs = {},
              pc' \in {"post body", "post comments"} => placed' \subseteq Fresh,
              pc' = "post comments" => Fresh \ placed' \subseteq Accounted',
              pc' = "resolve" => Fresh \subseteq fs \cup Accounted'
       PROVE  ThreadsInv'
  <2>1. fs \in SUBSET Issue /\ Threaded' = Threaded \cup fs
    BY <1>0, <1>10, ThreadStarts
  <2>2. resolved' = {} /\ ~outputs' /\ Fresh' = Fresh
    BY <1>10 DEF ThreadsInv, DeliveryInv, Fresh, Unstreamed
  <2>3. ~lossy => fs \cap Threaded = {}
    BY <1>10 DEF ThreadsInv, Fresh, Unstreamed
  <2>4. NoDuplicateThreads'
    <3>1. CASE lossy'
      BY <3>1 DEF NoDuplicateThreads
    <3>2. CASE lossy' = lossy
      BY <1>0, <1>10, <2>1, <2>3, <3>2, ThreadStarts DEF ThreadsInv
    <3> QED
      BY <1>10, <3>1, <3>2
  <2>5. CommentsStayOpen'
    BY <2>2 DEF CommentsStayOpen, StillReportedStaysOpen
  <2>6. pc' = "resolve" => result'.issues \subseteq Threaded' \cup Accounted'
    <3>1. result.issues \subseteq Fresh \cup seen \cup streamed
      BY DEF Fresh, Unstreamed
    <3> QED
      BY <1>10, <2>1, <3>1 DEF ThreadsInv
  <2>7. ~lossy' /\ pc' \in Informed => Threaded' \subseteq seen' \cup streamed'
    <3>1. ASSUME ~lossy', pc' \in Informed PROVE Threaded' \subseteq seen' \cup streamed'
      <4>1. ~lossy
        BY <1>10, <3>1
      <4>2. pc' \in Posting
        BY <1>10, <3>1
      <4>3. fs = {} /\ Threaded \subseteq seen \cup streamed
        BY <1>10, <3>1, <4>1, <4>2 DEF ThreadsInv
      <4> QED
        BY <1>10, <2>1, <4>3
    <3> QED
      BY <3>1
  <2> QED
    BY <1>10, <2>1, <2>2, <2>4, <2>5, <2>6, <2>7 DEF ThreadsInv
<1>11. Thread({}) <=> open' = open
  BY <1>0 DEF Thread
<1>12. CASE PostBatched /\ UNCHANGED <<run, job>>
  <2>1. /\ pc = "post" /\ placed' \in SUBSET Fresh
        /\ UNCHANGED <<closed, knowledge, streamed, resolved, pipeline, run, job>>
    BY <1>12 DEF PostBatched
  <2>2. CASE /\ createReview(placed') /\ Thread(placed')
             /\ \/ pc' = "resolve" /\ UNCHANGED lossy
                \/ pc' = "post body" /\ lossy' = TRUE
    <3>1. Fresh \ placed' \subseteq Accounted'
      BY <2>2, CreatedReview
    <3> QED
      BY <1>10, <2>1, <2>2, <3>1
  <2>3. CASE pc' = "post body" /\ UNCHANGED <<open, body, omitted, event, gone, lossy>>
    BY <1>10, <1>11, <2>1, <2>3
  <2> QED
    BY <1>12, <2>2, <2>3 DEF PostBatched
<1>13. CASE PostBody /\ UNCHANGED <<run, job>>
  <2>1. /\ pc = "post body" /\ placed \subseteq Fresh /\ placed' = placed /\ open' = open
        /\ UNCHANGED <<closed, knowledge, streamed, resolved, pipeline, run, job>>
    BY <1>13 DEF PostBody, ThreadsInv
  <2>2. CASE /\ createReview(placed)
             /\ \/ pc' = "resolve" /\ placed = {} /\ UNCHANGED lossy
                \/ pc' = "post comments" /\ UNCHANGED lossy
                \/ pc' = "undelivered" /\ lossy' = TRUE
    <3>1. Fresh \ placed \subseteq Accounted'
      BY <2>2, CreatedReview
    <3> QED
      BY <1>10, <1>11, <2>1, <2>2, <3>1
  <2>3. CASE pc' = "undelivered" /\ UNCHANGED <<body, omitted, event, gone, lossy>>
    BY <1>10, <1>11, <2>1, <2>3
  <2> QED
    BY <1>13, <2>2, <2>3 DEF PostBody
<1>14. CASE PostComments /\ UNCHANGED <<run, job>>
  <2>1. /\ pc = "post comments" /\ placed \subseteq Fresh /\ Fresh \ placed \subseteq Accounted
        /\ UNCHANGED <<closed, knowledge, streamed, omitted, resolved, pipeline, run, job>>
    BY <1>14 DEF PostComments, ThreadsInv
  <2>2. PICK sent \in SUBSET placed : \E threaded, commented \in SUBSET sent :
          /\ Thread(threaded)
          /\ body' = body \cup commented
          /\ \E unheard \in SUBSET threaded :
               /\ lossy' = (lossy \/ unheard # {})
               /\ gone' = gone \cup unheard \cup (sent \ (threaded \cup commented))
          /\ pc' = IF sent = placed THEN "resolve" ELSE "post threw"
    BY <1>14 DEF PostComments
  <2>3. PICK threaded \in SUBSET sent : \E commented \in SUBSET sent :
          /\ Thread(threaded)
          /\ body' = body \cup commented
          /\ lossy' \in {lossy, TRUE}
          /\ gone \cup (sent \ (threaded \cup commented)) \subseteq gone'
    <3>1. PICK threaded \in SUBSET sent : \E commented \in SUBSET sent :
            /\ Thread(threaded)
            /\ body' = body \cup commented
            /\ \E unheard \in SUBSET threaded :
                 /\ lossy' = (lossy \/ unheard # {})
                 /\ gone' = gone \cup unheard \cup (sent \ (threaded \cup commented))
      BY <2>2
    <3> QED
      BY <1>0, <3>1
  <2>4. threaded \in SUBSET Fresh /\ (pc' = "resolve" => Fresh \subseteq threaded \cup Accounted')
    BY <2>1, <2>2, <2>3 DEF Accounted
  <2> QED
    BY <1>10, <2>1, <2>2, <2>3, <2>4
<1>15. CASE PostArray /\ UNCHANGED <<run, job>>
  <2>1. /\ pc = "post" /\ placed' \in SUBSET Fresh
        /\ UNCHANGED <<closed, knowledge, streamed, resolved, pipeline, run, job>>
    BY <1>15 DEF PostArray
  <2>2. CASE /\ createReview(placed') /\ Thread(placed')
             /\ \/ pc' = "resolve" /\ UNCHANGED lossy
                \/ pc' \in {"post", "post threw"} /\ lossy' = TRUE
    <3>1. Fresh \ placed' \subseteq Accounted'
      BY <2>2, CreatedReview
    <3> QED
      BY <1>10, <2>1, <2>2, <3>1
  <2>3. CASE /\ pc' \in {"post", "post threw", "post summary"}
             /\ UNCHANGED <<open, body, omitted, event, gone, lossy>>
    BY <1>10, <1>11, <2>1, <2>3
  <2> QED
    BY <1>15, <2>2, <2>3 DEF PostArray
<1>16. CASE PostSummary /\ UNCHANGED <<run, job>>
  <2>1. /\ pc = "post summary" /\ open' = open
        /\ UNCHANGED <<closed, knowledge, streamed, resolved, pipeline, run, job>>
    BY <1>16 DEF PostSummary
  <2>2. CASE /\ createReview({})
             /\ \/ pc' = "resolve" /\ UNCHANGED lossy
                \/ pc' = "undelivered" /\ lossy' = TRUE
    <3>1. Fresh \subseteq Accounted'
      BY <2>2, CreatedReview
    <3> QED
      BY <1>10, <1>11, <2>1, <2>2, <3>1
  <2>3. CASE pc' = "undelivered" /\ UNCHANGED <<body, omitted, event, gone, lossy>>
    BY <1>10, <1>11, <2>1, <2>3
  <2> QED
    BY <1>16, <2>2, <2>3 DEF PostSummary
<1> QED
  BY <1>1, <1>3, <1>4, <1>5, <1>6, <1>7, <1>8, <1>9, <1>12, <1>13, <1>14, <1>15, <1>16
     DEF Next, JobStep, PostStep

LEMMA ThreadsHold == Spec => []ThreadsInv
BY InitTypes, TypesPreserved, InitDelivery, DeliveryPreserved, InitThreads, ThreadsPreserved,
   PTL DEF Spec

-----------------------------------------------------------------------------
(* Type correctness of a job and of what it leaves on the pull request.    *)
THEOREM ReviewTypes == Spec => []TypeOK
BY TypesHold, PTL DEF TypeInv

(* runReview() ends green, or sets the outputs of a review, only when a    *)
(* review of it is on the pull request, whatever fails or is lost.         *)
THEOREM GreenJobsDelivered == Spec => []GreenMeansDelivered
<1>1. DeliveryInv => GreenMeansDelivered
  BY DEF DeliveryInv, GreenMeansDelivered, Green
<1> QED
  BY <1>1, DeliveryHolds, PTL

(* resolveReviewEvent() approves no result that the code knows to be       *)
(* incomplete: for a failed batch, a failed run of the agents or one that  *)
(* none of them reported in, the budget, or a vulnerable dependency.       *)
THEOREM ApprovalsReviewed == Spec => []ApprovalMeansReviewed
BY DeliveryHolds, PTL DEF DeliveryInv

(* Through streaming, batched and single comments, the reviews-array and   *)
(* the body, postReview() loses no finding of what it delivered but in the *)
(* ways FindingsShown names: a thread has it, or the body has it or says   *)
(* that it leaves some out.                                                *)
THEOREM DeliveredFindingsShown == Spec => []FindingsShown
<1>1. TypeInv /\ ThreadsInv => FindingsShown
  <2> SUFFICES ASSUME TypeInv, ThreadsInv, outputs, NEW f \in result.issues
               PROVE  open[f] > 0 \/ f \in closed \cup body \cup omitted \cup gone
    BY DEF FindingsShown
  <2> QED
    BY DEF ThreadsInv, Threaded, Accounted
<1> QED
  BY <1>1, TypesHold, ThreadsHold, PTL

(* While answers arrive, the fingerprints of the threads that were there   *)
(* and of what was streamed keep every finding at one thread.              *)
THEOREM FindingsHaveOneThread == Spec => []NoDuplicateThreads
BY ThreadsHold, PTL DEF ThreadsInv

(* maybeAutoResolveAddressedThreads() resolves no thread of a finding that *)
(* the same review reports, except after the reviews-array.                *)
THEOREM ReportedThreadsStayOpen == Spec => []CommentsStayOpen
BY ThreadsHold, PTL DEF ThreadsInv
=============================================================================

---------------------------- MODULE ReviewAction ----------------------------
(***************************************************************************)
(* runReview() of action/src/review.ts: one job of the Action in review    *)
(* mode, and the next ones on the same pull request.  Each job is a        *)
(* process of its own, what is left of it is on the pull request.          *)
(***************************************************************************)
EXTENDS ReviewThreads

CONSTANTS Runs,    \* how many jobs are run on the pull request
          FailOn,  \* the severities from config.review.failOnSeverity up
          FailCI   \* config.secrets.failCI

ASSUME ActionAssumption ==
  /\ Runs \in Nat \ {0}
  /\ FailOn \in {{}, {"critical"}, {"critical", "important"}, Severities}
  /\ FailCI \in BOOLEAN

VARIABLES run,     \* the number of the job
          failed,  \* core.setFailed was called
          skipped, \* there was nothing to review
          outputs  \* the outputs that say the pull request was reviewed

job == <<failed, skipped, outputs>>
posted == <<threads, knowledge, streamed, posting, lossy, resolved>>
actionVars == <<pc, run, job, posted, pipeline>>

TypeOK ==
  /\ PipelineTypeOK /\ ThreadsTypeOK
  /\ run \in 1..Runs
  /\ {failed, skipped, outputs} \subseteq BOOLEAN

Init ==
  /\ pc = "start" /\ run = 1
  /\ failed = FALSE /\ skipped = FALSE /\ outputs = FALSE
  /\ PipelineInit /\ ThreadsInit

-----------------------------------------------------------------------------
(* The job ends without a review: it fails.                                *)
Fail ==
  /\ failed' = TRUE
  /\ Goto("done")
  /\ UNCHANGED <<run, skipped, outputs, posted, pipeline>>

(* The pull request is identified and read; labels and authors to skip.    *)
Start ==
  /\ pc = "start"
  /\ \/ Fail
     \/ /\ skipped' = TRUE
        /\ Goto("done")
        /\ UNCHANGED <<run, failed, outputs, posted, pipeline>>
     \/ /\ Goto("threads")
        /\ UNCHANGED <<run, job, posted, pipeline>>

(* The bot's threads of earlier runs.  When they cannot be read, nothing   *)
(* is a duplicate and nothing is resolved.                                 *)
FetchThreads ==
  /\ pc = "threads"
  /\ \/ /\ live' = {f \in Issue : open[f] > 0}
        /\ seen' = live' \cup closed
        /\ UNCHANGED lossy
     \/ /\ live' = {} /\ seen' = {}
        /\ lossy' = TRUE
  /\ pc' \in {"prepare", "aborted"}
  /\ UNCHANGED <<run, job, threads, way, streamed, posting, resolved, pipeline>>

AfterStream == IF pc = "stream batches" THEN "synthesize" ELSE "returned"

(* Mutation: a comment counts as posted once it is sent.                   *)
StreamTrusting ==
  /\ pc \in {"stream", "stream batches"}
  /\ LET issues == IF pc = "stream" THEN result.issues ELSE found
     IN \E arrived \in SUBSET (issues \ seen) :
          /\ way = "streaming" \/ arrived = {}
          /\ Thread(arrived)
          /\ streamed' = IF way = "streaming" THEN issues \ seen ELSE {}
  /\ Goto(AfterStream)
  /\ UNCHANGED <<run, job, closed, knowledge, posting, lossy, resolved, pipeline>>

(* onBatchComplete: the findings of a batch are posted at once, except     *)
(* those that already have a thread; only what is known to have arrived is *)
(* left out of the review.                                                 *)
Stream ==
  /\ pc \in {"stream", "stream batches"}
  /\ LET issues == IF pc = "stream" THEN result.issues ELSE found
     IN \E arrived \in SUBSET (issues \ seen) : \E heard \in SUBSET arrived :
          /\ way = "streaming" \/ arrived = {}
          /\ Thread(arrived)
          /\ streamed' = heard
          /\ lossy' = (lossy \/ heard # arrived)
  /\ Goto(AfterStream)
  /\ UNCHANGED <<run, job, closed, knowledge, posting, resolved, pipeline>>

(* engine.reviewPR has returned.                                           *)
Returned ==
  /\ pc = "returned"
  /\ \/ Fail      \* aborted
     \/ /\ ~Meaningless(result)
        /\ Goto("post")
        /\ UNCHANGED <<run, job, posted, pipeline>>

(* Mutation: an answer without success is only warned about (L-054).       *)
GiveUpSilently ==
  \/ pc \in {"aborted", "threw", "post threw"} /\ Fail
  \/ /\ pc = "undelivered"
     /\ Goto("delivered")
     /\ UNCHANGED <<run, job, posted, pipeline>>

(* The engine or postReview threw, or no review could be created.          *)
GiveUp == pc \in {"aborted", "threw", "post threw", "undelivered"} /\ Fail

(* The outputs, and the gates on the severity of all findings and on a     *)
(* secret among them.  That the body was truncated fails no job.           *)
Finish ==
  /\ pc = "delivered"
  /\ outputs' = TRUE
  /\ failed' = ((\E f \in result.issues : Severity[f] \in FailOn)
                \/ (FailCI /\ "secret" \in result.issues))
  /\ Goto("done")
  /\ UNCHANGED <<run, skipped, posted, pipeline>>

(* The next job on the pull request.                                       *)
NextRun ==
  /\ pc = "done" /\ run < Runs
  /\ run' = run + 1
  /\ failed' = FALSE /\ skipped' = FALSE /\ outputs' = FALSE
  /\ seen' = {} /\ live' = {} /\ streamed' = {}
  /\ placed' = {} /\ body' = {} /\ omitted' = {} /\ event' = "none" /\ calls' = 0 /\ gone' = {}
  /\ vulnerable' = FALSE /\ cut' = FALSE
  /\ found' = {} /\ bad' = 0 /\ partial' = FALSE /\ result' = emptyResult
  /\ resolved' = {}
  /\ Goto("start")
  /\ UNCHANGED <<threads, way, lossy>>

JobStep ==
  \/ Start \/ FetchThreads \/ Stream \/ Returned \/ GiveUp \/ Finish
  \/ PipelineStep /\ UNCHANGED <<run, job, posted>>
  \/ PostStep /\ UNCHANGED <<run, job>>

Next == JobStep \/ NextRun \/ (ResolveByHand /\ UNCHANGED <<run, job>>)

Spec == Init /\ [][Next]_actionVars

-----------------------------------------------------------------------------
(* Properties.                                                             *)

Green == pc = "done" /\ ~failed /\ ~skipped

(* A green job, and any job with the outputs of a review, has put its      *)
(* review on the pull request (L-054 in review.ts).                        *)
GreenMeansDelivered == Green \/ outputs => event # "none" /\ outputs

(* A review that the code knows to be incomplete does not approve: no      *)
(* batch failed, the run of the agents did not fail and at least one of    *)
(* them reported, the context was not budgeted, and no vulnerable          *)
(* dependency is among the changes.  It says nothing of single agents that *)
(* failed or stayed silent in a run that ended well.                       *)
ApprovalMeansReviewed ==
  event = "APPROVE" => result.ready /\ bad = 0 /\ ~result.blind /\ ~cut /\ ~vulnerable

(* What engine.ts asks of a review with failed agents, and what the code   *)
(* does not keep: an approval although an agent failed.                    *)
ApprovalMeansAllReported == event = "APPROVE" => ~partial

(* No finding of a review that was delivered disappears between streaming, *)
(* the duplicates, the fall-backs and the repeated requests: it is in a    *)
(* thread, in the body, or one of those of which the body says that it     *)
(* leaves some out.  The exceptions are the losses collected in gone: a    *)
(* comment refused by itself, a finding beside one on the same line, and   *)
(* the end of a body that was repeated as a comment.                       *)
FindingsShown ==
  pc = "done" /\ outputs =>
    \A f \in result.issues : open[f] > 0 \/ f \in closed \cup body \cup omitted \cup gone

(* As long as answers arrive and the threads can be read, a finding has    *)
(* one thread, over all jobs, streamed or not.                             *)
NoDuplicateThreads ==
  ~lossy => \A f \in Issue : open[f] <= 1 /\ (f \in closed => open[f] = 0)

(* A job resolves no thread whose finding its own review reports again     *)
(* (maybeAutoResolveAddressedThreads asks for the issues "pre-dedup").      *)
StillReportedStaysOpen == resolved \cap result.issues = {}

(* The same of the two ways of posting other than the reviews-array.       *)
CommentsStayOpen == way # "reviews-array" => StillReportedStaysOpen

(* What auto-resolve.ts asks of its callers: no thread is resolved for a   *)
(* list of findings the review has no confidence in.                       *)
ResolvedWithConfidence == resolved # {} => ~result.blind
=============================================================================

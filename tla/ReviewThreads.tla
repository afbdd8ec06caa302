---------------------------- MODULE ReviewThreads ----------------------------
(***************************************************************************)
(* A pull request's bot threads and GitHubHelper.postReview() of           *)
(* lib/src/utils/github.ts, which puts a result on it: inline comments in  *)
(* one request, or body first and comments one by one, or, as an option,   *)
(* the reviews-array; then the threads whose finding is gone are resolved. *)
(*                                                                         *)
(* Every request can be rejected, or carried out with its answer lost.     *)
(***************************************************************************)
EXTENDS ReviewPipeline

CONSTANTS Severity,     \* how serious each finding is
          Line,         \* the file and line of each finding
          Ways,         \* the ways of posting: review.enableReviewsArrayInline,
                        \* or inputs.streamComments, which it rules out, or neither
          VerdictMode,  \* config.review.verdictMode
          Attempts,     \* how often runReview has postReview called
          MaxThreads    \* bound: how many threads of one finding are told apart

Severities == {"critical", "important", "minor"}

ASSUME ThreadsAssumption ==
  /\ Severity \in [Issue -> Severities] /\ Severity["secret"] = "critical"
  /\ DOMAIN Line = Issue
  /\ Ways \subseteq {"plain", "streaming", "reviews-array"}
  /\ VerdictMode \in {"comment", "approve", "request-changes"}
  /\ {Attempts, MaxThreads} \subseteq Nat \ {0}

VARIABLES way,       \* how this installation posts
          open,      \* the open threads of each finding, by its fingerprint
          closed,    \* the findings with a resolved thread
          seen,      \* the findings with a thread when the run began
          live,      \* and those of them with an open one
          streamed,  \* the findings posted while the review was running
          placed,    \* what is posted inline, in the diff's lines
          body,      \* the findings in the review's body
          omitted,   \* the findings of which the body says that it leaves
                     \* some out, by its budget or for its length
          event,     \* the event of the review that is on the pull request
          calls,     \* how often postReview was called
          gone,      \* history: findings lost without a word, see FindingsShown
          lossy,     \* history: an answer was lost, or the threads not read
          resolved   \* history: the findings whose threads the job resolved

threads == <<open, closed>>
knowledge == <<way, seen, live>>
posting == <<placed, body, omitted, event, calls, gone>>

ThreadsTypeOK ==
  /\ way \in Ways
  /\ open \in [Issue -> 0..MaxThreads] /\ closed \subseteq Issue
  /\ seen \subseteq Issue /\ live \subseteq seen
  /\ streamed \subseteq Issue /\ placed \subseteq Issue
  /\ body \subseteq Issue /\ omitted \subseteq Issue /\ gone \subseteq Issue
  /\ event \in {"none", "COMMENT", "APPROVE", "REQUEST_CHANGES"}
  /\ calls \in 0..Attempts
  /\ lossy \in BOOLEAN /\ resolved \subseteq Issue

NoReview ==
  /\ placed = {} /\ body = {} /\ omitted = {} /\ gone = {}
  /\ event = "none" /\ calls = 0

ThreadsInit ==
  /\ way \in Ways
  /\ open = [f \in Issue |-> 0] /\ closed = {}
  /\ seen = {} /\ live = {}
  /\ streamed = {} /\ NoReview
  /\ lossy = FALSE /\ resolved = {}

(* A comment on each of these findings starts a thread.                    *)
Thread(fs) ==
  open' = [f \in Issue |-> IF f \in fs /\ open[f] < MaxThreads THEN open[f] + 1 ELSE open[f]]

-----------------------------------------------------------------------------
(* finalResult: what was streamed is not posted again.                     *)
Unstreamed == result.issues \ streamed

(* Mutation: only open threads are taken for duplicates.                   *)
FreshOrResolved == Unstreamed \ live

(* dedupedResult: what had a thread when the run began, resolved or not,   *)
(* is neither posted nor put into the body.                                *)
Fresh == Unstreamed \ seen

(* The findings still to be posted that are as serious as these.           *)
AnyFresh(severities) == \E f \in Fresh : Severity[f] \in severities

(* Mutation: what could not be reviewed does not keep back an approval.    *)
ResolveUnreliably ==
  CASE VerdictMode = "approve" /\ result.ready /\ ~AnyFresh({"critical", "important"}) -> "APPROVE"
    [] VerdictMode = "request-changes" /\ AnyFresh({"critical"}) /\ ~result.blind ->
         "REQUEST_CHANGES"
    [] OTHER -> "COMMENT"

(* The event of the review.  A minor finding keeps back no approval.       *)
resolveReviewEvent ==
  CASE VerdictMode = "approve" /\ result.ready /\ ~result.blind
         /\ ~AnyFresh({"critical", "important"}) -> "APPROVE"
    [] VerdictMode = "request-changes" /\ AnyFresh({"critical"}) /\ ~result.blind ->
         "REQUEST_CHANGES"
    [] OTHER -> "COMMENT"

(* A finding that is not posted itself, on a line with one that is: the    *)
(* comments are matched with the findings by their lines.                  *)
Beside(inline) == {f \in Fresh \ inline : \E g \in inline : Line[f] = Line[g]}

(* createReview: the review with these findings inline and the others in   *)
(* its body, which says when its budget or its length leaves some out.  A  *)
(* verdict that is not permitted becomes a comment, and a body too long    *)
(* for the note that says so is cut once more, without a word.             *)
createReview(inline) ==
  LET rest == Fresh \ (inline \cup Beside(inline))
  IN  /\ omitted' \in SUBSET rest
      /\ \/ /\ event' = resolveReviewEvent
            /\ gone' = Beside(inline)
         \/ /\ event' = "COMMENT" /\ resolveReviewEvent # "COMMENT"
            /\ \E clipped \in SUBSET (rest \ omitted') : gone' = Beside(inline) \cup clipped
      /\ body' = rest \ (omitted' \cup gone')

(* The request with all inline comments.  Findings off the diff's lines    *)
(* stay in the body.  Any error falls through to the body alone.           *)
PostBatched ==
  /\ pc = "post" /\ way # "reviews-array"
  /\ calls' = 1
  /\ placed' \in SUBSET Fresh
  /\ \/ /\ placed' # {}
        /\ createReview(placed')
        /\ Thread(placed')
        /\ \/ Goto("resolve") /\ UNCHANGED lossy
           \/ Goto("post body") /\ lossy' = TRUE
     \/ /\ Goto("post body")
        /\ UNCHANGED <<open, body, omitted, event, gone, lossy>>
  /\ UNCHANGED <<closed, knowledge, streamed, resolved, pipeline>>

PostBody ==
  /\ pc = "post body"
  /\ \/ /\ createReview(placed)
        /\ \/ Goto(IF placed = {} THEN "resolve" ELSE "post comments") /\ UNCHANGED lossy
           \/ Goto("undelivered") /\ lossy' = TRUE
     \/ /\ Goto("undelivered")
        /\ UNCHANGED <<body, omitted, event, gone, lossy>>
  /\ UNCHANGED <<threads, knowledge, streamed, placed, calls, resolved, pipeline>>

(* One by one.  A line GitHub does not accept becomes a comment on the     *)
(* pull request; any other error only a warning.  When the run is aborted  *)
(* the rest is left.                                                       *)
PostComments ==
  /\ pc = "post comments"
  /\ \E sent \in SUBSET placed : \E threaded, commented \in SUBSET sent :
       /\ threaded \cap commented = {}
       /\ Thread(threaded)
       /\ body' = body \cup commented
       /\ \E unheard \in SUBSET threaded :
            /\ lossy' = (lossy \/ unheard # {})
            /\ gone' = gone \cup unheard \cup (sent \ (threaded \cup commented))
       /\ Goto(IF sent = placed THEN "resolve" ELSE "post threw")
  /\ UNCHANGED <<closed, knowledge, streamed, placed, omitted, event, calls, resolved, pipeline>>

(* The reviews-array: refused, it is posted once more without its inline   *)
(* comments; for any other error the whole call is repeated.               *)
PostArray ==
  /\ pc = "post" /\ way = "reviews-array"
  /\ calls' = calls + 1
  /\ placed' \in SUBSET Fresh
  /\ \/ /\ placed' # {}
        /\ createReview(placed')
        /\ Thread(placed')
        /\ \/ Goto("resolve") /\ UNCHANGED lossy
           \/ Goto(IF calls' < Attempts THEN "post" ELSE "post threw") /\ lossy' = TRUE
     \/ /\ placed' # {}
        /\ Goto(IF calls' < Attempts THEN "post" ELSE "post threw")
        /\ UNCHANGED <<open, body, omitted, event, gone, lossy>>
     \/ /\ Goto("post summary")
        /\ UNCHANGED <<open, body, omitted, event, gone, lossy>>
  /\ UNCHANGED <<closed, knowledge, streamed, resolved, pipeline>>

PostSummary ==
  /\ pc = "post summary"
  /\ \/ /\ createReview({})
        /\ \/ Goto("resolve") /\ UNCHANGED lossy
           \/ Goto("undelivered") /\ lossy' = TRUE
     \/ /\ Goto("undelivered")
        /\ UNCHANGED <<body, omitted, event, gone, lossy>>
  /\ UNCHANGED <<threads, knowledge, streamed, placed, calls, resolved, pipeline>>

-----------------------------------------------------------------------------
(* maybeAutoResolveAddressedThreads: the threads that were open when the   *)
(* run began and whose finding is not among these.  One that cannot be     *)
(* resolved stays open.                                                    *)
ResolveOtherThan(findings) ==
  /\ pc = "resolve"
  /\ \E addressed \in SUBSET {f \in live \ findings : open[f] > 0} :
       /\ open' = [f \in Issue |-> IF f \in addressed THEN 0 ELSE open[f]]
       /\ closed' = closed \cup addressed
       /\ resolved' = addressed
  /\ Goto("delivered")
  /\ placed' = {}
  /\ UNCHANGED <<knowledge, streamed, body, omitted, event, calls, gone, lossy, pipeline>>

(* Mutation: compared with what is left after the duplicates were dropped. *)
ResolveAllButFresh == ResolveOtherThan(Fresh)

(* The reviews-array path is called with dedupedResult in the place of its *)
(* workingResult: there a finding with a thread is taken for addressed.    *)
ResolveAddressed == ResolveOtherThan(IF way = "reviews-array" THEN Fresh ELSE Unstreamed)

(* Somebody resolves a thread.                                             *)
ResolveByHand ==
  /\ \E f \in Issue :
       /\ open[f] > 0
       /\ open' = [open EXCEPT ![f] = 0]
       /\ closed' = closed \cup {f}
  /\ UNCHANGED <<pc, knowledge, streamed, posting, lossy, resolved, pipeline>>

PostStep ==
  PostBatched \/ PostBody \/ PostComments \/ PostArray \/ PostSummary \/ ResolveAddressed
=============================================================================

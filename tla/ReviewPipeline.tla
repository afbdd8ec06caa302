--------------------------- MODULE ReviewPipeline ---------------------------
(***************************************************************************)
(* ReviewEngine.reviewPR() and runReviewPipeline() of lib/src/engine.ts:   *)
(* from the changed files to one result.  The files are reviewed by a      *)
(* single run of the model, in batches followed by a synthesis, or by the  *)
(* specialised agents of one orchestrating run; the result is verified and *)
(* the findings of the two scanners, which ask no model, are merged in.    *)
(*                                                                         *)
(* What a model answers is any answer.  A result has its findings, those   *)
(* of the scanners included; whether it is ready; whether it says anything *)
(* at all; and whether it is blind, which a failed batch, a failed run of  *)
(* the agents or a sentinel in its reasoning makes it.                     *)
(***************************************************************************)
EXTENDS Naturals, FiniteSets

CONSTANTS Finding,  \* what a model can report, each on a line of the diff
          Batches   \* how many batches a large pull request is split into

ASSUME PipelineAssumption ==
  /\ Batches \in Nat \ {0}
  /\ IsFiniteSet(Finding)
  /\ Finding \cap {"sca", "secret"} = {}

Static == {"sca", "secret"}  \* what the two scanners report
Issue == Finding \cup Static

VARIABLES pc,
          vulnerable,  \* the SCA scan has findings in the changed lock files
          cut,         \* the context of the agents was budgeted
          found,       \* what the model reported, before verification
          bad,         \* how many batches failed
          partial,     \* history: in a run of agents that ended well one of
                       \* them failed, or did not report, which is only logged
          result

pipeline == <<vulnerable, cut, found, bad, partial, result>>

Result == [issues: SUBSET Issue, ready: BOOLEAN, text: BOOLEAN, blind: BOOLEAN]

emptyResult == [issues |-> {}, ready |-> FALSE, text |-> FALSE, blind |-> FALSE]

(* !result.summary && no issues && no strengths.                           *)
Meaningless(r) == ~r.text /\ r.issues = {}

PipelineTypeOK ==
  /\ {vulnerable, cut, partial} \subseteq BOOLEAN
  /\ found \subseteq Finding /\ bad \in 0..Batches
  /\ result \in Result

PipelineInit ==
  /\ vulnerable = FALSE /\ cut = FALSE
  /\ found = {} /\ bad = 0 /\ partial = FALSE /\ result = emptyResult

Goto(place) == pc' = place

mergeScaIssues(r) ==
  IF vulnerable THEN [r EXCEPT !.issues = @ \cup {"sca"}, !.ready = FALSE] ELSE r

mergeSecretIssues(r) == [r EXCEPT !.issues = @ \cup {"secret"}]

-----------------------------------------------------------------------------
(* Everything before the first run of the model.  The enrichments fail     *)
(* open; a cancelled gate is the one exception that leaves from here.      *)
Prepare ==
  /\ pc = "prepare"
  /\ vulnerable' \in BOOLEAN /\ cut' \in BOOLEAN
  /\ found' = {} /\ bad' = 0 /\ partial' = FALSE /\ result' = emptyResult
  /\ \/ pc' \in {"excluded", "single", "batches", "threw"} /\ ~cut'
     \/ Goto("agents")

(* Every changed file is excluded from the review: the scanners still run, *)
(* over all of them.  Without a changed file there is nothing to scan.     *)
Excluded ==
  /\ pc = "excluded"
  /\ \E text, secret \in BOOLEAN :
       LET r == [emptyResult EXCEPT !.text = text]
       IN result' = mergeScaIssues(IF secret THEN mergeSecretIssues(r) ELSE r)
  /\ Goto("returned")
  /\ UNCHANGED <<vulnerable, cut, found, bad, partial>>

(* The answer of a model: any findings, any verdict.                       *)
Answer(issues) ==
  \E ready \in BOOLEAN, text \in BOOLEAN :
    result' = [emptyResult EXCEPT !.issues = issues, !.ready = ready, !.text = text]

(* What the fast path returns when its run or its output failed: no scan   *)
(* for secrets, and text only when the budget mode adds its banner.        *)
SingleFailed ==
  \E text \in BOOLEAN :
    result' = mergeScaIssues([emptyResult EXCEPT !.text = text, !.blind = TRUE])

(* The fast path: one run over all files.                                  *)
ReviewSingle ==
  /\ pc = "single"
  /\ \/ /\ SingleFailed
        /\ Goto("returned")
        /\ UNCHANGED found
     \/ /\ found' \in SUBSET Finding
        /\ Answer(found')
        /\ Goto("verify single")
     \/ /\ Goto("threw")
        /\ UNCHANGED <<found, result>>
  /\ UNCHANGED <<vulnerable, cut, bad, partial>>

(* The batches: each is reviewed or fails, and those that failed have      *)
(* found nothing.                                                          *)
ReviewBatches ==
  /\ pc = "batches"
  /\ bad' \in 0..Batches
  /\ found' \in IF bad' = Batches THEN {{}} ELSE SUBSET Finding
  /\ pc' \in {"stream batches", "threw"}
  /\ UNCHANGED <<vulnerable, cut, partial, result>>

(* With some batches failed a warning is added to the summary; with all of *)
(* them the summary stays as the synthesis wrote it.                       *)
applyPartialBatchDegradation(r) ==
  IF bad = 0 THEN r
  ELSE [r EXCEPT !.ready = FALSE, !.text = (bad < Batches \/ r.text), !.blind = TRUE]

(* The batches' findings as they are, when the synthesis cannot be had.    *)
Fallback == [emptyResult EXCEPT !.issues = found, !.text = TRUE,
                                !.ready = (found = {} /\ bad = 0), !.blind = bad > 0]

(* The synthesis is one more answer of the model, whatever it was given.   *)
Synthesize ==
  /\ pc = "synthesize"
  /\ \/ /\ \E issues \in SUBSET Finding, ready \in BOOLEAN, text \in BOOLEAN :
             result' = applyPartialBatchDegradation(
                         [emptyResult EXCEPT !.issues = issues, !.ready = ready, !.text = text])
        /\ Goto("verify batches")
     \/ /\ result' = Fallback
        /\ Goto("verify")
     \/ /\ Goto("threw")
        /\ UNCHANGED result
  /\ UNCHANGED <<vulnerable, cut, found, bad, partial>>

Failed == [emptyResult EXCEPT !.text = TRUE, !.blind = TRUE]

(* What can be mined from the output of a run that failed.                 *)
Salvaged == {[Failed EXCEPT !.issues = issues] : issues \in SUBSET Finding}

(* The agents of one run.  An answer no agent reported its status for is   *)
(* counted as that of failed agents; its verdict stands.  That only some   *)
(* of them reported is logged, that one reports its failure not even that. *)
ReviewWithAgents ==
  /\ pc = "agents"
  /\ \/ /\ found' \in SUBSET Finding
        /\ \/ Answer(found') /\ partial' \in BOOLEAN
           \/ /\ result' \in {[emptyResult EXCEPT !.issues = found', !.text = TRUE,
                                   !.ready = ready, !.blind = TRUE] : ready \in BOOLEAN}
              /\ UNCHANGED partial
        /\ ~Meaningless(result')
        /\ Goto("verify agents")
     \/ /\ result' \in Salvaged        \* Failed among them
        /\ UNCHANGED <<found, partial>>
        /\ pc' \in {"verify", "verify agents"}
     \/ /\ Goto("threw")               \* aborted
        /\ UNCHANGED <<found, partial, result>>
  /\ UNCHANGED <<vulnerable, cut, bad>>

-----------------------------------------------------------------------------
(* verifyReviewResult: the passes only remove findings, the scanners come  *)
(* last so that nothing removes theirs.                                    *)
Verified(r, kept, secret) ==
  mergeScaIssues(IF secret THEN mergeSecretIssues([r EXCEPT !.issues = kept])
                           ELSE [r EXCEPT !.issues = kept])

applyBudgetedContextDegradation(r) ==
  IF cut THEN [r EXCEPT !.ready = FALSE, !.text = TRUE] ELSE r

(* A cancelled pre-filter throws: on the fast path and after a synthesis   *)
(* that is caught as if the output had failed to parse.  The degradation   *)
(* of a budgeted context follows on the streaming, with nothing between.   *)
Verify ==
  /\ pc \in {"verify", "verify single", "verify batches", "verify agents"}
  /\ \/ /\ \E kept \in SUBSET result.issues, secret \in BOOLEAN :
             result' = applyBudgetedContextDegradation(Verified(result, kept, secret))
        /\ Goto(IF pc \in {"verify single", "verify agents"} THEN "stream" ELSE "returned")
     \/ pc = "verify single" /\ SingleFailed /\ Goto("returned")
     \/ pc = "verify batches" /\ result' = Fallback /\ Goto("verify")
     \/ pc \in {"verify", "verify agents"} /\ Goto("threw") /\ UNCHANGED result
  /\ found' = IF pc' = "verify" THEN found ELSE {}
  /\ UNCHANGED <<vulnerable, cut, bad, partial>>

PipelineStep ==
  Prepare \/ Excluded \/ ReviewSingle \/ ReviewBatches \/ Synthesize \/ ReviewWithAgents \/ Verify
=============================================================================

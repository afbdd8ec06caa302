----------------------------- MODULE ReviewFlow -----------------------------
(***************************************************************************)
(* From an event on a pull request to the review posted there: the         *)
(* single-flight map of app/src/subscribers/review.ts, the handler of      *)
(* app/src/handlers/pr-review.ts and the deduplication of reviewPR() in    *)
(* lib/src/engine.ts, for one pull request in one process.                 *)
(*                                                                         *)
(* Heads are numbered in the order they are pushed; a head stands for the  *)
(* pair of commits, head and base, that the engine's keys are made of.     *)
(* Event n is the one GitHub sends for the push of head n, the others are  *)
(* /review commands.                                                       *)
(* A handler runs over many calls to GitHub and the model, so a push may   *)
(* overtake the review it makes.  Of the autofix loop a handler may end    *)
(* with, only the pushes are modelled, not the forced reviews of its own.  *)
(***************************************************************************)
EXTENDS Naturals

CONSTANTS MaxHead,   \* bound on the pushes
          Commands,  \* the /review commands
          None       \* no event

Heads == 1..MaxHead
Events == Heads \union Commands

ASSUME FlowAssumption ==
  /\ MaxHead \in Nat
  /\ Commands \intersect Nat = {}
  /\ None \notin Events

VARIABLES head,      \* the newest head; 0 before the pull request is opened
          pc,        \* pc[e]: where event e is
          waitsOn,   \* waitsOn[e]: the event whose handler or pipeline e awaits
          seen,      \* seen[e]: the head e's handler fetched, 0 before
          outcome,   \* outcome[e]: how e ended
          single,    \* inFlightHandlers: the handler on record
          inFlight,  \* IN_FLIGHT_REVIEWS: the pipeline on record for each head
          reviewed,  \* REVIEWED_CACHE: the heads reviewed in the last minutes
          fresh,     \* history: heads with a review posted while so recorded
          crowded    \* history: two commands have waited for one handler

vars == <<head, pc, waitsOn, seen, outcome, single, inFlight, reviewed, fresh, crowded>>

(* idle: not at the single-flight map yet; joined, queued: awaits another  *)
(* handler; opening to closing: in a handler of its own.                   *)
Handling == {"opening", "fetched", "sharing", "pipeline", "labelling", "posting", "closing"}
PlacesOf == Handling \union {"idle", "joined", "queued", "done"}
Outcomes == {"none", "denied", "joined", "skipped", "refused", "failed", "posted"}

TypeOK ==
  /\ head \in 0..MaxHead
  /\ pc \in [Events -> PlacesOf]
  /\ waitsOn \in [Events -> Events \union {None}]
  /\ seen \in [Events -> 0..MaxHead]
  /\ outcome \in [Events -> Outcomes]
  /\ single \in Events \union {None}
  /\ inFlight \in [Heads -> Events \union {None}]
  /\ reviewed \subseteq Heads /\ fresh \subseteq reviewed
  /\ crowded \in BOOLEAN

Init ==
  /\ head = 0
  /\ pc = [e \in Events |-> "idle"]
  /\ waitsOn = [e \in Events |-> None]
  /\ seen = [e \in Events |-> 0]
  /\ outcome = [e \in Events |-> "none"]
  /\ single = None
  /\ inFlight = [h \in Heads |-> None]
  /\ reviewed = {} /\ fresh = {}
  /\ crowded = FALSE

Automatic(e) == e \in Heads

(* The event has been sent.                                                *)
Due(e) == IF Automatic(e) THEN e <= head ELSE head > 0

caches == <<inFlight, reviewed, fresh>>

Move(e, place) == pc' = [pc EXCEPT ![e] = place]
Close(e, how) == /\ Move(e, "closing")
                 /\ outcome' = [outcome EXCEPT ![e] = how]

-----------------------------------------------------------------------------
(* The pull request is opened, or a head is pushed: by its author, or by   *)
(* the autofix loop of a handler that has posted its review.               *)
Push ==
  /\ head < MaxHead
  /\ head' = head + 1
  /\ UNCHANGED <<pc, waitsOn, seen, outcome, single, caches, crowded>>

-----------------------------------------------------------------------------
(* The subscriber.                                                         *)

(* Filtered out, not privileged or over the rate limit.                    *)
Deny(e) ==
  /\ pc[e] = "idle" /\ Due(e)
  /\ Move(e, "done")
  /\ outcome' = [outcome EXCEPT ![e] = "denied"]
  /\ UNCHANGED <<head, waitsOn, seen, single, caches, crowded>>

(* An automatic event joins the run on record, a command queues behind it. *)
Wait(e) ==
  /\ pc[e] = "idle" /\ Due(e)
  /\ single # None
  /\ Move(e, IF Automatic(e) THEN "joined" ELSE "queued")
  /\ waitsOn' = [waitsOn EXCEPT ![e] = single]
  /\ UNCHANGED <<head, seen, outcome, single, caches, crowded>>

Start(e) ==
  /\ pc[e] = "idle" /\ Due(e)
  /\ single = None
  /\ Move(e, "opening")
  /\ single' = e
  /\ UNCHANGED <<head, waitsOn, seen, outcome, caches, crowded>>

Waiting(e, place) == {f \in Events : pc[f] = place /\ waitsOn[f] = e}
SeveralQueue(e) == \E f, g \in Waiting(e, "queued") : f # g

(* Mutation: one of the commands goes on, the others are forgotten.        *)
FinishWakingOne(e) ==
  /\ pc[e] = "closing"
  /\ \E next \in IF Waiting(e, "queued") = {} THEN {None} ELSE Waiting(e, "queued") :
       /\ pc' = [f \in Events |-> IF f = e \/ f \in Waiting(e, "joined") THEN "done"
                                  ELSE IF f = next THEN "opening" ELSE pc[f]]
       /\ single' = next
  /\ outcome' = [f \in Events |-> IF f \in Waiting(e, "joined") THEN "joined" ELSE outcome[f]]
  /\ crowded' = (crowded \/ SeveralQueue(e))
  /\ UNCHANGED <<head, waitsOn, seen, caches>>

(* Mutation: a command that goes on leaves the map empty.                  *)
FinishUnrecorded(e) ==
  /\ pc[e] = "closing"
  /\ pc' = [f \in Events |-> IF f = e \/ f \in Waiting(e, "joined") THEN "done"
                             ELSE IF f \in Waiting(e, "queued") THEN "opening" ELSE pc[f]]
  /\ outcome' = [f \in Events |-> IF f \in Waiting(e, "joined") THEN "joined" ELSE outcome[f]]
  /\ single' = None
  /\ crowded' = (crowded \/ SeveralQueue(e))
  /\ UNCHANGED <<head, waitsOn, seen, caches>>

(* The handler returns: the map entry, whosever it is by now, is deleted;  *)
(* those who joined return, and every command that waited starts a handler *)
(* at once, the last of them on record.  The reactions run in one drain of *)
(* the microtask queue, so no other event is handled in between.           *)
Finish(e) ==
  /\ pc[e] = "closing"
  /\ pc' = [f \in Events |-> IF f = e \/ f \in Waiting(e, "joined") THEN "done"
                             ELSE IF f \in Waiting(e, "queued") THEN "opening" ELSE pc[f]]
  /\ outcome' = [f \in Events |-> IF f \in Waiting(e, "joined") THEN "joined" ELSE outcome[f]]
  /\ single' \in IF Waiting(e, "queued") = {} THEN {None} ELSE Waiting(e, "queued")
  /\ crowded' = (crowded \/ SeveralQueue(e))
  /\ UNCHANGED <<head, waitsOn, seen, caches>>

-----------------------------------------------------------------------------
(* The handler up to the review.                                           *)

Fetch(e) ==
  /\ pc[e] = "opening"
  /\ Move(e, "fetched")
  /\ seen' = [seen EXCEPT ![e] = head]
  /\ UNCHANGED <<head, waitsOn, outcome, single, caches, crowded>>

(* The pull request can not be fetched or carries a skip label.            *)
FetchFails(e) ==
  /\ pc[e] = "opening"
  /\ Close(e, "failed")
  /\ UNCHANGED <<head, waitsOn, seen, single, caches, crowded>>

(* No slot of the process-wide limiter became free in time.                *)
Refuse(e) ==
  /\ pc[e] = "fetched"
  /\ Close(e, "refused")
  /\ UNCHANGED <<head, waitsOn, seen, single, caches, crowded>>

-----------------------------------------------------------------------------
(* reviewPR().                                                             *)

(* A pipeline for the same head is awaited, also by a forced review.       *)
Share(e) ==
  /\ pc[e] = "fetched"
  /\ inFlight[seen[e]] # None
  /\ Move(e, "sharing")
  /\ waitsOn' = [waitsOn EXCEPT ![e] = inFlight[seen[e]]]
  /\ UNCHANGED <<head, seen, outcome, single, caches, crowded>>

SkipReviewed(e) ==
  /\ pc[e] = "fetched"
  /\ inFlight[seen[e]] = None
  /\ Automatic(e) /\ seen[e] \in reviewed
  /\ Close(e, "skipped")
  /\ UNCHANGED <<head, waitsOn, seen, single, caches, crowded>>

(* Mutation: a forced review does not look for a pipeline in flight.       *)
BeginForced(e) ==
  /\ pc[e] = "fetched"
  /\ \/ ~Automatic(e)
     \/ inFlight[seen[e]] = None /\ seen[e] \notin reviewed
  /\ Move(e, "pipeline")
  /\ inFlight' = [inFlight EXCEPT ![seen[e]] = e]
  /\ UNCHANGED <<head, waitsOn, seen, outcome, single, reviewed, fresh, crowded>>

(* Mutation: the reviewed cache is not looked at.                          *)
BeginUnchecked(e) ==
  /\ pc[e] = "fetched"
  /\ inFlight[seen[e]] = None
  /\ Move(e, "pipeline")
  /\ inFlight' = [inFlight EXCEPT ![seen[e]] = e]
  /\ UNCHANGED <<head, waitsOn, seen, outcome, single, reviewed, fresh, crowded>>

Begin(e) ==
  /\ pc[e] = "fetched"
  /\ inFlight[seen[e]] = None
  /\ ~Automatic(e) \/ seen[e] \notin reviewed
  /\ Move(e, "pipeline")
  /\ inFlight' = [inFlight EXCEPT ![seen[e]] = e]
  /\ UNCHANGED <<head, waitsOn, seen, outcome, single, reviewed, fresh, crowded>>

(* The pipeline settles; those who shared it go on with it.                *)
Settle(e, place, how, shared) ==
  /\ pc[e] = "pipeline"
  /\ pc' = [f \in Events |-> IF f = e THEN place
                             ELSE IF f \in Waiting(e, "sharing") THEN "closing" ELSE pc[f]]
  /\ outcome' = [f \in Events |-> IF f = e THEN how
                                  ELSE IF f \in Waiting(e, "sharing") THEN shared ELSE outcome[f]]
  /\ inFlight' = [inFlight EXCEPT ![seen[e]] = None]
  /\ UNCHANGED <<head, waitsOn, seen, single, reviewed, fresh, crowded>>

(* A genuine review, to be recorded after the labels are set ...           *)
Reviews(e) == Settle(e, "labelling", "none", "skipped")

(* ... a result that says the review failed, which is not recorded ...     *)
Degrades(e) == Settle(e, "posting", "none", "skipped")

(* ... or an error, for everyone who awaits it.                            *)
Throws(e) == Settle(e, "closing", "failed", "failed")

MarkReviewed(e) ==
  /\ pc[e] = "labelling"
  /\ Move(e, "posting")
  /\ reviewed' = reviewed \union {seen[e]}
  /\ UNCHANGED <<head, waitsOn, seen, outcome, single, inFlight, fresh, crowded>>

(* REVIEW_DEDUP_TTL_MS have passed since the head was recorded.            *)
Expire(h) ==
  /\ h \in reviewed
  /\ reviewed' = reviewed \ {h}
  /\ fresh' = fresh \ {h}
  /\ UNCHANGED <<head, pc, waitsOn, seen, outcome, single, inFlight, crowded>>

-----------------------------------------------------------------------------
(* The rest of the handler.                                                *)

PostReview(e) ==
  /\ pc[e] = "posting"
  /\ Close(e, "posted")
  /\ fresh' = fresh \union ({seen[e]} \intersect reviewed)
  /\ UNCHANGED <<head, waitsOn, seen, single, inFlight, reviewed, crowded>>

(* GitHub refuses the review, or there is nothing in it to post.           *)
PostFails(e) ==
  /\ pc[e] = "posting"
  /\ Close(e, "failed")
  /\ UNCHANGED <<head, waitsOn, seen, single, caches, crowded>>

Handle(e) ==
  \/ Start(e) \/ Finish(e) \/ Fetch(e) \/ FetchFails(e) \/ Refuse(e)
  \/ Share(e) \/ SkipReviewed(e) \/ Begin(e) \/ Reviews(e) \/ Degrades(e) \/ Throws(e)
  \/ MarkReviewed(e) \/ PostReview(e) \/ PostFails(e)

Next ==
  \/ Push
  \/ \E e \in Events : Deny(e) \/ Wait(e) \/ Handle(e)
  \/ \E h \in Heads : Expire(h)

Spec == Init /\ [][Next]_vars

(* Calls to GitHub and the model return, fail or time out.                 *)
FairSpec == Spec /\ \A e \in Events : WF_vars(pc[e] # "idle" /\ Handle(e))

-----------------------------------------------------------------------------
(* "one in-flight review handler per (repo, prNumber)": it is so until two *)
(* commands wait for the same handler, which all of them then follow.      *)
Serialized ==
  ~crowded => \A e, f \in Events : pc[e] \in Handling /\ pc[f] \in Handling => e = f

(* "Concurrent in-flight runs still share one pipeline to avoid duplicate  *)
(* LLM work": a pipeline on record is running and each running one is on   *)
(* record, so that a head never has two, forced or not, and nobody shares  *)
(* one that has settled, whatever its outcome.                             *)
InFlightIsRunning ==
  \A e \in Events, h \in Heads :
    inFlight[h] = e <=> pc[e] = "pipeline" /\ seen[e] = h

(* "skips a repeated review for the same PR and headSha within the TTL":   *)
(* while handlers are serialized no automatic event posts a second review  *)
(* of a head.                                                              *)
NoRepeatedPost ==
  [][~crowded => \A e \in Heads :
        pc[e] = "posting" /\ outcome'[e] = "posted" => seen[e] \notin fresh]_vars

(* Whatever fails, nobody waits for ever for a handler or a pipeline.      *)
EventsEnd == \A e \in Events : pc[e] \notin {"idle", "done"} ~> pc[e] = "done"

(* "The joining invocation awaits the first, then no-ops -- the engine's    *)
(* dedup marks the join as skipped": a push whose event joined a run that  *)
(* did not fail has been looked at by that run.                            *)
JoinedPushIsReviewed ==
  \A h \in Heads : outcome[h] = "joined" =>
    \/ outcome[waitsOn[h]] \in {"failed", "refused"}
    \/ seen[waitsOn[h]] >= h
=============================================================================

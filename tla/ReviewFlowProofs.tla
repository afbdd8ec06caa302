-------------------------- MODULE ReviewFlowProofs --------------------------
(***************************************************************************)
(* Type correctness of the review flow, and that the in-flight map of the  *)
(* engine holds exactly the pipelines that run: for any number of pushes   *)
(* and commands, in any interleaving and with any failures.                *)
(***************************************************************************)
EXTENDS ReviewFlow, TLAPS

(* A handler past its fetch knows a head that exists.                      *)
Fetched == {"fetched", "sharing", "pipeline", "labelling", "posting"}
HeadKnown ==
  /\ \A e \in Events : pc[e] # "idle" => head > 0
  /\ \A e \in Events : pc[e] \in Fetched => seen[e] \in Heads

FlowInv == TypeOK /\ HeadKnown /\ InFlightIsRunning

(* The states of the actions of one event.                                 *)
StepOf(e) == Deny(e) \/ Wait(e) \/ Handle(e)

-----------------------------------------------------------------------------
LEMMA DueNeedsHead ==
  ASSUME TypeOK, NEW e \in Events, Due(e)
  PROVE  head > 0 /\ head \in Nat
<1>1. head \in Nat
  BY FlowAssumption DEF TypeOK
<1>2. CASE e \in Heads
  BY <1>1, <1>2, FlowAssumption DEF Due, Automatic, Heads
<1>3. CASE e \notin Heads
  BY <1>1, <1>3 DEF Due, Automatic
<1> QED
  BY <1>1, <1>2, <1>3

LEMMA InitFlowInv == Init => FlowInv
<1> SUFFICES ASSUME Init PROVE FlowInv
  OBVIOUS
<1>1. TypeOK
  <2>1. 0 \in 0..MaxHead
    BY FlowAssumption
  <2>2. pc \in [Events -> PlacesOf] /\ outcome \in [Events -> Outcomes]
    BY DEF Init, PlacesOf, Outcomes
  <2> QED
    BY <2>1, <2>2 DEF Init, TypeOK
<1>2. HeadKnown
  BY DEF Init, HeadKnown, Fetched
<1>3. InFlightIsRunning
  BY FlowAssumption DEF Init, InFlightIsRunning
<1> QED
  BY <1>1, <1>2, <1>3 DEF FlowInv

(* Type correctness is preserved.                                          *)
LEMMA NextTypeOK == FlowInv /\ [Next]_vars => TypeOK'
<1> SUFFICES ASSUME FlowInv, [Next]_vars PROVE TypeOK'
  OBVIOUS
<1> USE FlowAssumption DEF FlowInv, caches, Move, Close, Handling, PlacesOf, Outcomes
<1>1. CASE Push
  BY <1>1 DEF Push, TypeOK
<1>2. ASSUME NEW e \in Events, StepOf(e) PROVE TypeOK'
  <2>1. CASE Deny(e)
    BY <2>1 DEF Deny, TypeOK
  <2>2. CASE Wait(e)
    BY <2>2 DEF Wait, TypeOK
  <2>3. CASE Start(e)
    BY <2>3 DEF Start, TypeOK
  <2>4. CASE Finish(e)
    BY <2>4 DEF Finish, TypeOK, Waiting
  <2>5. CASE Fetch(e)
    BY <2>5 DEF Fetch, TypeOK
  <2>6. CASE FetchFails(e)
    BY <2>6 DEF FetchFails, TypeOK
  <2>7. CASE Refuse(e)
    BY <2>7 DEF Refuse, TypeOK
  <2>8. CASE Share(e)
    BY <2>8 DEF Share, TypeOK, HeadKnown, Fetched
  <2>9. CASE SkipReviewed(e)
    BY <2>9 DEF SkipReviewed, TypeOK
  <2>10. CASE Begin(e)
    BY <2>10 DEF Begin, TypeOK
  <2>11. CASE Reviews(e)
    BY <2>11 DEF Reviews, Settle, TypeOK
  <2>12. CASE Degrades(e)
    BY <2>12 DEF Degrades, Settle, TypeOK
  <2>13. CASE Throws(e)
    BY <2>13 DEF Throws, Settle, TypeOK
  <2>14. CASE MarkReviewed(e)
    BY <2>14 DEF MarkReviewed, TypeOK, HeadKnown, Fetched
  <2>15. CASE PostReview(e)
    BY <2>15 DEF PostReview, TypeOK
  <2>16. CASE PostFails(e)
    BY <2>16 DEF PostFails, TypeOK
  <2> QED
    BY <1>2, <2>1, <2>2, <2>3, <2>4, <2>5, <2>6, <2>7, <2>8, <2>9, <2>10, <2>11,
       <2>12, <2>13, <2>14, <2>15, <2>16 DEF StepOf, Handle
<1>3. ASSUME NEW h \in Heads, Expire(h) PROVE TypeOK'
  BY <1>3 DEF Expire, TypeOK
<1>4. CASE UNCHANGED vars
  BY <1>4 DEF vars, TypeOK
<1> QED
  BY <1>1, <1>2, <1>3, <1>4 DEF Next, StepOf

(* An event is not taken up, and no head fetched, before there is one.     *)
LEMMA NextHeadKnown == FlowInv /\ [Next]_vars => HeadKnown'
<1> SUFFICES ASSUME FlowInv, [Next]_vars PROVE HeadKnown'
  OBVIOUS
<1> USE FlowAssumption DEF FlowInv, caches, Move, Close, HeadKnown, Fetched
<1>t. TypeOK
  OBVIOUS
<1>h. head \in 0..MaxHead /\ head \in Nat
  BY <1>t DEF TypeOK
<1>1. CASE Push
  BY <1>1, <1>h DEF Push
<1>2. ASSUME NEW e \in Events, StepOf(e) PROVE HeadKnown'
  <2>1. CASE Deny(e)
    BY <2>1, DueNeedsHead DEF Deny, TypeOK
  <2>2. CASE Wait(e)
    BY <2>2, DueNeedsHead DEF Wait, TypeOK
  <2>3. CASE Start(e)
    BY <2>3, DueNeedsHead DEF Start, TypeOK
  <2>4. CASE Finish(e)
    BY <2>4 DEF Finish, TypeOK, Waiting
  <2>5. CASE Fetch(e)
    BY <2>5, <1>h DEF Fetch, TypeOK, Heads
  <2>6. CASE FetchFails(e)
    BY <2>6 DEF FetchFails, TypeOK
  <2>7. CASE Refuse(e)
    BY <2>7 DEF Refuse, TypeOK
  <2>8. CASE Share(e)
    BY <2>8 DEF Share, TypeOK
  <2>9. CASE SkipReviewed(e)
    BY <2>9 DEF SkipReviewed, TypeOK
  <2>10. CASE Begin(e)
    BY <2>10 DEF Begin, TypeOK
  <2>11. CASE Reviews(e)
    BY <2>11 DEF Reviews, Settle, TypeOK, Waiting
  <2>12. CASE Degrades(e)
    BY <2>12 DEF Degrades, Settle, TypeOK, Waiting
  <2>13. CASE Throws(e)
    BY <2>13 DEF Throws, Settle, TypeOK, Waiting
  <2>14. CASE MarkReviewed(e)
    BY <2>14 DEF MarkReviewed, TypeOK
  <2>15. CASE PostReview(e)
    BY <2>15 DEF PostReview, TypeOK
  <2>16. CASE PostFails(e)
    BY <2>16 DEF PostFails, TypeOK
  <2> QED
    BY <1>2, <2>1, <2>2, <2>3, <2>4, <2>5, <2>6, <2>7, <2>8, <2>9, <2>10, <2>11,
       <2>12, <2>13, <2>14, <2>15, <2>16 DEF StepOf, Handle
<1>3. ASSUME NEW h \in Heads, Expire(h) PROVE HeadKnown'
  BY <1>3 DEF Expire
<1>4. CASE UNCHANGED vars
  BY <1>4 DEF vars
<1> QED
  BY <1>1, <1>2, <1>3, <1>4 DEF Next, StepOf
(* The in-flight map follows the pipelines.  Only Begin and the three ways  *)
(* a pipeline settles change it; every other step moves events between     *)
(* places that are not "pipeline".                                         *)
LEMMA SettleKeepsInFlight ==
  ASSUME FlowInv, NEW e \in Events, NEW place \in PlacesOf \ {"pipeline"},
         NEW how, NEW shared, Settle(e, place, how, shared)
  PROVE  InFlightIsRunning'
<1>1. seen[e] \in Heads /\ inFlight[seen[e]] = e
  BY DEF FlowInv, HeadKnown, Fetched, InFlightIsRunning, Settle
<1>2. \A f \in Events : pc'[f] = "pipeline" <=> pc[f] = "pipeline" /\ f # e
  BY DEF FlowInv, TypeOK, Settle, Waiting
<1>3. \A h \in Heads : inFlight'[h] = IF h = seen[e] THEN None ELSE inFlight[h]
  BY DEF FlowInv, TypeOK, Settle
<1>4. seen' = seen
  BY DEF Settle
<1> SUFFICES ASSUME NEW f \in Events, NEW h \in Heads
             PROVE  inFlight'[h] = f <=> pc'[f] = "pipeline" /\ seen'[f] = h
  BY DEF InFlightIsRunning
<1>5. inFlight[h] = f <=> pc[f] = "pipeline" /\ seen[f] = h
  BY DEF FlowInv, InFlightIsRunning
<1> QED
  BY <1>1, <1>2, <1>3, <1>4, <1>5, FlowAssumption

(* A step that leaves the map and the set of running pipelines alone.      *)
LEMMA QuietStepKeepsInFlight ==
  ASSUME FlowInv, UNCHANGED inFlight,
         \A f \in Events : /\ pc'[f] = "pipeline" <=> pc[f] = "pipeline"
                           /\ pc[f] = "pipeline" => seen'[f] = seen[f]
  PROVE  InFlightIsRunning'
BY DEF FlowInv, InFlightIsRunning

LEMMA NextInFlight == FlowInv /\ [Next]_vars => InFlightIsRunning'
<1> SUFFICES ASSUME FlowInv, [Next]_vars PROVE InFlightIsRunning'
  OBVIOUS
<1> USE DEF caches, Move, Close
<1>t. TypeOK
  BY DEF FlowInv
<1>1. CASE Push
  BY <1>1, QuietStepKeepsInFlight DEF Push
<1>2. ASSUME NEW e \in Events, StepOf(e) PROVE InFlightIsRunning'
  <2>1. CASE Deny(e)
    BY <2>1, <1>t, QuietStepKeepsInFlight DEF Deny, TypeOK
  <2>2. CASE Wait(e)
    BY <2>2, <1>t, QuietStepKeepsInFlight DEF Wait, TypeOK
  <2>3. CASE Start(e)
    BY <2>3, <1>t, QuietStepKeepsInFlight DEF Start, TypeOK
  <2>4. CASE Finish(e)
    BY <2>4, <1>t, QuietStepKeepsInFlight DEF Finish, TypeOK, Waiting
  <2>5. CASE Fetch(e)
    BY <2>5, <1>t, QuietStepKeepsInFlight DEF Fetch, TypeOK
  <2>6. CASE FetchFails(e)
    BY <2>6, <1>t, QuietStepKeepsInFlight DEF FetchFails, TypeOK
  <2>7. CASE Refuse(e)
    BY <2>7, <1>t, QuietStepKeepsInFlight DEF Refuse, TypeOK
  <2>8. CASE Share(e)
    BY <2>8, <1>t, QuietStepKeepsInFlight DEF Share, TypeOK
  <2>9. CASE SkipReviewed(e)
    BY <2>9, <1>t, QuietStepKeepsInFlight DEF SkipReviewed, TypeOK
  <2>10. CASE Begin(e)
    <3>1. seen[e] \in Heads /\ inFlight[seen[e]] = None
      BY <2>10 DEF FlowInv, HeadKnown, Fetched, Begin
    <3>2. \A f \in Events : pc'[f] = "pipeline" <=> pc[f] = "pipeline" \/ f = e
      BY <2>10, <1>t DEF Begin, TypeOK
    <3>3. \A h \in Heads : inFlight'[h] = IF h = seen[e] THEN e ELSE inFlight[h]
      BY <2>10, <1>t DEF Begin, TypeOK
    <3>4. seen' = seen /\ pc[e] = "fetched"
      BY <2>10 DEF Begin
    <3> SUFFICES ASSUME NEW f \in Events, NEW h \in Heads
                 PROVE  inFlight'[h] = f <=> pc'[f] = "pipeline" /\ seen'[f] = h
      BY DEF InFlightIsRunning
    <3>5. inFlight[h] = f <=> pc[f] = "pipeline" /\ seen[f] = h
      BY DEF FlowInv, InFlightIsRunning
    <3> QED
      BY <3>1, <3>2, <3>3, <3>4, <3>5, FlowAssumption
  <2>11. CASE Reviews(e)
    BY <2>11, SettleKeepsInFlight DEF Reviews, PlacesOf, Handling
  <2>12. CASE Degrades(e)
    BY <2>12, SettleKeepsInFlight DEF Degrades, PlacesOf, Handling
  <2>13. CASE Throws(e)
    BY <2>13, SettleKeepsInFlight DEF Throws, PlacesOf, Handling
  <2>14. CASE MarkReviewed(e)
    BY <2>14, <1>t, QuietStepKeepsInFlight DEF MarkReviewed, TypeOK
  <2>15. CASE PostReview(e)
    BY <2>15, <1>t, QuietStepKeepsInFlight DEF PostReview, TypeOK
  <2>16. CASE PostFails(e)
    BY <2>16, <1>t, QuietStepKeepsInFlight DEF PostFails, TypeOK
  <2> QED
    BY <1>2, <2>1, <2>2, <2>3, <2>4, <2>5, <2>6, <2>7, <2>8, <2>9, <2>10, <2>11,
       <2>12, <2>13, <2>14, <2>15, <2>16 DEF StepOf, Handle
<1>3. ASSUME NEW h \in Heads, Expire(h) PROVE InFlightIsRunning'
  BY <1>3, QuietStepKeepsInFlight DEF Expire
<1>4. CASE UNCHANGED vars
  BY <1>4, QuietStepKeepsInFlight DEF vars
<1> QED
  BY <1>1, <1>2, <1>3, <1>4 DEF Next, StepOf

-----------------------------------------------------------------------------
LEMMA FlowInvHolds == Spec => []FlowInv
<1>1. FlowInv /\ [Next]_vars => FlowInv'
  BY NextTypeOK, NextHeadKnown, NextInFlight DEF FlowInv
<1> QED
  BY <1>1, InitFlowInv, PTL DEF Spec

(* Type correctness of the subscriber, the handlers and the caches.        *)
THEOREM TypeOKHolds == Spec => []TypeOK
<1>1. FlowInv => TypeOK
  BY DEF FlowInv
<1> QED
  BY <1>1, FlowInvHolds, PTL

(* The in-flight map of reviewPR() holds exactly the running pipelines.    *)
THEOREM InFlightIsRunningHolds == Spec => []InFlightIsRunning
<1>1. FlowInv => InFlightIsRunning
  BY DEF FlowInv
<1> QED
  BY <1>1, FlowInvHolds, PTL

(* Two events never run a pipeline for the same head at the same time,     *)
(* forced reviews and handlers that overlap included.                      *)
OnePipelinePerHead ==
  \A e, f \in Events : pc[e] = "pipeline" /\ pc[f] = "pipeline" /\ seen[e] = seen[f] => e = f

THEOREM OnePipelinePerHeadHolds == Spec => []OnePipelinePerHead
<1>1. FlowInv => OnePipelinePerHead
  BY DEF FlowInv, HeadKnown, Fetched, InFlightIsRunning, OnePipelinePerHead
<1> QED
  BY <1>1, FlowInvHolds, PTL
-----------------------------------------------------------------------------
(* Until two commands wait for one handler, the handler on record is the   *)
(* only one.                                                               *)
OnRecord == ~crowded => \A e \in Events : pc[e] \in Handling <=> single = e

LEMMA NextOnRecord == FlowInv /\ OnRecord /\ [Next]_vars => OnRecord'
<1> SUFFICES ASSUME FlowInv, OnRecord, [Next]_vars, ~crowded'
             PROVE  \A f \in Events : pc'[f] \in Handling <=> single' = f
  BY DEF OnRecord
<1> USE DEF caches, Move, Close, Handling
<1>t. TypeOK
  BY DEF FlowInv
<1>1. CASE Push
  BY <1>1 DEF Push, OnRecord
<1>2. ASSUME NEW e \in Events, StepOf(e)
      PROVE  \A f \in Events : pc'[f] \in Handling <=> single' = f
  <2>1. CASE Deny(e)
    BY <2>1, <1>t DEF Deny, TypeOK, OnRecord
  <2>2. CASE Wait(e)
    BY <2>2, <1>t DEF Wait, TypeOK, OnRecord
  <2>3. CASE Start(e)
    BY <2>3, <1>t, FlowAssumption DEF Start, TypeOK, OnRecord
  <2>4. CASE Finish(e)
    <3>1. ~crowded /\ ~SeveralQueue(e)
      BY <2>4, <1>t DEF Finish, TypeOK
    <3>2. \A f \in Events : pc[f] \in Handling <=> f = e
      BY <2>4, <3>1 DEF Finish, OnRecord
    <3>3. \A f \in Events : pc'[f] \in Handling <=> f \in Waiting(e, "queued")
      BY <2>4, <3>2, <1>t DEF Finish, TypeOK, Waiting
    <3>4. CASE Waiting(e, "queued") = {}
      BY <2>4, <3>3, <3>4, FlowAssumption DEF Finish
    <3>5. CASE Waiting(e, "queued") # {}
      <4>1. single' \in Waiting(e, "queued")
        BY <2>4, <3>5 DEF Finish
      <4>2. \A f \in Events : f \in Waiting(e, "queued") <=> f = single'
        BY <3>1, <4>1 DEF SeveralQueue
      <4> QED
        BY <3>3, <4>2
    <3> QED
      BY <3>4, <3>5
  <2>5. CASE Fetch(e)
    BY <2>5, <1>t DEF Fetch, TypeOK, OnRecord
  <2>6. CASE FetchFails(e)
    BY <2>6, <1>t DEF FetchFails, TypeOK, OnRecord
  <2>7. CASE Refuse(e)
    BY <2>7, <1>t DEF Refuse, TypeOK, OnRecord
  <2>8. CASE Share(e)
    BY <2>8, <1>t DEF Share, TypeOK, OnRecord
  <2>9. CASE SkipReviewed(e)
    BY <2>9, <1>t DEF SkipReviewed, TypeOK, OnRecord
  <2>10. CASE Begin(e)
    BY <2>10, <1>t DEF Begin, TypeOK, OnRecord
  <2>11. CASE Reviews(e)
    BY <2>11, <1>t DEF Reviews, Settle, TypeOK, OnRecord, Waiting
  <2>12. CASE Degrades(e)
    BY <2>12, <1>t DEF Degrades, Settle, TypeOK, OnRecord, Waiting
  <2>13. CASE Throws(e)
    BY <2>13, <1>t DEF Throws, Settle, TypeOK, OnRecord, Waiting
  <2>14. CASE MarkReviewed(e)
    BY <2>14, <1>t DEF MarkReviewed, TypeOK, OnRecord
  <2>15. CASE PostReview(e)
    BY <2>15, <1>t DEF PostReview, TypeOK, OnRecord
  <2>16. CASE PostFails(e)
    BY <2>16, <1>t DEF PostFails, TypeOK, OnRecord
  <2> QED
    BY <1>2, <2>1, <2>2, <2>3, <2>4, <2>5, <2>6, <2>7, <2>8, <2>9, <2>10, <2>11,
       <2>12, <2>13, <2>14, <2>15, <2>16 DEF StepOf, Handle
<1>3. ASSUME NEW h \in Heads, Expire(h)
      PROVE  \A f \in Events : pc'[f] \in Handling <=> single' = f
  BY <1>3 DEF Expire, OnRecord
<1>4. CASE UNCHANGED vars
  BY <1>4 DEF vars, OnRecord
<1> QED
  BY <1>1, <1>2, <1>3, <1>4 DEF Next, StepOf

(* Handlers of a pull request are serialized.                              *)
THEOREM SerializedHolds == Spec => []Serialized
<1>1. Init => OnRecord
  BY FlowAssumption DEF Init, OnRecord, Handling
<1>2. OnRecord => Serialized
  BY DEF OnRecord, Serialized
<1> QED
  BY <1>1, <1>2, NextOnRecord, FlowInvHolds, PTL DEF Spec

-----------------------------------------------------------------------------
(* While handlers are serialized, an automatic one past the caches works   *)
(* on a head no recent review was posted for.                              *)
Unposted ==
  ~crowded => \A e \in Heads :
    pc[e] \in {"pipeline", "labelling", "posting"} => seen[e] \notin fresh

LEMMA NextUnposted == FlowInv /\ OnRecord /\ Unposted /\ [Next]_vars => Unposted'
<1> SUFFICES ASSUME FlowInv, OnRecord, Unposted, [Next]_vars, ~crowded',
                    NEW f \in Heads, pc'[f] \in {"pipeline", "labelling", "posting"}
             PROVE  seen'[f] \notin fresh'
  BY DEF Unposted
<1> USE DEF caches, Move, Close
<1>t. TypeOK /\ f \in Events
  BY DEF FlowInv, Events
<1>1. CASE Push
  BY <1>1 DEF Push, Unposted
<1>2. ASSUME NEW e \in Events, StepOf(e) PROVE seen'[f] \notin fresh'
  <2>1. CASE Deny(e)
    BY <2>1, <1>t DEF Deny, TypeOK, Unposted
  <2>2. CASE Wait(e)
    BY <2>2, <1>t DEF Wait, TypeOK, Unposted
  <2>3. CASE Start(e)
    BY <2>3, <1>t DEF Start, TypeOK, Unposted
  <2>4. CASE Finish(e)
    BY <2>4, <1>t DEF Finish, TypeOK, Waiting, Unposted
  <2>5. CASE Fetch(e)
    BY <2>5, <1>t DEF Fetch, TypeOK, Unposted
  <2>6. CASE FetchFails(e)
    BY <2>6, <1>t DEF FetchFails, TypeOK, Unposted
  <2>7. CASE Refuse(e)
    BY <2>7, <1>t DEF Refuse, TypeOK, Unposted
  <2>8. CASE Share(e)
    BY <2>8, <1>t DEF Share, TypeOK, Unposted
  <2>9. CASE SkipReviewed(e)
    BY <2>9, <1>t DEF SkipReviewed, TypeOK, Unposted
  <2>10. CASE Begin(e)
    <3>1. CASE f = e
      BY <2>10, <3>1, <1>t DEF Begin, TypeOK, Automatic
    <3>2. CASE f # e
      BY <2>10, <3>2, <1>t DEF Begin, TypeOK, Unposted
    <3> QED
      BY <3>1, <3>2
  <2>11. CASE Reviews(e)
    BY <2>11, <1>t DEF Reviews, Settle, TypeOK, Waiting, Unposted
  <2>12. CASE Degrades(e)
    BY <2>12, <1>t DEF Degrades, Settle, TypeOK, Waiting, Unposted
  <2>13. CASE Throws(e)
    BY <2>13, <1>t DEF Throws, Settle, TypeOK, Waiting, Unposted
  <2>14. CASE MarkReviewed(e)
    BY <2>14, <1>t DEF MarkReviewed, TypeOK, Unposted
  <2>15. CASE PostReview(e)
    <3>1. f # e
      BY <2>15, <1>t DEF PostReview, TypeOK
    <3>2. pc[f] \in Handling /\ pc[e] \in Handling /\ ~crowded
      BY <2>15, <3>1, <1>t DEF PostReview, TypeOK, Handling
    <3> QED
      BY <3>1, <3>2, <1>t DEF OnRecord
  <2>16. CASE PostFails(e)
    BY <2>16, <1>t DEF PostFails, TypeOK, Unposted
  <2> QED
    BY <1>2, <2>1, <2>2, <2>3, <2>4, <2>5, <2>6, <2>7, <2>8, <2>9, <2>10, <2>11,
       <2>12, <2>13, <2>14, <2>15, <2>16 DEF StepOf, Handle
<1>3. ASSUME NEW h \in Heads, Expire(h) PROVE seen'[f] \notin fresh'
  BY <1>3 DEF Expire, Unposted
<1>4. CASE UNCHANGED vars
  BY <1>4 DEF vars, Unposted
<1> QED
  BY <1>1, <1>2, <1>3, <1>4 DEF Next, StepOf

(* No automatic event posts a second review of a head.                     *)
THEOREM NoRepeatedPostHolds == Spec => NoRepeatedPost
<1>1. Init => OnRecord /\ Unposted
  BY FlowAssumption DEF Init, OnRecord, Unposted, Handling
<1>2. FlowInv /\ OnRecord /\ Unposted /\ [Next]_vars => OnRecord' /\ Unposted'
  BY NextOnRecord, NextUnposted
<1>3. Unposted => (~crowded => \A e \in Heads :
                     pc[e] = "posting" /\ outcome'[e] = "posted" => seen[e] \notin fresh)
  BY DEF Unposted
<1> QED
  BY <1>1, <1>2, <1>3, FlowInvHolds, PTL DEF Spec, NoRepeatedPost
=============================================================================

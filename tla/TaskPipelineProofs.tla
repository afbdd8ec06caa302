------------------------- MODULE TaskPipelineProofs -------------------------
(***************************************************************************)
(* Proofs about the task pipeline, for any keys, deliveries, concurrency   *)
(* and numbers of crashes and retries.                                     *)
(***************************************************************************)
EXTENDS TaskPipeline, SequenceTheorems, TLAPS

-----------------------------------------------------------------------------
(* Types.                                                                  *)

Statuses == {"queued", "running", "completed", "failed"}
Row == [key : Keys, status : Statuses]
Job(n) == [state : {"absent", "waiting", "active", "completed", "failed"},
           row : 0..n, runs : BOOLEAN, stalls : 0..MaxStalls]
Execution(n) == [at : Steps, row : 0..n]

(* Handlings that have enqueued are handlings of something that was sent.  *)
TypeInv ==
  /\ TypeOK
  /\ \A d \in Deliveries : claiming[d] <= sent[d]

(* A write of a status changes nothing else of the table.                  *)
LEMMA SetStatusRows ==
  ASSUME rows \in Seq(Row), NEW r, NEW status \in Statuses, SetStatus(r, status)
  PROVE  /\ rows' \in Seq(Row) /\ Len(rows') = Len(rows)
         /\ \A q \in RowIds : rows'[q] = IF q = r THEN [rows[r] EXCEPT !.status = status]
                                          ELSE rows[q]
<1>1. CASE r \in RowIds
  <2>1. rows[r] \in Row
    BY <1>1, ElementOfSeq DEF RowIds
  <2>2. [rows[r] EXCEPT !.status = status] \in Row
    BY <2>1 DEF Row
  <2>3. rows' = [rows EXCEPT ![r] = [rows[r] EXCEPT !.status = status]]
    BY DEF SetStatus
  <2> QED
    BY <1>1, <2>2, <2>3, ExceptSeq DEF RowIds
<1>2. CASE r \notin RowIds
  <2>1. rows' = rows
    BY <1>2 DEF SetStatus, RowIds
  <2> QED
    BY <1>2, <2>1
<1> QED
  BY <1>1, <1>2

(* So does a change of one job, if it stays one.                           *)
LEMMA JobsExcept ==
  ASSUME NEW n \in Nat, NEW f \in [JobIds -> Job(n)], NEW j \in JobIds, NEW job \in Job(n)
  PROVE  [f EXCEPT ![j] = job] \in [JobIds -> Job(n)]
OBVIOUS

(* Adding a job keeps the queue a queue.                                   *)
LEMMA AddType ==
  ASSUME TypeOK, NEW j \in JobIds, NEW row \in 0..Len(rows), NEW runs \in BOOLEAN,
         Add(j, row, runs)
  PROVE  jobs' \in [JobIds -> Job(Len(rows))]
<1>1. [state |-> "waiting", row |-> row, runs |-> runs, stalls |-> 0] \in Job(Len(rows))
  BY PipelineAssumption DEF Job
<1> QED
  BY <1>1 DEF Add, TypeOK, Job

(* A step of the worker that leaves the tables alone keeps the types.      *)
LEMMA StepType ==
  ASSUME TypeInv, NEW j \in JobIds, NEW from, NEW to \in Steps, Go(j, from, to),
         rows' \in Seq(Row), Len(rows') = Len(rows),
         jobs' \in [JobIds -> Job(Len(rows))],
         disk' \in [Places -> {"absent", "cloning", "cloned"}],
         posted' \in [JobIds -> Nat],
         lost' \subseteq RowIds
  PROVE  TypeInv'
<1>1. run' \in [JobIds -> Execution(Len(rows))]
  BY DEF Go, TypeInv, TypeOK, Execution
<1> QED
  BY <1>1 DEF Go, TypeInv, TypeOK, hookVars, Execution, Row, Statuses, Job, RowIds

LEMMA InitType == Init => TypeInv
  BY PipelineAssumption DEF Init, TypeInv, TypeOK, JobIds, Idle, Steps, NoRow, RowIds

LEMMA WebhookType ==
  ASSUME TypeInv, NEW d \in Deliveries, HandleWebhook(d)  PROVE TypeInv'
<1>1. CASE EnqueueDelivery(d)
  <2>1. /\ WebhookJob(d) \in JobIds /\ NoRow \in 0..Len(rows)
        /\ Dispatchable(Key[d]) \in BOOLEAN
    BY PipelineAssumption DEF WebhookJob, JobIds, NoRow, TypeInv, TypeOK, Dispatchable
  <2>2. jobs' \in [JobIds -> Job(Len(rows))]
    BY <1>1, <2>1, AddType DEF EnqueueDelivery, TypeInv
  <2>3. /\ sent' \in [Deliveries -> 0..Attempts] /\ claiming' \in [Deliveries -> 0..Attempts]
        /\ \A e \in Deliveries : claiming'[e] <= sent'[e]
    BY <1>1, PipelineAssumption DEF EnqueueDelivery, Arrives, TypeInv, TypeOK
  <2> QED
    BY <1>1, <2>2, <2>3 DEF EnqueueDelivery, TypeInv, TypeOK, workVars, history, Job, RowIds
<1>2. CASE RefuseDelivery(d)
  <2>1. /\ sent' \in [Deliveries -> 0..Attempts]
        /\ \A e \in Deliveries : claiming'[e] <= sent'[e]
    BY <1>2, PipelineAssumption DEF RefuseDelivery, Arrives, TypeInv, TypeOK
  <2> QED
    BY <1>2, <2>1 DEF RefuseDelivery, TypeInv, TypeOK, workVars, history, RowIds
<1>3. CASE ClaimDelivery(d) \/ ClaimFails(d)
  <2>1. /\ claiming' \in [Deliveries -> 0..Attempts]
        /\ \A e \in Deliveries : claiming'[e] <= sent'[e]
    <3>1. Answer(d)
      BY <1>3 DEF ClaimDelivery, ClaimFails
    <3>2. claiming[d] - 1 \in 0..Attempts /\ claiming \in [Deliveries -> 0..Attempts]
      BY <3>1, PipelineAssumption DEF Answer, TypeInv, TypeOK
    <3>3. claiming' = [claiming EXCEPT ![d] = claiming[d] - 1] /\ sent' = sent
      BY <3>1 DEF Answer
    <3>4. sent \in [Deliveries -> 0..Attempts]
      BY DEF TypeInv, TypeOK
    <3>5. claiming' \in [Deliveries -> 0..Attempts]
      BY <3>2, <3>3
    <3>6. ASSUME NEW e \in Deliveries  PROVE claiming'[e] <= sent'[e]
      <4>1. claiming[e] \in Nat /\ sent[e] \in Nat /\ claiming[e] <= sent[e]
        BY <3>2, <3>4, PipelineAssumption DEF TypeInv
      <4>2. claiming'[e] = IF e = d THEN claiming[e] - 1 ELSE claiming[e]
        BY <3>2, <3>3
      <4> QED
        BY <4>1, <4>2, <3>3
    <3> QED
      BY <3>5, <3>6
  <2> QED
    BY <1>3, <2>1
    DEF ClaimDelivery, ClaimFails, Answer, TypeInv, TypeOK, workVars, history, RowIds
<1> QED
  BY <1>1, <1>2, <1>3 DEF HandleWebhook

LEMMA ApiType ==
  ASSUME TypeInv,
         \/ \E k \in Keys : CreateTask(k)
         \/ \E r \in RowIds : RetryTask(r)
         \/ \E j \in JobIds : MarkQueued(j) \/ MarkQueuedFails(j)
  PROVE  TypeInv'
<1>1. ASSUME NEW k \in Keys, CreateTask(k)  PROVE TypeInv'
  <2>1. <<k, 0>> \in JobIds /\ NoRow \in 0..Len(rows) /\ NeedsNoIssue(k) \in BOOLEAN
    BY PipelineAssumption DEF JobIds, NoRow, TypeInv, TypeOK, NeedsNoIssue
  <2>2. jobs' \in [JobIds -> Job(Len(rows))]
    BY <1>1, <2>1, AddType DEF CreateTask, TypeInv
  <2> QED
    BY <1>1, <2>2 DEF CreateTask, TypeInv, TypeOK, hookVars, workVars, history, Job, RowIds
<1>2. ASSUME NEW r \in RowIds, RetryTask(r)  PROVE TypeInv'
  <2> DEFINE j == <<rows[r].key, retries + 1>>
  <2>a. rows \in Seq(Row) /\ r \in 1..Len(rows)
    BY DEF TypeInv, TypeOK, Row, Statuses, RowIds
  <2>1. rows[r] \in Row /\ r \in 0..Len(rows)
    BY <2>a, ElementOfSeq
  <2>2. j \in JobIds /\ NeedsNoIssue(rows[r].key) \in BOOLEAN /\ retries + 1 \in 0..MaxRetries
    BY <1>2, <2>1, PipelineAssumption
    DEF RetryTask, JobIds, TypeInv, TypeOK, Row, NeedsNoIssue
  <2>3. jobs' \in [JobIds -> Job(Len(rows))]
    BY <1>2, <2>1, <2>2, AddType DEF RetryTask, TypeInv
  <2> QED
    BY <1>2, <2>2, <2>3
    DEF RetryTask, TypeInv, TypeOK, hookVars, workVars, history, Job, RowIds
<1>3. ASSUME NEW j \in JobIds, MarkQueued(j)  PROVE TypeInv'
  <2>1. rows' \in Seq(Row) /\ Len(rows') = Len(rows)
    BY <1>3, SetStatusRows DEF MarkQueued, TypeInv, TypeOK, Row, Statuses
  <2> QED
    BY <1>3, <2>1 DEF MarkQueued, TypeInv, TypeOK, hookVars, history, Row, Statuses, RowIds
<1>4. ASSUME NEW j \in JobIds, MarkQueuedFails(j)  PROVE TypeInv'
  BY <1>4 DEF MarkQueuedFails, TypeInv, TypeOK, hookVars, workVars, history, RowIds
<1> QED
  BY <1>1, <1>2, <1>3, <1>4

(* The worker and the queue.                                               *)
LEMMA WorkerType ==
  ASSUME TypeInv, NEW j \in JobIds,
         Pick(j) \/ Recover(j) \/ Abandon(j) \/ Process(j)
  PROVE  TypeInv'
<1>a. jobs \in [JobIds -> Job(Len(rows))] /\ run \in [JobIds -> Execution(Len(rows))]
  BY DEF TypeInv, TypeOK, Job, Execution
<1>b. /\ jobs[j].stalls \in 0..MaxStalls /\ MaxStalls \in Nat
      /\ jobs[j].row \in 0..Len(rows) /\ Len(rows) \in Nat
  BY PipelineAssumption DEF TypeInv, TypeOK
<1>1. CASE Pick(j)
  <2>1. jobs' = [jobs EXCEPT ![j].state = "active"]
    BY <1>1 DEF Pick
  <2>2. jobs' \in [JobIds -> Job(Len(rows))]
    BY <1>a, <2>1 DEF Job
  <2>3. PICK at \in Steps : run' = [run EXCEPT ![j] = [at |-> at, row |-> jobs[j].row]]
    BY <1>1 DEF Pick, Steps
  <2>4. run' \in [JobIds -> Execution(Len(rows))]
    BY <1>a, <1>b, <2>3 DEF Execution
  <2> QED
    BY <1>1, <2>2, <2>4 DEF Pick, TypeInv, TypeOK, Job, Execution, hookVars, history, RowIds
<1>2. CASE Recover(j)
  <2>1. jobs[j].stalls + 1 \in 0..MaxStalls
    BY <1>b, <1>2 DEF Recover
  <2>2. jobs' = [jobs EXCEPT ![j] = [jobs[j] EXCEPT !.state = "waiting",
                                                    !.stalls = jobs[j].stalls + 1]]
    BY <1>2, <1>a DEF Recover
  <2>3. jobs' \in [JobIds -> Job(Len(rows))]
    BY <1>a, <2>1, <2>2 DEF Job
  <2> QED
    BY <1>2, <2>3 DEF TypeInv, TypeOK, Recover, Job, hookVars, workVars, history, RowIds
<1>3. CASE Abandon(j)
  <2>1. lost' \subseteq RowIds
    BY <1>3, <1>b DEF Abandon, TypeInv, TypeOK, NoRow, RowIds
  <2>2. jobs' = [jobs EXCEPT ![j].state = "failed"]
    BY <1>3 DEF Abandon
  <2>3. jobs' \in [JobIds -> Job(Len(rows))]
    BY <1>a, <2>2 DEF Job
  <2> QED
    BY <1>3, <2>1, <2>3 DEF TypeInv, TypeOK, Abandon, Job, hookVars, workVars, RowIds
<1>4. CASE CreateRow(j)
  <2>1. [key |-> j[1], status |-> "queued"] \in Row
    BY DEF Row, Statuses, JobIds
  <2>2. rows \in Seq(Row)
    BY DEF TypeInv, TypeOK, Row, Statuses
  <2>3. rows' \in Seq(Row) /\ Len(rows') = Len(rows) + 1 /\ Len(rows) \in Nat
    BY <1>4, <2>1, <2>2, AppendProperties DEF CreateRow
  <2>4. jobs' \in [JobIds -> Job(Len(rows'))] /\ lost' \subseteq RowIds'
    BY <1>4, <2>3 DEF CreateRow, TypeInv, TypeOK, Job, queueVars, history, RowIds
  <2>5. run' \in [JobIds -> Execution(Len(rows'))]
    BY <1>4, <2>3 DEF CreateRow, TypeInv, TypeOK, Execution, Steps
  <2> QED
    BY <1>4, <2>3, <2>4, <2>5
    DEF CreateRow, TypeInv, TypeOK, Row, Statuses, Job, Execution, queueVars, hookVars, history
<1>5. CASE LinkRow(j)
  <2>1. jobs' \in [JobIds -> Job(Len(rows))]
    <3>1. jobs \in [JobIds -> Job(Len(rows))] /\ run[j].row \in 0..Len(rows) /\ Len(rows) \in Nat
      BY DEF TypeInv, TypeOK, Job
    <3>2. [jobs[j] EXCEPT !.row = run[j].row] \in Job(Len(rows))
      BY <3>1 DEF Job
    <3>3. jobs' = [jobs EXCEPT ![j] = [jobs[j] EXCEPT !.row = run[j].row]]
      BY <1>5 DEF LinkRow
    <3> QED
      BY <3>1, <3>2, <3>3, JobsExcept
  <2> QED
    BY <1>5, <2>1, StepType
    DEF LinkRow, TypeInv, TypeOK, Steps, Row, Statuses, history
<1>6. CASE MarkRunning(j) \/ MarkCompleted(j)
  <2>1. PICK status \in Statuses : SetStatus(run[j].row, status)
    BY <1>6 DEF MarkRunning, MarkCompleted, Statuses
  <2>2. rows' \in Seq(Row) /\ Len(rows') = Len(rows)
    BY <2>1, SetStatusRows DEF TypeInv, TypeOK, Row, Statuses
  <2> QED
    BY <1>6, <2>2, StepType
    DEF MarkRunning, MarkCompleted, TypeInv, TypeOK, Steps, Job, history
<1>7. CASE StartClone(j) \/ Reuse(j) \/ FinishClone(j) \/ FailClone(j) \/ Checkout(j)
  <2>1. disk' \in [Places -> {"absent", "cloning", "cloned"}]
    BY <1>7 DEF StartClone, Reuse, FinishClone, FailClone, Checkout, TypeInv, TypeOK
  <2>2. PICK from, to \in Steps : Go(j, from, to)
    BY <1>7 DEF StartClone, Reuse, FinishClone, FailClone, Checkout, Steps
  <2> QED
    BY <1>7, <2>1, <2>2, StepType
    DEF StartClone, Reuse, FinishClone, FailClone, Checkout,
        TypeInv, TypeOK, Job, Row, Statuses, history
<1>8. CASE Publish(j)
  <2>1. posted' \in [JobIds -> Nat]
    BY <1>8 DEF Publish, TypeInv, TypeOK
  <2>2. "posted" \in Steps
    BY DEF Steps
  <2> QED
    BY <1>8, <2>1, <2>2, StepType DEF Publish, TypeInv, TypeOK, Job, Row, Statuses
<1>9. CASE SkipReview(j) \/ StepFails(j)
  <2>1. PICK from, to \in Steps : Go(j, from, to)
    BY <1>9 DEF SkipReview, StepFails, Steps
  <2> QED
    BY <1>9, <2>1, StepType
    DEF SkipReview, StepFails, TypeInv, TypeOK, Job, Row, Statuses, history
<1>10. CASE MarkFailed(j)
  <2>1. rows' = rows \/ SetStatus(run[j].row, "failed")
    BY <1>10 DEF MarkFailed, SetStatus
  <2>2. rows' \in Seq(Row) /\ Len(rows') = Len(rows)
    BY <2>1, SetStatusRows DEF TypeInv, TypeOK, Row, Statuses
  <2> QED
    BY <1>10, <2>2, StepType DEF MarkFailed, TypeInv, TypeOK, Steps, Job, history
<1>11. CASE MarkFailedFails(j)
  <2>a. run[j].row \in 0..Len(rows) /\ Len(rows) \in Nat
    BY DEF TypeInv, TypeOK
  <2>b. run[j].row # 0 /\ lost' = lost \union {run[j].row}
    BY <1>11 DEF MarkFailedFails, NoRow
  <2>c. run[j].row \in 1..Len(rows)
    BY <2>a, <2>b
  <2>d. lost \subseteq 1..Len(rows)
    BY DEF TypeInv, TypeOK, RowIds
  <2>1. lost' \subseteq RowIds
    BY <2>b, <2>c, <2>d DEF RowIds
  <2> QED
    BY <1>11, <2>1, StepType DEF MarkFailedFails, TypeInv, TypeOK, Steps, Job, Row, Statuses
<1>12. CASE CompleteJob(j) \/ FailJob(j)
  <2>1. PICK from \in Steps, state \in {"completed", "failed"} : Settle(j, from, state)
    BY <1>12 DEF CompleteJob, FailJob, Steps
  <2>2. jobs' \in [JobIds -> Job(Len(rows))]
    <3>1. jobs \in [JobIds -> Job(Len(rows))] /\ Len(rows) \in Nat
      BY DEF TypeInv, TypeOK, Job
    <3>2. [jobs[j] EXCEPT !.state = state] \in Job(Len(rows))
      BY <2>1, <3>1 DEF Job
    <3>3. jobs' = [jobs EXCEPT ![j] = [jobs[j] EXCEPT !.state = state]]
      BY <2>1 DEF Settle
    <3> QED
      BY <3>1, <3>2, <3>3, JobsExcept
  <2>3. run' \in [JobIds -> Execution(Len(rows))]
    BY <2>1 DEF Settle, TypeInv, TypeOK, Execution, Idle, NoRow, Steps
  <2> QED
    BY <2>1, <2>2, <2>3
    DEF Settle, TypeInv, TypeOK, Job, Execution, hookVars, history, RowIds
<1> QED
  BY <1>1, <1>2, <1>3, <1>4, <1>5, <1>6, <1>7, <1>8, <1>9, <1>10, <1>11, <1>12 DEF Process

LEMMA TypeStep == TypeInv /\ [Next]_vars => TypeInv'
<1> SUFFICES ASSUME TypeInv, [Next]_vars  PROVE TypeInv'
  OBVIOUS
<1>1. CASE Crash
  BY <1>1, PipelineAssumption
  DEF Crash, TypeInv, TypeOK, Idle, NoRow, Steps, history, RowIds, JobIds
<1>2. CASE UNCHANGED vars
  BY <1>2 DEF TypeInv, TypeOK, vars, queueVars, hookVars, workVars, history, RowIds
<1> QED
  BY <1>1, <1>2, WebhookType, ApiType, WorkerType DEF Next, Advance

(* The state of the platform is well formed: rows are only referred to     *)
(* when they exist, counters stay within their bounds.                     *)
THEOREM TypeOKHolds == Spec => []TypeOK
<1>1. TypeInv => TypeOK
  BY DEF TypeInv
<1> QED
  BY InitType, TypeStep, <1>1, PTL DEF Spec

-----------------------------------------------------------------------------
(* What a step does to the queue.                                          *)

(* A step of an execution touches no other execution.                      *)
LEMMA GoEffect ==
  ASSUME TypeInv, NEW j \in JobIds, NEW from, NEW to, Go(j, from, to)
  PROVE  /\ run[j].at = from /\ run'[j] = [at |-> to, row |-> run[j].row]
         /\ \A i \in JobIds \ {j} : run'[i] = run[i]
BY DEF Go, TypeInv, TypeOK

(* A worker's step on one job touches no other job.                        *)
LEMMA Elsewhere ==
  ASSUME TypeInv, NEW i \in JobIds, NEW j \in JobIds, i # j,
         Pick(i) \/ Recover(i) \/ Abandon(i) \/ Process(i)
  PROVE  jobs'[j] = jobs[j] /\ run'[j] = run[j] /\ posted'[j] = posted[j]
<1>1. CASE Pick(i) \/ Recover(i) \/ Abandon(i)
  BY <1>1 DEF Pick, Recover, Abandon, TypeInv, TypeOK, history, workVars
<1>2. CASE CreateRow(i) \/ CompleteJob(i) \/ FailJob(i)
  BY <1>2 DEF CreateRow, CompleteJob, FailJob, Settle, TypeInv, TypeOK, history, queueVars
<1>3. CASE \/ LinkRow(i) \/ MarkRunning(i) \/ StartClone(i) \/ Reuse(i) \/ FinishClone(i)
           \/ FailClone(i) \/ Checkout(i) \/ Publish(i) \/ SkipReview(i) \/ MarkCompleted(i)
           \/ StepFails(i) \/ MarkFailed(i) \/ MarkFailedFails(i)
  <2>1. run'[j] = run[j]
    BY <1>3, GoEffect
    DEF LinkRow, MarkRunning, StartClone, Reuse, FinishClone, FailClone, Checkout,
        Publish, SkipReview, MarkCompleted, StepFails, MarkFailed, MarkFailedFails
  <2>2. jobs'[j] = jobs[j]
    BY <1>3
    DEF LinkRow, MarkRunning, StartClone, Reuse, FinishClone, FailClone, Checkout, Publish,
        SkipReview, MarkCompleted, StepFails, MarkFailed, MarkFailedFails, TypeInv, TypeOK
  <2>3. posted'[j] = posted[j]
    BY <1>3
    DEF LinkRow, MarkRunning, StartClone, Reuse, FinishClone, FailClone, Checkout, Publish,
        SkipReview, MarkCompleted, StepFails, MarkFailed, MarkFailedFails, TypeInv, TypeOK,
        history
  <2> QED
    BY <2>1, <2>2, <2>3
<1> QED
  BY <1>1, <1>2, <1>3 DEF Process

(* What Queue.add() does, if anything, is to put the job into the queue.   *)
LEMMA AddEffect ==
  ASSUME TypeInv, NEW j \in JobIds, NEW row, NEW runs, Add(j, row, runs), NEW i \in JobIds
  PROVE  \/ jobs'[i] = jobs[i]
         \/ /\ i = j /\ jobs[i].state = "absent"
            /\ jobs'[i] = [state |-> "waiting", row |-> row, runs |-> runs, stalls |-> 0]
BY DEF Add, TypeInv, TypeOK

(* The steps outside the worker add a job at most, and leave executions    *)
(* and publications alone.                                                 *)
Outside ==
  \/ \E d \in Deliveries : HandleWebhook(d)
  \/ \E k \in Keys : CreateTask(k)
  \/ \E r \in RowIds : RetryTask(r)
  \/ \E j \in JobIds : MarkQueued(j) \/ MarkQueuedFails(j)

LEMMA OutsideEffect ==
  ASSUME TypeInv, Outside, NEW j \in JobIds
  PROVE  /\ run' = run /\ posted' = posted /\ lost' = lost
         /\ \/ jobs'[j] = jobs[j]
            \/ /\ jobs[j].state = "absent"
               /\ jobs'[j].state = "waiting" /\ jobs'[j].stalls = 0
<1>1. ASSUME NEW d \in Deliveries, EnqueueDelivery(d)
      PROVE  \/ jobs'[j] = jobs[j]
             \/ /\ jobs[j].state = "absent"
                /\ jobs'[j].state = "waiting" /\ jobs'[j].stalls = 0
  <2>1. WebhookJob(d) \in JobIds
    BY PipelineAssumption DEF WebhookJob, JobIds
  <2>2. Add(WebhookJob(d), NoRow, Dispatchable(Key[d]))
    BY <1>1 DEF EnqueueDelivery
  <2>3. \/ jobs'[j] = jobs[j]
        \/ /\ jobs[j].state = "absent"
           /\ jobs'[j] = [state |-> "waiting", row |-> NoRow,
                          runs |-> Dispatchable(Key[d]), stalls |-> 0]
    BY <2>1, <2>2, AddEffect
  <2> QED
    BY <2>3
<1>2. ASSUME NEW d \in Deliveries, HandleWebhook(d)  PROVE run' = run /\ posted' = posted /\ lost' = lost
  BY <1>2 DEF HandleWebhook, EnqueueDelivery, RefuseDelivery, ClaimDelivery, ClaimFails, Answer,
              workVars, history
<1>3. ASSUME NEW d \in Deliveries, HandleWebhook(d), ~EnqueueDelivery(d)  PROVE jobs' = jobs
  BY <1>3 DEF HandleWebhook, RefuseDelivery, ClaimDelivery, ClaimFails, Answer
<1>4. ASSUME NEW k \in Keys, CreateTask(k)
      PROVE  /\ run' = run /\ posted' = posted /\ lost' = lost
             /\ \/ jobs'[j] = jobs[j]
                \/ /\ jobs[j].state = "absent"
                   /\ jobs'[j].state = "waiting" /\ jobs'[j].stalls = 0
  <2>1. <<k, 0>> \in JobIds
    BY PipelineAssumption DEF JobIds
  <2>2. run' = run /\ posted' = posted /\ lost' = lost
    BY <1>4 DEF CreateTask, workVars, history
  <2>3. Add(<<k, 0>>, NoRow, NeedsNoIssue(k))
    BY <1>4 DEF CreateTask
  <2>4. \/ jobs'[j] = jobs[j]
        \/ /\ jobs[j].state = "absent"
           /\ jobs'[j] = [state |-> "waiting", row |-> NoRow, runs |-> NeedsNoIssue(k),
                          stalls |-> 0]
    BY <2>1, <2>3, AddEffect
  <2> QED
    BY <2>2, <2>4
<1>5. ASSUME NEW r \in RowIds, RetryTask(r)
      PROVE  /\ run' = run /\ posted' = posted /\ lost' = lost
             /\ \/ jobs'[j] = jobs[j]
                \/ /\ jobs[j].state = "absent"
                   /\ jobs'[j].state = "waiting" /\ jobs'[j].stalls = 0
  <2>1. rows[r] \in Row
    BY ElementOfSeq DEF TypeInv, TypeOK, Row, Statuses, RowIds
  <2>2. <<rows[r].key, retries + 1>> \in JobIds
    BY <1>5, <2>1, PipelineAssumption DEF RetryTask, JobIds, TypeInv, TypeOK, Row
  <2>3. run' = run /\ posted' = posted /\ lost' = lost
    BY <1>5 DEF RetryTask, workVars, history
  <2>4. Add(<<rows[r].key, retries + 1>>, r, NeedsNoIssue(rows[r].key))
    BY <1>5 DEF RetryTask
  <2>5. \/ jobs'[j] = jobs[j]
        \/ /\ jobs[j].state = "absent"
           /\ jobs'[j] = [state |-> "waiting", row |-> r,
                          runs |-> NeedsNoIssue(rows[r].key), stalls |-> 0]
    BY <2>2, <2>4, AddEffect
  <2> QED
    BY <2>3, <2>5
<1>6. ASSUME NEW i \in JobIds, MarkQueued(i) \/ MarkQueuedFails(i)
      PROVE  run' = run /\ posted' = posted /\ lost' = lost /\ jobs' = jobs
  BY <1>6 DEF MarkQueued, MarkQueuedFails, workVars, history
<1> QED
  BY <1>1, <1>2, <1>3, <1>4, <1>5, <1>6 DEF Outside, HandleWebhook

(* Every step is of one of four kinds.                                     *)
LEMMA Kinds ==
  ASSUME [Next]_vars
  PROVE  \/ Outside \/ Crash \/ UNCHANGED vars
         \/ \E j \in JobIds : Pick(j) \/ Recover(j) \/ Abandon(j) \/ Process(j)
BY DEF Next, Advance, Outside

-----------------------------------------------------------------------------
(* No delivery is lost.                                                    *)

(* A job never leaves the queue's memory.                                  *)
LEMMA JobsStay ==
  ASSUME TypeInv, [Next]_vars, NEW j \in JobIds, jobs[j].state # "absent"
  PROVE  jobs'[j].state # "absent"
<1>1. CASE Outside
  BY <1>1, OutsideEffect
<1>2. CASE Crash \/ UNCHANGED vars
  BY <1>2 DEF Crash, vars, queueVars
<1>3. ASSUME NEW i \in JobIds, Pick(i) \/ Recover(i) \/ Abandon(i) \/ Process(i)
      PROVE  jobs'[j].state # "absent"
  <2>1. CASE i # j
    BY <1>3, <2>1, Elsewhere
  <2>2. CASE i = j /\ (Pick(i) \/ Recover(i) \/ Abandon(i))
    BY <2>2 DEF Pick, Recover, Abandon, TypeInv, TypeOK
  <2>3. CASE i = j /\ (CompleteJob(i) \/ FailJob(i))
    BY <2>3 DEF CompleteJob, FailJob, Settle, TypeInv, TypeOK
  <2>4. CASE i = j /\ LinkRow(i)
    BY <2>4 DEF LinkRow, TypeInv, TypeOK
  <2>5. CASE Process(i) /\ ~CompleteJob(i) /\ ~FailJob(i) /\ ~LinkRow(i)
    <3>1. jobs' = jobs
      BY <2>5
      DEF Process, CreateRow, MarkRunning, StartClone, Reuse, FinishClone, FailClone,
          Checkout, Publish, SkipReview, MarkCompleted, StepFails, MarkFailed,
          MarkFailedFails, queueVars
    <3> QED
      BY <3>1
  <2> QED
    BY <1>3, <2>1, <2>2, <2>3, <2>4, <2>5 DEF Process
<1> QED
  BY <1>1, <1>2, <1>3, Kinds

(* What has been enqueued, and only that, is claimed and answered.         *)
DeliveryInv ==
  \A d \in Deliveries :
    d \in claimed \union answered \/ claiming[d] > 0 => jobs[WebhookJob(d)].state # "absent"

LEMMA DeliveryStep == TypeInv /\ DeliveryInv /\ [Next]_vars => DeliveryInv'
<1> SUFFICES ASSUME TypeInv, DeliveryInv, [Next]_vars, NEW d \in Deliveries,
                    d \in claimed' \union answered' \/ claiming'[d] > 0
             PROVE  jobs'[WebhookJob(d)].state # "absent"
  BY DEF DeliveryInv, WebhookJob
<1>a. WebhookJob(d) \in JobIds
  BY PipelineAssumption DEF WebhookJob, JobIds
<1>b. claiming \in [Deliveries -> 0..Attempts] /\ Attempts \in Nat
  BY PipelineAssumption DEF TypeInv, TypeOK
<1>1. CASE d \in claimed \union answered \/ claiming[d] > 0
  BY <1>1, <1>a, JobsStay DEF DeliveryInv
<1>2. CASE EnqueueDelivery(d)
  <2>1. Add(WebhookJob(d), NoRow, Dispatchable(Key[d]))
    BY <1>2 DEF EnqueueDelivery
  <2> QED
    BY <2>1, <1>a DEF Add, TypeInv, TypeOK
<1>3. CASE ~(d \in claimed \union answered \/ claiming[d] > 0) /\ ~EnqueueDelivery(d)
  <2>1. ASSUME NEW e \in Deliveries, HandleWebhook(e)
        PROVE  d \notin claimed' \union answered' /\ claiming'[d] = claiming[d]
    <3>1. CASE EnqueueDelivery(e)
      BY <3>1, <1>3, <1>b DEF EnqueueDelivery
    <3>2. CASE RefuseDelivery(e)
      BY <3>2, <1>3 DEF RefuseDelivery
    <3>3. CASE ClaimDelivery(e) \/ ClaimFails(e)
      <4>1. Answer(e) /\ claimed' \subseteq claimed \union {e}
        BY <3>3 DEF ClaimDelivery, ClaimFails
      <4>2. e # d
        BY <4>1, <1>3 DEF Answer
      <4> QED
        BY <4>1, <4>2, <1>3, <1>b DEF Answer
    <3> QED
      BY <2>1, <3>1, <3>2, <3>3 DEF HandleWebhook
  <2>2. CASE Crash
    BY <2>2, <1>3 DEF Crash
  <2>3. CASE UNCHANGED hookVars
    BY <2>3, <1>3 DEF hookVars
  <2>4. ASSUME NEW k \in Keys, CreateTask(k)  PROVE UNCHANGED hookVars
    BY <2>4 DEF CreateTask
  <2>5. ASSUME NEW r \in RowIds, RetryTask(r)  PROVE UNCHANGED hookVars
    BY <2>5 DEF RetryTask
  <2>6. ASSUME NEW j \in JobIds, MarkQueued(j) \/ MarkQueuedFails(j)  PROVE UNCHANGED hookVars
    BY <2>6 DEF MarkQueued, MarkQueuedFails
  <2>7. ASSUME NEW j \in JobIds, Pick(j) \/ Recover(j) \/ Abandon(j) \/ Process(j)
        PROVE  UNCHANGED hookVars
    BY <2>7
    DEF Pick, Recover, Abandon, Process, CreateRow, LinkRow, MarkRunning, StartClone, Reuse,
        FinishClone, FailClone, Checkout, Publish, SkipReview, MarkCompleted, StepFails,
        MarkFailed, MarkFailedFails, CompleteJob, FailJob, Settle, Go, queueVars
  <2> QED
    BY <1>3, <2>1, <2>2, <2>3, <2>4, <2>5, <2>6, <2>7 DEF Next, Advance, vars, queueVars
<1> QED
  BY <1>1, <1>2, <1>3

(* "The task is never lost" (webhooks.ts): a delivery that was answered    *)
(* with 200, or is on record so that a redelivery counts as a duplicate,   *)
(* has its job in the queue, whatever overlapped, failed or crashed.       *)
THEOREM NoDeliveryLostHolds == Spec => []NoDeliveryLost
<1>1. Init => TypeInv /\ DeliveryInv
  BY InitType, PipelineAssumption DEF Init, DeliveryInv
<1>2. TypeInv /\ DeliveryInv /\ [Next]_vars => (TypeInv /\ DeliveryInv)'
  BY TypeStep, DeliveryStep
<1>3. TypeInv /\ DeliveryInv => NoDeliveryLost
  BY DEF DeliveryInv, NoDeliveryLost
<1> QED
  BY <1>1, <1>2, <1>3, PTL DEF Spec

-----------------------------------------------------------------------------
(* Nothing is published twice.                                             *)

Unpublished == {"new", "unlinked", "linked", "opening", "cloning", "checkout", "ready"}

(* An execution belongs to an active job; a job that has its work still    *)
(* before it has published less often than it has been taken up.           *)
Once(j) ==
  /\ run[j].at # "off" => jobs[j].state = "active"
  /\ jobs[j].state = "absent" => posted[j] = 0
  /\ posted[j] <= jobs[j].stalls + 1
  /\ jobs[j].state = "waiting" \/ run[j].at \in Unpublished => posted[j] <= jobs[j].stalls

OnceInv == \A j \in JobIds : Once(j)

LEMMA OnceWorker ==
  ASSUME TypeInv, NEW j \in JobIds, Once(j),
         Pick(j) \/ Recover(j) \/ Abandon(j) \/ Process(j)
  PROVE  Once(j)'
<1>a. posted[j] \in Nat /\ jobs[j].stalls \in Nat
  BY PipelineAssumption DEF TypeInv, TypeOK
<1>1. CASE Pick(j)
  <2>1. jobs'[j] = [jobs[j] EXCEPT !.state = "active"] /\ posted' = posted
    BY <1>1 DEF Pick, TypeInv, TypeOK, history
  <2>2. jobs'[j].state = "active" /\ jobs'[j].stalls = jobs[j].stalls /\ jobs[j].state = "waiting"
    BY <1>1, <2>1 DEF Pick, TypeInv, TypeOK
  <2> QED
    BY <2>1, <2>2, <1>a DEF Once
<1>2. CASE Recover(j)
  <2>1. /\ jobs'[j].state = "waiting" /\ jobs'[j].stalls = jobs[j].stalls + 1
        /\ posted' = posted /\ run' = run /\ run[j].at = "off"
    BY <1>2 DEF Recover, TypeInv, TypeOK, history, workVars
  <2> QED
    BY <2>1, <1>a DEF Once
<1>3. CASE Abandon(j)
  <2>1. /\ jobs'[j].state = "failed" /\ jobs'[j].stalls = jobs[j].stalls
        /\ posted' = posted /\ run' = run /\ run[j].at = "off"
    BY <1>3 DEF Abandon, TypeInv, TypeOK, workVars
  <2> QED
    BY <2>1, <1>a DEF Once, Unpublished
<1>4. CASE CreateRow(j)
  <2>1. run[j].at = "new" /\ run'[j].at = "unlinked" /\ jobs' = jobs /\ posted' = posted
    BY <1>4 DEF CreateRow, TypeInv, TypeOK, queueVars, history
  <2> QED
    BY <2>1 DEF Once, Unpublished
<1>5. CASE LinkRow(j)
  <2>1. /\ run[j].at = "unlinked" /\ jobs'[j].state = jobs[j].state
        /\ jobs'[j].stalls = jobs[j].stalls /\ posted' = posted
    BY <1>5 DEF LinkRow, Go, TypeInv, TypeOK, history
  <2> QED
    BY <2>1 DEF Once, Unpublished
<1>6. CASE \/ MarkRunning(j) \/ StartClone(j) \/ Reuse(j) \/ FinishClone(j) \/ FailClone(j)
           \/ Checkout(j) \/ SkipReview(j) \/ MarkCompleted(j) \/ StepFails(j)
           \/ MarkFailed(j) \/ MarkFailedFails(j)
  <2>1. jobs' = jobs /\ posted' = posted
    BY <1>6
    DEF MarkRunning, StartClone, Reuse, FinishClone, FailClone, Checkout, SkipReview,
        MarkCompleted, StepFails, MarkFailed, MarkFailedFails, history
  <2>2. PICK from \in Steps, to \in Steps :
          Go(j, from, to) /\ from # "off" /\ (to \in Unpublished => from \in Unpublished)
    BY <1>6
    DEF MarkRunning, StartClone, Reuse, FinishClone, FailClone, Checkout, SkipReview,
        MarkCompleted, StepFails, MarkFailed, MarkFailedFails, Steps, Unpublished
  <2>3. run[j].at = from /\ run'[j] = [at |-> to, row |-> run[j].row]
    BY <2>2, GoEffect
  <2>4. run'[j].at = to
    BY <2>3
  <2> QED
    BY <2>1, <2>2, <2>3, <2>4 DEF Once
<1>7. CASE Publish(j)
  <2>a. Go(j, "ready", "posted")
    BY <1>7 DEF Publish
  <2>b. run[j].at = "ready" /\ run'[j] = [at |-> "posted", row |-> run[j].row]
    BY <2>a, GoEffect
  <2>1. /\ run[j].at = "ready" /\ run'[j].at = "posted" /\ jobs' = jobs
        /\ posted'[j] = posted[j] + 1
    BY <1>7, <2>b DEF Publish, TypeInv, TypeOK
  <2>2. jobs[j].state = "active" /\ posted[j] <= jobs[j].stalls
    BY <2>1 DEF Once, Unpublished
  <2> QED
    BY <2>1, <2>2, <1>a DEF Once, Unpublished
<1>8. CASE CompleteJob(j) \/ FailJob(j)
  <2>1. PICK from \in Steps, state \in {"completed", "failed"} : Settle(j, from, state)
    BY <1>8 DEF CompleteJob, FailJob, Steps
  <2>2. /\ run'[j].at = "off" /\ jobs'[j].state = state
        /\ jobs'[j].stalls = jobs[j].stalls /\ posted' = posted
    BY <2>1 DEF Settle, Idle, TypeInv, TypeOK, history
  <2> QED
    BY <2>2 DEF Once, Unpublished
<1> QED
  BY <1>1, <1>2, <1>3, <1>4, <1>5, <1>6, <1>7, <1>8 DEF Process

LEMMA OnceStep == TypeInv /\ OnceInv /\ [Next]_vars => OnceInv'
<1> SUFFICES ASSUME TypeInv, OnceInv, [Next]_vars, NEW j \in JobIds  PROVE Once(j)'
  BY DEF OnceInv, JobIds
<1>a. Once(j)
  BY DEF OnceInv
<1>1. CASE Outside
  <2>1. run' = run /\ posted' = posted
    BY <1>1, OutsideEffect
  <2>2. CASE jobs'[j] = jobs[j]
    BY <2>1, <2>2, <1>a DEF Once
  <2>3. CASE /\ jobs[j].state = "absent"
             /\ jobs'[j].state = "waiting" /\ jobs'[j].stalls = 0
    BY <2>1, <2>3, <1>a DEF Once, Unpublished
  <2> QED
    BY <1>1, <2>2, <2>3, OutsideEffect
<1>2. CASE Crash
  <2>1. jobs' = jobs /\ posted' = posted /\ run'[j].at = "off"
    BY <1>2 DEF Crash, Idle, history
  <2> QED
    BY <2>1, <1>a DEF Once, Unpublished
<1>3. CASE UNCHANGED vars
  BY <1>3, <1>a DEF vars, queueVars, workVars, history, Once
<1>4. ASSUME NEW i \in JobIds, Pick(i) \/ Recover(i) \/ Abandon(i) \/ Process(i)
      PROVE  Once(j)'
  <2>1. CASE i = j
    BY <1>4, <2>1, <1>a, OnceWorker
  <2>2. CASE i # j
    <3>1. jobs'[j] = jobs[j] /\ run'[j] = run[j] /\ posted'[j] = posted[j]
      BY <1>4, <2>2, Elsewhere
    <3> QED
      BY <3>1, <1>a DEF Once
  <2> QED
    BY <2>1, <2>2
<1> QED
  BY <1>1, <1>2, <1>3, <1>4, Kinds

LEMMA OnceInit == Init => OnceInv
BY DEF Init, OnceInv, Once, Unpublished, Idle

LEMMA OnceAlways == Spec => [](TypeInv /\ OnceInv)
<1>1. TypeInv /\ OnceInv /\ [Next]_vars => (TypeInv /\ OnceInv)'
  BY TypeStep, OnceStep
<1> QED
  BY InitType, OnceInit, <1>1, PTL DEF Spec

(* Redeliveries, overlapping handlers, API calls, retries and crashes      *)
(* never make a job publish more than once for each time the queue handed  *)
(* it to a worker.                                                         *)
THEOREM PublishedOncePerRequestHolds == Spec => []PublishedOncePerRequest
<1>1. OnceInv => PublishedOncePerRequest
  BY DEF OnceInv, Once, PublishedOncePerRequest
<1> QED
  BY OnceAlways, <1>1, PTL

-----------------------------------------------------------------------------
(* A running row has a job at work on it.                                  *)

AtWork == {"linked", "opening", "cloning", "checkout", "ready", "posted", "completing"}

(* The row an execution works on and the row its job is linked to.         *)
Linked(j) ==
  /\ run[j].at = "new" => jobs[j].row = NoRow
  /\ run[j].at = "unlinked" => run[j].row # NoRow
  /\ run[j].at \in AtWork => jobs[j].row = run[j].row /\ run[j].row # NoRow
  /\ run[j].at # "off" /\ jobs[j].row # NoRow => run[j].row = jobs[j].row

(* A job that has still to write the outcome of its row.                   *)
Pending(j) ==
  \/ jobs[j].state = "waiting"
  \/ jobs[j].state = "active" /\ run[j].at \notin {"completing", "failing"}

RowInv ==
  /\ \A j \in JobIds : Linked(j)
  /\ \A r \in RowIds \ lost : Running(r) => \E j \in JobIds : jobs[j].row = r /\ Pending(j)

(* Only MarkRunning makes a row say running, and no row is given back.     *)
LEMMA RunningBefore ==
  ASSUME TypeInv, NEW i \in JobIds, NEW r \in RowIds' \ lost', Running(r)',
         Pick(i) \/ Recover(i) \/ Abandon(i) \/ Process(i)
  PROVE  \/ r \in RowIds \ lost /\ Running(r)
         \/ MarkRunning(i) /\ r = run[i].row
<1>a. /\ rows \in Seq(Row) /\ Len(rows) \in Nat /\ r \in 1..Len(rows')
      /\ rows'[r].status = "running"
  BY DEF TypeInv, TypeOK, Row, Statuses, RowIds, Running
<1>b. lost \subseteq lost'
  BY DEF Pick, Recover, Abandon, Process, CreateRow, LinkRow, MarkRunning, StartClone, Reuse,
         FinishClone, FailClone, Checkout, Publish, SkipReview, MarkCompleted, StepFails,
         MarkFailed, MarkFailedFails, CompleteJob, FailJob, Settle, history
<1>1. CASE CreateRow(i)
  <2>1. rows' = Append(rows, [key |-> i[1], status |-> "queued"])
    BY <1>1 DEF CreateRow
  <2>2. [key |-> i[1], status |-> "queued"] \in Row
    BY DEF Row, Statuses, JobIds
  <2>3. Len(rows') = Len(rows) + 1 /\ rows'[Len(rows) + 1] = [key |-> i[1], status |-> "queued"]
        /\ \A q \in 1..Len(rows) : rows'[q] = rows[q]
    BY <1>a, <2>1, <2>2, AppendProperties
  <2>4. r # Len(rows) + 1
    BY <1>a, <2>3
  <2>5. r \in 1..Len(rows)
    BY <1>a, <2>3, <2>4
  <2> QED
    BY <1>a, <1>b, <2>3, <2>5 DEF RowIds, Running
<1>2. ASSUME NEW q, NEW status \in Statuses, SetStatus(q, status), r # q \/ status # "running"
      PROVE  r \in RowIds \ lost /\ Running(r)
  <2>1. /\ Len(rows') = Len(rows)
        /\ \A p \in RowIds : rows'[p] = IF p = q THEN [rows[q] EXCEPT !.status = status]
                                           ELSE rows[p]
    BY <1>a, <1>2, SetStatusRows
  <2>2. r \in RowIds /\ rows[r] \in Row
    BY <1>a, <2>1, ElementOfSeq DEF RowIds
  <2>3. CASE r = q
    BY <1>a, <1>2, <2>1, <2>2, <2>3 DEF Row
  <2>4. CASE r # q
    BY <1>a, <1>b, <2>1, <2>2, <2>4 DEF Running
  <2> QED
    BY <2>3, <2>4
<1>3. CASE MarkRunning(i)
  BY <1>2, <1>3 DEF MarkRunning, Statuses
<1>4. CASE MarkCompleted(i)
  BY <1>2, <1>4 DEF MarkCompleted, Statuses
<1>5. CASE MarkFailed(i) /\ rows' # rows
  <2>1. SetStatus(run[i].row, "failed")
    BY <1>5 DEF MarkFailed, SetStatus
  <2> QED
    BY <2>1, <1>2 DEF Statuses
<1>6. CASE rows' = rows
  BY <1>6, <1>a, <1>b DEF RowIds, Running
<1>7. CASE \/ Pick(i) \/ Recover(i) \/ Abandon(i) \/ LinkRow(i) \/ StartClone(i) \/ Reuse(i)
           \/ FinishClone(i) \/ FailClone(i) \/ Checkout(i) \/ Publish(i) \/ SkipReview(i)
           \/ StepFails(i) \/ MarkFailedFails(i) \/ CompleteJob(i) \/ FailJob(i)
  <2>1. rows' = rows
    BY <1>7
    DEF Pick, Recover, Abandon, LinkRow, StartClone, Reuse, FinishClone, FailClone, Checkout,
        Publish, SkipReview, StepFails, MarkFailedFails, CompleteJob, FailJob, Settle, workVars
  <2> QED
    BY <1>6, <2>1
<1> QED
  BY <1>1, <1>3, <1>4, <1>5, <1>6, <1>7 DEF Process

(* A job at work stays linked to the row it works on.                      *)
LEMMA LinkedWorker ==
  ASSUME TypeInv, NEW j \in JobIds, Linked(j),
         Pick(j) \/ Recover(j) \/ Abandon(j) \/ Process(j)
  PROVE  Linked(j)'
<1>1. CASE Pick(j)
  <2>1. /\ jobs'[j].row = jobs[j].row /\ run'[j].row = jobs[j].row
        /\ run'[j].at = IF jobs[j].row = NoRow THEN "new" ELSE "linked"
    BY <1>1 DEF Pick, TypeInv, TypeOK
  <2> QED
    BY <2>1 DEF Linked, AtWork
<1>2. CASE Recover(j) \/ Abandon(j)
  <2>1. run'[j].at = "off"
    BY <1>2 DEF Recover, Abandon, workVars
  <2> QED
    BY <2>1 DEF Linked, AtWork
<1>3. CASE CreateRow(j)
  <2>1. /\ run[j].at = "new" /\ run'[j].at = "unlinked" /\ run'[j].row = Len(rows) + 1
        /\ jobs' = jobs /\ Len(rows) \in Nat
    BY <1>3 DEF CreateRow, queueVars, TypeInv, TypeOK
  <2>2. run'[j].row # NoRow
    BY <2>1 DEF NoRow
  <2> QED
    BY <2>1, <2>2 DEF Linked, AtWork
<1>4. CASE LinkRow(j)
  <2>1. Go(j, "unlinked", "linked") /\ jobs'[j].row = run[j].row
    BY <1>4 DEF LinkRow, TypeInv, TypeOK
  <2>2. run[j].at = "unlinked" /\ run'[j] = [at |-> "linked", row |-> run[j].row]
    BY <2>1, GoEffect
  <2> QED
    BY <2>1, <2>2 DEF Linked, AtWork
<1>5. CASE \/ MarkRunning(j) \/ StartClone(j) \/ Reuse(j) \/ FinishClone(j) \/ FailClone(j)
           \/ Checkout(j) \/ Publish(j) \/ SkipReview(j) \/ MarkCompleted(j) \/ StepFails(j)
           \/ MarkFailed(j) \/ MarkFailedFails(j)
  <2>1. jobs' = jobs
    BY <1>5
    DEF MarkRunning, StartClone, Reuse, FinishClone, FailClone, Checkout, Publish, SkipReview,
        MarkCompleted, StepFails, MarkFailed, MarkFailedFails
  <2>2. PICK from \in Steps \ {"off"}, to \in AtWork \union {"catch", "failing"} :
          Go(j, from, to) /\ (to \in AtWork => from \in AtWork)
    BY <1>5
    DEF MarkRunning, StartClone, Reuse, FinishClone, FailClone, Checkout, Publish, SkipReview,
        MarkCompleted, StepFails, MarkFailed, MarkFailedFails, Steps, AtWork
  <2>3. run[j].at = from /\ run'[j] = [at |-> to, row |-> run[j].row]
    BY <2>2, GoEffect
  <2>4. run'[j].at = to /\ run'[j].row = run[j].row
    BY <2>3
  <2> QED
    BY <2>1, <2>2, <2>3, <2>4 DEF Linked, AtWork
<1>6. CASE CompleteJob(j) \/ FailJob(j)
  <2>1. run'[j].at = "off"
    BY <1>6 DEF CompleteJob, FailJob, Settle, Idle, TypeInv, TypeOK
  <2> QED
    BY <2>1 DEF Linked, AtWork
<1> QED
  BY <1>1, <1>2, <1>3, <1>4, <1>5, <1>6 DEF Process

(* A pending job of a row keeps it until the row is settled or given up.   *)
LEMMA PendingKept ==
  ASSUME TypeInv, NEW j \in JobIds, Once(j), Linked(j), Pending(j),
         NEW r \in RowIds' \ lost', Running(r)', jobs[j].row = r,
         Pick(j) \/ Recover(j) \/ Abandon(j) \/ Process(j)
  PROVE  jobs'[j].row = r /\ Pending(j)'
<1>a. r # NoRow
  BY DEF RowIds, NoRow
<1>b. run[j].at # "off" => run[j].row = r
  BY <1>a DEF Linked
<1>1. CASE Pick(j)
  <2>1. /\ jobs'[j].row = r /\ jobs'[j].state = "active"
        /\ run'[j].at \in {"new", "linked"}
    BY <1>1 DEF Pick, TypeInv, TypeOK
  <2> QED
    BY <2>1 DEF Pending
<1>2. CASE Recover(j)
  BY <1>2 DEF Recover, Pending, TypeInv, TypeOK
<1>3. CASE Abandon(j)
  <2>1. r \in lost'
    BY <1>3, <1>a DEF Abandon
  <2> QED
    BY <2>1
<1>4. CASE CreateRow(j)
  <2>1. run'[j].at = "unlinked" /\ jobs' = jobs /\ run[j].at # "off"
    BY <1>4 DEF CreateRow, queueVars, TypeInv, TypeOK
  <2> QED
    BY <1>4, <2>1, <1>a DEF CreateRow, Linked
<1>5. CASE LinkRow(j)
  <2>1. /\ run[j].at = "unlinked" /\ run'[j].at = "linked"
        /\ jobs'[j].row = run[j].row /\ jobs'[j].state = jobs[j].state
    BY <1>5 DEF LinkRow, Go, TypeInv, TypeOK
  <2> QED
    BY <2>1, <1>b DEF Pending
<1>6. CASE \/ MarkRunning(j) \/ StartClone(j) \/ Reuse(j) \/ FinishClone(j) \/ FailClone(j)
           \/ Checkout(j) \/ Publish(j) \/ SkipReview(j) \/ StepFails(j)
  <2>1. jobs' = jobs
    BY <1>6
    DEF MarkRunning, StartClone, Reuse, FinishClone, FailClone, Checkout, Publish, SkipReview,
        StepFails
  <2>2. PICK from \in Steps, to \in Steps \ {"completing", "failing"} : Go(j, from, to)
    BY <1>6
    DEF MarkRunning, StartClone, Reuse, FinishClone, FailClone, Checkout, Publish, SkipReview,
        StepFails, Steps
  <2>3. run'[j] = [at |-> to, row |-> run[j].row]
    BY <2>2, GoEffect
  <2>4. run'[j].at = to
    BY <2>3
  <2> QED
    BY <2>1, <2>2, <2>4 DEF Pending
<1>7. CASE MarkCompleted(j) \/ MarkFailed(j)
  <2>1. run[j].at # "off"
    BY <1>7 DEF MarkCompleted, MarkFailed, Go
  <2>2. run[j].row = r
    BY <2>1, <1>b
  <2>3. PICK status \in {"completed", "failed"} : SetStatus(r, status)
    BY <1>7, <2>2, <1>a DEF MarkCompleted, MarkFailed, SetStatus
  <2>4. rows \in Seq(Row)
    BY DEF TypeInv, TypeOK, Row, Statuses
  <2>5. /\ Len(rows') = Len(rows)
        /\ \A q \in RowIds : rows'[q] = IF q = r THEN [rows[r] EXCEPT !.status = status]
                                           ELSE rows[q]
    <3>1. status \in Statuses
      BY DEF Statuses
    <3> QED
      BY <2>3, <2>4, <3>1, SetStatusRows
  <2>6. r \in RowIds /\ rows[r] \in Row
    <3>1. r \in 1..Len(rows)
      BY <2>5 DEF RowIds
    <3> QED
      BY <2>4, <3>1, ElementOfSeq DEF RowIds
  <2>7. rows'[r].status = status
    BY <2>5, <2>6 DEF Row
  <2> QED
    BY <2>3, <2>7 DEF Running
<1>8. CASE MarkFailedFails(j)
  <2>1. run[j].at # "off" /\ lost' = lost \union {run[j].row}
    BY <1>8 DEF MarkFailedFails, Go
  <2> QED
    BY <2>1, <1>b
<1>9. CASE CompleteJob(j) \/ FailJob(j)
  <2>1. run[j].at \in {"completing", "failing"} /\ jobs[j].state # "waiting"
    BY <1>9 DEF CompleteJob, FailJob, Settle, Once
  <2> QED
    BY <2>1 DEF Pending
<1> QED
  BY <1>1, <1>2, <1>3, <1>4, <1>5, <1>6, <1>7, <1>8, <1>9 DEF Process

LEMMA LinkedStep ==
  ASSUME TypeInv, OnceInv, [Next]_vars, NEW j \in JobIds, Linked(j)
  PROVE  Linked(j)'
<1>1. CASE Outside
  <2>1. run' = run
    BY <1>1, OutsideEffect
  <2>2. CASE jobs'[j] = jobs[j]
    BY <2>1, <2>2 DEF Linked
  <2>3. CASE jobs[j].state = "absent"
    <3>1. run[j].at = "off"
      BY <2>3 DEF OnceInv, Once
    <3> QED
      BY <2>1, <3>1 DEF Linked, AtWork
  <2> QED
    BY <1>1, <2>2, <2>3, OutsideEffect
<1>2. CASE Crash
  <2>1. run'[j].at = "off"
    BY <1>2 DEF Crash, Idle
  <2> QED
    BY <2>1 DEF Linked, AtWork
<1>3. CASE UNCHANGED vars
  BY <1>3 DEF vars, queueVars, workVars, Linked
<1>4. ASSUME NEW i \in JobIds, Pick(i) \/ Recover(i) \/ Abandon(i) \/ Process(i)
      PROVE  Linked(j)'
  <2>1. CASE i = j
    BY <1>4, <2>1, LinkedWorker
  <2>2. CASE i # j
    <3>1. jobs'[j] = jobs[j] /\ run'[j] = run[j]
      BY <1>4, <2>2, Elsewhere
    <3> QED
      BY <3>1 DEF Linked
  <2> QED
    BY <2>1, <2>2
<1> QED
  BY <1>1, <1>2, <1>3, <1>4, Kinds

(* No step outside the worker makes a row say running.                     *)
LEMMA RunningOutside ==
  ASSUME TypeInv, Outside, NEW r \in RowIds' \ lost', Running(r)'
  PROVE  r \in RowIds \ lost /\ Running(r)
<1>1. lost' = lost
  BY DEF Outside, HandleWebhook, EnqueueDelivery, RefuseDelivery, ClaimDelivery, ClaimFails,
         Answer, CreateTask, RetryTask, MarkQueued, MarkQueuedFails, history
<1>2. CASE rows' = rows
  BY <1>1, <1>2 DEF RowIds, Running
<1>3. ASSUME NEW j \in JobIds, MarkQueued(j)  PROVE r \in RowIds \ lost /\ Running(r)
  <2>1. SetStatus(jobs[j].row, "queued") /\ "queued" \in Statuses
    BY <1>3 DEF MarkQueued, Statuses
  <2>2. rows \in Seq(Row)
    BY DEF TypeInv, TypeOK, Row, Statuses
  <2>3. /\ Len(rows') = Len(rows)
        /\ \A q \in RowIds : rows'[q] = IF q = jobs[j].row
                                           THEN [rows[jobs[j].row] EXCEPT !.status = "queued"]
                                           ELSE rows[q]
    BY <2>1, <2>2, SetStatusRows
  <2>4. r \in 1..Len(rows) /\ r \in RowIds
    BY <2>3 DEF RowIds
  <2>5. rows[r] \in Row /\ rows'[r].status = "running"
    BY <2>2, <2>4, ElementOfSeq DEF Running
  <2>6. r # jobs[j].row
    BY <2>3, <2>4, <2>5 DEF Row
  <2> QED
    BY <1>1, <2>3, <2>4, <2>5, <2>6 DEF Running
<1>4. rows' = rows \/ \E j \in JobIds : MarkQueued(j)
  BY DEF Outside, HandleWebhook, EnqueueDelivery, RefuseDelivery, ClaimDelivery, ClaimFails,
         Answer, CreateTask, RetryTask, MarkQueuedFails, workVars
<1> QED
  BY <1>2, <1>3, <1>4

LEMMA RowStep == TypeInv /\ OnceInv /\ RowInv /\ [Next]_vars => RowInv'
<1> SUFFICES ASSUME TypeInv, OnceInv, RowInv, [Next]_vars  PROVE RowInv'
  OBVIOUS
<1>a. \A j \in JobIds : Linked(j)'
  BY LinkedStep DEF RowInv
<1>b. ASSUME NEW r \in RowIds' \ lost', Running(r)'
      PROVE  \E j \in JobIds : (jobs[j].row = r /\ Pending(j))'
  <2>1. CASE Outside
    <3>1. PICK j \in JobIds : jobs[j].row = r /\ Pending(j)
      BY <1>b, <2>1, RunningOutside DEF RowInv
    <3>2. jobs'[j] = jobs[j] /\ run' = run
      BY <2>1, <3>1, OutsideEffect DEF Pending
    <3> QED
      BY <3>1, <3>2 DEF Pending
  <2>2. CASE Crash
    <3>1. rows' = rows /\ lost' = lost /\ jobs' = jobs /\ \A j \in JobIds : run'[j].at = "off"
      BY <2>2 DEF Crash, Idle, history
    <3>2. r \in RowIds \ lost /\ Running(r)
      BY <1>b, <3>1 DEF RowIds, Running
    <3>3. PICK j \in JobIds : jobs[j].row = r /\ Pending(j)
      BY <3>2 DEF RowInv
    <3> QED
      BY <3>1, <3>3 DEF Pending
  <2>3. CASE UNCHANGED vars
    <3>1. rows' = rows /\ lost' = lost /\ jobs' = jobs /\ run' = run
      BY <2>3 DEF vars, queueVars, workVars, history
    <3>2. PICK j \in JobIds : jobs[j].row = r /\ Pending(j)
      BY <1>b, <3>1 DEF RowIds, Running, RowInv
    <3> QED
      BY <3>1, <3>2 DEF Pending
  <2>4. ASSUME NEW i \in JobIds, Pick(i) \/ Recover(i) \/ Abandon(i) \/ Process(i)
        PROVE  \E j \in JobIds : (jobs[j].row = r /\ Pending(j))'
    <3>1. CASE r \in RowIds \ lost /\ Running(r)
      <4>1. PICK j \in JobIds : jobs[j].row = r /\ Pending(j)
        BY <3>1 DEF RowInv
      <4>2. CASE i = j
        BY <1>b, <2>4, <4>1, <4>2, PendingKept DEF RowInv, OnceInv
      <4>3. CASE i # j
        <5>1. jobs'[j] = jobs[j] /\ run'[j] = run[j]
          BY <2>4, <4>3, Elsewhere
        <5> QED
          BY <4>1, <5>1 DEF Pending
      <4> QED
        BY <4>2, <4>3
    <3>2. CASE MarkRunning(i) /\ r = run[i].row
      <4>1. jobs' = jobs /\ Go(i, "linked", "opening")
        BY <3>2 DEF MarkRunning
      <4>2. run[i].at = "linked" /\ run'[i] = [at |-> "opening", row |-> run[i].row]
        BY <4>1, GoEffect
      <4>3. jobs[i].row = r /\ jobs[i].state = "active"
        BY <3>2, <4>2 DEF RowInv, Linked, AtWork, OnceInv, Once
      <4> QED
        BY <4>1, <4>2, <4>3 DEF Pending
    <3> QED
      BY <1>b, <2>4, <3>1, <3>2, RunningBefore
  <2> QED
    BY <2>1, <2>2, <2>3, <2>4, Kinds
<1> QED
  BY <1>a, <1>b DEF RowInv

(* A row that says running has a job at work on it, whatever fails or      *)
(* crashes and however often tasks are retried.  The invariant is stronger *)
(* than that: the job has not yet written the outcome, so when it does the *)
(* row ceases to say running, and the next job of the row is another one.  *)
THEOREM RunningRowHasJobHolds == Spec => []RunningRowHasJob
<1>1. Init => TypeInv /\ OnceInv /\ RowInv
  <2>1. Init => RowInv
    BY DEF Init, RowInv, Linked, AtWork, Idle, RowIds, Running
  <2> QED
    BY <2>1, InitType, OnceInit
<1>2. TypeInv /\ OnceInv /\ RowInv /\ [Next]_vars => (TypeInv /\ OnceInv /\ RowInv)'
  BY TypeStep, OnceStep, RowStep
<1>3. RowInv => RunningRowHasJob
  BY DEF RowInv, RunningRowHasJob, Pending
<1> QED
  BY <1>1, <1>2, <1>3, PTL DEF Spec

-----------------------------------------------------------------------------
(* Queue and table agree on what is over.                                  *)

Works(j, r) == jobs[j].row = r \/ run[j].row = r

(* Where the rows of a job come from: a job works on rows of its own key,  *)
(* and a retry on the row it was created for.                              *)
Origin(j) ==
  /\ jobs[j].state = "absent" => jobs[j].row = NoRow
  /\ j[2] > 0 /\ jobs[j].state # "absent" => jobs[j].row # NoRow
  /\ j \in marking => j[2] > 0
  /\ run[j].at = "off" => run[j].row = NoRow
  /\ \A r \in RowIds : Works(j, r) => rows[r].key = j[1]

OriginInv == \A j \in JobIds : Linked(j) /\ Origin(j)

Unretried(k, r) == \A n \in 1..MaxRetries : jobs[<<k, n>>].row # r

(* The row of a first job carries its outcome from the moment the worker   *)
(* has written it, before the queue hears of it.                           *)
Agrees(k, r) ==
  /\ jobs[<<k, 0>>].row = r /\ jobs[<<k, 0>>].state \in {"completed", "failed"}
     => rows[r].status = jobs[<<k, 0>>].state
  /\ run[<<k, 0>>].row = r /\ run[<<k, 0>>].at = "completing" => rows[r].status = "completed"
  /\ run[<<k, 0>>].row = r /\ run[<<k, 0>>].at = "failing" => rows[r].status = "failed"

AgreeInv == \A k \in Keys : \A r \in RowIds \ lost : Unretried(k, r) => Agrees(k, r)

LEMMA JobIdParts ==
  ASSUME NEW j \in JobIds  PROVE j = <<j[1], j[2]>> /\ j[1] \in Keys /\ j[2] \in 0..MaxRetries
BY DEF JobIds

(* The steps that write the status of a row that is there.                 *)
Writes(r) ==
  \/ \E i \in JobIds : MarkQueued(i) /\ jobs[i].row = r
  \/ \E i \in JobIds : /\ MarkRunning(i) \/ MarkCompleted(i) \/ MarkFailed(i)
                       /\ run[i].row = r

LEMMA WriteEffect ==
  ASSUME TypeInv, NEW q, NEW status \in Statuses, SetStatus(q, status), NEW r \in RowIds
  PROVE  /\ Len(rows') = Len(rows)
         /\ rows'[r].key = rows[r].key
         /\ rows'[r] = rows[r] \/ (q = r /\ rows'[r].status = status)
<1>1. rows \in Seq(Row) /\ rows[r] \in Row
  BY ElementOfSeq DEF TypeInv, TypeOK, Row, Statuses, RowIds
<1>2. /\ Len(rows') = Len(rows)
      /\ rows'[r] = IF r = q THEN [rows[q] EXCEPT !.status = status] ELSE rows[r]
  BY <1>1, SetStatusRows
<1>3. CASE r = q
  <2>1. rows'[r] = [rows[r] EXCEPT !.status = status]
    BY <1>2, <1>3
  <2>2. rows'[r].key = rows[r].key /\ rows'[r].status = status
    BY <1>1, <2>1 DEF Row
  <2> QED
    BY <1>2, <1>3, <2>2
<1>4. CASE r # q
  BY <1>2, <1>4
<1> QED
  BY <1>3, <1>4

(* A row keeps its key, and its status unless a step writes it.            *)
LEMMA RowsEffect ==
  ASSUME TypeInv, [Next]_vars, NEW r \in RowIds
  PROVE  /\ r \in RowIds'
         /\ rows'[r].key = rows[r].key
         /\ rows'[r] = rows[r] \/ Writes(r)
<1>a. rows \in Seq(Row) /\ Len(rows) \in Nat /\ r \in 1..Len(rows)
  BY DEF TypeInv, TypeOK, Row, Statuses, RowIds
<1>1. CASE rows' = rows
  BY <1>1 DEF RowIds
<1>2. ASSUME NEW i \in JobIds, CreateRow(i)
      PROVE  r \in RowIds' /\ rows'[r] = rows[r]
  <2>1. rows' = Append(rows, [key |-> i[1], status |-> "queued"])
    BY <1>2 DEF CreateRow
  <2>2. [key |-> i[1], status |-> "queued"] \in Row
    BY DEF Row, Statuses, JobIds
  <2>3. Len(rows') = Len(rows) + 1 /\ rows'[r] = rows[r]
    BY <1>a, <2>1, <2>2, AppendProperties
  <2> QED
    BY <1>a, <2>3 DEF RowIds
<1>3. ASSUME NEW i \in JobIds, MarkQueued(i)
      PROVE  r \in RowIds' /\ rows'[r].key = rows[r].key /\ (rows'[r] = rows[r] \/ Writes(r))
  <2>1. SetStatus(jobs[i].row, "queued") /\ "queued" \in Statuses
    BY <1>3 DEF MarkQueued, Statuses
  <2> QED
    BY <1>3, <1>a, <2>1, WriteEffect DEF RowIds, Writes
<1>4. ASSUME NEW i \in JobIds, MarkRunning(i) \/ MarkCompleted(i) \/ MarkFailed(i), rows' # rows
      PROVE  r \in RowIds' /\ rows'[r].key = rows[r].key /\ (rows'[r] = rows[r] \/ Writes(r))
  <2>1. PICK status \in Statuses : SetStatus(run[i].row, status)
    BY <1>4 DEF MarkRunning, MarkCompleted, MarkFailed, SetStatus, Statuses
  <2> QED
    BY <1>4, <1>a, <2>1, WriteEffect DEF RowIds, Writes
<1>5. CASE Outside
  <2>1. rows' = rows \/ \E i \in JobIds : MarkQueued(i)
    BY <1>5 DEF Outside, HandleWebhook, EnqueueDelivery, RefuseDelivery, ClaimDelivery,
                ClaimFails, Answer, CreateTask, RetryTask, MarkQueuedFails, workVars
  <2> QED
    BY <2>1, <1>1, <1>3
<1>6. CASE Crash \/ UNCHANGED vars
  BY <1>1, <1>6 DEF Crash, vars, workVars
<1>7. ASSUME NEW i \in JobIds, Pick(i) \/ Recover(i) \/ Abandon(i) \/ Process(i)
      PROVE  \/ rows' = rows \/ CreateRow(i)
             \/ (MarkRunning(i) \/ MarkCompleted(i) \/ MarkFailed(i)) /\ rows' # rows
  BY <1>7
  DEF Process, Pick, Recover, Abandon, LinkRow, StartClone, Reuse, FinishClone, FailClone,
      Checkout, Publish, SkipReview, StepFails, MarkFailedFails, CompleteJob, FailJob, Settle,
      workVars
<1> QED
  BY <1>1, <1>2, <1>4, <1>5, <1>6, <1>7, Kinds

(* A job that is added belongs to no row, or is a retry of a row of its key.*)
LEMMA OutsideRow ==
  ASSUME TypeInv, Outside, NEW j \in JobIds
  PROVE  /\ \/ jobs'[j] = jobs[j]
            \/ /\ jobs[j].state = "absent" /\ jobs'[j].state = "waiting"
               /\ \/ j[2] = 0 /\ jobs'[j].row = NoRow
                  \/ /\ j[2] > 0 /\ jobs'[j].row \in RowIds
                     /\ rows[jobs'[j].row].key = j[1]
         /\ j \in marking' => j \in marking \/ j[2] > 0
<1>1. ASSUME NEW k \in Keys, NEW runs, Add(<<k, 0>>, NoRow, runs)
      PROVE  \/ jobs'[j] = jobs[j]
             \/ /\ jobs[j].state = "absent" /\ jobs'[j].state = "waiting"
                /\ j[2] = 0 /\ jobs'[j].row = NoRow
  <2>1. <<k, 0>> \in JobIds
    BY PipelineAssumption DEF JobIds
  <2>2. \/ jobs'[j] = jobs[j]
        \/ /\ j = <<k, 0>> /\ jobs[j].state = "absent"
           /\ jobs'[j] = [state |-> "waiting", row |-> NoRow, runs |-> runs, stalls |-> 0]
    BY <1>1, <2>1, AddEffect
  <2> QED
    BY <2>2
<1>2. ASSUME NEW d \in Deliveries, HandleWebhook(d)
      PROVE  marking' = marking /\ (jobs' = jobs \/ Add(<<Key[d], 0>>, NoRow, Dispatchable(Key[d])))
  BY <1>2 DEF HandleWebhook, EnqueueDelivery, RefuseDelivery, ClaimDelivery, ClaimFails, Answer,
              WebhookJob
<1>3. ASSUME NEW k \in Keys, CreateTask(k)
      PROVE  marking' = marking /\ Add(<<k, 0>>, NoRow, NeedsNoIssue(k))
  BY <1>3 DEF CreateTask
<1>4. ASSUME NEW r \in RowIds, RetryTask(r)
      PROVE  /\ \/ jobs'[j] = jobs[j]
                \/ /\ jobs[j].state = "absent" /\ jobs'[j].state = "waiting"
                   /\ j[2] > 0 /\ jobs'[j].row \in RowIds
                   /\ rows[jobs'[j].row].key = j[1]
             /\ j \in marking' => j \in marking \/ j[2] > 0
  <2> DEFINE i == <<rows[r].key, retries + 1>>
  <2>a. rows \in Seq(Row) /\ r \in 1..Len(rows) /\ retries \in Nat
    BY PipelineAssumption DEF TypeInv, TypeOK, Row, Statuses, RowIds
  <2>1. rows[r] \in Row /\ retries \in Nat
    BY <2>a, ElementOfSeq
  <2>2. i \in JobIds /\ i[1] = rows[r].key /\ i[2] > 0
    BY <1>4, <2>1, PipelineAssumption DEF RetryTask, JobIds, TypeInv, TypeOK, Row
  <2>3. Add(i, r, NeedsNoIssue(rows[r].key)) /\ marking' = marking \union {i}
    BY <1>4 DEF RetryTask
  <2>4. \/ jobs'[j] = jobs[j]
        \/ /\ j = i /\ jobs[j].state = "absent"
           /\ jobs'[j] = [state |-> "waiting", row |-> r,
                          runs |-> NeedsNoIssue(rows[r].key), stalls |-> 0]
    BY <2>2, <2>3, AddEffect
  <2> QED
    BY <2>2, <2>3, <2>4
<1>5. ASSUME NEW i \in JobIds, MarkQueued(i) \/ MarkQueuedFails(i)
      PROVE  jobs' = jobs /\ marking' \subseteq marking
  BY <1>5 DEF MarkQueued, MarkQueuedFails
<1>6. \A d \in Deliveries : Key[d] \in Keys
  BY PipelineAssumption
<1> QED
  BY <1>1, <1>2, <1>3, <1>4, <1>5, <1>6 DEF Outside

(* What a worker's step on a job does to the rows the job is about.        *)
LEMMA WorkerRow ==
  ASSUME TypeInv, NEW j \in JobIds, Once(j), Linked(j), Origin(j),
         Pick(j) \/ Recover(j) \/ Abandon(j) \/ Process(j)
  PROVE  /\ \/ jobs'[j].row = jobs[j].row
            \/ jobs[j].row = NoRow /\ jobs'[j].row = run[j].row
         /\ \/ run'[j].row \in {run[j].row, jobs[j].row, NoRow}
            \/ CreateRow(j) /\ run'[j].row = Len(rows) + 1
         /\ run'[j].at = "off" => run'[j].row = NoRow
         /\ marking' = marking
         /\ jobs[j].state # "absent" /\ jobs'[j].state # "absent"
<1>1. CASE Pick(j)
  <2>1. /\ jobs[j].state = "waiting" /\ jobs'[j].state = "active"
        /\ jobs'[j].row = jobs[j].row /\ marking' = marking
    BY <1>1 DEF Pick, TypeInv, TypeOK
  <2>2. run'[j].row = jobs[j].row /\ run'[j].at \in {"new", "linked"}
    BY <1>1 DEF Pick, TypeInv, TypeOK
  <2> QED
    BY <2>1, <2>2
<1>2. CASE Recover(j) \/ Abandon(j)
  <2>1. /\ jobs[j].state = "active" /\ jobs'[j].state \in {"waiting", "failed"}
        /\ jobs'[j].row = jobs[j].row /\ marking' = marking
    BY <1>2 DEF Recover, Abandon, TypeInv, TypeOK
  <2>2. run' = run /\ run[j].at = "off" /\ run[j].row = NoRow
    BY <1>2 DEF Recover, Abandon, workVars, Origin
  <2> QED
    BY <2>1, <2>2
<1>3. CASE CreateRow(j)
  <2>1. jobs[j].state = "active"
    BY <1>3 DEF CreateRow, Once
  <2>2. run'[j] = [at |-> "unlinked", row |-> Len(rows) + 1] /\ jobs' = jobs /\ marking' = marking
    BY <1>3 DEF CreateRow, queueVars, TypeInv, TypeOK
  <2>3. run'[j].at = "unlinked" /\ run'[j].row = Len(rows) + 1
    BY <2>2
  <2> QED
    BY <1>3, <2>1, <2>2, <2>3
<1>4. CASE LinkRow(j)
  <2>1. run[j].at = "unlinked" /\ run'[j] = [at |-> "linked", row |-> run[j].row]
        /\ marking' = marking
    BY <1>4, GoEffect DEF LinkRow, Go
  <2>2. jobs'[j].row = run[j].row /\ jobs'[j].state = jobs[j].state
    BY <1>4 DEF LinkRow, TypeInv, TypeOK
  <2>3. jobs[j].state = "active"
    BY <2>1 DEF Once
  <2>4. jobs[j].row # NoRow => run[j].row = jobs[j].row
    BY <2>1 DEF Linked
  <2> QED
    BY <2>1, <2>2, <2>3, <2>4
<1>5. CASE \/ MarkRunning(j) \/ StartClone(j) \/ Reuse(j) \/ FinishClone(j) \/ FailClone(j)
           \/ Checkout(j) \/ Publish(j) \/ SkipReview(j) \/ MarkCompleted(j) \/ StepFails(j)
           \/ MarkFailed(j) \/ MarkFailedFails(j)
  <2>1. jobs' = jobs
    BY <1>5
    DEF MarkRunning, StartClone, Reuse, FinishClone, FailClone, Checkout, Publish, SkipReview,
        MarkCompleted, StepFails, MarkFailed, MarkFailedFails
  <2>2. PICK from, to \in Steps \ {"off"} : Go(j, from, to)
    BY <1>5
    DEF MarkRunning, StartClone, Reuse, FinishClone, FailClone, Checkout, Publish, SkipReview,
        MarkCompleted, StepFails, MarkFailed, MarkFailedFails, Steps
  <2>3. run[j].at = from /\ run'[j] = [at |-> to, row |-> run[j].row] /\ marking' = marking
    BY <2>2, GoEffect DEF Go
  <2>4. run'[j].at # "off" /\ run'[j].row = run[j].row
    BY <2>2, <2>3
  <2>5. jobs[j].state = "active"
    BY <2>2, <2>3 DEF Once
  <2>6. jobs'[j] = jobs[j]
    BY <2>1
  <2> QED
    BY <2>3, <2>4, <2>5, <2>6
<1>6. CASE CompleteJob(j) \/ FailJob(j)
  <2>1. PICK outcome \in {"completed", "failed"} :
          /\ jobs' = [jobs EXCEPT ![j].state = outcome] /\ run' = [run EXCEPT ![j] = Idle]
          /\ run[j].at # "off" /\ marking' = marking
    BY <1>6 DEF CompleteJob, FailJob, Settle
  <2>2. jobs[j].state = "active"
    BY <2>1 DEF Once
  <2>3. jobs'[j].row = jobs[j].row /\ jobs'[j].state = outcome /\ run'[j].row = NoRow
    BY <2>1 DEF TypeInv, TypeOK, Idle
  <2> QED
    BY <2>1, <2>2, <2>3
<1> QED
  BY <1>1, <1>2, <1>3, <1>4, <1>5, <1>6 DEF Process

LEMMA OriginStep ==
  ASSUME TypeInv, OnceInv, [Next]_vars, NEW j \in JobIds, Linked(j), Origin(j)
  PROVE  Origin(j)'
<1>a. /\ \A r \in RowIds : r \in RowIds' /\ rows'[r].key = rows[r].key
      /\ jobs[j].row \in 0..Len(rows) /\ run[j].row \in 0..Len(rows) /\ Len(rows) \in Nat
  BY RowsEffect DEF TypeInv, TypeOK
<1>b. j[2] \in Nat
  BY JobIdParts, PipelineAssumption
<1>c. ASSUME NEW q, q = NoRow \/ (q \in RowIds /\ rows[q].key = j[1]),
             NEW r \in RowIds', q = r
      PROVE  rows'[r].key = j[1]
  BY <1>a, <1>c DEF RowIds, NoRow
<1>d. ASSUME NEW q \in {jobs[j].row, run[j].row}
      PROVE  q = NoRow \/ (q \in RowIds /\ rows[q].key = j[1])
  BY <1>a DEF Origin, Works, RowIds, NoRow
<1>1. CASE Outside
  <2>1. run' = run
    BY <1>1, OutsideEffect
  <2>2. CASE jobs'[j] = jobs[j]
    <3>1. \A r \in RowIds' : Works(j, r)' => rows'[r].key = j[1]
      BY <1>c, <1>d, <2>1, <2>2 DEF Works
    <3> QED
      BY <1>1, <2>1, <2>2, <3>1, OutsideRow DEF Origin
  <2>3. CASE /\ jobs[j].state = "absent" /\ jobs'[j].state = "waiting"
             /\ \/ j[2] = 0 /\ jobs'[j].row = NoRow
                \/ j[2] > 0 /\ jobs'[j].row \in RowIds /\ rows[jobs'[j].row].key = j[1]
    <3>1. \A r \in RowIds' : Works(j, r)' => rows'[r].key = j[1]
      BY <1>c, <1>d, <2>1, <2>3 DEF Works
    <3>2. j[2] > 0 => jobs'[j].row # NoRow
      BY <2>3 DEF RowIds, NoRow
    <3> QED
      BY <1>1, <2>1, <2>3, <3>1, <3>2, OutsideRow DEF Origin
  <2> QED
    BY <1>1, <2>2, <2>3, OutsideRow
<1>2. CASE Crash
  <2>1. jobs' = jobs /\ marking' = {} /\ run'[j].row = NoRow
    BY <1>2 DEF Crash, Idle
  <2>2. \A r \in RowIds' : Works(j, r)' => rows'[r].key = j[1]
    BY <1>c, <1>d, <2>1 DEF Works
  <2> QED
    BY <2>1, <2>2 DEF Origin
<1>3. CASE \/ UNCHANGED vars
           \/ \E i \in JobIds \ {j} : Pick(i) \/ Recover(i) \/ Abandon(i) \/ Process(i)
  <2>1. jobs'[j] = jobs[j] /\ run'[j] = run[j]
    BY <1>3, Elsewhere DEF vars, queueVars, workVars
  <2>2. marking' = marking
    BY <1>3, WorkerRow
    DEF vars, queueVars, Pick, Recover, Abandon, Process, CreateRow, LinkRow, MarkRunning,
        StartClone, Reuse, FinishClone, FailClone, Checkout, Publish, SkipReview, MarkCompleted,
        StepFails, MarkFailed, MarkFailedFails, CompleteJob, FailJob, Settle, Go
  <2>3. \A r \in RowIds' : Works(j, r)' => rows'[r].key = j[1]
    BY <1>c, <1>d, <2>1 DEF Works
  <2> QED
    BY <2>1, <2>2, <2>3 DEF Origin
<1>4. CASE Pick(j) \/ Recover(j) \/ Abandon(j) \/ Process(j)
  <2>1. /\ \/ jobs'[j].row = jobs[j].row
           \/ jobs[j].row = NoRow /\ jobs'[j].row = run[j].row
        /\ \/ run'[j].row \in {run[j].row, jobs[j].row, NoRow}
           \/ CreateRow(j) /\ run'[j].row = Len(rows) + 1
        /\ run'[j].at = "off" => run'[j].row = NoRow
        /\ marking' = marking
        /\ jobs[j].state # "absent" /\ jobs'[j].state # "absent"
    BY <1>4, WorkerRow DEF OnceInv
  <2>2. ASSUME CreateRow(j)  PROVE rows'[Len(rows) + 1].key = j[1]
    <3>1. [key |-> j[1], status |-> "queued"] \in Row /\ rows \in Seq(Row)
      BY JobIdParts DEF TypeInv, TypeOK, Row, Statuses
    <3>2. rows' = Append(rows, [key |-> j[1], status |-> "queued"])
      BY <2>2 DEF CreateRow
    <3>3. rows'[Len(rows) + 1] = [key |-> j[1], status |-> "queued"]
      BY <3>1, <3>2, AppendProperties
    <3> QED
      BY <3>3
  <2>3. \A r \in RowIds' : jobs'[j].row = r => rows'[r].key = j[1]
    BY <1>c, <1>d, <2>1
  <2>4. \A r \in RowIds' : run'[j].row = r => rows'[r].key = j[1]
    <3>1. CASE run'[j].row \in {run[j].row, jobs[j].row, NoRow}
      BY <1>c, <1>d, <3>1
    <3>2. CASE CreateRow(j) /\ run'[j].row = Len(rows) + 1
      BY <2>2, <3>2
    <3> QED
      BY <2>1, <3>1, <3>2
  <2>5. j[2] > 0 => jobs'[j].row # NoRow
    BY <2>1 DEF Origin
  <2> QED
    BY <2>1, <2>3, <2>4, <2>5 DEF Origin, Works
<1> QED
  BY <1>1, <1>2, <1>3, <1>4, Kinds

(* A row keeps the job it has.                                             *)
LEMMA UnretriedBefore ==
  ASSUME TypeInv, OnceInv, OriginInv, [Next]_vars, NEW k \in Keys, NEW r \in RowIds,
         Unretried(k, r)'
  PROVE  Unretried(k, r)
<1> SUFFICES ASSUME NEW n \in 1..MaxRetries  PROVE jobs[<<k, n>>].row # r
  BY DEF Unretried
<1> DEFINE i == <<k, n>>
<1>1. i \in JobIds /\ jobs'[i].row # r /\ r # NoRow
  BY PipelineAssumption DEF JobIds, Unretried, RowIds, NoRow
<1>2. Linked(i) /\ Origin(i) /\ Once(i)
  BY <1>1 DEF OriginInv, OnceInv
<1>3. jobs'[i].row = jobs[i].row \/ jobs[i].row = NoRow
  <2>1. CASE Outside
    BY <1>1, <1>2, <2>1, OutsideRow DEF Origin
  <2>2. CASE Crash \/ UNCHANGED vars
    BY <2>2 DEF Crash, vars, queueVars
  <2>3. CASE Pick(i) \/ Recover(i) \/ Abandon(i) \/ Process(i)
    BY <1>1, <1>2, <2>3, WorkerRow
  <2>4. ASSUME NEW h \in JobIds \ {i}, Pick(h) \/ Recover(h) \/ Abandon(h) \/ Process(h)
        PROVE  jobs'[i] = jobs[i]
    BY <1>1, <2>4, Elsewhere
  <2> QED
    BY <2>1, <2>2, <2>3, <2>4, Kinds
<1> QED
  BY <1>1, <1>3

(* Nobody but its first job writes a row that was never retried.           *)
LEMMA OnlyOwnerWrites ==
  ASSUME TypeInv, OnceInv, OriginInv, NEW k \in Keys, NEW r \in RowIds, Unretried(k, r),
         Works(<<k, 0>>, r), Writes(r)
  PROVE  /\ MarkRunning(<<k, 0>>) \/ MarkCompleted(<<k, 0>>) \/ MarkFailed(<<k, 0>>)
         /\ run[<<k, 0>>].row = r
<1>a. <<k, 0>> \in JobIds /\ r # NoRow
  BY PipelineAssumption DEF JobIds, RowIds, NoRow
<1>b. rows[r].key = k
  BY <1>a DEF OriginInv, Origin
<1>1. ASSUME NEW i \in JobIds, Works(i, r), i[2] > 0  PROVE jobs[i].row # r
  <2>1. i = <<k, i[2]>> /\ i[2] \in 1..MaxRetries
    BY <1>1, <1>b, JobIdParts, PipelineAssumption DEF OriginInv, Origin
  <2> QED
    BY <2>1 DEF Unretried
<1>2. ASSUME NEW i \in JobIds, MarkQueued(i), jobs[i].row = r  PROVE FALSE
  <2>1. i \in marking /\ Works(i, r)
    BY <1>2 DEF MarkQueued, Works
  <2> QED
    BY <1>1, <1>2, <2>1 DEF OriginInv, Origin
<1>3. ASSUME NEW i \in JobIds, run[i].row = r  PROVE i = <<k, 0>>
  <2>1. Works(i, r) /\ run[i].at # "off"
    BY <1>3, <1>a DEF Works, OriginInv, Origin
  <2>2. jobs[i].state = "active"
    BY <2>1 DEF OnceInv, Once
  <2>3. i[2] > 0 => jobs[i].row = r
    BY <1>3, <2>1, <2>2 DEF OriginInv, Origin, Linked
  <2>4. i[2] = 0
    BY <1>1, <2>1, <2>3, JobIdParts, PipelineAssumption
  <2>5. i[1] = k
    BY <1>b, <2>1 DEF OriginInv, Origin
  <2> QED
    BY <2>4, <2>5, JobIdParts
<1> QED
  BY <1>2, <1>3 DEF Writes

(* A worker's step on the first job of a row.                              *)
LEMMA AgreesWorker ==
  ASSUME TypeInv, OnceInv, OriginInv, NEW k \in Keys, NEW r \in RowIds' \ lost',
         r \in RowIds => Agrees(k, r),
         r \in RowIds /\ Works(<<k, 0>>, r) /\ Writes(r)
           => /\ MarkRunning(<<k, 0>>) \/ MarkCompleted(<<k, 0>>) \/ MarkFailed(<<k, 0>>)
              /\ run[<<k, 0>>].row = r,
         Pick(<<k, 0>>) \/ Recover(<<k, 0>>) \/ Abandon(<<k, 0>>) \/ Process(<<k, 0>>),
         [Next]_vars
  PROVE  Agrees(k, r)'
<1> DEFINE j == <<k, 0>>
<1>a. /\ j \in JobIds /\ r # NoRow /\ Linked(j) /\ Origin(j) /\ Once(j)
      /\ rows \in Seq(Row) /\ Len(rows) \in Nat
      /\ jobs[j].row \in 0..Len(rows) /\ run[j].row \in 0..Len(rows)
  BY PipelineAssumption
  DEF JobIds, RowIds, NoRow, OriginInv, OnceInv, TypeInv, TypeOK, Row, Statuses
<1>b. run[j].at # "off" /\ jobs[j].row = r => run[j].row = r
  BY <1>a DEF Linked
<1>1. CASE Pick(j) \/ Recover(j)
  <2>1. jobs'[j].state \in {"active", "waiting"} /\ run'[j].at \in {"off", "new", "linked"}
    BY <1>1, <1>a DEF Pick, Recover, workVars, TypeInv, TypeOK
  <2> QED
    BY <2>1 DEF Agrees
<1>2. CASE Abandon(j)
  <2>1. jobs'[j].row = jobs[j].row /\ jobs[j].row # r /\ run'[j].at = "off"
    BY <1>2, <1>a DEF Abandon, workVars, TypeInv, TypeOK
  <2> QED
    BY <2>1 DEF Agrees
<1>3. CASE CreateRow(j) \/ LinkRow(j)
  <2>1. jobs[j].state = "active"
    BY <1>3, <1>a DEF CreateRow, LinkRow, Go, Once
  <2>2. run'[j].at \in {"unlinked", "linked"}
    BY <1>3, <1>a DEF CreateRow, LinkRow, Go, TypeInv, TypeOK
  <2>3. jobs'[j].state = jobs[j].state
    BY <1>3, <1>a DEF CreateRow, LinkRow, queueVars, TypeInv, TypeOK
  <2> QED
    BY <2>1, <2>2, <2>3 DEF Agrees
<1>4. CASE \/ MarkRunning(j) \/ StartClone(j) \/ Reuse(j) \/ FinishClone(j) \/ FailClone(j)
           \/ Checkout(j) \/ Publish(j) \/ SkipReview(j) \/ StepFails(j)
  <2>1. PICK from \in Steps \ {"off"}, to \in Steps \ {"completing", "failing"} : Go(j, from, to)
    BY <1>4
    DEF MarkRunning, StartClone, Reuse, FinishClone, FailClone, Checkout, Publish, SkipReview,
        StepFails, Steps
  <2>2. run[j].at = from /\ run'[j] = [at |-> to, row |-> run[j].row]
    BY <1>a, <2>1, GoEffect
  <2>3. run'[j].at = to
    BY <2>2
  <2>4. jobs' = jobs
    BY <1>4
    DEF MarkRunning, StartClone, Reuse, FinishClone, FailClone, Checkout, Publish, SkipReview,
        StepFails
  <2>5. jobs[j].state = "active"
    BY <1>a, <2>1, <2>2 DEF Once
  <2> QED
    BY <2>1, <2>3, <2>4, <2>5 DEF Agrees
<1>5. CASE MarkCompleted(j) \/ MarkFailed(j)
  <2>1. PICK to \in {"completing", "failing"}, status \in {"completed", "failed"} :
          /\ \E from \in Steps \ {"off"} : Go(j, from, to)
          /\ run[j].row = r => SetStatus(r, status)
          /\ to = "completing" <=> status = "completed"
    BY <1>5, <1>a DEF MarkCompleted, MarkFailed, SetStatus, Steps
  <2>2. /\ run[j].at # "off" /\ run'[j] = [at |-> to, row |-> run[j].row]
        /\ jobs' = jobs /\ jobs[j].state = "active"
    BY <1>5, <1>a, <2>1, GoEffect DEF MarkCompleted, MarkFailed, Once
  <2>3. run'[j].at = to /\ run'[j].row = run[j].row
    BY <2>2
  <2>4. run[j].row = r => rows'[r].status = status
    <3> SUFFICES ASSUME run[j].row = r  PROVE rows'[r].status = status
      OBVIOUS
    <3>1. r \in RowIds /\ rows[r] \in Row
      BY <1>a, ElementOfSeq DEF RowIds, NoRow
    <3>2. SetStatus(r, status) /\ status \in Statuses
      BY <2>1 DEF Statuses
    <3>3. rows'[r] = [rows[r] EXCEPT !.status = status]
      BY <1>a, <3>1, <3>2, SetStatusRows
    <3> QED
      BY <3>1, <3>3 DEF Row
  <2> QED
    BY <2>1, <2>2, <2>3, <2>4 DEF Agrees
<1>6. CASE MarkFailedFails(j)
  <2>1. Go(j, "catch", "failing") /\ jobs' = jobs /\ run[j].row # r
    BY <1>6 DEF MarkFailedFails
  <2>2. run[j].at = "catch" /\ run'[j] = [at |-> "failing", row |-> run[j].row]
    BY <1>a, <2>1, GoEffect
  <2>3. run'[j].row = run[j].row /\ jobs[j].state = "active"
    BY <1>a, <2>2 DEF Once
  <2> QED
    BY <2>1, <2>3 DEF Agrees
<1>7. CASE CompleteJob(j) \/ FailJob(j)
  <2>1. PICK outcome \in {"completed", "failed"} :
          /\ Settle(j, IF outcome = "completed" THEN "completing" ELSE "failing", outcome)
    BY <1>7 DEF CompleteJob, FailJob
  <2>2. /\ run[j].at = IF outcome = "completed" THEN "completing" ELSE "failing"
        /\ jobs'[j].row = jobs[j].row /\ jobs'[j].state = outcome
        /\ run'[j].at = "off" /\ rows' = rows /\ lost' = lost
    BY <1>a, <2>1 DEF Settle, Idle, history, TypeInv, TypeOK
  <2>3. r \in RowIds
    BY <2>2 DEF RowIds
  <2> QED
    BY <1>b, <2>2, <2>3 DEF Agrees
<1> QED
  BY <1>1, <1>2, <1>3, <1>4, <1>5, <1>6, <1>7 DEF Process

LEMMA AgreeStep ==
  TypeInv /\ OnceInv /\ OriginInv /\ AgreeInv /\ [Next]_vars => AgreeInv'
<1> SUFFICES ASSUME TypeInv, OnceInv, OriginInv, AgreeInv, [Next]_vars,
                    NEW k \in Keys, NEW r \in RowIds' \ lost', Unretried(k, r)'
             PROVE  Agrees(k, r)'
  BY DEF AgreeInv
<1> DEFINE j == <<k, 0>>
<1>a. /\ j \in JobIds /\ r # NoRow
      /\ jobs[j].row \in 0..Len(rows) /\ run[j].row \in 0..Len(rows) /\ Len(rows) \in Nat
  BY PipelineAssumption DEF JobIds, RowIds, NoRow, TypeInv, TypeOK
<1>b. lost \subseteq lost'
  BY DEF Next, Advance, HandleWebhook, EnqueueDelivery, RefuseDelivery, ClaimDelivery, ClaimFails,
         Answer, CreateTask, RetryTask, MarkQueued, MarkQueuedFails, Crash, Pick, Recover, Abandon,
         Process, CreateRow, LinkRow, MarkRunning, StartClone, Reuse, FinishClone, FailClone,
         Checkout, Publish, SkipReview, MarkCompleted, StepFails, MarkFailed, MarkFailedFails,
         CompleteJob, FailJob, Settle, history, vars
<1>c. r \in RowIds => Unretried(k, r) /\ Agrees(k, r)
  BY <1>b, UnretriedBefore DEF AgreeInv
<1>d. r \in RowIds /\ Works(j, r) /\ Writes(r)
        => /\ MarkRunning(j) \/ MarkCompleted(j) \/ MarkFailed(j)
           /\ run[j].row = r
  BY <1>c, OnlyOwnerWrites
<1>e. Works(j, r) => r \in RowIds
  BY <1>a DEF Works, RowIds, NoRow
<1>f. ASSUME jobs'[j] = jobs[j], run'[j] = run[j],
             ~MarkRunning(j), ~MarkCompleted(j), ~MarkFailed(j)
      PROVE  Agrees(k, r)'
  <2>1. CASE Works(j, r)
    <3>1. r \in RowIds /\ rows'[r] = rows[r]
      BY <1>d, <1>e, <1>f, <2>1, RowsEffect
    <3> QED
      BY <1>c, <1>f, <3>1 DEF Agrees
  <2>2. CASE ~Works(j, r)
    BY <1>f, <2>2 DEF Works, Agrees
  <2> QED
    BY <2>1, <2>2
<1>1. CASE Pick(j) \/ Recover(j) \/ Abandon(j) \/ Process(j)
  BY <1>1, <1>c, <1>d, AgreesWorker
<1>2. CASE ~(Pick(j) \/ Recover(j) \/ Abandon(j) \/ Process(j))
  <2>1. ~MarkRunning(j) /\ ~MarkCompleted(j) /\ ~MarkFailed(j)
    BY <1>2 DEF Process
  <2>2. CASE Outside
    <3>1. run' = run
      BY <2>2, OutsideEffect, <1>a
    <3>2. CASE jobs'[j] = jobs[j]
      BY <1>f, <2>1, <3>1, <3>2
    <3>3. CASE jobs[j].state = "absent" /\ jobs'[j].state = "waiting"
      <4>1. run[j].at = "off"
        BY <1>a, <3>3 DEF OnceInv, Once
      <4> QED
        BY <3>1, <3>3, <4>1 DEF Agrees
    <3> QED
      BY <1>a, <2>2, <3>2, <3>3, OutsideRow
  <2>3. CASE Crash
    <3>1. jobs' = jobs /\ rows' = rows /\ run'[j].at = "off"
      BY <2>3, <1>a DEF Crash, Idle
    <3> QED
      BY <1>c, <3>1 DEF Agrees, RowIds
  <2>4. CASE UNCHANGED vars
    BY <1>f, <2>1, <2>4 DEF vars, queueVars, workVars
  <2>5. ASSUME NEW i \in JobIds \ {j}, Pick(i) \/ Recover(i) \/ Abandon(i) \/ Process(i)
        PROVE  Agrees(k, r)'
    BY <1>a, <1>f, <2>1, <2>5, Elsewhere
  <2> QED
    BY <1>2, <2>2, <2>3, <2>4, <2>5, Kinds
<1> QED
  BY <1>1, <1>2

(* Queue and table agree on what is over, whatever fails or crashes: the   *)
(* row of a finished job that was never retried has the job's outcome.     *)
(* The invariant is stronger in two ways: each row has one key and is only *)
(* written by jobs of that key, and the outcome is in the row before the   *)
(* queue hears of it.                                                      *)
THEOREM SettledRowAgreesWithJobHolds == Spec => []SettledRowAgreesWithJob
<1>1. Init => OriginInv /\ AgreeInv
  BY DEF Init, OriginInv, Linked, AtWork, Origin, Works, Idle, NoRow, RowIds, AgreeInv
<1>2. TypeInv /\ OnceInv /\ OriginInv /\ [Next]_vars => OriginInv'
  BY LinkedStep, OriginStep DEF OriginInv
<1>3. AgreeInv => SettledRowAgreesWithJob
  BY DEF AgreeInv, Agrees, Unretried, SettledRowAgreesWithJob
<1> QED
  BY InitType, OnceInit, TypeStep, OnceStep, AgreeStep, <1>1, <1>2, <1>3, PTL DEF Spec
=============================================================================

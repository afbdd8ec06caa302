---------------------------- MODULE TaskPipeline ----------------------------
(***************************************************************************)
(* The path of a task through the platform: GitHub delivery, webhook       *)
(* receiver, BullMQ queue, worker, workspace directory and tasks table     *)
(* (platform/src/webhooks.ts, queue/, workspace/manager.ts, routes/api.ts).*)
(*                                                                         *)
(* A KEY stands for what a job id is derived from: repository, task type,  *)
(* pull request and head commit.  Job <<k, 0>> is the job of key k, job    *)
(* <<k, n>> the n-th retry, whose id has a unique suffix.  BullMQ and      *)
(* Postgres survive a crash of the platform's process; the handlers and    *)
(* the executions in it do not.  Finished jobs are kept for seven days,    *)
(* longer than the behaviours looked at here.                              *)
(***************************************************************************)
EXTENDS Naturals, Sequences, FiniteSets

CONSTANTS Keys,        \* what job ids are derived from
          Type,          \* Type[k]: the task type of k
          Headless,      \* the keys without a head commit: nothing is checked out
          AtTip,         \* the keys whose head a shallow clone contains
          Places,        \* workspace directories
          Place,         \* Place[k]: the directory of k's pull request
          Deliveries,    \* webhook deliveries that carry a task
          Key,           \* Key[d]: the key of delivery d
          Attempts,      \* how often GitHub may send one delivery
          Concurrency,   \* MAX_CONCURRENT_RUNS
          MaxStalls,     \* how often BullMQ takes up a job of a dead worker
          MaxRetries, MaxCrashes  \* bounds

ASSUME PipelineAssumption ==
  /\ Key \in [Deliveries -> Keys]
  /\ Place \in [Keys -> Places]
  /\ Attempts \in Nat /\ Concurrency \in Nat \ {0}
  /\ MaxStalls \in Nat /\ MaxRetries \in Nat /\ MaxCrashes \in Nat

VARIABLES sent,     \* sent[d]: how often GitHub has sent delivery d
          claiming, \* claiming[d]: the handlings of d that have enqueued and not claimed
          claimed,  \* webhook_events: the deliveries on record
          answered, \* the deliveries answered with a status of 200
          jobs,     \* the BullMQ queue
          rows,     \* the tasks table
          run,      \* run[j]: the execution of job j in the live process
          marking,  \* retries whose row is still to be set back to queued
          disk,     \* the workspace directories
          retries, crashes,  \* how many there have been
          posted,   \* history: posted[j]: how often job j was published
          lost      \* history: rows nobody will settle

hookVars == <<sent, claiming, claimed, answered>>
queueVars == <<hookVars, jobs, marking, retries>>
workVars == <<rows, run, disk>>
history == <<posted, lost>>
vars == <<queueVars, workVars, history, crashes>>

JobIds == Keys \X (0..MaxRetries)
RowIds == 1..Len(rows)
NoRow == 0

Steps == {"off", "new", "unlinked", "linked", "opening", "cloning", "checkout",
          "ready", "posted", "completing", "catch", "failing"}

TypeOK ==
  /\ sent \in [Deliveries -> 0..Attempts]
  /\ claiming \in [Deliveries -> 0..Attempts]
  /\ claimed \subseteq Deliveries
  /\ answered \subseteq Deliveries
  /\ jobs \in [JobIds -> [state : {"absent", "waiting", "active", "completed", "failed"},
                          row : 0..Len(rows), runs : BOOLEAN, stalls : 0..MaxStalls]]
  /\ rows \in Seq([key : Keys, status : {"queued", "running", "completed", "failed"}])
  /\ run \in [JobIds -> [at : Steps, row : 0..Len(rows)]]
  /\ marking \subseteq JobIds
  /\ disk \in [Places -> {"absent", "cloning", "cloned"}]
  /\ retries \in 0..MaxRetries
  /\ crashes \in 0..MaxCrashes
  /\ posted \in [JobIds -> Nat]
  /\ lost \subseteq RowIds

Idle == [at |-> "off", row |-> NoRow]

Init ==
  /\ sent = [d \in Deliveries |-> 0]
  /\ claiming = [d \in Deliveries |-> 0]
  /\ claimed = {}
  /\ answered = {}
  /\ jobs = [j \in JobIds |->
       [state |-> "absent", row |-> NoRow, runs |-> FALSE, stalls |-> 0]]
  /\ rows = <<>>
  /\ run = [j \in JobIds |-> Idle]
  /\ marking = {}
  /\ disk = [p \in Places |-> "absent"]
  /\ retries = 0
  /\ crashes = 0
  /\ posted = [j \in JobIds |-> 0]
  /\ lost = {}

-----------------------------------------------------------------------------
(* What dispatchTask() has a branch for: reviews, and analyses of an issue *)
(* whose number is known.                                                  *)
Dispatchable(k) == Type[k] \in {"review", "analyze"}
NeedsNoIssue(k) == Type[k] = "review"

-----------------------------------------------------------------------------
(* The queue.                                                              *)

(* Mutation: a finished job of the same id is replaced, as the comments of *)
(* TaskQueue have it.                                                      *)
AddReplacing(j, row, runs) ==
  jobs' = IF jobs[j].state \in {"waiting", "active"} THEN jobs
          ELSE [jobs EXCEPT ![j] = [state |-> "waiting", row |-> row,
                                    runs |-> runs, stalls |-> 0]]

(* Queue.add(): a job of the same id, finished or not, is left as it is.   *)
(* runs tells whether the job carries what dispatchTask() asks for.        *)
Add(j, row, runs) ==
  jobs' = IF jobs[j].state # "absent" THEN jobs
          ELSE [jobs EXCEPT ![j] = [state |-> "waiting", row |-> row,
                                    runs |-> runs, stalls |-> 0]]

(* The worker takes a waiting job while it has a slot free.  A job linked  *)
(* to a row skips the creation of one.                                     *)
Pick(j) ==
  /\ jobs[j].state = "waiting"
  /\ Cardinality({i \in JobIds : run[i].at # "off"}) < Concurrency
  /\ jobs' = [jobs EXCEPT ![j].state = "active"]
  /\ run' = [run EXCEPT ![j] =
       [at |-> IF jobs[j].row = NoRow THEN "new" ELSE "linked", row |-> jobs[j].row]]
  /\ UNCHANGED <<hookVars, marking, retries, rows, disk, history, crashes>>

(* An active job whose worker died is queued again ...                     *)
Recover(j) ==
  /\ jobs[j].state = "active" /\ run[j].at = "off"
  /\ jobs[j].stalls < MaxStalls
  /\ jobs' = [jobs EXCEPT ![j].state = "waiting", ![j].stalls = @ + 1]
  /\ UNCHANGED <<hookVars, marking, retries, workVars, history, crashes>>

(* ... but only MaxStalls times.  The worker's listener for failed jobs    *)
(* only logs, so nobody settles the row.                                   *)
Abandon(j) ==
  /\ jobs[j].state = "active" /\ run[j].at = "off"
  /\ jobs[j].stalls = MaxStalls
  /\ jobs' = [jobs EXCEPT ![j].state = "failed"]
  /\ lost' = lost \union ({jobs[j].row} \ {NoRow})
  /\ UNCHANGED <<hookVars, marking, retries, workVars, posted, crashes>>

-----------------------------------------------------------------------------
(* The webhook receiver: handleWebhook().                                  *)

(* A delivery arrives, for the first time or again; handlings of the same  *)
(* delivery may overlap.                                                   *)
Arrives(d) == /\ sent[d] < Attempts
              /\ sent' = [sent EXCEPT ![d] = @ + 1]

WebhookJob(d) == <<Key[d], 0>>

(* enqueue() comes first: nothing is on record yet if it fails.            *)
EnqueueDelivery(d) ==
  /\ Arrives(d)
  /\ Add(WebhookJob(d), NoRow, Dispatchable(Key[d]))
  /\ claiming' = [claiming EXCEPT ![d] = @ + 1]
  /\ UNCHANGED <<claimed, answered, marking, retries, workVars, history, crashes>>

(* Mutation: the error is logged and the delivery is claimed all the same. *)
RefuseThenClaim(d) ==
  /\ Arrives(d)
  /\ claiming' = [claiming EXCEPT ![d] = @ + 1]
  /\ UNCHANGED <<claimed, answered, jobs, marking, retries, workVars, history, crashes>>

(* Redis is unreachable: the answer is 500, and nothing is on record.      *)
RefuseDelivery(d) ==
  /\ Arrives(d)
  /\ UNCHANGED <<claiming, claimed, answered, jobs, marking, retries, workVars, history, crashes>>

Answer(d) ==
  /\ claiming[d] > 0
  /\ claiming' = [claiming EXCEPT ![d] = @ - 1]
  /\ answered' = answered \union {d}
  /\ UNCHANGED <<sent, jobs, marking, retries, workVars, history, crashes>>

(* The first claim is answered "Queued", any other "Duplicate".            *)
ClaimDelivery(d) == Answer(d) /\ claimed' = claimed \union {d}

(* A claim that fails in the database is answered as a duplicate.          *)
ClaimFails(d) == Answer(d) /\ UNCHANGED claimed

-----------------------------------------------------------------------------
(* The dashboard API.                                                      *)

(* POST /tasks: no issue number is passed on.                              *)
CreateTask(k) ==
  /\ Dispatchable(k)
  /\ Add(<<k, 0>>, NoRow, NeedsNoIssue(k))
  /\ UNCHANGED <<hookVars, marking, retries, workVars, history, crashes>>

(* POST /tasks/:id/retry: a row of any status is enqueued under an id of   *)
(* its own, and only then set back to queued.                              *)
RetryTask(r) ==
  /\ retries < MaxRetries
  /\ Dispatchable(rows[r].key)
  /\ LET j == <<rows[r].key, retries + 1>> IN
       /\ Add(j, r, NeedsNoIssue(rows[r].key))
       /\ marking' = marking \union {j}
  /\ retries' = retries + 1
  /\ UNCHANGED <<hookVars, workVars, history, crashes>>

SetStatus(r, status) == rows' = [rows EXCEPT ![r].status = status]

MarkQueued(j) ==
  /\ j \in marking
  /\ SetStatus(jobs[j].row, "queued")
  /\ marking' = marking \ {j}
  /\ UNCHANGED <<hookVars, jobs, retries, run, disk, history, crashes>>

MarkQueuedFails(j) ==
  /\ j \in marking
  /\ marking' = marking \ {j}
  /\ UNCHANGED <<hookVars, jobs, retries, workVars, history, crashes>>

-----------------------------------------------------------------------------
(* The worker.                                                             *)

Go(j, from, to) ==
  /\ run[j].at = from
  /\ run' = [run EXCEPT ![j].at = to]
  /\ UNCHANGED <<hookVars, marking, retries, crashes>>

CreateRow(j) ==
  /\ run[j].at = "new"
  /\ rows' = Append(rows, [key |-> j[1], status |-> "queued"])
  /\ run' = [run EXCEPT ![j] = [at |-> "unlinked", row |-> Len(rows) + 1]]
  /\ UNCHANGED <<queueVars, disk, history, crashes>>

(* Mutation: the id of the new row is kept in the process only.            *)
LinkRowLocally(j) ==
  /\ Go(j, "unlinked", "linked")
  /\ UNCHANGED <<jobs, rows, disk, history>>

(* job.updateData(): the row survives a crash with the job.                *)
LinkRow(j) ==
  /\ Go(j, "unlinked", "linked")
  /\ jobs' = [jobs EXCEPT ![j].row = run[j].row]
  /\ UNCHANGED <<rows, disk, history>>

MarkRunning(j) ==
  /\ Go(j, "linked", "opening")
  /\ SetStatus(run[j].row, "running")
  /\ UNCHANGED <<jobs, disk, history>>

Dir(j) == Place[j[1]]

(* A directory with a .git in it is taken as it is, half cloned or not.    *)
StartClone(j) ==
  /\ disk[Dir(j)] = "absent"
  /\ Go(j, "opening", "cloning")
  /\ disk' = [disk EXCEPT ![Dir(j)] = "cloning"]
  /\ UNCHANGED <<jobs, rows, history>>

Reuse(j) ==
  /\ disk[Dir(j)] # "absent"
  /\ Go(j, "opening", "checkout")
  /\ UNCHANGED <<jobs, rows, disk, history>>

FinishClone(j) ==
  /\ Go(j, "cloning", "checkout")
  /\ disk' = [disk EXCEPT ![Dir(j)] = "cloned"]
  /\ UNCHANGED <<jobs, rows, history>>

FailClone(j) ==
  /\ Go(j, "cloning", "catch")
  /\ disk' = [disk EXCEPT ![Dir(j)] = "absent"]
  /\ UNCHANGED <<jobs, rows, history>>

(* git checkout of the head, which a shallow clone of the default branch   *)
(* has only when the head is its tip; nothing is ever fetched.             *)
HasHead(j) == j[1] \in Headless \/ (j[1] \in AtTip /\ disk[Dir(j)] = "cloned")

Checkout(j) ==
  /\ Go(j, "checkout", IF HasHead(j) THEN "ready" ELSE "catch")
  /\ UNCHANGED <<jobs, rows, disk, history>>

(* dispatchTask(): the review or analysis is run and published.            *)
Publish(j) ==
  /\ jobs[j].runs
  /\ Go(j, "ready", "posted")
  /\ posted' = [posted EXCEPT ![j] = @ + 1]
  /\ UNCHANGED <<jobs, rows, disk, lost>>

(* The engine skips a commit that this process is reviewing or has         *)
(* reviewed in the last minutes: nothing is published.                     *)
SkipReview(j) ==
  /\ jobs[j].runs /\ Type[j[1]] = "review"
  /\ Go(j, "ready", "posted")
  /\ UNCHANGED <<jobs, rows, disk, history>>

MarkCompleted(j) ==
  /\ Go(j, "posted", "completing")
  /\ SetStatus(run[j].row, "completed")
  /\ UNCHANGED <<jobs, disk, history>>

(* A call to Postgres, Redis, GitHub or the model is rejected, or          *)
(* dispatchTask() throws.                                                  *)
StepFails(j) ==
  /\ \E at \in {"new", "unlinked", "linked", "opening", "checkout", "ready", "posted"} :
       Go(j, at, "catch")
  /\ UNCHANGED <<jobs, rows, disk, history>>

(* Mutation: the catch block rethrows without writing the row.             *)
RethrowOnly(j) ==
  /\ Go(j, "catch", "failing")
  /\ UNCHANGED <<jobs, rows, disk, history>>

(* The catch block marks the row failed, if there is one.                  *)
MarkFailed(j) ==
  /\ Go(j, "catch", "failing")
  /\ rows' = IF run[j].row = NoRow THEN rows
             ELSE [rows EXCEPT ![run[j].row].status = "failed"]
  /\ UNCHANGED <<jobs, disk, history>>

(* The write in the catch block is rejected too.                           *)
MarkFailedFails(j) ==
  /\ run[j].row # NoRow
  /\ Go(j, "catch", "failing")
  /\ lost' = lost \union {run[j].row}
  /\ UNCHANGED <<jobs, rows, disk, posted>>

(* The processor has returned or thrown: BullMQ settles the job.           *)
Settle(j, from, state) ==
  /\ run[j].at = from
  /\ run' = [run EXCEPT ![j] = Idle]
  /\ jobs' = [jobs EXCEPT ![j].state = state]
  /\ UNCHANGED <<hookVars, marking, retries, crashes, rows, disk, history>>

CompleteJob(j) == Settle(j, "completing", "completed")
FailJob(j) == Settle(j, "failing", "failed")

-----------------------------------------------------------------------------
(* The process dies and is restarted: what it was handling is cut off.     *)
Crash ==
  /\ crashes < MaxCrashes
  /\ crashes' = crashes + 1
  /\ run' = [j \in JobIds |-> Idle]
  /\ marking' = {}
  /\ claiming' = [d \in Deliveries |-> 0]
  /\ UNCHANGED <<sent, claimed, answered, jobs, retries, rows, disk, history>>

HandleWebhook(d) ==
  \/ EnqueueDelivery(d) \/ RefuseDelivery(d) \/ ClaimDelivery(d) \/ ClaimFails(d)

Process(j) ==
  \/ CreateRow(j) \/ LinkRow(j) \/ MarkRunning(j)
  \/ StartClone(j) \/ Reuse(j) \/ FinishClone(j) \/ FailClone(j) \/ Checkout(j)
  \/ Publish(j) \/ SkipReview(j) \/ MarkCompleted(j) \/ StepFails(j)
  \/ MarkFailed(j) \/ MarkFailedFails(j) \/ CompleteJob(j) \/ FailJob(j)

Advance == \E j \in JobIds : Pick(j) \/ Recover(j) \/ Abandon(j) \/ Process(j)

Next ==
  \/ \E d \in Deliveries : HandleWebhook(d)
  \/ \E k \in Keys : CreateTask(k)
  \/ \E r \in RowIds : RetryTask(r)
  \/ \E j \in JobIds : MarkQueued(j) \/ MarkQueuedFails(j)
  \/ Advance
  \/ Crash

Spec == Init /\ [][Next]_vars

(* The worker is up again after a crash, BullMQ checks for stalled jobs,   *)
(* and git, the model (20 minutes) and the stores answer or time out: as   *)
(* long as there is a job to advance, some job is advanced.                *)
FairSpec == Spec /\ WF_vars(Advance)

-----------------------------------------------------------------------------
(* "the task is never lost": a delivery that GitHub will not send again,   *)
(* because it was answered 200 or is on record, has its job in the queue.  *)
NoDeliveryLost ==
  \A d \in Deliveries :
    d \in claimed \union answered => jobs[WebhookJob(d)].state # "absent"

(* Redeliveries, overlapping handlers and API calls never run a job twice: *)
(* it publishes once, and once more for each time the queue took it up     *)
(* again because a crash had cut it off.                                   *)
PublishedOncePerRequest ==
  \A j \in JobIds : posted[j] <= jobs[j].stalls + 1

Running(r) == r \in RowIds /\ rows[r].status = "running"

(* A row that says running has a job at work on it, also after a crash;    *)
(* the exceptions are the rows the code itself gives up: those whose last  *)
(* write the database refused and those of jobs that stalled too often.    *)
RunningRowHasJob ==
  \A r \in RowIds \ lost : Running(r) =>
    \E j \in JobIds : jobs[j].row = r /\ jobs[j].state \in {"waiting", "active"}

(* Queue and table agree on what is over: a row that was never retried has *)
(* the outcome of its job.                                                 *)
SettledRowAgreesWithJob ==
  \A k \in Keys : LET j == <<k, 0>> IN
    \A r \in RowIds \ lost :
      /\ jobs[j].row = r
      /\ \A n \in 1..MaxRetries : jobs[<<k, n>>].row # r
      /\ jobs[j].state \in {"completed", "failed"}
      => rows[r].status = jobs[j].state

(* Whatever fails or crashes on the way, in the end no row says running.   *)
RunningRowsSettle == <>[](\A r \in RowIds \ lost : ~Running(r))

(* "Each task (review/fix/audit) runs in an isolated directory"            *)
(* (workspace/manager.ts:4): no two executions are in one directory, and   *)
(* none works in a directory that is still being cloned.                   *)
InWorkspace(j) == run[j].at \in {"cloning", "checkout", "ready"}
WorkspaceIsolated ==
  \A i, j \in JobIds : InWorkspace(i) /\ InWorkspace(j) /\ Dir(i) = Dir(j) => i = j

(* "re-enqueuing the same (repo, type, pr/issue, headSha) replaces rather  *)
(* than duplicates the job" (queue/manager.ts): a new delivery, which is   *)
(* answered with "Queued", has a job that is still to be run.              *)
NewDeliveryIsServed ==
  [][\A d \in Deliveries : sent[d] = 0 /\ claiming'[d] = 1 =>
        jobs'[WebhookJob(d)].state \in {"waiting", "active"}]_vars
=============================================================================

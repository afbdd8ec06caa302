# Verification of opencode-ai-reviewer

This directory holds TLA+ specifications of the stateful parts of
opencode-ai-reviewer, the TLC configurations that check them on small
instances, and proofs for TLAPS that establish the most important results for
every value of the constants. Every definition is translated from the source;
paths below are relative to the repository's root.

Contents: [the system](#1-the-system), [inventory](#2-inventory),
[what is hard here](#3-what-is-hard-here), [the modules](#4-the-modules),
[runs](#5-runs), [proofs](#6-proofs), [where code and words differ](#7-where-code-and-words-differ),
[behaviour worth knowing](#8-behaviour-worth-knowing),
[not modelled](#9-not-modelled-and-why), [plan](#10-plan).

    tlc -workers 2 -config MCReviewFlow.cfg MCReviewFlow     # model-check
    tlapm ReviewFlowProofs.tla                               # check proofs

## 1. The system

A pnpm monorepo, about 92,000 lines of TypeScript without tests, that reviews and
fixes pull requests with a language model.

| package | what it is |
|---|---|
| `lib` | the review engine, event bus, circuit breaker, rate limiter, learning stores, conversation state, GitHub/GitLab adapters, MCP client |
| `app` | a Probot GitHub App: a long-running process that turns webhooks into events and events into reviews, fixes and comments |
| `platform` | a self-hosted service: webhook receiver, BullMQ queue, worker, Postgres tables, REST API and dashboard |
| `action` | a GitHub Action: one sequential run per job, with state carried between jobs through the Actions cache |
| `cli` | a sequential local review |

Everything that runs is a single Node.js process: between two awaits a handler
is never interrupted, and at every await any other handler, timer or promise
reaction may run. A step of the models is therefore one synchronous stretch of
code, and the interleavings TLC explores are those of the awaits. Two stores
are outside of the process and survive it: Redis (BullMQ) with Postgres for the
platform, and the learning database (SQL, or one JSON file) for the others.

How the parts meet:

    GitHub --webhook--> app/src/index.ts --publish--> EventBus --batches--> subscribers
      subscribers/review.ts   single-flight map   \
                              RateLimiter (AsyncMutex, learning database)
                              runWithConcurrencyLimit (process-wide slots)
                              handlePRReview -> engine.reviewPR (in-flight and reviewed caches) -> GitHub
    each subscriber, GitHub, GitLab, OSV, JEV, notifier, state cache: a CircuitBreaker of its own

    conversation comments --> handlers/conversation.ts --> engine.runConversation
                              per-thread lock, state manager, the App's one LearningStore

    workflow --> action/src/review.ts --> engine.reviewPR (batches or agents, verification) --> postReview
             --> action/src/fix.ts    --> review, fix agent, git push, checks, CI gate, in a loop
             --> action/src/post.ts   (another process, after the job)
    every model call: lib/src/opencode.ts spawns the opencode CLI; utils/process-registry.ts owns the processes

    GitHub --webhook--> platform/webhooks.ts --enqueue--> BullMQ --> worker --> workspace, engine, Postgres
    dashboard --REST--> routes/api.ts --enqueue/retry------^

## 2. Inventory

For each component: the state it keeps, what changes it, and what makes it
correct. `PROJECT.json` lists every component, the ones left out included, with
its files.

**Circuit breaker** (`lib/src/utils/circuit-breaker.ts`). State: CLOSED, OPEN or
HALF_OPEN, two counters, the time of the last failure, a probe flag. Changed by
`call()` before and after it awaits the guarded function, by looking at the
state (`getState`, `getMetrics`), and by `reset()`. Correct when the counters
always belong to the present state, the probe flag always has an owner, and the
circuit closes by itself once the dependency has recovered. Instances:
`lib/src/event-bus/bus.ts:101`, `lib/src/sca/osv-client.ts:42`,
`lib/src/utils/jev-client.ts:455`, `lib/src/utils/title-suggestion.ts:24`,
`lib/src/utils/notifier.ts:529`, `lib/src/utils/github.ts:557`,
`lib/src/utils/gitlab-adapter.ts:215`, `action/src/state-cache.ts:175`.

**Rate limiter and its mutex** (`lib/src/utils/rate-limiter.ts`). State: a chain
of promises, a queue depth, and the `rate_limits` table. `checkReview()` captures
the time, waits for the mutex (30 s at most), reads four counts of which any may
fail, decides, and writes a reservation before it lets go; `recordReview()`
later replaces the estimate by the reported usage, outside of the mutex; resets
and a clean-up delete rows. Correct when waiters neither overlap nor overtake nor
get stuck, and when no cap, cool-down or budget can be overrun by deliveries
that race.

**Concurrency limiter** (`app/src/utils/concurrency.ts`). State: a count of used
slots, a FIFO of resolvers, an asynchronous context. `runWithConcurrencyLimit()`
waits for a slot for a bounded time, runs its work, and returns the slot; a slot
granted after the wait was given up is returned at once; calls inside the work
use the slot around them. Callers: `app/src/handlers/commands.ts:152`,
`app/src/handlers/pr-review.ts:369` and `:651`, one inside the other. Correct when
slots are conserved and a command never waits for itself.

**Event bus** (`lib/src/event-bus/bus.ts`). State: per subscriber a breaker and a
health record. `publish()` runs subscribers in batches, each against a deadline;
a handler that loses the race is abandoned, not stopped. Correct when a publish
always returns and what operators are shown agrees with what the bus does.

**Review flow** (`app/src/subscribers/review.ts`, `app/src/handlers/pr-review.ts`,
`lib/src/engine.ts` 583-770 and 1303-1386). State: the map of in-flight handlers
per pull request, the engine's map of in-flight reviews per commit, and a cache
of commits reviewed in the last five minutes. Correct when handlers of a pull
request do not overlap, reviews of a commit are shared and not posted twice, every
push is reviewed, and nobody waits for ever.

**Platform pipeline** (`platform/src/webhooks.ts`, `queue/`, `workspace/`,
`routes/api.ts`, `db/repositories.ts`). State: the BullMQ queue, the tables
`webhook_events` and `tasks`, directories on disk, and what the live process is
in the middle of. Correct when no delivery is lost, nothing is published twice,
queue and table agree after failures and crashes, and executions do not disturb
each other.

**JSON database** (`lib/src/learning/json-db.ts`, `lib/src/learning/db/json.ts`).
State: all data in memory, one file, a debounce timer, a transaction flag, the
asynchronous writes under way. It is the routine store of the bundled Action, not
a last resort. Correct when every change is going to be written, the file always
parses and holds exchanges whole, and an orderly end leaves the memory on disk.

**OpenCode runner and process registry** (`lib/src/opencode.ts` 3000-4655,
`lib/src/utils/process-registry.ts`). State of a run: its termination kind, its
active child, the timer and the attempts of the escalation to SIGKILL, its place
among nested and sequential retries; of the process: the registry of detached
process groups and the handlers of its own signals. Correct when no child
outlives the parent unsignalled, a stopped run spawns nothing more and returns,
and output that was cut short is never a result.

**Review pipeline** (`lib/src/engine.ts`, `reviewPR()` and
`runReviewPipeline()`). State of one review: the findings so far, failed batches
or agents, a budgeted context, the verdict. Everything the model says is any
answer; two scanners add findings that no model has to report. Correct when what
was not looked at degrades the verdict.

**GitHub adapter, posting** (`lib/src/utils/github.ts` 1705-2400,
`lib/src/utils/auto-resolve.ts`). State: the bot's threads on the pull request
(remote), the findings streamed while the review ran, the fall-backs of a post.
Correct when every finding of a delivered review can be read, none has two
threads, and no thread of a finding that is still there is resolved.

**Action, review mode** (`action/src/review.ts`). One job after the other on the
same pull request; each is a process, what is left of it is on GitHub. Correct
when a green job has delivered its review.

**Autofix** (`action/src/fix.ts`, `action/src/post.ts`). State: the workspace and
the branch, the iteration, the head last fetched, the verification state, the
labels, the reason the post step is told. Others push to the branch, close the
pull request and cancel the run at any await. Correct when unverified commits
never leave a green job, the ready label is earned, and the run ends.

**Learning store** (`lib/src/learning/store.ts`). State: a connection promise that
all callers share, the time of the last failure, the recovery under way. Correct
when callers share one connection and the App's store works as long as the App.

**Conversation** (`app/src/handlers/conversation.ts`,
`lib/src/conversation/state.ts`, `lib/src/engine.ts` 5600-5770). State: the state
objects of threads with their turn counts, a chain of promises per thread, the
session rows. Correct when the turn budget holds, exchanges get different
numbers, every turn gets the lock, and a thread survives a restart.

**State of their own, and not modelled**: the Action's state cache
(`action/src/state-cache.ts`), the MCP manager, the codebase index.

**No state worth a module**: the event router, guarded subscribers and learning
subscribers (their concurrency is the bus's), prompts, configuration, text
helpers, safety checks, merge authorisation and verdict freshness (pure
functions), the CLI and the other modes of the Action (sequential), the adapters
(but for posting; remote state), SQL databases (isolation is the database's), the dashboard (a
client), workflow scripts.

## 3. What is hard here

`PROJECT.json` names 40 hazards at their lines. They fall into these groups:

* *State read before an await and used after it*: the limiter's time and windows
  (`rate-limiter.ts:300`), the review's head (`subscribers/review.ts:156`), a
  conversation's turn number (`handlers/conversation.ts:322`), the head of the CI
  gate (`fix.ts:1820`), the list that keeps threads open (`github.ts:1889`).
* *Late settlements*: a call admitted while the circuit was closed returns in a
  half-open window; a slot or a mutex turn is granted to a call that gave up; an
  abandoned event handler runs on.
* *Shared in-flight entries*: deleted by whoever finishes, joined by whoever
  comes, and remembered (or not) once over.
* *Partial failure*: one of four reads fails; a review is published but the write
  that says so is refused; an asynchronous file write fails.
* *Answers that are lost*: a request that created a review or a comment and whose
  answer did not arrive; every fall-back of `postReview()` may repeat it.
* *Long sequences of legal steps*: a red verification, a clean review, a green
  gate and a cancellation in the same run; the retries of a run inside each other.
* *Others act meanwhile*: pushes, closings, threads resolved by hand, signals.
* *Crash and redelivery*: between enqueue and claim, between creating a row and
  linking it to its job, in the middle of a clone or of a file write.
* *Limits and boundaries*: the turn of the hour or day, retention against
  windows, waiters at the limit, nested slots.

## 4. The modules

| module | of | extends / composes |
|---|---|---|
| `CircuitBreaker` | one breaker and its concurrent callers | |
| `EventBus` | `publish()` around one subscriber | extends `CircuitBreaker`: deliveries are the breaker's callers |
| `AsyncMutex` | the promise-chain mutex | |
| `RateLimiter` | `checkReview()` and `recordReview()` over a store | extends `AsyncMutex`: a request is a call of the mutex |
| `SlotPool` | abstract: at most `Limit` holders | |
| `ConcurrencyLimiter` | semaphore and `runWithConcurrencyLimit()` | implements `SlotPool` |
| `ReviewFlow` | subscriber, handler and engine caches of one pull request | composes the three |
| `TaskPipeline` | receiver, queue, worker, workspaces, API, crashes | composes the five |
| `JsonDatabase` | memory, file and the writes between them | |
| `OpenCodeRunner` | runs of the CLI, their retries and processes, the registry | |
| `ReviewPipeline` | from the changed files to one result | |
| `ReviewThreads` | the bot's threads, and `postReview()` on them | extends `ReviewPipeline` |
| `ReviewAction` | jobs of the Action in review mode | extends `ReviewThreads` |
| `FixBranch` | workspace, branch, labels, and what others do to them | |
| `AutofixLoop`, `SingleFix` | `runAutofixLoop()`, `runFix()` | extend `FixBranch` |
| `FixAction` | a run in a fix mode, then the post step | extends both |
| `LearningStore` | the shared connection | |
| `Conversation` | handler, engine, state manager and session row of one thread | extends `LearningStore`: an exchange is a user of the store |
| `GuardProofs` | theorems about the breaker, the bus and the concurrency limiter | |
| `AsyncMutexProofs` | theorems about the mutex and the rate limiter inside it | |
| `LearningProofs` | theorems about the connection, the conversation and the JSON store | |
| other `*Proofs` | theorems about the module of that name | |
| `MC*` | instances for TLC | |

The operators under a comment beginning *Mutation* or *Mutant* are faulty
variants of the operator that follows; `PROJECT.json` pairs each property with a
variant that breaks it, and no specification uses them.

### CircuitBreaker

| variable | field |
|---|---|
| `state`, `failureCount`, `successCount`, `inFlightProbe` | the private fields of the same names |
| `cooled` | the truth of `Date.now() - lastFailureTime >= effectiveCooldownMs` |
| `role` | per caller: not in `call()`, awaiting `fn()`, or awaiting it as the probe |
| `outage` | environment: whether the dependency may fail |

`Reject`, `Admit` and `AdmitProbe` are `call()` up to `await fn()`; `Succeed`,
`Fail` and `FailUncounted` are the rest, from the settlement of `fn()` through
`onSuccess()`/`onFailure()` and the `finally` block (`Leave`). `Observed` is
`transitionState()`, which every look at the state runs. `failureCount`
saturates at the threshold, the only number it is compared with. Life-time
counters and timestamps for dashboards are left out.

### AsyncMutex

A call's *link* is the promise it has to resolve, numbered in the order of
creation; `prev` is the link it waits for. `Enqueue` is the synchronous stretch
of `runExclusive()` that swaps the tail; `Acquire` is the race won by the
predecessor, `TimeOut` the race won by the timer, after which the call's link
inherits the settlement of its predecessor (`Inherit`, the `prev.then(done, done)`
of the code); `Release` is the `finally` block. `pending` is `getQueueDepth()`.

### RateLimiter

`Arrive` captures the time (`started`) and enqueues; `Read` takes the four
counts inside the mutex, any set of which may be rejected; `Deny`,
`RethrowReadError`, `Reserve` and `ReserveFails` are the decision;
`Leave` releases. `Reconcile` and `RecordDegraded` are `recordReview()`,
`ResetRepo`/`ResetUser`/`ResetAll` the resets, `Cleanup` the clean-up, `Tick` the
clock. `rows` is the table, `ledger` a history of the reservations made, which
neither `recordReview()` nor `Cleanup` touches, and `degraded` one of the requests
let through although their reservation could not be written (`FailOpen`). What is
granted is both (`Grants`), and the caps are stated over it; cool-down and budget are
stated over reservations.
Hours and days are `HourTicks` and `DayTicks` of the clock.

### ConcurrencyLimiter and SlotPool

`active` and `waiters` are the semaphore's fields, `pc` where each call is.
`Release` hands the slot to the first waiter, which may have given up (`late`),
and counts it free only when nobody waits. `EnterNested` is the reentrant path.
The refinement maps the pool's `holders` to the calls that own a slot, whether
they have resumed, run, or are about to return it unused.

### EventBus

One subscriber is watched, with its breaker and health record; of the others
only that they settle is kept. `StartBatch` is the synchronous stretch that
starts a batch, `Deliver` that of `executeSubscriber()`; `HandlerReturns`,
`HandlerThrows` and `Deadline` are the three ways the race ends, the last leaving
an abandoned handler (`AbandonedEnds`); `ResetHealth` is `resetHealth()`.

### ReviewFlow

| variable | code |
|---|---|
| `single` | `inFlightHandlers`, for the one pull request |
| `inFlight`, `reviewed` | `IN_FLIGHT_REVIEWS`, `REVIEWED_CACHE` |
| `seen[e]` | the head sha `handlePRReview` fetched |
| `waitsOn[e]` | the promise the event awaits |
| `head` | the newest commit on GitHub |
| `fresh`, `crowded` | history |

Events are the pushes, one per head, and `/review` commands. `Wait` joins
(automatic) or queues (command) behind the handler on record; `Start` .. `Finish`
are the handler: `Fetch` the head, `Refuse` for want of a slot, then `reviewPR()`
(`Share`, `SkipReviewed`, `Begin`, and the three ways a pipeline settles),
`MarkReviewed` after the labels, `PostReview` or `PostFails`. `Finish` also runs
the reactions of everyone who waited, because they run in one drain of the
microtask queue: each command that waited starts a handler of its own there.
One pull request, one process, no restart (the caches live in memory). The
autofix loop a handler may end with appears as its pushes only; the forced
reviews it makes (`app/src/handlers/autofix.ts:210`) are for a later module.

### TaskPipeline

| variable | code |
|---|---|
| `sent`, `claiming`, `claimed`, `answered` | deliveries of GitHub, their handlings between enqueue and claim, `webhook_events`, answers of status 200 |
| `jobs` | BullMQ: state, the row the job is linked to, its stalls |
| `rows` | the `tasks` table |
| `run` | the execution of each job in the live process |
| `marking` | retries whose row is still to be set back to queued |
| `disk` | workspace directories |
| `posted`, `lost` | history: publications, and rows nobody will settle |

`HandleWebhook` is the receiver, `CreateTask` and `RetryTask` (with `MarkQueued`)
the API, `Process` the worker's processor step by step, `Crash` the death and
restart of the process. BullMQ is external and modelled from how the code relies
on it: adding an existing id is a no-op, finished jobs stay, a job whose worker
died is taken up once more (`maxStalledCount` 1) and then failed. Publishing is
one step. `lost` holds the two kinds of rows the code itself gives up: those
whose last write was refused too, and those of jobs that stalled too often, which
the listener for failed jobs only logs.

### JsonDatabase

`memory` is the data, abstracted to the rows that mutations add; `disk` the file;
`writer` the asynchronous writes, each between opening its temp file
(`StartWrite`), serialising the memory (`Snapshot`) and renaming (`Rename`).
`BeginTransaction`, `AddPart` and `Commit` are a transaction, `Update` a single change,
`FlushSync` the write of `close()` and of the exit hook. The bodies of
transactions only await promises that are already resolved, so timers and file
operations get no turn inside them (`BetweenTransactions`), while a second transaction
does, and so does another reaction that calls `close()`: `Close` has no guard but that
the process lives. A store that is closed still takes changes and writes them. Three
histories say what the properties have to know: `unsaved` (memory holds a change no
write has read, or one whose write failed), `dropped` (a write failed, and none was
scheduled since) and `interrupted` (exchanges a `close()` met half done).

### OpenCodeRunner

| variable | code |
|---|---|
| `levels[r]` | the stack of `runOpenCodeInner` calls: a run may call itself with fewer options inside one of its attempts |
| `result[r]` | what the last attempt came to; of a failure only the retry it calls for |
| `stopped`, `active`, `timer`, `tries` | `terminationKind`, `activeChild`, `forceKillHandle`, `forceKillAttempts` |
| `child[r]` | the process as the system has it: it need never end, and may ignore SIGTERM |
| `registered` | `managedProcesses` |
| `parent` | this process: up, shutting down, dead |
| `cut` | history |

`Spawn` is the last look at deadline and signals together with the spawn and the
registration, one turn of the event loop. `Exit` is the `close` event, `Halt` the
deadline or the caller's signal, `ForceKill` one firing of the timer: SIGKILL
accepted, the group gone, or not delivered. `CallAgain`, `Retry` and `Return` are the
five retries. `Signal` is `handleParentSignal`, `Die` its end and the exit handler.

### ReviewPipeline, ReviewThreads, ReviewAction

A result is the set of its findings, whether it is ready, whether it has text,
and whether it is *blind* (a part could not be reviewed, as far as the code keeps
that on record). Agents that failed or stayed silent in a run that ended well are only
logged by the code; `partial` is the history of that. `ReviewSingle`,
`ReviewBatches` with `Synthesize`, and `ReviewWithAgents` are the three ways to one;
`Verify` is verification, scanners and degradation, in the order of the code.

A finding's threads are counted by fingerprint (`open`, up to `MaxThreads`), and a
resolved one is remembered (`closed`). `seen` and `live` are the threads as read at
the start of the job, `streamed` what was posted meanwhile. `PostBatched`,
`PostBody` and `PostComments` are the path with its fall-backs; `PostArray` and
`PostSummary` that of `enableReviewsArrayInline`; `ResolveAddressed` is
`maybeAutoResolveAddressedThreads()`. Each request may be refused, and may be
carried out with its answer lost (`lossy`), which is what the code's retries
cannot tell apart. `ResolveByHand` is a human.

`Severity` and `Line` give each finding its seriousness and its place:
`resolveReviewEvent` is kept from approving by fresh critical and important findings
only, and what is not posted inline is matched with what is by line (`Beside`).
`createReview` puts the rest into the body, less what the noise budget or GitHub's
limit on length leaves out and the body says it leaves out (`omitted`). `gone`
collects the findings that are lost without a word: a comment refused for another
reason than its line, which is only warned about; a finding on the line of one that is
posted; and the end of a body that had to be repeated as a comment and was cut again.

`ReviewAction` has `runReview()` around these: `Start`, `FetchThreads`, `Stream`,
`Returned`, the ways it gives up, `Finish` with the gates on the severity (`FailOn`)
and on a secret (`FailCI`), `NextRun`.

### FixBranch, AutofixLoop, SingleFix, FixAction

Commits are numbered as they reach the branch; `head` is its newest, `base` the
newest the workspace holds, `own` counts those of this run. `tree` is clean, dirty or
ahead (a commit whose push failed). A push is never forced, so `PushEdits` needs
`base = head`. `measured` is what the last run of the checks said of the tree as it
is. Every await of `runAutofixLoop()` and `runFix()` is an action of its own name;
`Others` is everybody else between two of them. `GatherContext`, `Graceful` and
`Terminal` are the context, the stop on an abort and the end of the loop; `Post` is
`post.ts`. The review is a value here: clean, findings, empty, skipped.

### LearningStore, Conversation

`conn` is what `repoPromise` is or has resolved to; `Ask` is a `getRepo()` up to its
await, `Connected`/`ConnectFails` the settlement with all reactions to it (one
drain of the microtask queue), `Recover` the single-flight reconnection.

An exchange is one comment that addresses the agent, and the user of the store in
its name. `Open`, `LoadSession` read the session; `TakeTurn`, `Answer`, `Condensed`, `Throws` are
`runConversation()` under the thread's lock, which `tail` and `ahead` describe;
`Persist`, `SaveExchange` and `Post` the rest of the handler. State objects are named
after the exchange that created them, so that two exchanges may hold different
objects of one thread, which `Evict` and expiry make possible. `Leave` is
`engine.cleanup()`, which closes the store; `OtherCleanup` that of any other handler.

## 5. Runs

Each property has at least one mutation of the code that breaks it in the same run.

| run | instance | properties | states |
|---|---|---|---|
| `limiter` | 3 requests, one fails open, caps of 1, a budget of 3 | `CountCaps`, `CooldownRespected`, `DailyBudget` | 2,410,847 |
| `bus` | 3 events, 2 batches, thresholds 2 and 1 | `ProbeFlagHasOwner`, `HealthShowsCircuit`, `PublishReturns` | 52,414 |
| `concurrency` | 2 slots, 4 calls, 2 nested ones | `NoIdleSlot`, `NestedInsideSlot`, `ImplementsSlotPool`, `WaitersServed` | 2,295 |
| `reviewflow` | 2 pushes, 2 commands | `Serialized`, `InFlightIsRunning`, `NoRepeatedPost`, `EventsEnd` | 584,371 |
| `pipeline` | one command, delivered twice, created by hand, retried; 2 slots, 2 crashes | `NoDeliveryLost`, `PublishedOncePerRequest`, `RunningRowHasJob`, `SettledRowAgreesWithJob`, `RunningRowsSettle` | 1,255,737 |
| `jsondb` | 2 updates, 2 transactions of 2 parts, 2 writes, 1 restart | `UnsavedIsScheduled`, `ExchangeWholeOnDisk`, `ExitSaves` | 711,264 |
| `review` | 2 jobs, 1 finding and two scanners, 2 batches, 3 ways of posting | `GreenMeansDelivered`, `ApprovalMeansReviewed`, `FindingsShown`, `NoDuplicateThreads`, `CommentsStayOpen` | 13,735,530 |
| `autofix` | loop and single pass, 3 settings of the checks, 2 iterations, 2 retries, 1 push of others | `UnverifiedPushFailsJob`, `ReadyIsEarned`, `GateSeesOwnCommits`, `LostPushNotReported`, `RunEnds` | 107,142 |
| `runner` | 2 runs with complementary options, 2 attempts at SIGKILL | `NoSurvivors`, `CutNeverSucceeds`, `StoppedSpawnsNothing`, `StoppedReturns` | 313,606 |
| `conversation` | 3 comments on a thread, budgets of 1 and 2, 1 restart | `OneConnection`, `TurnBudget`, `NumbersDistinct`, `QueueMoves` | 6,449,212 |
| `review_array` | the instance of `review`, only the reviews-array | `StillReportedStaysOpen` (violated) | counterexample |
| `conversation_lost` | 2 comments, nothing fails, nothing restarts | `ThreadSurvivesRestart` (violated) | counterexample |

Further configurations are kept for the questions the runs no longer ask one by
one. `MCCircuitBreaker.cfg` and `MCAsyncMutex.cfg` check the breaker and the mutex by
themselves, with the liveness properties `EventuallyClosed`, `NobodyWaitsForever`
and `ChainDrains`. `MCReviewFlowPush.cfg` (`JoinedPushIsReviewed`),
`MCTaskPipelineIsolation.cfg` (`WorkspaceIsolated`), `MCTaskPipelineRepeat.cfg`
(`NewDeliveryIsServed`), `MCJsonDatabaseClose.cfg` (`CloseSaves`) and
`MCFixActionHeld.cfg` (`HeldIsNotPushed`) each end in a counterexample, explained in
[section 7](#7-where-code-and-words-differ). The type invariants (`TypeOK` and the
`...TypeOK` of the composed modules) are defined beside the specifications; those of
the breaker, the mutex, the concurrency limiter, the flow, the pipeline, the review,
the conversation and the JSON store are proved or part of what is proved.

### Bounds, and why they are enough

* **bus.** Three callers are one straggler of an earlier window, one
  probe and one newcomer, the most that any conflict over the flag or the
  counters involves. Thresholds of 2 keep "not yet" apart from "now". The bus run
  has a success threshold of 1 where the code has 2 (`bus.ts:103`), so that three
  events suffice to trip a circuit, probe it and see it closed again;
  `MCCircuitBreaker.cfg` has the window of two successes.
* **limiter.** Three requests: two users, both tiers, one pull request; one fails
  open, so a cap can be overrun by it and by nothing else. Caps of
  1 and a budget of 3 are reached by two requests; the third has to be refused.
  An hour is one tick and a day three, so a request can wait over the turn of
  either, and the cool-down of 2 ticks crosses an hour. `ReadFailures` has no
  failure, the failure of one read, and that of two.
* **concurrency.** Four calls for two slots leave two in the FIFO, the first of
  which may have given up. The nested calls are two deep, as command, review and
  autofix are.
* **reviewflow.** Two heads give one that overtakes the review of the other; two
  commands give the crowd that breaks serialization.
* **pipeline.** Two crashes against one permitted stall reach the case in which
  BullMQ gives a job up; one retry and two sendings cover redelivery, overlap and
  the retry route. Two retries or keys multiply states without a new interaction:
  jobs only meet in a directory, which `MCTaskPipelineIsolation.cfg` has, and in the number
  of slots.
* **jsondb.** Two exchanges that interleave, two writes of which the older may
  rename last, one restart to read what was left. Parts of 2 give a `close()` a
  place in the middle of an exchange.
* **review, review_array.** The first job leaves the threads the second one finds.
  One finding of the model beside one of each scanner gives mixtures of findings
  that are new, known, streamed and resolved; two batches may fail both or one of
  them. Threads per finding are counted to 2, which is one too many already. The
  verdict mode is `approve`, the one that can go wrong by saying too much, and the
  severity gate is at `critical` with the secrets gate on. The finding of the model is
  minor, so it holds back no approval, and stands on the line of the secret, so that
  one may be posted and hide the other. The theorems about these properties have no
  such bounds.
* **autofix.** The defects of a loop are between one iteration and the next; with
  two retries of the verification the first may push and the second fail. One
  push of somebody else is enough to make every later push of the run fail.
* **runner.** One run has provider keys, an mcp block and resumption, the other a
  variant: together all five retries. SIGKILL is tried twice where the code tries
  more often: the last attempt and one before it.
* **conversation.** Three comments are one in its turn, one that waits, and one
  that arrives when the first has released the lock and not saved yet. A budget of
  1 closes the thread for the second comment, a budget of 2 for the third. The
  comments are interchangeable; the run takes their permutations as a symmetry,
  which is sound because it checks invariants only and no definition names a
  comment.

Bounds in the guards: `MaxTime` (clock), `MaxHead` (pushes), `MaxForeign` (pushes of
others), `Attempts`, `MaxRetries` of the pipeline, `MaxCrashes`, `MaxStarts`, `Writers`,
`MaxThreads`, `Runs` of the review jobs. `MaxIterations`, `MaxRetries` of the fix modes,
`Batches` and the `Attempts` of runner and review are the code's own limits. Where
a module has proofs, they hold for every value of its bounds.

### Fairness, and why the code justifies it

* `CircuitBreaker`: timers fire, the outage ends for good, callers keep calling,
  an awaited call settles (every user of a breaker puts a timeout on it), and a
  recovered dependency does not answer every single call of a caller with an
  uncounted error (strong fairness of `Succeed`). Nothing of `Reset`.
* `AsyncMutex`: promise reactions and timers run. Critical sections may hang for
  ever; `ChainDrains` says what follows *if* they do not.
* `ConcurrencyLimiter`: promise reactions run and work ends, as all of it is
  under timeouts. That a waiter gives up is never relied upon.
* `EventBus`: synchronous code runs on and each delivery's own deadline fires.
  Nothing is assumed of handlers.
* `ReviewFlow`: calls to GitHub and to the model return, fail or time out. An
  event need not be accepted (`Deny`, `Wait` and `Push` are not fair).
* `TaskPipeline`: as long as some job can be advanced, some job is: the worker is
  restarted, BullMQ looks for stalled jobs, calls answer or time out.
* `FixAction`: weak fairness of the loop, of the single pass and of the post step,
  each as a whole. Calls to GitHub have timeouts, the agent and the checks are
  killed at theirs. Others need do nothing.
* `OpenCodeRunner`: per run, weak fairness of its own steps and of the timer while
  the parent lives. Neither a child nor a delivered signal need ever end it.
* `RateLimiter`, `JsonDatabase`, `ReviewAction` and `Conversation` are checked for
  safety only. `QueueMoves` says what a liveness property of the lock would need:
  whoever a turn waits for is in its turn, or waits for one that is.

### What the runs show

*Breaker (by itself).* Whatever late settlements, half-open windows and operator resets
overlap, the circuit is closed exactly while fewer than `failureThreshold`
failures stand, successes do not leak from one half-open window into the next,
a raised probe flag has a probe behind it, and after an outage the circuit
closes for good if calls keep coming.

*Bus.* An open circuit is always visible in the health record, a closed one shows
at least the failures held against it, and `publish()` returns although handlers
hang.

*Mutex (by itself).* Exclusive, first come first served, an exact depth, and no waiter with a
timer waits for ever. The delicate place is a waiter that gives up between two
others: if it resolved its link at once, as a mutation does, the next call would
overtake the holder.

*Limiter.* No cool-down or budget can be overrun by reservations that race, that
waited over the turn of an hour or a day, that met failing reads, or whose usage is
reported late, for limits counted as the code counts them: per calendar hour and day,
with runs that overspend their estimate charged at it. A cap on actions is overrun by
the requests that fail open in its period, each by one, and by nothing else: a request
that is let through without a reservation still saw its limits respected, but the next
ones cannot count it until its run is recorded, if that succeeds.

*Concurrency.* The limiter implements the slot pool; slots are conserved whoever
gives up; no slot is idle while somebody waits; a command never waits for itself.

*Review flow.* Until two commands wait for one handler, handlers are serialized
and no automatic event posts a second review of a head within the TTL; at all
times the in-flight map holds exactly the pipelines that run, and every event
ends. A push that arrives during a review of an older head is not reviewed
([section 7](#7-where-code-and-words-differ)).

*Pipeline.* A delivery answered with 200 has its job; a job publishes once, plus
once for each time a crash cut it off; a row that says running has a job that
will settle it, and in the end none says running, apart from `lost` rows.

*JSON database.* As long as the file system takes what is written, no change is
without a write to come. A write that fails, in making the directory as in the rename,
is not tried again: from then until the next change, flush or exit the change is in
memory only (`dropped`). The file always parses, and holds exchanges whole but for
those a `close()` met half done ([section 7](#7-where-code-and-words-differ)); an
orderly exit leaves the memory on disk, unless that last write fails. `close()` does
not when a write is under way.

*Review.* A job that ends green has its review on the pull request, although
`postReview()` reports a failure by a value; a review with a failed batch, a failed run
of the agents or one in which no agent reported, a cut context or a vulnerable
dependency is never approved (one in which some of the agents failed may be, see
[section 7](#7-where-code-and-words-differ)); whichever way of
posting and whichever fall-back, a finding is in a thread, in the body, among those the
body says it leaves out, or had a thread that was resolved before, but for the three
silent losses of `gone`; none has two threads unless an answer was lost. Threads of findings that are still there stay open on the paths
that compare with the findings before deduplication; the reviews-array is not one
of them ([section 7](#7-where-code-and-words-differ)).

*Autofix.* Of the nine ways out of the loop and the seven of the single pass none
leaves unverified commits of the run with a green job and an open pull request;
the ready label at the end means an approval; the gate asks about a head that has
every commit of the run; `changes_made` is not claimed for a commit that never left
the workspace; and every run ends, others and the checks behaving as they like.

*Runner.* Whichever of the five retries a run is in when a deadline, its caller or
the parent's signal stops it, it spawns no more and returns, even if SIGKILL cannot
be delivered; its truncated output is not a result; and because the registry keeps
children whose runs have settled, the parent's end reaches all of them.

*Conversation.* Callers of the store share one recovery. While nothing of a thread
has been forgotten (by eviction, expiry or a failed save, which `forgotten`
records), the model answers `maxTurns` times at most, the closing message is
posted once, and two answers never get the same number, also when the next turn
begins before the number of the last one is read. That the thread survives is
another matter: see `conversation_lost`.

## 6. Proofs

Forty-nine theorems, each checked by tlapm to the last leaf, for every value of
the constants that the named assumptions admit: thresholds and limits are positive
(`CircuitBreakerAssumption`, `LimitAssumption`), the caps, the budget and the times of the
rate limiter are natural numbers, hours and days last a tick at least, and rows are kept for an hour
at least (`LimiterAssumption`, the bounds of `lib/src/types/schemas.ts:541-549`),
`Inside` maps calls to calls,
`Unbounded` are calls, and the bounds of the pipeline and the flow are natural
numbers with commands and heads kept apart (`PipelineAssumption`,
`FlowAssumption`); iterations, batches, attempts, threads and jobs are counted from
1, the retries of the verification from 0 (`BranchAssumption`, `LoopAssumption`,
`RunnerAssumption`, `ThreadsAssumption`, `ActionAssumption`); findings are finitely many
and none of them is a scanner's, each has a severity and a line, and a secret is critical
(`ThreadsAssumption`); the gate is off or at a severity; turn limits are natural numbers (`TurnsAssumption`),
`Nobody` is nobody (`NobodyAssumption`), a transaction has a part at least, updates are
not transactions, and a torn file is no set of rows (`JsonAssumption`,
`RowsAssumption`). The sets of callers, calls, keys, deliveries,
events, runs and findings are arbitrary.

| module | theorem | argument |
|---|---|---|
| `GuardProofs` | `ClosedIffBelowThresholdHolds`, `SuccessesBelongToWindowHolds`, `ProbeFlagHasOwnerHolds` | `BreakerInv`: the three and the typing are inductive together. A straggler's success in OPEN takes the resetting branch of `onSuccess()`, so a count can never outlive its state. The last is stated of `BusSpec`: each step of the bus is one of the breaker or leaves it alone (`BusBreakerStep`). |
| | `HealthShowsCircuitHolds` | `HealthInv` on top: bus and breaker count the same outcomes, and where one forgets failures the other does too, or has forgotten them before. The step that needs an argument is a failure (`FailureStep`): it opens the circuit exactly when the bus has counted it too. |
| | `ImplementsSlotPoolHolds`, `SlotsAccountedHolds`, `RunsWithinLimitHolds` | `LimiterInv`: those in the FIFO own no slot and appear once (`QueueInv`), and the count is the number of holders (`CountInv`). Without the first, handing a slot on might name a holder again and lose one. Each step maps to `Take`, `Give`, `HandOver` or a stutter of the pool. |
| | `NoIdleSlotHolds` | inductive over `LimiterInv`: a release lowers the count only when the FIFO is empty, and a call queues only at the limit. |
| | `NestedInsideSlotHolds` | a call around a nested one does not leave its place before the nested one is done (`ReleaseKeepsNesting`). |
| `AsyncMutexProofs` | `MutualExclusionHolds`, `FirstComeFirstServedHolds` | `MutexInv`: links are numbered without gaps, one per call (`ChainShape`); the settled ones are a prefix (`SettledPrefix`); a link is unsettled exactly while its call waits, holds or has given up (`LinkMatchesPlace`). A critical call sits at the end of the prefix, and there is only one end. Mutual exclusion itself is not inductive: it says nothing of a waiter that gave up. |
| | `DepthCountsUnsettledHolds` | `DepthInv` on top: each step moves one call into or out of a finite set; the clamp at 0 never acts. |
| | `CooldownRespectedHolds` | `LimiterInv` over `MutexInv`: whoever has read the store holds the mutex and has a snapshot as new as the ledger (`Snapshot`), since nobody else can reserve meanwhile; `ClockInv` keeps what was read behind the clock. It assumes that no cool-down is longer than the retention (`Kept`): the clean-up may then forget only rows that no longer matter. The configuration does not enforce that; see "Retention" in section 8. |
| | `RepoHourlyCapHolds`, `CountCapsHolds` | `RepoInv` and `UserInv` over `LimiterInv`: what a request counted inside the mutex is at least the number of reservations of the *present* period (`RepoCounted`, `UserCounted`), also when the count was made for the period in which it queued. A reservation of the present period is still in the table (`RowsCover`, an injection from reservations to rows), periods only grow later (`StartsAscend`), and nobody else reserves before the decision (`OnlyReader`). So a reservation finds its period below the cap (`CountGrows`), and the reservations of a period keep the cap (`RepoCapKept`, `UserCapKept`); what is granted beyond them was let through without one (`GrantsOverrun`). The cap of a repository needs no hypothesis, since rows are kept for an hour at least; that of a user needs them kept for a day, which the configuration does not enforce. |
| | `ClosedCapsHold` | with `FailOpen = {}`, the default of the code, nobody is let through without a reservation, so what is granted never exceeds a cap. |
| | `DailyBudgetHolds` | `BudgetInv` over `LimiterInv`: a request has one row at most, charged its estimate until the run is recorded (`OneRowEach`), so a report only lowers what a day is charged (`ChargesFade`); the tokens a request read inside the mutex cover what the present day is charged when it decides (`TokensCounted`), also when they were read for the day in which it queued. No hypothesis on the retention is needed: the property is about the rows that are there. The lemmas on sums come before: a sum over a finite set does not depend on the order of the fold (`SumRemove`) and is no larger for fewer and lighter members (`SumCompare`). They are inductions over the size of a set, each made on a smallest set that would break it (`SmallestSubset`), since the library's induction theorems cannot be instantiated. |
| `ReviewFlowProofs` | `TypeOKHolds`, `InFlightIsRunningHolds`, `OnePipelinePerHeadHolds` | `FlowInv`: a handler past its fetch knows a head that exists (`HeadKnown`), so the entry it writes and later deletes is one of the map's; that two pipelines never share a head then follows. |
| | `SerializedHolds` | `OnRecord`: until two commands wait for one handler, an event is in a handler exactly if it is the one on record. |
| | `NoRepeatedPostHolds` | `Unposted`: while handlers are serialized, an automatic one past the caches works on a head for which no recent review was posted. The step that could break it, another handler's `PostReview`, is the one `OnRecord` rules out. |
| `TaskPipelineProofs` | `TypeOKHolds` | `TypeInv`: rows are only ever added, references stay below the table's length, handlings never outnumber sendings. |
| | `NoDeliveryLostHolds` | `DeliveryInv`: whoever is about to claim has a job already, and jobs never vanish. |
| | `PublishedOncePerRequestHolds` | `OnceInv`: a job whose work is still before it has published less often than it was taken up. |
| | `RunningRowHasJobHolds` | `RowInv`: a job is linked to the row its execution works on (`Linked`), and a row that says running has a job that has still to write its outcome (`Pending`). The property alone is not inductive: it does not say that the active job's write is still to come. |
| | `SettledRowAgreesWithJobHolds` | `AgreeInv`, with `OriginInv` (a job and the row it began with carry the same key) and `Unretried`: only the job that owns a row writes its outcome (`OnlyOwnerWrites`), unless a retry linked the row to another job. |
| `OpenCodeRunnerProofs` | `ChildrenAreOwned`, `NothingSurvives`, `CutRunsFail`, `StoppedRunsSpawnNothing` | `RunnerInv`: a run with a child it waits for is running, and its process is registered until its end is seen (`Shape` and the ownership); one that was cut has settled as stopped or is still stopped (`CutIsSettled`). `NoSurvivors` alone is not inductive: it is the ownership of settled runs that lets `Die` reach every child. The last is an action property: every step that makes a child active asks whether its run was stopped. |
| `ReviewActionProofs` | `ReviewTypes` | `TypeInv`: with the types, that nothing has been posted or resolved before the review has returned, and that `postReview()` is called no more than `Attempts` times. |
| | `ApprovalsReviewed` | `ResultInv` and `DeliveryInv`: a result that a failure or the budget touched is blind or not ready when it reaches `resolveReviewEvent`, on all three ways to a result; no later step makes it ready. |
| | `GreenJobsDelivered` | `DeliveryInv`: the places after a post that are not a failure have an event on the pull request. |
| | `DeliveredFindingsShown`, `FindingsHaveOneThread`, `ReportedThreadsStayOpen` | `ThreadsInv`: at each place of a post, which findings have a thread, and which are accounted for otherwise: in the body, among those it says it leaves out, or gone (`Accounted`). That a known finding is not posted again, and that one posted while the review ran is known to the rest of the job, keeps it at one thread. |
| `FixActionProofs` | `UnprovenPushFails` | `CheckInv`: an iteration begins with its commits proven, or remembers that they are not; the loop leaves with `approved` or `ci-waiting` only from such a place; a single pass has pushed nothing before its first push. The property speaks of the end only and says nothing of an iteration. |
| | `ReadyWasEarned` | `LabelInv`: ready stands only with an approval, a failure before the end excludes one, and the end takes the label off with it. |
| | `GateIsFresh` | `HeadInv`: from the second fetch of an iteration to its gate, the head on record is at least the newest commit pushed; an approval ends the loop (`ControlInv`), so nothing is pushed after it. |
| | `ReportedPushesLanded` | `PushInv`: a commit left behind ends the run, and a reported change is claimed at its end only. |
| `LearningProofs` | `OneConnectionHolds` | `ConnectionInv`: `attempts` is 1 exactly while the promise on record is unsettled, so whoever opens a connection finds none being opened. The property alone does not say that the promise that others await is that one. |
| | `ConversationTypes`, `QueueMovesHolds` | `QueueInv`: those in the queue have a ranking in which each stands one behind the exchange it waits for and the last one on record stands last. A step joins at the end (`JoinStep`), lets the next one go (`LeaveStep`) or keeps the ranking; who ranks lowest waits for nobody (`SomebodyFirst`), so no circle is possible. |
| | `TurnBudgetHolds`, `NumbersDistinctHolds` | `ThreadInv`, as long as nothing is forgotten: what memory or row knows of the thread has counted every answer, and whoever holds a state object holds the tracked one (`MemoryInv`); one exchange at a time is past the queue (`OneInTurn`), so the budget it compared with still stands when it counts (`BudgetInv`), the thread is marked closed before the closing message exists (`ClosingInv`), and an answer without a number is the newest one (`NumberInv`). |
| | `UnsavedIsScheduledHolds`, `ExchangeWholeOnDiskHolds`, `ExitSavesHolds` | `JsonInv`: memory holds exactly the parts the transaction under way has added (`PartsInv`), and every snapshot on its way to the disk was taken between transactions, or by a flush that put the exchanges it met half done among the interrupted (the parts are stated of the others, `Sound`); mutations leave the saving to a commit only while one is to come, and a write that failed is on record until one is scheduled (`SaveInv`); a process that has exited has no write left that could replace the file (`ExitInv`). |

**Only model-checked.** Liveness (`EventuallyClosed`, `NobodyWaitsForever`,
`ChainDrains`, `WaitersServed`, `PublishReturns`, `EventsEnd`,
`RunningRowsSettle`, `RunEnds`, `StoppedReturns`): TLAPS does not reason about ENABLED
and fairness. Every safety property that a passing run checks is proved as well. What
RECURSIVE operators compute is out of the provers' reach; the modules declare none.

## 7. Where code and words differ

The first two are the runs that end in a counterexample.

1. `review_array`. `lib/src/utils/github.ts:1892`: on the way of
   `review.enableReviewsArrayInline`, `postReview()` hands the findings that are left
   after deduplication to the code that resolves threads (:2251, :2362). Line 1705
   says of it that it "Uses the pre-dedup issue list so dedup-skipped (still-valid)
   findings still count as present." A finding that is reported again is
   dropped as a duplicate of its thread, and then its thread is resolved as
   addressed.
2. `conversation_lost`. `lib/src/engine.ts:5897`: `engine.cleanup()` closes the store
   the engine was given; every handler of the App gives its engine the App's own
   store, and nothing reconnects it (`reconnect()`, `store.ts:128`, has no caller).
   `README.md:409` says that conversation state "is persisted per thread in the
   learning store, so `@mention` and `/ask` threads survive app restarts and continue
   where they left off."
3. `MCFixActionHeld.cfg`. `lib/src/types/index.ts:1735` says that a fix with
   `heldForApproval` is held for manual approval instead of being applied or pushed.
   The engine sets the flag (`engine.ts:4019`) and nothing reads it.
4. `NoPushAfterClose` of `FixAction`, put in the place of the property of
   `MCFixActionHeld.cfg`, fails. `action/src/fix.ts:640` wants to "never push iteration
   commits onto a merged branch" when the pull request is closed "while the fix
   loop was iterating", but the state it looks at was fetched before the agent ran;
   `runAutofixLoop()` does not look at all.
5. `ResolvedWithConfidence` of `ReviewAction`, put in the place of the property of
   `MCReviewActionArray.cfg`, fails. `lib/src/utils/auto-resolve.ts:109`: "When the caller has
   no confidence in the current list it must not call this function." A review with
   a failed batch calls it all the same, and the threads of the findings that batch
   would have reported are resolved.
6. `MCReviewFlowPush.cfg`. `app/src/subscribers/review.ts:159`: an automatic event that
   finds a handler in flight awaits it and returns. The comment at line 54 explains
   this with the engine's deduplication, but the engine's key holds the head, and
   the joining event never gets there: a push that arrives after the handler has
   fetched an older head is reviewed by nobody.
7. `MCTaskPipelineIsolation.cfg`. `platform/src/workspace/manager.ts:98`: the directory is
   named after the pull request and reused when it holds a `.git`, while line 4
   says that each task runs in an isolated directory. With `MAX_CONCURRENT_RUNS`
   above its default of 1, two jobs of one pull request share it, the second even
   while the first is cloning.
8. `MCTaskPipelineRepeat.cfg`. `platform/src/queue/manager.ts:43` says that enqueuing the
   same key again replaces the job. BullMQ ignores an id it still has, finished
   ones included: a command given again on the same pull request within seven
   days is answered with "Queued" and never run.
9. `MCJsonDatabaseClose.cfg`. `lib/src/learning/json-db.ts:321`: `close()`, documented at line
   318 to flush pending writes, does not wait for a write that has read the memory
   already. Its rename puts the older snapshot over the file, and the exit hook no
   longer knows the database.

10. `ApprovalMeansAllReported` of `ReviewAction`, put in the place of
    `ApprovalMeansReviewed` in `MCReviewAction.cfg`, fails. `lib/src/engine.ts:3213` says
    that a review "must never synthesize a clean `ready:true` verdict from blinded
    coverage", and line 3333 that a "specialist that never reported is NOT treated as a
    clean pass". But an agent that reports `failed` in an orchestrator run that ended well
    is only counted (`engine.ts:2981`-`2999` degrades the result when no agent reported at
    all, and logs a partial count; `jsonl-parser.ts` takes no status from such lines), and
    the result is approved.
11. `ExchangeWholeOnDisk` without its exception for `interrupted` exchanges fails.
    `lib/src/learning/db/json.ts:600` wants patch and turns "in a single transaction so a
    crash mid-persist cannot leave the patch and its turns inconsistent". `close()`
    (`json-db.ts:321`) does not look at the transaction, and a handler that cleans up
    while another's transaction awaits writes half an exchange; if the process ends
    before the commit is written, that half is what the next one reads.
12. `FindingsShown` without its exception for `gone` fails in a way the comments rule
    out. `github.ts:1901` says that findings cut by the inline budget "stay unplaced, so
    they flow into issuesForBody below and remain visible"; one on the same line as a
    finding that was placed is filtered out of the body by that line (`:1936`-`1944`).
13. On the way of the reviews-array, `postReview()` never reports that the body was
    truncated (`github.ts:2205`-`2229`), which line 2315 counts among the degradations the
    caller must be able to see. No property is about that output.

## 8. Behaviour worth knowing

Nothing in the repository promises otherwise, or the words are open to
interpretation, so no property is stated; the models have all of these.

* **Two probes.** The `finally` block of `call()` lowers the probe flag for every
  caller. A call admitted while the circuit was closed that returns in a half-open
  window lowers the flag of the probe in flight, and a second probe gets in,
  although `circuit-breaker.ts:170` says that only one is allowed at a time.
  `ProbeFlagHasOwner` is the direction that does hold.
* **Calendar windows.** The caps hold per calendar hour and day. Around midnight,
  twice the daily budget can be spent within the length of one day, although
  `lib/src/types/index.ts:1240` says "per rolling day".
* **Failing open.** Where `failClosedOnReservationError` is off, a request whose
  reservation cannot be written is let through ("limits may overshoot",
  `rate-limiter.ts:432`). `CountCaps` says by how much.
* **Retention.** `retentionHours` may be configured below 24. The clean-up, which
  runs at the App's start, then deletes rows of the current day and `UserDailyCap`
  fails; the run has the retention of a whole day. A cool-down of up to 1440 minutes
  (`app/src/utils/config.ts:297`) may outlast the retention the same way, which is
  what the hypothesis of `CooldownRespectedHolds` excludes.
* **Crowded commands.** All commands that wait for one handler start together when
  it ends, so from the second on a pull request has several handlers at once, of
  which the map knows the last. The engine still shares their pipeline per head.
* **Reviewed before posted.** A review is recorded as done before it is posted;
  when posting fails, automatic events skip the head until the TTL of five minutes
  is over. Between the settling of a pipeline and the record lie the labels, set
  over the network; in the App only the single-flight map closes that gap.
* **Reservations of joiners.** An event that joins a handler has reserved a rate
  limit row, which is neither reconciled nor cancelled.
* **Resolved means never again.** A finding whose thread was resolved and that
  comes back is dropped as a duplicate of the resolved thread, and is shown nowhere.
* **Comments one by one.** When the batch of inline comments is refused and single
  ones fail for another reason than their line, they are dropped with a warning.
* **Approval with known findings.** In the mode `approve`, findings that already have
  a thread do not hold an approval back (`github.ts:298`, on purpose), those of a
  scanner included. A result degraded by its dispatch stays ready; that it is blind
  is what keeps it from being approved.
* **Scanners and single failures.** A failed single run returns before the secret
  scan; a result of a budgeted context reports `budgetTruncated` as false.
* **Approved head.** The loop fetches the head again after its review and asks for
  its checks; a head somebody else pushed meanwhile is approved on its checks,
  although no review of it was made.
* **Two exits do not say why.** The loop's stops in the middle of a verification
  retry (`fix.ts:2161`, `:2213`) do not save the exit reason, so the post step may
  measure a tree that holds edits nobody pushed.
* **Labels.** `fix.ts:2286` says of a red verification at the end that the ready label
  is "untouched"; the change of labels made there removes it.
* **Retries inside retries.** `opencode.ts:4263` retries "once" with half of the mcp
  block; a retry that calls the whole run again has its own such retries.
* **Numbers of errors.** Error texts and the closing message are saved under the
  number of the exchange before them (`handlers/conversation.ts:296` speaks of
  distinct numbers); `NumbersDistinct` is about the answers of the model.
* **A day without a word.** `state.ts:102` restores a persisted session so that its
  turn count and its closing survive a restart; one that is more than 24 hours old
  is restored and dropped again by the next call (`state.ts:76`), and a closed thread is
  open again.
* **Cool-down of the store.** The cool-down is looked at before the recovery under
  way (`store.ts:92`), so callers that come while it runs may be refused rather
  than wait for it.
* **SIGTERM in the App** closes the store and exits; reviews and exchanges under way
  are cut off.
* **Long bodies.** A review whose body leaves findings out (GitHub's limit, or
  `maxVisibleFindings`) is a delivered one and its job may be green
  (`review.ts:716`); the body or the outputs say so.
* **JSON database.** A write that fails is logged and not tried again
  (`json-db.ts:258`). Each change puts the debounced write off again; the rollback
  of a transaction would take changes of others with it (its only body does not
  throw).
* **Platform.** A shallow clone of the default branch has a pull request's head
  only if that is its tip, and nothing fetches it (`Checkout`); analyses created
  through the API or retried carry no issue number and always fail
  (`NeedsNoIssue`); the retry route enqueues before it sets the row back, so a
  retried row may end as queued; rows of jobs that stalled twice stay running;
  `cleanup()` and `cleanupStale()` have no callers.

## 9. Not modelled, and why

* Text: prompts, parsing of model output, comments, labels, redaction, diffs.
* Pure decisions (merge authorisation, verdict freshness, path rules): functions
  a unit test reaches.
* The remote ends: GitHub, GitLab, OSV, JEV, MCP servers, SQL databases. Where the
  code depends on how they behave, the environment's actions say so. The GitLab
  adapter has the GitHub adapter's operations over another API.
* Sequential programs: CLI, the other modes of the Action, the verification cycle
  of the App, the handlers that only chain calls.
* What a model answers: any answer is taken to be possible.
* Within modelled parts: dashboards' counters, logging, event history, streaming
  of single findings, the change of a finding's severity by verification, `enabled = false` of the limiter, `setRunSemaphoreLimit()`
  (tests only), the rollback of a JSON transaction (its only body does not throw).
* In the fix modes: `runFixIssue()`, resolving the comments that were fixed, the
  wall-clock guard of callers without a signal. In the runner: configuration,
  environment, installation, token counts, a child that emits `error` after a kill
  that failed. In the conversation: gathering messages, the summary's text.
* The Action's state cache, the MCP manager and the codebase index: each a module
  of its own; see the plan.

The map of `PROJECT.json` covers about a tenth of the implementation's lines. The
rest is mostly what the list above names: of 92,000 lines the larger part is
prompts, parsing, formatting, configuration, types, adapters' calls and the
dashboard, which have no state that a model could go wrong in.

## 10. Plan

Done, in this order: `CircuitBreaker`, `AsyncMutex`, `RateLimiter`,
`ConcurrencyLimiter` over `SlotPool`, `EventBus`, `TaskPipeline`, `JsonDatabase`,
`ReviewFlow`; `FixAction` and what it is made of, `OpenCodeRunner`, `ReviewAction` and
what it is made of, `LearningStore` with `Conversation`; and the proofs of all of
them.

To come:

1. The Action's state cache (restore, hash, save, quarantine) over `JsonDatabase`,
   whose `Reopen` becomes the next job on a fresh runner: a save that hashes the
   file and uploads the directory later (`state-cache.ts:471`) against a late rename
   of the database; a snapshot holds what the one it grew from held; state stays
   with its branch and commit. Two statements to confront with the code there:
   `README.md:474` describes a key per branch with a warm start from any branch,
   while the key also holds the commit and nothing else is tried
   (`state-cache.ts:415`); and line 168 says that runs with identical content reuse
   an entry, while the hash it compares with is the last one of the same process,
   which saves once.
2. `ReviewFlow` over `RateLimiter` and `ConcurrencyLimiter` as modules, with the
   reservations of joiners, and with the App's autofix loop and its forced reviews.
3. `ReviewAction` composed with `FixAction`: the review of an iteration as jobs on
   the same threads.
4. The MCP manager and the GitLab form of posting a review.
5. More proofs: of statements the runs do not ask for yet, such as what a conversation
   remembers while no connection is closed under it, no save fails and no day passes.

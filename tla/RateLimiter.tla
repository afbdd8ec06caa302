----------------------------- MODULE RateLimiter -----------------------------
(***************************************************************************)
(* The rate limiter of lib/src/utils/rate-limiter.ts over its store.       *)
(*                                                                         *)
(* checkReview() captures the time, queues on the FIFO mutex, reads the    *)
(* store, decides, and reserves a row while it still holds the mutex.      *)
(* recordReview(), resets and the clean-up of old rows run outside it.     *)
(*                                                                         *)
(* One request is one call of checkReview(), followed, when it is allowed, *)
(* by one of recordReview().  Time counts ticks, HourTicks to the hour and *)
(* DayTicks to the day.                                                    *)
(***************************************************************************)
EXTENDS AsyncMutex, Integers, FiniteSetsExt

CONSTANTS Repo, User, Pr, Tier,  \* the target and the tier of each request
          RepoCap,               \* reviewsPerRepoPerHour
          UserCap,               \* reviewsPerUserPerDay
          Cooldown,              \* the cooldown of each tier, in ticks
          Estimate,              \* the tokens charged per action of each tier
          Budget,                \* dailyTokenBudget
          FailOpen,              \* the requests that may run without a reservation
          Retention,             \* retentionHours, in ticks
          HourTicks, DayTicks,
          MaxTime,               \* bound on the clock
          Actual,                \* the token usages a run may report
          ReadFailures           \* the sets of reads that may be rejected together

Requests == Calls
Reads == {"repo", "user", "last", "tokens"}
Never == 0 - 1  \* the null of getLastRateLimitTime()

VARIABLES now,      \* the clock
          started,  \* started[r]: the time checkReview(r) captured
          seen,     \* seen[r]: what r read inside the mutex
          status,   \* how far request r is
          rows,     \* the rate_limits table
          ledger,   \* history: the reservations made, but for those an admin reset
          degraded  \* history: the requests let through without a reservation,
                    \* but for those an admin reset

limiterVars == <<now, started, seen, status, rows, ledger, degraded>>
vars == <<mutexVars, limiterVars>>

Tiers == {"command", "interactive"}

ASSUME LimiterAssumption ==
  /\ Tier \in [Calls -> Tiers]
  /\ Cooldown \in [Tiers -> Nat] /\ Estimate \in [Tiers -> Nat]
  /\ RepoCap \in Nat /\ UserCap \in Nat
  /\ HourTicks \in Nat \ {0} /\ DayTicks \in Nat \ {0}
  /\ Actual \subseteq Nat /\ Budget \in Nat
  /\ Retention \in Nat /\ HourTicks <= Retention  \* an hour at the least
  /\ MaxTime \in Nat

Decided == {"allowed", "degraded", "denied", "error"}
Row == [id : Requests, at : 0..MaxTime, tokens : Nat]
Seen == [repo : Nat, user : Nat, last : Nat \union {Never}, tokens : Nat,
         failed : SUBSET Reads]

HourStart(t) == (t \div HourTicks) * HourTicks
DayStart(t) == (t \div DayTicks) * DayTicks

LimiterTypeOK ==
  /\ TypeOK
  /\ now \in 0..MaxTime
  /\ started \in [Requests -> 0..now]
  /\ seen \in [Requests -> Seen]
  /\ status \in [Requests -> Decided \union {"new", "read", "recorded"}]
  /\ rows \subseteq Row
  /\ ledger \subseteq [id : Requests, at : 0..now]
  /\ degraded \subseteq [id : Requests, at : 0..now]

LimiterInit ==
  /\ Init
  /\ now = 0
  /\ started = [r \in Requests |-> 0]
  /\ seen = [r \in Requests |->
       [repo |-> 0, user |-> 0, last |-> Never, tokens |-> 0, failed |-> {}]]
  /\ status = [r \in Requests |-> "new"]
  /\ rows = {}
  /\ ledger = {} /\ degraded = {}

-----------------------------------------------------------------------------
(* The queries of the store.                                               *)
RepoCount(r, since) ==
  Cardinality({x \in rows : /\ Repo[x.id] = Repo[r]
                            /\ Tier[x.id] = "command"
                            /\ x.at >= since})

UserCount(r, since) ==
  Cardinality({x \in rows : User[x.id] = User[r] /\ x.at >= since})

(* PR numbers are scoped by repository, cooldowns by tier.                 *)
SamePr(r, s) == Repo[r] = Repo[s] /\ Pr[r] = Pr[s] /\ Tier[r] = Tier[s]

(* Mutation: the cool-down is tracked per user.                            *)
LastTimeOfUser(r) ==
  LET times == {x.at : x \in {y \in rows : SamePr(y.id, r) /\ User[y.id] = User[r]}}
  IN  IF times = {} THEN Never ELSE Max(times)

LastTime(r) ==
  LET times == {x.at : x \in {y \in rows : SamePr(y.id, r)}}
  IN  IF times = {} THEN Never ELSE Max(times)

TokenSum(since) ==
  MapThenSumSet(LAMBDA x : x.tokens, {y \in rows : y.at >= since})

-----------------------------------------------------------------------------
(* checkReview() captures the time and joins the queue in one stretch.     *)
Arrive(r) ==
  /\ Enqueue(r)
  /\ started' = [started EXCEPT ![r] = now]
  /\ UNCHANGED <<now, seen, status, rows, ledger, degraded>>

Enter(r) == Acquire(r) /\ UNCHANGED limiterVars

(* A request that waits too long is refused: its caller denies it.         *)
GiveUp(r) ==
  /\ TimeOut(r)
  /\ status' = [status EXCEPT ![r] = "error"]
  /\ UNCHANGED <<now, started, seen, rows, ledger, degraded>>

SettleBehind(r) == Inherit(r) /\ UNCHANGED limiterVars

(* The four reads, each of which may be rejected on its own.  The          *)
(* repository is counted for the command tier only.                        *)
TakeReadings(r) ==
  /\ status[r] = "new"
  /\ \E failed \in ReadFailures :
       seen' = [seen EXCEPT ![r] =
         [repo |-> IF Tier[r] = "command" THEN RepoCount(r, HourStart(started[r])) ELSE 0,
          user |-> UserCount(r, DayStart(started[r])),
          last |-> LastTime(r),
          tokens |-> TokenSum(DayStart(started[r])),
          failed |-> IF Tier[r] = "command" THEN failed ELSE failed \ {"repo"}]]
  /\ status' = [status EXCEPT ![r] = "read"]
  /\ UNCHANGED <<mutexVars, now, started, rows, ledger, degraded>>

Read(r) == pc[r] = "critical" /\ TakeReadings(r)

(* A limit that could be read denies, even when another read failed.       *)
Denies(r) ==
  LET s == seen[r] IN
  \/ Tier[r] = "command" /\ "repo" \notin s.failed /\ s.repo >= RepoCap
  \/ "user" \notin s.failed /\ s.user >= UserCap
  \/ "last" \notin s.failed /\ s.last # Never /\ started[r] - s.last < Cooldown[Tier[r]]
  \/ "tokens" \notin s.failed /\ s.tokens + Estimate[Tier[r]] > Budget

Conclude(r, verdict) ==
  /\ pc[r] = "critical"
  /\ status[r] = "read"
  /\ status' = [status EXCEPT ![r] = verdict]
  /\ UNCHANGED <<mutexVars, now, started, seen>>

Deny(r) == Denies(r) /\ Conclude(r, "denied") /\ UNCHANGED <<rows, ledger, degraded>>

(* No limit denies but a read failed: the store error is thrown.           *)
RethrowReadError(r) ==
  /\ ~Denies(r)
  /\ seen[r].failed # {}
  /\ Conclude(r, "error")
  /\ UNCHANGED <<rows, ledger, degraded>>

(* Mutation: nothing is charged until the run has reported its usage.      *)
ReserveUncharged(r) ==
  /\ ~Denies(r)
  /\ seen[r].failed = {}
  /\ Conclude(r, "allowed")
  /\ rows' = rows \union {[id |-> r, at |-> now, tokens |-> 0]}
  /\ ledger' = ledger \union {[id |-> r, at |-> now]}
  /\ UNCHANGED degraded

(* The reservation is charged the estimate of its tier.                    *)
Reserve(r) ==
  /\ ~Denies(r)
  /\ seen[r].failed = {}
  /\ Conclude(r, "allowed")
  /\ rows' = rows \union {[id |-> r, at |-> now, tokens |-> Estimate[Tier[r]]]}
  /\ ledger' = ledger \union {[id |-> r, at |-> now]}
  /\ UNCHANGED degraded

(* The reservation cannot be written: denied by default, or let through    *)
(* without one when the call or the configuration opted in.                *)
ReserveFails(r) ==
  /\ ~Denies(r)
  /\ seen[r].failed = {}
  /\ Conclude(r, IF r \in FailOpen THEN "degraded" ELSE "error")
  /\ degraded' = degraded \union {x \in {[id |-> r, at |-> now]} : r \in FailOpen}
  /\ UNCHANGED <<rows, ledger>>

Leave(r) ==
  /\ status[r] \in Decided
  /\ Release(r)
  /\ UNCHANGED limiterVars

(* recordReview() after the run, outside the mutex: the reserved row gets  *)
(* the usage reported, or keeps its charge when none was reported or the   *)
(* update failed.                                                          *)
Reconcile(r) ==
  /\ pc[r] = "left"
  /\ status[r] = "allowed"
  /\ status' = [status EXCEPT ![r] = "recorded"]
  /\ \E used \in Actual \union {Estimate[Tier[r]]} :
       rows' = {IF x.id = r THEN [x EXCEPT !.tokens = used] ELSE x : x \in rows}
  /\ UNCHANGED <<mutexVars, now, started, seen, ledger, degraded>>

(* Without a reservation a row is added after the fact, unless that write  *)
(* fails as well.                                                          *)
RecordDegraded(r) ==
  /\ pc[r] = "left"
  /\ status[r] = "degraded"
  /\ status' = [status EXCEPT ![r] = "recorded"]
  /\ \E used \in Actual \union {Estimate[Tier[r]]} :
       rows' \in {rows, rows \union {[id |-> r, at |-> now, tokens |-> used]}}
  /\ UNCHANGED <<mutexVars, now, started, seen, ledger, degraded>>

Forget(ids) ==
  /\ rows' = {x \in rows : x.id \notin ids}
  /\ ledger' = {x \in ledger : x.id \notin ids}
  /\ degraded' = {x \in degraded : x.id \notin ids}
  /\ UNCHANGED <<mutexVars, now, started, seen, status>>

ResetRepo(repo) == Forget({r \in Requests : Repo[r] = repo})
ResetUser(user) == Forget({r \in Requests : User[r] = user})
ResetAll == Forget(Requests)

Cleanup ==
  /\ rows' = {x \in rows : x.at >= now - Retention}
  /\ UNCHANGED <<mutexVars, now, started, seen, status, ledger, degraded>>

Tick ==
  /\ now < MaxTime
  /\ now' = now + 1
  /\ UNCHANGED <<mutexVars, started, seen, status, rows, ledger, degraded>>

CheckReview(r) == \/ Arrive(r) \/ Enter(r) \/ GiveUp(r) \/ SettleBehind(r)
                  \/ Read(r) \/ Deny(r) \/ RethrowReadError(r)
                  \/ Reserve(r) \/ ReserveFails(r) \/ Leave(r)

RecordReview(r) == Reconcile(r) \/ RecordDegraded(r)

LimiterNext ==
  \/ \E r \in Requests : CheckReview(r) \/ RecordReview(r)
  \/ \E r \in Requests : ResetRepo(Repo[r]) \/ ResetUser(User[r])
  \/ ResetAll
  \/ Cleanup
  \/ Tick

LimiterSpec == LimiterInit /\ [][LimiterNext]_vars

-----------------------------------------------------------------------------
(* What is granted are the reservations and the requests that were let     *)
(* through without one.                                                    *)
Grants == ledger \union degraded

CommandsIn(grants, r, h) ==
  {x \in grants : Repo[x.id] = Repo[r] /\ Tier[x.id] = "command" /\ HourStart(x.at) = h}

ActionsIn(grants, r, d) == {x \in grants : User[x.id] = User[r] /\ DayStart(x.at) = d}

(* The command-tier actions granted to a repository in one hour exceed     *)
(* RepoCap by no more than were let through without a reservation in that  *)
(* hour ("limits may overshoot"), however many deliveries arrive together, *)
(* wait across the turn of the hour or meet failing reads and writes.      *)
RepoHourlyCap ==
  \A r \in Requests : \A h \in {HourStart(t) : t \in 0..MaxTime} :
    Cardinality(CommandsIn(Grants, r, h))
      <= RepoCap + Cardinality(CommandsIn(degraded, r, h))

(* The actions of any tier granted to a user in one day exceed UserCap by  *)
(* no more than were let through without a reservation on that day, even   *)
(* after old rows have been cleaned up.                                    *)
UserDailyCap ==
  \A r \in Requests : \A d \in {DayStart(t) : t \in 0..MaxTime} :
    Cardinality(ActionsIn(Grants, r, d)) <= UserCap + Cardinality(ActionsIn(degraded, r, d))

(* Both caps on the number of actions: reservations keep them, and only    *)
(* requests that fail open overrun them, each by one.                      *)
CountCaps == RepoHourlyCap /\ UserDailyCap

(* Two reservations on one PR and tier lie at least the cooldown apart,    *)
(* although the decision uses the time captured before the queue wait.     *)
CooldownRespected ==
  \A x, y \in ledger :
    x.id # y.id /\ SamePr(x.id, y.id) /\ x.at <= y.at =>
      y.at - x.at >= Cooldown[Tier[x.id]]

(* A row counts at most at its estimate: a run that used more than the     *)
(* estimate could not have been foreseen by the check.                     *)
Charge(x) == Min({x.tokens, Estimate[Tier[x.id]]})

Reserved == {x \in rows : [id |-> x.id, at |-> x.at] \in ledger}

(* The reservations of one day never charge more than the daily budget,    *)
(* whatever runs report in the meantime.                                   *)
DailyBudget ==
  \A d \in {DayStart(t) : t \in 0..MaxTime} :
    MapThenSumSet(Charge, {x \in Reserved : DayStart(x.at) = d}) <= Budget
=============================================================================

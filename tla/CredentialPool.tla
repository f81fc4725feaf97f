--------------------------- MODULE CredentialPool ---------------------------
(***************************************************************************)
(* The credential pool of MultiTokenManager (kiro/token_manager.rs):       *)
(* reserving a concurrency slot of a credential, waiting for one, session  *)
(* affinity, the failure counters with automatic disabling and self-       *)
(* healing, and the admin operations on the pool.                          *)
(*                                                                         *)
(* A Request is one call of acquire_context_for_session together with the  *)
(* use the caller makes of the context and guard it returns (one iteration *)
(* of the retry loop of kiro/provider.rs).  Requests run on a multi-       *)
(* threaded executor, so an action is one critical section: what the code  *)
(* does while it holds the `entries` lock (with `current_id` nested in it) *)
(* or the `session_affinity` lock.  pc[r] names the section that is next.  *)
(* Admin calls run one at a time, each as its own sequence of sections.    *)
(*                                                                         *)
(* Left out: success_count, request_count and last_used_at (statistics;    *)
(* the tie-break on success_count is a free choice among the least active  *)
(* credentials), the order of the entries vector (a free choice among      *)
(* equal priorities), tokens and their refresh (an outcome here; that a    *)
(* refresh writes back the whole credential, an older limit or priority    *)
(* included, is the subject of TokenRefresh).                              *)
(***************************************************************************)
EXTENDS Integers, FiniteSets, Sequences

CONSTANTS
  Request,          \* the requests that ever arrive
  Session,          \* session keys (conversation ids)
  NoSession,        \* "this request carries no session key"
  SessionOf,        \* [Request -> Session \cup {NoSession}]
  OpusRequest,      \* the requests for a model that needs a paid plan
  OpusId,           \* the credential ids whose plan supports it
  MaxId,            \* bound on the ids AddCredential may allocate
  InitStatus,       \* [1..MaxId -> Status]: the credentials file at start-up
  InitLimit,        \* [1..MaxId -> Nat]: max_concurrency in that file
  InitPriority,     \* [1..MaxId -> Nat]: priority in that file
  Limits,           \* values the operator gives max_concurrency
  Priorities,       \* values the operator gives priority
  MaxFailures,      \* MAX_FAILURES_PER_CREDENTIAL (3 in the code)
  StickyMaxWaiting, \* STICKY_MAX_WAITING (2 in the code)
  MaxPolls,         \* polls that fit in CONCURRENCY_WAIT_BUDGET (25 in the code)
  Events,           \* what may happen to a request from outside, see Event
  AdminOps,         \* the admin operations used, see AdminOp
  MaxAdminOps       \* bound on the number of admin operations

Id   == 1..MaxId
None == 0

Disabled == {"Manual", "TooManyFailures", "TooManyRefreshFailures",
             "QuotaExceeded", "InvalidRefreshToken", "InvalidConfig"}
Status   == {"Absent", "Enabled"} \cup Disabled
Modes    == {"balanced", "priority"}
Event    == {"ok", "auth", "quota", "other", "refresh", "invalid", "cancel"}
AdminOp  == {"disable", "enable", "reset", "priority", "limit", "add",
             "delete", "mode", "refresh"}
Todo     == {"disable", "purge", "switch", "select", "zero", "clear", "persist"}

ASSUME PoolAssumption ==
  /\ IsFiniteSet(Request)
  /\ MaxId \in Nat
  /\ SessionOf \in [Request -> Session \cup {NoSession}]
  /\ NoSession \notin Session
  /\ InitStatus \in [Id -> {"Absent", "Enabled", "Manual", "InvalidConfig"}]
  /\ InitLimit \in [Id -> Nat]
  /\ InitPriority \in [Id -> Nat]
  /\ Limits \subseteq Nat
  /\ Priorities \subseteq Nat
  /\ MaxFailures \in Nat \ {0}
  /\ StickyMaxWaiting \in Nat
  /\ MaxPolls \in Nat
  /\ Events \subseteq Event
  /\ AdminOps \subseteq AdminOp
  /\ MaxAdminOps \in Nat

VARIABLES
  \* the entries, one function per field; an id that is not in the vector has
  \* status "Absent" and zero counters.  The pair (disabled, disabled_reason) is
  \* one value: every section that writes one of them writes both.
  status, failures, refreshFailures, active, waiting, limit, priority,
  \* load_balancing_mode, current_id, session_affinity
  mode, currentId, affinity,
  \* the requests: next section; chosen credential; credential of the
  \* ConcurrencyGuard; wait_target; sleeps so far; attempts left
  pc, cred, guard, waitOn, polls, budget,
  \* the admin call under way (sections left, credential, operations so far)
  todo, target, adminOps,
  \* history, read by properties only: ids given to a new credential while a request
  \* still refers to the one that had the id before; requests whose guard is of a
  \* credential deleted since
  recycled, stale

entryVars == <<status, failures, refreshFailures, active, waiting, limit, priority>>
routeVars == <<mode, currentId, affinity>>
reqVars   == <<pc, cred, guard, waitOn, polls, budget>>
adminVars == <<todo, target, adminOps>>
history   == <<recycled, stale>>
vars      == <<entryVars, routeVars, reqVars, adminVars, history>>

\* Once the wait_target is given back; once affinity to a reported credential is gone.
AfterWait  == [reserved |-> "settle", giveUp |-> "busy", empty |-> "heal",
               stickyOk |-> "token", stickyOff |-> "forget"]
AfterPurge == [purgeRetry |-> "attempt", purgeFail |-> "failed",
               purgeServed |-> "release"]

Final   == {"done", "busy", "failed", "gone"}
Holding == {"reserved", "stickyOk", "settle", "point", "token", "remember", "bind",
            "serving", "streaming", "purgeServed", "release"}
Seeking == {"new", "attempt", "lookup", "tryBound", "gate", "enqueue", "sticky",
            "stickyOff", "forget", "best", "full", "giveUp", "empty", "heal",
            "refreshErr", "invalidErr", "purgeRetry", "purgeFail"} \cup Modes
PC      == Final \cup Holding \cup Seeking

-----------------------------------------------------------------------------
(* Helpers over the entries *)

Present == {c \in Id : status[c] # "Absent"}
Enabled == {c \in Id : status[c] = "Enabled"}

\* credential_supports_model
Supports(r, c) == r \in OpusRequest => c \in OpusId

\* The credentials reserve_best considers for r, full ones included.
Usable(r) == {c \in Enabled : Supports(r, c)}

\* Seeded fault: off by one at the hard limit.
FullOffByOne(c) == limit[c] > 0 /\ active[c] > limit[c]
\* The hard limit is reached (0 = unlimited).
Full(c) == limit[c] > 0 /\ active[c] >= limit[c]

Candidates(r) == {c \in Usable(r) : ~Full(c)}

TopPriority(S) == {c \in S : \A d \in S : priority[c] <= priority[d]}
LeastActive(S) == {c \in S : \A d \in S : active[c] <= active[d]}

\* Any of these may be reserved: least active of all when the mode read was balanced,
\* least active of the best priority present otherwise.
Best(r) == IF pc[r] = "balanced" THEN LeastActive(Candidates(r))
           ELSE LeastActive(TopPriority(Candidates(r)))

\* Where a request waits when every usable credential is full: (active, priority)
\* in lexicographic order.
WaitTargets(r) == TopPriority(LeastActive(Usable(r)))

\* Seeded fault: plain instead of saturating subtraction.
PlainPred(n) == n - 1
\* saturating_sub(1)
Pred(n) == IF n > 0 THEN n - 1 ELSE 0

\* The entry of c is the current credential's successor when c is switched off:
\* the best priority among the enabled others; unchanged when there is none.
Successors(S) == IF S = {} THEN {currentId} ELSE TopPriority(S)

\* Seeded fault: dropping a guard gives nothing back.
FreedNothing(r) == active
\* `active` after the ConcurrencyGuard of r is dropped.  A deleted credential has
\* no counter to decrement: its zero stays zero.
Freed(r) == [active EXCEPT ![guard[r]] = Pred(@)]

\* Seeded fault: a waiter is not counted on arrival.
NotCounted(c) == waiting
\* adjust_waiting(c, true)
Counted(c) == IF c \in Present THEN [waiting EXCEPT ![c] = @ + 1] ELSE waiting

\* adjust_waiting(w, false) for the wait_target of r, if it has one.
Uncounted(r) == IF waitOn[r] = None THEN waiting
                ELSE [waiting EXCEPT ![waitOn[r]] = Pred(@)]

HasKey(r) == SessionOf[r] # NoSession

\* clear_session_affinity, for the session of r; clear_..._for_credential
Unbound(r) == IF HasKey(r) THEN [affinity EXCEPT ![SessionOf[r]] = None] ELSE affinity
Unlinked(c) == [s \in Session |-> IF affinity[s] = c THEN None ELSE affinity[s]]

\* reserve_context: the mode is read and the path chosen.
Route(r) == IF mode = "balanced" /\ HasKey(r) THEN "lookup" ELSE "best"

Go(r, next) == pc' = [pc EXCEPT ![r] = next]

Init ==
  /\ status = InitStatus
  /\ failures = [c \in Id |-> 0]
  /\ refreshFailures = [c \in Id |-> 0]
  /\ active = [c \in Id |-> 0]
  /\ waiting = [c \in Id |-> 0]
  /\ limit = InitLimit
  /\ priority = InitPriority
  /\ mode \in Modes
  /\ currentId \in (IF Enabled = {} THEN {None} ELSE TopPriority(Enabled))
  /\ affinity = [s \in Session |-> None]
  /\ pc = [r \in Request |-> "new"]
  /\ cred = [r \in Request |-> None]
  /\ guard = [r \in Request |-> None]
  /\ waitOn = [r \in Request |-> None]
  /\ polls = [r \in Request |-> 0]
  /\ budget = [r \in Request |-> 0]
  /\ todo = <<>>
  /\ target = None
  /\ adminOps = 0
  /\ recycled = {}
  /\ stale = {}

-----------------------------------------------------------------------------
(* acquire_context_for_session: arriving and choosing a path *)

Arrive(r) ==
  /\ pc[r] = "new"
  /\ budget' = [budget EXCEPT ![r] = IF Present = {} THEN 1
                                     ELSE Cardinality(Present) * MaxFailures]
  /\ Go(r, "attempt")
  /\ UNCHANGED <<entryVars, routeVars, cred, guard, waitOn, polls, adminVars, history>>

\* The top of the loop: give up, or start reserve_context.
Attempt(r) ==
  /\ pc[r] = "attempt"
  /\ Go(r, IF budget[r] = 0 THEN "failed" ELSE Route(r))
  /\ polls' = [polls EXCEPT ![r] = 0]
  /\ UNCHANGED <<entryVars, routeVars, cred, guard, waitOn, budget, adminVars, history>>

\* credential_for_session.  Its test that the bound credential is usable is the
\* one reserve_one repeats with the same outcome, so it is left to TryBound.
LookupAffinity(r) ==
  /\ pc[r] = "lookup"
  /\ LET c == affinity[SessionOf[r]] IN
       /\ Go(r, IF c = None THEN "best" ELSE "tryBound")
       /\ cred' = [cred EXCEPT ![r] = c]
  /\ UNCHANGED <<entryVars, routeVars, guard, waitOn, polls, budget, adminVars, history>>

\* The slot of c is taken for r in the section that chose c.
Take(r, c) ==
  /\ active' = [active EXCEPT ![c] = @ + 1]
  /\ guard' = [guard EXCEPT ![r] = c]
  /\ stale' = stale \ {r}

\* reserve_one on the bound credential; when it is full, the request may queue.
TryBound(r) ==
  /\ pc[r] = "tryBound"
  /\ \/ /\ cred[r] \in Candidates(r)
        /\ Take(r, cred[r])
        /\ Go(r, "token")
     \/ /\ cred[r] \notin Candidates(r)
        /\ Go(r, IF cred[r] \in Usable(r) THEN "gate" ELSE "forget")
        /\ UNCHANGED <<active, guard, stale>>
  /\ UNCHANGED <<status, failures, refreshFailures, waiting, limit, priority, routeVars,
                 cred, waitOn, polls, budget, adminVars, recycled>>

\* wait_for_sticky reads the number of waiters in one section ...
StickyGate(r) ==
  /\ pc[r] = "gate"
  /\ Go(r, IF waiting[cred[r]] >= StickyMaxWaiting THEN "forget" ELSE "enqueue")
  /\ UNCHANGED <<entryVars, routeVars, cred, guard, waitOn, polls, budget, adminVars,
                 history>>

\* ... and joins them in another.
StickyEnqueue(r) ==
  /\ pc[r] = "enqueue"
  /\ waiting' = Counted(cred[r])
  /\ waitOn' = [waitOn EXCEPT ![r] = cred[r]]
  /\ Go(r, "sticky")
  /\ UNCHANGED <<status, failures, refreshFailures, active, limit, priority, routeVars,
                 cred, guard, polls, budget, adminVars, history>>

\* One poll of wait_for_sticky.  The deadline may pass at any poll and has passed
\* after MaxPolls of them.
StickyPoll(r) ==
  /\ pc[r] = "sticky"
  /\ \/ /\ cred[r] \in Candidates(r)
        /\ Take(r, cred[r])
        /\ Go(r, "stickyOk")
        /\ UNCHANGED polls
     \/ /\ cred[r] \notin Candidates(r)
        /\ Go(r, "stickyOff")
        /\ UNCHANGED <<active, guard, stale, polls>>
     \/ /\ cred[r] \in Usable(r) \ Candidates(r)
        /\ polls[r] < MaxPolls
        /\ polls' = [polls EXCEPT ![r] = @ + 1]
        /\ UNCHANGED <<pc, active, guard, stale>>
  /\ UNCHANGED <<status, failures, refreshFailures, waiting, limit, priority, routeVars,
                 cred, waitOn, budget, adminVars, recycled>>

\* adjust_waiting(_, false) on every way out of a wait.
LeaveWait(r) ==
  /\ pc[r] \in DOMAIN AfterWait
  /\ waiting' = Uncounted(r)
  /\ waitOn' = [waitOn EXCEPT ![r] = None]
  /\ polls' = IF pc[r] = "empty" THEN polls ELSE [polls EXCEPT ![r] = 0]
  /\ Go(r, AfterWait[pc[r]])
  /\ UNCHANGED <<status, failures, refreshFailures, active, limit, priority, routeVars,
                 cred, guard, budget, adminVars, history>>

\* The bound credential is given up: clear_session_affinity, then the pool at large.
Forget(r) ==
  /\ pc[r] = "forget"
  /\ affinity' = Unbound(r)
  /\ Go(r, "best")
  /\ UNCHANGED <<entryVars, mode, currentId, cred, guard, waitOn, polls, budget,
                 adminVars, history>>

-----------------------------------------------------------------------------
(* reserve_best_with_wait *)

\* reserve_best reads the mode, which its next section goes by ...
ReadMode(r) ==
  /\ pc[r] = "best"
  /\ Go(r, mode)
  /\ UNCHANGED <<entryVars, routeVars, cred, guard, waitOn, polls, budget, adminVars,
                 history>>

\* ... and decides between Reserved, AllFull and Empty under the entries lock.
Reserve(r) ==
  /\ pc[r] \in Modes
  /\ \/ \E c \in Best(r) :
          /\ Take(r, c)
          /\ cred' = [cred EXCEPT ![r] = c]
          /\ Go(r, "reserved")
     \/ /\ Candidates(r) = {}
        /\ \E c \in WaitTargets(r) : cred' = [cred EXCEPT ![r] = c]
        /\ Go(r, "full")
        /\ UNCHANGED <<active, guard, stale>>
     \/ /\ Usable(r) = {}
        /\ Go(r, "empty")
        /\ UNCHANGED <<active, guard, stale, cred>>
  /\ UNCHANGED <<status, failures, refreshFailures, waiting, limit, priority, routeVars,
                 waitOn, polls, budget, adminVars, recycled>>

\* AllFull: the wait_target follows the least busy credential; then the deadline.
\* The two adjust_waiting calls are on different entries.
Wait(r) ==
  /\ pc[r] = "full"
  /\ waitOn' = [waitOn EXCEPT ![r] = cred[r]]
  /\ waiting' = IF waitOn[r] = cred[r] THEN waiting
                ELSE [c \in Id |-> IF c = cred[r] THEN Counted(c)[c] ELSE Uncounted(r)[c]]
  /\ \/ /\ Go(r, "giveUp")
        /\ UNCHANGED polls
     \/ /\ polls[r] < MaxPolls
        /\ polls' = [polls EXCEPT ![r] = @ + 1]
        /\ Go(r, "best")
  /\ UNCHANGED <<status, failures, refreshFailures, active, limit, priority, routeVars,
                 cred, guard, budget, adminVars, history>>

\* A reservation from the pool at large reads the mode, and in priority mode
\* current_id follows it, each under a lock of its own.
Settle(r) ==
  /\ pc[r] = "settle"
  /\ Go(r, IF mode = "balanced" THEN "token" ELSE "point")
  /\ UNCHANGED <<entryVars, routeVars, cred, guard, waitOn, polls, budget, adminVars,
                 history>>

Point(r) ==
  /\ pc[r] = "point"
  /\ currentId' = cred[r]
  /\ Go(r, "token")
  /\ UNCHANGED <<entryVars, mode, affinity, cred, guard, waitOn, polls, budget,
                 adminVars, history>>

\* Seeded fault: healing forgets why a credential was switched off.
HealableAny == Present \ Enabled
\* The credentials try_autoheal switches on again.
Healable == {c \in Id : status[c] = "TooManyFailures"}

\* Seeded fault: the failure counter survives the healing.
HealedCountersKept == failures
\* ... with their failure counters reset (refresh counters are left alone).
HealedCounters == [c \in Id |-> IF c \in Healable THEN 0 ELSE failures[c]]

\* Seeded fault: the loop goes on whether or not anything was healed.
RetryAlways == "best"
\* Only a healing that switched something on is worth another reserve_best.
AfterHeal == IF Healable = {} THEN "failed" ELSE "best"

\* try_autoheal, then reserve_best again or the error "all credentials disabled".
Autoheal(r) ==
  /\ pc[r] = "heal"
  /\ status' = [c \in Id |-> IF c \in Healable THEN "Enabled" ELSE status[c]]
  /\ failures' = HealedCounters
  /\ Go(r, AfterHeal)
  /\ UNCHANGED <<refreshFailures, active, waiting, limit, priority, routeVars, cred,
                 guard, waitOn, polls, budget, adminVars, history>>

-----------------------------------------------------------------------------
(* try_ensure_token and the end of acquire_context_for_session *)

\* A usable token resets the refresh counter, unless it is an API key, which has
\* nothing to refresh.
TokenOk(r) ==
  /\ pc[r] = "token"
  /\ refreshFailures' \in {refreshFailures, [refreshFailures EXCEPT ![cred[r]] = 0]}
  /\ Go(r, IF HasKey(r) THEN "remember" ELSE "serving")
  /\ UNCHANGED <<status, failures, active, waiting, limit, priority, routeVars, cred,
                 guard, waitOn, polls, budget, adminVars, history>>

\* The session is bound to the credential if the mode, read first, is balanced.
Remember(r) ==
  /\ pc[r] = "remember"
  /\ Go(r, IF mode = "balanced" THEN "bind" ELSE "serving")
  /\ UNCHANGED <<entryVars, routeVars, cred, guard, waitOn, polls, budget, adminVars,
                 history>>

\* remember_session_affinity
Bind(r) ==
  /\ pc[r] = "bind"
  /\ affinity' = [affinity EXCEPT ![SessionOf[r]] = cred[r]]
  /\ Go(r, "serving")
  /\ UNCHANGED <<entryVars, mode, currentId, cred, guard, waitOn, polls, budget,
                 adminVars, history>>

\* The guard of r is dropped.
Drop(r) ==
  /\ active' = Freed(r)
  /\ guard' = [guard EXCEPT ![r] = None]

\* A refresh that failed: the slot is given back before the failure is reported,
\* and the session is unbound (two sections that touch nothing in common).
TokenError(r, kind, next) ==
  /\ pc[r] = "token"
  /\ kind \in Events
  /\ Drop(r)
  /\ affinity' = Unbound(r)
  /\ Go(r, next)
  /\ UNCHANGED <<status, failures, refreshFailures, waiting, limit, priority, mode,
                 currentId, cred, waitOn, polls, budget, adminVars, history>>

RefreshFails(r)   == TokenError(r, "refresh", "refreshErr")
RefreshRejects(r) == TokenError(r, "invalid", "invalidErr")

\* The enabled credential c is switched off for the reason why.
SwitchOff(c, why) ==
  /\ status' = [status EXCEPT ![c] = why]
  /\ currentId' \in Successors(Enabled \ {c})

\* The part every report has in common when it finds the credential of r gone or
\* already disabled: nothing is written, the early return also skips the purge.
IgnoredReport(r) == /\ cred[r] \notin Enabled
                    /\ UNCHANGED <<status, failures, refreshFailures, currentId>>

ReportRefreshFailure(r) ==
  /\ pc[r] = "refreshErr"
  /\ budget' = [budget EXCEPT ![r] = @ - 1]
  /\ \/ /\ IgnoredReport(r)
        /\ Go(r, IF Enabled = {} THEN "failed" ELSE "attempt")
     \/ LET c == cred[r] IN
        /\ c \in Enabled
        /\ refreshFailures' = [refreshFailures EXCEPT ![c] = @ + 1]
        /\ IF refreshFailures[c] + 1 < MaxFailures
             THEN UNCHANGED <<status, currentId>>
             ELSE SwitchOff(c, "TooManyRefreshFailures")
        /\ Go(r, IF Enabled' = {} THEN "purgeFail" ELSE "purgeRetry")
        /\ UNCHANGED failures
  /\ UNCHANGED <<active, waiting, limit, priority, mode, affinity, cred, guard, waitOn,
                 polls, adminVars, history>>

ReportRefreshTokenInvalid(r) ==
  /\ pc[r] = "invalidErr"
  /\ budget' = [budget EXCEPT ![r] = @ - 1]
  /\ \/ /\ IgnoredReport(r)
        /\ Go(r, IF Enabled = {} THEN "failed" ELSE "attempt")
     \/ /\ cred[r] \in Enabled
        /\ SwitchOff(cred[r], "InvalidRefreshToken")
        /\ Go(r, IF Enabled' = {} THEN "purgeFail" ELSE "purgeRetry")
        /\ UNCHANGED <<failures, refreshFailures>>
  /\ UNCHANGED <<active, waiting, limit, priority, mode, affinity, cred, guard, waitOn,
                 polls, adminVars, history>>

\* clear_session_affinity_for_credential, the last section of every report.
Purge(r) ==
  /\ pc[r] \in DOMAIN AfterPurge
  /\ affinity' = Unlinked(cred[r])
  /\ Go(r, AfterPurge[pc[r]])
  /\ UNCHANGED <<entryVars, mode, currentId, cred, guard, waitOn, polls, budget,
                 adminVars, history>>

-----------------------------------------------------------------------------
(* What the upstream call makes of the context, and the end of the guard *)

\* 2xx: report_success, and the body is streamed with the guard held.
CallSucceeds(r) ==
  /\ pc[r] = "serving"
  /\ "ok" \in Events
  /\ failures' = [failures EXCEPT ![cred[r]] = 0]
  /\ refreshFailures' = [refreshFailures EXCEPT ![cred[r]] = 0]
  /\ Go(r, "streaming")
  /\ UNCHANGED <<status, active, waiting, limit, priority, routeVars, cred, guard,
                 waitOn, polls, budget, adminVars, history>>

\* 401, 403 or an unknown endpoint: report_failure.
CallRejected(r) ==
  /\ pc[r] = "serving"
  /\ "auth" \in Events
  /\ \/ /\ IgnoredReport(r)
        /\ Go(r, "release")
     \/ LET c == cred[r] IN
        /\ c \in Enabled
        /\ failures' = [failures EXCEPT ![c] = @ + 1]
        /\ IF failures[c] + 1 >= MaxFailures THEN SwitchOff(c, "TooManyFailures")
                                             ELSE UNCHANGED <<status, currentId>>
        /\ Go(r, "purgeServed")
        /\ UNCHANGED refreshFailures
  /\ UNCHANGED <<active, waiting, limit, priority, mode, affinity, cred, guard, waitOn,
                 polls, budget, adminVars, history>>

\* 401 or 403 for a token gone stale that force_refresh_token_for replaces.
CallTokenReplaced(r) ==
  /\ pc[r] = "serving"
  /\ "auth" \in Events
  /\ refreshFailures' = [refreshFailures EXCEPT ![cred[r]] = 0]
  /\ Go(r, "release")
  /\ UNCHANGED <<status, failures, active, waiting, limit, priority, routeVars, cred,
                 guard, waitOn, polls, budget, adminVars, history>>

\* 402 with the monthly limit used up: report_quota_exhausted.
CallOutOfQuota(r) ==
  /\ pc[r] = "serving"
  /\ "quota" \in Events
  /\ \/ /\ IgnoredReport(r)
        /\ Go(r, "release")
     \/ /\ cred[r] \in Enabled
        /\ failures' = [failures EXCEPT ![cred[r]] = MaxFailures]
        /\ SwitchOff(cred[r], "QuotaExceeded")
        /\ Go(r, "purgeServed")
        /\ UNCHANGED refreshFailures
  /\ UNCHANGED <<active, waiting, limit, priority, mode, affinity, cred, guard, waitOn,
                 polls, budget, adminVars, history>>

\* 400, 408, 429, 5xx, a network error: nothing is reported.
CallFails(r) ==
  /\ pc[r] = "serving"
  /\ "other" \in Events
  /\ Go(r, "release")
  /\ UNCHANGED <<entryVars, routeVars, cred, guard, waitOn, polls, budget, adminVars,
                 history>>

\* The end of the stream or of the loop iteration drops the guard.
Release(r) ==
  /\ pc[r] \in {"streaming", "release"}
  /\ Drop(r)
  /\ Go(r, "done")
  /\ UNCHANGED <<status, failures, refreshFailures, waiting, limit, priority, routeVars,
                 cred, waitOn, polls, budget, adminVars, history>>

\* The client disconnects: the future is dropped at an await, its guard with it.
CancelHolder(r) ==
  /\ pc[r] \in {"token", "serving", "streaming"}
  /\ "cancel" \in Events
  /\ Drop(r)
  /\ Go(r, "gone")
  /\ UNCHANGED <<status, failures, refreshFailures, waiting, limit, priority, routeVars,
                 cred, waitOn, polls, budget, adminVars, history>>

\* ... or in the sleep of a wait loop, where no guard exists yet and nothing undoes
\* adjust_waiting(_, true).
CancelWaiter(r) ==
  /\ \/ pc[r] = "sticky" /\ polls[r] > 0
     \/ pc[r] = "best" /\ waitOn[r] # None
  /\ "cancel" \in Events
  /\ waitOn' = [waitOn EXCEPT ![r] = None]
  /\ Go(r, "gone")
  /\ UNCHANGED <<entryVars, routeVars, cred, guard, polls, budget, adminVars, history>>

\* An affinity entry outlives SESSION_AFFINITY_TTL: the next prune drops it.
AffinityExpires(s) ==
  /\ affinity[s] # None
  /\ affinity' = [affinity EXCEPT ![s] = None]
  /\ UNCHANGED <<entryVars, mode, currentId, reqVars, adminVars, history>>

-----------------------------------------------------------------------------
(* Admin operations.  `todo` lists the sections of the call that are left.  *)

Begin(op, sections, c) ==
  /\ todo = <<>>
  /\ op \in AdminOps
  /\ adminOps < MaxAdminOps
  /\ adminOps' = adminOps + 1
  /\ todo' = sections
  /\ target' = c

Continue(section) ==
  /\ todo # <<>>
  /\ Head(todo) = section
  /\ todo' = Tail(todo)
  /\ UNCHANGED <<target, adminOps, history, reqVars>>

\* AdminService::set_disabled(c, true) looks at current_id first: only if c is the
\* current credential will it call switch_to_next at the end.
StartDisable(c) ==
  /\ c \in Present
  /\ Begin("disable", IF c = currentId THEN <<"disable", "purge", "switch">>
                      ELSE <<"disable", "purge">>, c)
  /\ UNCHANGED <<entryVars, routeVars, reqVars, history>>

AdminDisable ==
  /\ Continue("disable")
  /\ target \in Present
  /\ status' = [status EXCEPT ![target] = "Manual"]
  /\ UNCHANGED <<failures, refreshFailures, active, waiting, limit, priority, routeVars>>

AdminPurge ==
  /\ Continue("purge")
  /\ affinity' = Unlinked(target)
  /\ UNCHANGED <<entryVars, mode, currentId>>

\* switch_to_next: the best of the others, if there is one.  It is not reached when
\* the credentials file could not be written.
AdminSwitch ==
  /\ Continue("switch")
  /\ currentId' \in {currentId} \cup Successors(Enabled \ {currentId})
  /\ UNCHANGED <<entryVars, mode, affinity>>

\* select_highest_priority
AdminSelect ==
  /\ Continue("select")
  /\ currentId' \in Successors(Enabled)
  /\ UNCHANGED <<entryVars, mode, affinity>>

\* An empty pool has current_id 0.
AdminZero ==
  /\ Continue("zero")
  /\ currentId' = IF Present = {} THEN None ELSE currentId
  /\ UNCHANGED <<entryVars, mode, affinity>>

SwitchOn(c) ==
  /\ status' = [status EXCEPT ![c] = "Enabled"]
  /\ failures' = [failures EXCEPT ![c] = 0]
  /\ refreshFailures' = [refreshFailures EXCEPT ![c] = 0]
  /\ UNCHANGED <<active, waiting, limit, priority, routeVars, reqVars, history>>

\* set_disabled(c, false)
AdminEnable(c) ==
  /\ c \in Present
  /\ Begin("enable", <<>>, c)
  /\ SwitchOn(c)

\* reset_and_enable refuses a credential whose configuration is invalid.
AdminReset(c) ==
  /\ c \in Present
  /\ status[c] # "InvalidConfig"
  /\ Begin("reset", <<>>, c)
  /\ SwitchOn(c)

AdminSetPriority(c, p) ==
  /\ c \in Present
  /\ Begin("priority", <<"select">>, c)
  /\ priority' = [priority EXCEPT ![c] = p]
  /\ UNCHANGED <<status, failures, refreshFailures, active, waiting, limit, routeVars,
                 reqVars, history>>

\* force_refresh_token_for, once the new token is there.
AdminRefresh(c) ==
  /\ c \in Present
  /\ Begin("refresh", <<>>, c)
  /\ refreshFailures' = [refreshFailures EXCEPT ![c] = 0]
  /\ UNCHANGED <<status, failures, active, waiting, limit, priority, routeVars, reqVars,
                 history>>

\* set_max_concurrency (one id) and set_max_concurrency_batch (several).
AdminSetLimit(S, m) ==
  /\ Begin("limit", <<>>, None)
  /\ limit' = [c \in Id |-> IF c \in S THEN m ELSE limit[c]]
  /\ UNCHANGED <<status, failures, refreshFailures, active, waiting, priority, routeVars,
                 reqVars, history>>

\* The requests that refer to the credential with id c by a guard or a wait_target.
Holders(c) == {r \in Request : guard[r] = c}
Waiters(c) == {r \in Request : waitOn[r] = c}

\* add_credential: the id is one more than the largest in use, so that it may have
\* belonged to a deleted credential.  current_id is not touched.
AddCredential(m, p) ==
  \E c \in Id :
    /\ c - 1 = (IF Present = {} THEN 0 ELSE CHOOSE d \in Present : \A e \in Present : e <= d)
    /\ Begin("add", <<>>, c)
    /\ status' = [status EXCEPT ![c] = "Enabled"]
    /\ failures' = [failures EXCEPT ![c] = 0]
    /\ refreshFailures' = [refreshFailures EXCEPT ![c] = 0]
    /\ active' = [active EXCEPT ![c] = 0]
    /\ waiting' = [waiting EXCEPT ![c] = 0]
    /\ limit' = [limit EXCEPT ![c] = m]
    /\ priority' = [priority EXCEPT ![c] = p]
    /\ recycled' = IF Holders(c) \cup Waiters(c) = {} THEN recycled ELSE recycled \cup {c}
    /\ UNCHANGED <<routeVars, reqVars, stale>>

\* delete_credential: only a disabled one; what still refers to it is not told.
DeleteCredential(c) ==
  /\ c \in Present \ Enabled
  /\ Begin("delete", IF c = currentId THEN <<"select", "purge", "zero">>
                     ELSE <<"purge", "zero">>, c)
  /\ status' = [status EXCEPT ![c] = "Absent"]
  /\ failures' = [failures EXCEPT ![c] = 0]
  /\ refreshFailures' = [refreshFailures EXCEPT ![c] = 0]
  /\ active' = [active EXCEPT ![c] = 0]
  /\ waiting' = [waiting EXCEPT ![c] = 0]
  /\ limit' = [limit EXCEPT ![c] = 0]
  /\ priority' = [priority EXCEPT ![c] = 0]
  /\ stale' = stale \cup Holders(c)
  /\ UNCHANGED <<routeVars, reqVars, recycled>>

OtherMode == IF mode = "balanced" THEN "priority" ELSE "balanced"

\* set_load_balancing_mode: the new mode is in force before it is saved ...
AdminSetMode ==
  /\ Begin("mode", <<"clear", "persist">>, None)
  /\ mode' = OtherMode
  /\ UNCHANGED <<entryVars, currentId, affinity, reqVars, history>>

AdminClearAffinity ==
  /\ Continue("clear")
  /\ affinity' = [s \in Session |-> None]
  /\ UNCHANGED <<entryVars, mode, currentId>>

\* ... and is taken back when config.json cannot be written.
AdminPersistMode ==
  /\ Continue("persist")
  /\ mode' \in {mode, OtherMode}
  /\ UNCHANGED <<entryVars, currentId, affinity>>

-----------------------------------------------------------------------------

\* What the program does for r by itself, the upstream answering included.
RequestStep(r) ==
  \/ Arrive(r) \/ Attempt(r) \/ LookupAffinity(r) \/ TryBound(r)
  \/ StickyGate(r) \/ StickyEnqueue(r) \/ StickyPoll(r) \/ LeaveWait(r) \/ Forget(r)
  \/ ReadMode(r) \/ Reserve(r) \/ Wait(r) \/ Settle(r) \/ Point(r) \/ Autoheal(r)
  \/ TokenOk(r) \/ RefreshFails(r) \/ RefreshRejects(r) \/ Remember(r) \/ Bind(r)
  \/ ReportRefreshFailure(r) \/ ReportRefreshTokenInvalid(r) \/ Purge(r)
  \/ CallSucceeds(r) \/ CallRejected(r) \/ CallTokenReplaced(r) \/ CallOutOfQuota(r)
  \/ CallFails(r) \/ Release(r)

AdminStep == \/ AdminDisable \/ AdminPurge \/ AdminSwitch \/ AdminSelect \/ AdminZero
             \/ AdminClearAffinity \/ AdminPersistMode

AdminCall ==
  \/ \E c \in Id : \/ StartDisable(c) \/ AdminEnable(c) \/ AdminReset(c)
                   \/ AdminRefresh(c) \/ DeleteCredential(c)
                   \/ \E p \in Priorities : AdminSetPriority(c, p)
  \/ \E S \in SUBSET Present, m \in Limits : AdminSetLimit(S, m)
  \/ \E m \in Limits, p \in Priorities : AddCredential(m, p)
  \/ AdminSetMode

Next == \/ \E r \in Request : RequestStep(r) \/ CancelHolder(r) \/ CancelWaiter(r)
        \/ \E s \in Session : AffinityExpires(s)
        \/ AdminStep
        \/ AdminCall

Spec == Init /\ [][Next]_vars

\* The executor polls every task that can go on, and the HTTP client bounds every
\* await by its timeouts; clients, administrators and the TTL owe nothing.
FairSpec == Spec /\ \A r \in Request : WF_vars(RequestStep(r))

-----------------------------------------------------------------------------
(* Properties *)

\* Types of all the state.
TypeOK ==
  /\ status \in [Id -> Status]
  /\ failures \in [Id -> Nat]
  /\ refreshFailures \in [Id -> Nat]
  /\ active \in [Id -> Nat]
  /\ waiting \in [Id -> Nat]
  /\ limit \in [Id -> Nat]
  /\ priority \in [Id -> Nat]
  /\ mode \in Modes
  /\ currentId \in Id \cup {None}
  /\ affinity \in [Session -> Id \cup {None}]
  /\ pc \in [Request -> PC]
  /\ cred \in [Request -> Id \cup {None}]
  /\ guard \in [Request -> Id \cup {None}]
  /\ waitOn \in [Request -> Id \cup {None}]
  /\ polls \in [Request -> Nat]
  /\ budget \in [Request -> Int]
  /\ todo \in Seq(Todo)
  /\ target \in Id \cup {None}
  /\ adminOps \in Nat
  /\ recycled \in SUBSET Id
  /\ stale \in SUBSET Request

\* No slot leaks and none is given back twice: `active` of a credential never
\* exceeds the number of live guards on its id, and equals it unless the id was
\* handed to a new credential under the feet of a request (reserve_best,
\* reserve_one, ConcurrencyGuard::drop, every early return and every disconnect).
SlotsMatchGuards ==
  \A c \in Id :
    /\ active[c] <= Cardinality(Holders(c))
    /\ c \in Present \ recycled => active[c] = Cardinality(Holders(c))

\* What ties a request's next section to what it owns: a guard exactly from the
\* reservation to the release, a wait_target only within a wait loop, and affinity
\* sections only with a session key.  SlotsMatchGuards and WaitersAreCounted are not
\* inductive without it.
Queued == {"sticky", "stickyOk", "stickyOff", "best", "full", "giveUp", "empty", "reserved"}
          \cup Modes
OwnershipInv ==
  \A r \in Request :
    /\ guard[r] # None <=> pc[r] \in Holding
    /\ waitOn[r] # None => pc[r] \in Queued
    /\ pc[r] \in {"lookup", "remember", "bind"} => HasKey(r)

\* Whoever waits is counted: the number wait_for_sticky's gate reads is never below
\* the number of requests waiting for that credential, so the gate is never opened
\* by a lost increment or a double decrement.
WaitersAreCounted ==
  \A c \in Present \ recycled : Cardinality(Waiters(c)) <= waiting[c]

\* An enabled credential is below both thresholds: no path that switches a
\* credential on (self-healing, set_disabled, reset_and_enable) leaves it one error
\* away from, or past, being switched off for what happened before. Of the two
\* counters the refresh one moves only where a refresh can fail ("refresh" in Events).
EnabledBelowThreshold ==
  \A c \in Enabled : failures[c] < MaxFailures /\ refreshFailures[c] < MaxFailures

\* The hard limit is respected at admission: a slot of c is taken only while fewer
\* than max_concurrency requests hold one (or there is no limit).
LiveHolders(c) == Holders(c) \ stale
AdmitsWithinLimit(c) == \/ LiveHolders(c)' \subseteq LiveHolders(c)
                        \/ limit[c] = 0
                        \/ Cardinality(LiveHolders(c)) < limit[c]
HardLimit == [][\A c \in Id \ recycled : AdmitsWithinLimit(c)]_vars

\* Self-healing touches only credentials switched off by consecutive failures:
\* any other reason stays until an administrator acts.
OnlyAdminReenables ==
  [][\A c \in Id : status[c] \in Disabled \ {"TooManyFailures"} /\ status'[c] = "Enabled"
                     => adminOps' = adminOps + 1]_vars

\* Every request comes to an end: it is served, refused, or its client has left.
RequestsEnd == \A r \in Request : <>(pc[r] \in Final)

\* The pool implements the promise of ConcurrencySlots.
Slots == INSTANCE ConcurrencySlots WITH Credential <- Id, held <- guard, cap <- limit
RefinesSlots == Slots!Spec

\* Stated of the program and not true of it (see the README):
\* `waiting` is the number of requests now waiting for the credential.
WaitingIsExact == \A c \in Present \ recycled : waiting[c] = Cardinality(Waiters(c))
=============================================================================

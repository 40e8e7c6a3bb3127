--------------------------- MODULE RequestLimiter ---------------------------
(***************************************************************************)
(* Requests to one domain: AsyncHttpClient.request with its retries, and   *)
(* the domain's state in AsyncRateLimiter (permits, spacing, block after   *)
(* 429, daily budget), on one event loop.                                  *)
(*                                                                         *)
(* A request that waits for its permit or for its answer does so through a *)
(* task of its own (acquire_task, request_task).  The search may cancel    *)
(* the request's task at any await (provider timeout, end of the run); the *)
(* inner task is not cancelled with it.  The lock of the domain is never   *)
(* held across an await, so a step never waits for it.                     *)
(***************************************************************************)
EXTENDS Integers, FiniteSets

CONSTANTS
  Requests,       \* concurrent requests to the domain
  MaxConcurrent,  \* policy.max_concurrent
  Interval,       \* policy.effective_interval_seconds, in ticks
  DailyLimit,     \* policy.daily_limit
  MaxAttempts,    \* retry_policy.max_attempts
  MaxDelay        \* bound: longest Retry-After or backoff, in ticks

ASSUME LimiterAssumption ==
  /\ IsFiniteSet(Requests)
  /\ MaxConcurrent \in Nat \ {0}
  /\ Interval \in Nat \ {0}
  /\ DailyLimit \in Nat \ {0}
  /\ MaxAttempts \in Nat \ {0}
  /\ MaxDelay \in Nat

VARIABLES
  pc,        \* where the request is suspended, or how it ended
  acquire,   \* its acquire_task: not running, waiting, holding a permit
  wire,      \* requests whose HTTP exchange (request_task) is running
  timer,     \* ticks the request still sleeps
  attempt,   \* attempt number of the request
  permits,   \* free permits of the domain's semaphore
  spacing,   \* ticks until Interval has passed since last_started_at
  blocked,   \* ticks until blocked_until
  count,     \* request_count_today
  counted,   \* count belongs to the present day (state.day = today)
  token,     \* the run's cancellation token is set
  sent,      \* history: requests started since the day began
  asked      \* history: ticks of silence each request's 429 still asks for

domain   == <<permits, spacing, blocked, count, counted>>
history  == <<sent, asked>>
vars == <<pc, acquire, wire, timer, attempt, permits, spacing, blocked, count,
          counted, token, sent, asked>>

Ended   == {"done", "failed", "cancelled", "abandoned"}
Holding == {"sleeping", "sending"}      \* inside limit(), after the acquisition

TypeOK ==
  /\ pc \in [Requests -> {"idle", "acquiring", "backoff"} \union Holding \union Ended]
  /\ acquire \in [Requests -> {"none", "waiting", "holds"}]
  /\ wire \subseteq Requests
  /\ timer \in [Requests -> 0 .. (Interval + MaxDelay)]
  /\ attempt \in [Requests -> 1 .. MaxAttempts]
  /\ permits \in 0 .. MaxConcurrent
  /\ spacing \in 0 .. Interval
  /\ blocked \in 0 .. MaxDelay
  /\ count \in 0 .. DailyLimit
  /\ counted \in BOOLEAN
  /\ token \in BOOLEAN
  /\ sent \in Nat
  /\ asked \in [Requests -> 0 .. MaxDelay]

Init ==
  /\ pc = [r \in Requests |-> "idle"]
  /\ acquire = [r \in Requests |-> "none"]
  /\ wire = {}
  /\ timer = [r \in Requests |-> 0]
  /\ attempt = [r \in Requests |-> 1]
  /\ permits = MaxConcurrent
  /\ spacing = 0
  /\ blocked = 0
  /\ count = 0
  /\ counted = TRUE
  /\ token = FALSE
  /\ sent = 0
  /\ asked = [r \in Requests |-> 0]

Go(r, place) == pc' = [pc EXCEPT ![r] = place]

\* Mutant: limit() without its finally clause.
Release_Never == UNCHANGED permits

Release == permits' = permits + 1

----------------------------------------------------------------------------
(* Entering limit(): the permit.                                           *)

\* request() and each of its retries: a set token ends it, otherwise the
\* acquire_task is created.
Enter(r) ==
  IF token
  THEN Go(r, "cancelled") /\ UNCHANGED acquire
  ELSE Go(r, "acquiring") /\ acquire' = [acquire EXCEPT ![r] = "waiting"]

Open(r) ==
  /\ pc[r] = "idle"
  /\ Enter(r)
  /\ UNCHANGED <<wire, timer, attempt, domain, token, history>>

\* acquire_task gets a permit, whether or not anybody still waits for it.
Acquired(r) ==
  /\ acquire[r] = "waiting" /\ permits > 0
  /\ acquire' = [acquire EXCEPT ![r] = "holds"]
  /\ permits' = permits - 1
  /\ UNCHANGED <<pc, wire, timer, attempt, spacing, blocked, count, counted,
                 token, history>>

\* Mutant: a permit granted while the request is being cancelled is kept.
AcquireCancelled_Keep(r) ==
  /\ pc[r] = "acquiring" /\ token
  /\ Go(r, "cancelled")
  /\ acquire' = [acquire EXCEPT ![r] = "none"]
  /\ UNCHANGED <<wire, timer, attempt, domain, token, history>>

\* The token wins the wait: a permit already granted is given back, a pending
\* acquire_task is cancelled.
AcquireCancelled(r) ==
  /\ pc[r] = "acquiring" /\ token
  /\ Go(r, "cancelled")
  /\ acquire' = [acquire EXCEPT ![r] = "none"]
  /\ IF acquire[r] = "holds" THEN Release ELSE UNCHANGED permits
  /\ UNCHANGED <<wire, timer, attempt, spacing, blocked, count, counted, token,
                 history>>

----------------------------------------------------------------------------
(* _wait_for_start.                                                        *)

\* _roll_day: the counter starts again when the date has changed.
RolledCount == IF counted THEN count ELSE 0

Later(m, n) == IF m > n THEN m ELSE n

StartDelay == Later(blocked, spacing)

\* One round of the loop, in the domain's lock: refuse (token, daily limit),
\* start now, or sleep until the start is allowed and look again.
TryStart(r) ==
  \/ /\ token
     /\ Go(r, "cancelled")
     /\ Release
     /\ UNCHANGED <<wire, timer, spacing, blocked, count, counted, sent>>
  \/ /\ ~token /\ RolledCount >= DailyLimit
     /\ Go(r, "failed")
     /\ Release
     /\ count' = RolledCount /\ counted' = TRUE
     /\ UNCHANGED <<wire, timer, spacing, blocked, sent>>
  \/ /\ ~token /\ RolledCount < DailyLimit /\ StartDelay = 0
     /\ Go(r, "sending")
     /\ wire' = wire \union {r}
     /\ spacing' = Interval
     /\ count' = RolledCount + 1 /\ counted' = TRUE
     /\ sent' = sent + 1
     /\ UNCHANGED <<timer, permits, blocked>>
  \/ /\ ~token /\ RolledCount < DailyLimit /\ StartDelay > 0
     /\ Go(r, "sleeping")
     /\ timer' = [timer EXCEPT ![r] = StartDelay]
     /\ count' = RolledCount /\ counted' = TRUE
     /\ UNCHANGED <<wire, permits, spacing, blocked, sent>>

Granted(r) ==
  /\ pc[r] = "acquiring" /\ acquire[r] = "holds"
  /\ acquire' = [acquire EXCEPT ![r] = "none"]
  /\ TryStart(r)
  /\ UNCHANGED <<attempt, token, asked>>

\* Mutant: a request that slept starts without looking again.
Wake_NoRecheck(r) ==
  /\ pc[r] = "sleeping" /\ timer[r] = 0
  /\ Go(r, "sending")
  /\ wire' = wire \union {r}
  /\ spacing' = Interval /\ count' = RolledCount + 1 /\ counted' = TRUE
  /\ sent' = sent + 1
  /\ UNCHANGED <<acquire, timer, attempt, permits, blocked, token, asked>>

\* The sleep ends, or is cut short by the token.
Wake(r) ==
  /\ pc[r] = "sleeping" /\ (timer[r] = 0 \/ token)
  /\ TryStart(r)
  /\ UNCHANGED <<acquire, attempt, token, asked>>

----------------------------------------------------------------------------
(* The exchange and the retries.                                           *)

\* The exchange is over; leaving limit() releases the permit.
Leave(r) == wire' = wire \ {r} /\ Release

\* An answer that is not retried: success, a status or transport error that is
\* not transient or was the last attempt, a response that is too large.
Answer(r) ==
  /\ pc[r] = "sending"
  /\ \E end \in {"done", "failed"} : Go(r, end)
  /\ Leave(r)
  /\ UNCHANGED <<acquire, timer, attempt, spacing, blocked, count, counted,
                 token, history>>

Backoff(r, delay) ==
  /\ Go(r, "backoff")
  /\ timer' = [timer EXCEPT ![r] = delay]

\* 5xx, or a transient transport error, with an attempt left.
Retry(r) ==
  /\ pc[r] = "sending" /\ attempt[r] < MaxAttempts
  /\ \E delay \in 0 .. MaxDelay : Backoff(r, delay)
  /\ Leave(r)
  /\ UNCHANGED <<acquire, attempt, spacing, blocked, count, counted, token,
                 history>>

\* Mutant: a shorter Retry-After ends a longer block.
Blocked_Overwrite(delay) == delay

\* block: a block is never shortened.
Blocked(delay) == Later(blocked, delay)

\* 429 with an attempt left: the whole domain is blocked for the same delay.
TooMany(r) ==
  /\ pc[r] = "sending" /\ attempt[r] < MaxAttempts
  /\ \E delay \in 0 .. MaxDelay :
       /\ Backoff(r, delay)
       /\ blocked' = Blocked(delay)
       /\ asked' = [asked EXCEPT ![r] = delay]
  /\ Leave(r)
  /\ UNCHANGED <<acquire, attempt, spacing, count, counted, token, sent>>

\* The next attempt, with a permit and a start of its own.
NextAttempt(r) ==
  /\ pc[r] = "backoff" /\ timer[r] = 0
  /\ attempt' = [attempt EXCEPT ![r] = @ + 1]
  /\ Enter(r)
  /\ UNCHANGED <<wire, timer, domain, token, history>>

\* The token interrupts an exchange (and its request_task) or a backoff.
Interrupted(r) ==
  /\ token
  /\ Go(r, "cancelled")
  /\ \/ pc[r] = "sending" /\ Leave(r)
     \/ pc[r] = "backoff" /\ UNCHANGED <<wire, permits>>
  /\ UNCHANGED <<acquire, timer, attempt, spacing, blocked, count, counted,
                 token, history>>

\* The task of the request is cancelled at its await.  limit() gives its permit
\* back; the inner task lives on.
Abandon(r) ==
  /\ pc[r] \notin Ended \union {"idle"}
  /\ Go(r, "abandoned")
  /\ IF pc[r] \in Holding THEN Release ELSE UNCHANGED permits
  /\ UNCHANGED <<acquire, wire, timer, attempt, spacing, blocked, count, counted,
                 token, history>>

\* The exchange of an abandoned request ends by itself.
ExchangeEnds(r) ==
  /\ pc[r] = "abandoned" /\ r \in wire
  /\ wire' = wire \ {r}
  /\ UNCHANGED <<pc, acquire, timer, attempt, domain, token, history>>

----------------------------------------------------------------------------
CancelRun ==
  /\ ~token
  /\ token' = TRUE
  /\ UNCHANGED <<pc, acquire, wire, timer, attempt, domain, history>>

CountDown(n) == IF n > 0 THEN n - 1 ELSE 0

Tick ==
  /\ spacing' = CountDown(spacing)
  /\ blocked' = CountDown(blocked)
  /\ timer' = [r \in Requests |-> CountDown(timer[r])]
  /\ asked' = [r \in Requests |-> CountDown(asked[r])]
  /\ UNCHANGED <<pc, acquire, wire, attempt, permits, count, counted, token, sent>>

\* The local date changes; that of a day without a start changes nothing.
Midnight ==
  /\ counted /\ count > 0
  /\ counted' = FALSE
  /\ sent' = 0
  /\ UNCHANGED <<pc, acquire, wire, timer, attempt, permits, spacing, blocked,
                 count, token, asked>>

Wait(r)   == Acquired(r) \/ AcquireCancelled(r) \/ Granted(r) \/ Wake(r)
Finish(r) == Answer(r) \/ Retry(r) \/ TooMany(r) \/ NextAttempt(r) \/ Interrupted(r)

Next ==
  \/ \E r \in Requests :
       Open(r) \/ Wait(r) \/ Finish(r) \/ Abandon(r) \/ ExchangeEnds(r)
  \/ CancelRun \/ Tick \/ Midnight

Spec == Init /\ [][Next]_vars

\* Time passes, the event loop runs every task that is ready, and an exchange
\* ends (httpx timeouts bound it).
FairSpec ==
  /\ Spec /\ WF_vars(Tick)
  /\ \A r \in Requests : WF_vars(Wait(r)) /\ WF_vars(Finish(r))

----------------------------------------------------------------------------
(* Properties.                                                             *)

\* Requests that have a permit: inside limit(), or held by the acquire_task.
Users == {r \in Requests : pc[r] \in Holding \/ acquire[r] = "holds"}

\* Every permit is free, with a request inside limit(), or with an acquire_task
\* (that of an abandoned request never gives it back): none is lost or released
\* twice on any way out of limit().
PermitsConserved == permits + Cardinality(Users) = MaxConcurrent

Starts(r) == pc[r] # "sending" /\ pc'[r] = "sending"

\* No request starts before Interval has passed since the last start, nor
\* while a 429 that some request is retrying still asks for silence, whatever
\* slept, was answered or came in meanwhile.
StartsSpaced ==
  [][\A r \in Requests :
       Starts(r) => spacing = 0 /\ \A other \in Requests : asked[other] = 0]_vars

\* No more than DailyLimit requests start in one day, also when requests sleep
\* across midnight.
DailyBudget == sent <= DailyLimit

\* A request ends, by itself, unless permits were lost to abandoned ones.
RequestEnds ==
  \A r \in Requests :
    (pc[r] # "idle") ~>
      (pc[r] \in Ended \/ \E s \in Requests : pc[s] = "abandoned" /\ acquire[s] = "holds")

\* AsyncRateLimiter: "Limit starts, concurrency, cooldowns and daily quotas by
\* domain": at most MaxConcurrent exchanges are under way.
ConcurrencyLimited == Cardinality(wire) <= MaxConcurrent
=============================================================================

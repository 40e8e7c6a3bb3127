--------------------------- MODULE CollectorEngine ---------------------------
(***************************************************************************)
(* One parallel search: AsyncProviderSearchEngine.search, its provider     *)
(* tasks and _SearchLifecycle, on one asyncio event loop.                  *)
(*                                                                         *)
(* A step runs from one suspension point (await) to the next.  The tasks   *)
(* share a semaphore, the cancellation token (set from the Qt thread at    *)
(* any moment) and the lifecycle, which publishes a snapshot with every    *)
(* change; publishing yields to the other tasks, so a run may become       *)
(* terminal between two steps of a task.                                   *)
(***************************************************************************)
EXTENDS Integers, FiniteSets

CONSTANTS
  Providers,      \* the selected providers
  Aggregators,    \* those whose items are discoveries: never in the deduplication
  MaxConcurrent,  \* max_concurrent_providers: permits of the semaphore
  MaxPages        \* bound: pages a provider may yield before its last one

ASSUME EngineAssumption ==
  /\ IsFiniteSet(Providers) /\ Aggregators \subseteq Providers
  /\ MaxConcurrent \in Nat \ {0}
  /\ MaxPages \in Nat

VARIABLES
  runState,   \* _SearchLifecycle.state
  snap,       \* _SearchLifecycle.provider_snapshots[p].state
  result,     \* items of executions[p].result; NoResult when it is None
  merged,     \* the providers whose items are in _SearchLifecycle.deduplication
  revision,   \* _SearchLifecycle.revision
  task,       \* where the provider task is suspended
  stored,     \* pages the task committed with save_accepted_page
  items,      \* len(accepted_items)
  permits,    \* free permits of the semaphore
  stop,       \* task.cancel() was called and not yet delivered
  token,      \* CollectorCancellationToken.is_cancelled
  main        \* where search() itself is suspended

vars == <<runState, snap, result, merged, revision, task, stored, items, permits,
          stop, token, main>>
lifecycle == <<runState, snap, result, merged, revision>>

NoResult == -1

Success    == {"success", "empty"}
Failure    == {"unsupported", "circuit_open", "not_configured", "failed",
               "timed_out", "cancelled", "skipped"}
Outcomes   == Success \union Failure
TerminalRun == {"completed", "partial", "failed", "timed_out", "cancelled"}

terminal == runState \in TerminalRun      \* ParallelSearchRunState.terminal

\* Between two awaits a task holds a permit while it is entering (mark_running
\* is publishing) or collecting pages.
Holding == {"entering", "collecting"}

TypeOK ==
  /\ runState \in {"running"} \union TerminalRun
  /\ snap \in [Providers -> {"queued", "running"} \union Outcomes]
  /\ result \in [Providers -> Nat \union {NoResult}]
  /\ merged \subseteq Providers
  /\ revision \in Nat \union {-1}
  /\ task \in [Providers -> {"new", "waiting", "entering", "collecting",
                             "accepting", "ended"}]
  /\ stored \in [Providers -> Nat]
  /\ items \in [Providers -> Nat]
  /\ permits \in 0 .. MaxConcurrent
  /\ stop \in [Providers -> BOOLEAN]
  /\ token \in BOOLEAN
  /\ main \in {"waiting", "finishing", "draining", "stopping", "closed"}

\* start() publishes one snapshot per queued provider, then the tasks are
\* created.  revision starts at -1, where it stays without providers.
Init ==
  /\ runState = "running"
  /\ snap = [p \in Providers |-> "queued"]
  /\ result = [p \in Providers |-> NoResult]
  /\ merged = {}
  /\ revision = Cardinality(Providers) - 1
  /\ task = [p \in Providers |-> "new"]
  /\ stored = [p \in Providers |-> 0]
  /\ items = [p \in Providers |-> 0]
  /\ permits = MaxConcurrent
  /\ stop = [p \in Providers |-> FALSE]
  /\ token = FALSE
  /\ main = "waiting"

----------------------------------------------------------------------------
(* _SearchLifecycle.                                                       *)

\* What _rebuild_partial merges: the items of every result on record.
Contributing == {p \in Providers \ Aggregators : result[p] > 0}

\* A recorded execution is published, and the task yields, once everything is
\* merged again.  Two listings of one tender that do not go together raise
\* instead, and so they do at every later attempt to merge the same items: the
\* outcome stays on record, the task ends with the error.
Record(p, status, kept) ==
  /\ snap' = [snap EXCEPT ![p] = status]
  /\ result' = [result EXCEPT ![p] = kept]
  /\ \/ /\ merged = Contributing \/ Contributing' # Contributing
        /\ merged' = Contributing'
        /\ revision' = revision + 1
        /\ task' = [task EXCEPT ![p] = "accepting"]
     \/ /\ merged # Contributing \/ Contributing' # Contributing
        /\ task' = [task EXCEPT ![p] = "ended"]
        /\ UNCHANGED <<merged, revision>>
  /\ UNCHANGED runState

\* Mutant: an execution is accepted in a terminal run.
Accept_Late(p, status, kept) ==
  IF snap[p] \in Outcomes /\ ~terminal
  THEN task' = [task EXCEPT ![p] = "ended"] /\ UNCHANGED lifecycle
  ELSE Record(p, status, kept)

\* accept: refused once the run or the provider is terminal.
Accept(p, status, kept) ==
  IF terminal \/ snap[p] \in Outcomes
  THEN task' = [task EXCEPT ![p] = "ended"] /\ UNCHANGED lifecycle
  ELSE Record(p, status, kept)

\* Mutant: providers that already have an outcome are overwritten as well.
Finish_Overwrite(state, providerState) ==
  /\ snap' = [p \in Providers |-> providerState]
  /\ result' = [p \in Providers |-> NoResult]
  /\ runState' = state
  /\ revision' = revision + 1
  /\ UNCHANGED merged

\* finish: every provider without an outcome gets the terminal one, with no
\* result; then the run becomes terminal and is published.
Finish(state, providerState) ==
  /\ snap' = [p \in Providers |->
       IF snap[p] \in Outcomes THEN snap[p] ELSE providerState]
  /\ result' = [p \in Providers |->
       IF snap[p] \in Outcomes THEN result[p] ELSE NoResult]
  /\ runState' = state
  /\ revision' = revision + 1
  /\ UNCHANGED merged

\* The state of a run whose tasks all returned.
NaturalState ==
  LET failures == {p \in Providers : snap[p] \notin Success}
  IN  CASE failures = {} -> "completed"
        [] failures # {} /\ merged # {} -> "partial"
        [] OTHER -> "failed"

----------------------------------------------------------------------------
(* One provider task: _execute_provider and _execute_provider_impl.        *)

Resumed(p) == ~stop[p]     \* no CancelledError is waiting for the task

\* No search capability, or can_execute is false: no permit is taken.
Refuse(p, status) ==
  /\ task[p] = "new" /\ Resumed(p)
  /\ Accept(p, status, NoResult)
  /\ UNCHANGED <<stored, items, permits, stop, token, main>>

\* throw_if_cancelled, before the semaphore.
RefuseCancelled(p) ==
  /\ task[p] = "new" /\ Resumed(p) /\ token
  /\ Accept(p, "cancelled", NoResult)
  /\ UNCHANGED <<stored, items, permits, stop, token, main>>

\* No permit is free: wait in semaphore.acquire.
Queue(p) ==
  /\ task[p] = "new" /\ Resumed(p) /\ ~token /\ permits = 0
  /\ task' = [task EXCEPT ![p] = "waiting"]
  /\ UNCHANGED <<lifecycle, stored, items, permits, stop, token, main>>

\* A permit is taken, the token is checked again and mark_running publishes
\* the provider as running: the task holds its permit while it yields.
Enter(p) ==
  /\ task[p] \in {"new", "waiting"} /\ Resumed(p) /\ permits > 0
  /\ ~token /\ ~terminal /\ snap[p] = "queued"
  /\ snap' = [snap EXCEPT ![p] = "running"]
  /\ revision' = revision + 1
  /\ permits' = permits - 1
  /\ task' = [task EXCEPT ![p] = "entering"]
  /\ UNCHANGED <<runState, result, merged, stored, items, stop, token, main>>

\* The token is set, or mark_running refuses a terminal run: the permit is
\* taken and given back within the step.
EnterRefused(p) ==
  /\ task[p] \in {"new", "waiting"} /\ Resumed(p) /\ permits > 0
  /\ token \/ terminal
  /\ Accept(p, "cancelled", NoResult)
  /\ UNCHANGED <<stored, items, permits, stop, token, main>>

\* Mutant: mark_running does not look at the run again after publishing.
Collect_Unchecked(p) ==
  /\ task[p] = "entering" /\ Resumed(p)
  /\ task' = [task EXCEPT ![p] = "collecting"]
  /\ UNCHANGED <<lifecycle, stored, items, permits, stop, token, main>>

\* mark_running has published: collect, unless the run became terminal.
Collect(p) ==
  /\ task[p] = "entering" /\ Resumed(p) /\ ~terminal
  /\ task' = [task EXCEPT ![p] = "collecting"]
  /\ UNCHANGED <<lifecycle, stored, items, permits, stop, token, main>>

\* A task that leaves the collection releases its permit and is accepted.
Leave(p, status, kept) ==
  /\ permits' = permits + 1
  /\ Accept(p, status, kept)

CollectRefused(p) ==
  /\ task[p] = "entering" /\ Resumed(p) /\ terminal
  /\ Leave(p, "cancelled", NoResult)
  /\ UNCHANGED <<stored, items, stop, token, main>>

\* The adapter yields a page with k items that is not the last one: the token
\* is checked before and after the contract checks, the page is committed.
Page(p, k) ==
  /\ task[p] = "collecting" /\ Resumed(p) /\ ~token
  /\ stored[p] < MaxPages
  /\ stored' = [stored EXCEPT ![p] = @ + 1]
  /\ items' = [items EXCEPT ![p] = @ + k]
  /\ UNCHANGED <<lifecycle, task, permits, stop, token, main>>

\* The terminal page: committed, then SUCCESS or EMPTY.
LastPage(p, k) ==
  /\ task[p] = "collecting" /\ Resumed(p) /\ ~token
  /\ stored' = [stored EXCEPT ![p] = @ + 1]
  /\ items' = [items EXCEPT ![p] = @ + k]
  /\ Leave(p, IF items[p] + k > 0 THEN "success" ELSE "empty", items[p] + k)
  /\ UNCHANGED <<stop, token, main>>

\* An error after some pages, a contract violation or an exhausted budget:
\* FAILED beside the items, or with no result when there are none.
Kept(p) == IF items[p] > 0 THEN items[p] ELSE NoResult

PageError(p) ==
  /\ task[p] = "collecting" /\ Resumed(p)
  /\ Leave(p, "failed", Kept(p))
  /\ UNCHANGED <<stored, items, stop, token, main>>

\* throw_if_cancelled inside the collection: CANCELLED beside the items.
SeeToken(p) ==
  /\ task[p] = "collecting" /\ Resumed(p) /\ token
  /\ Leave(p, "cancelled", Kept(p))
  /\ UNCHANGED <<stored, items, stop, token, main>>

\* NOT_CONFIGURED and UNSUPPORTED are raised before the first page.
Unfit(p, status) ==
  /\ task[p] = "collecting" /\ Resumed(p) /\ stored[p] = 0
  /\ Leave(p, status, NoResult)
  /\ UNCHANGED <<stored, items, stop, token, main>>

\* asyncio.timeout(provider_timeout) expires while the adapter is awaited.
Timeout(p) ==
  /\ task[p] = "collecting" /\ Resumed(p)
  /\ Leave(p, "timed_out", NoResult)
  /\ UNCHANGED <<stored, items, stop, token, main>>

\* Mutant: a cancelled collection keeps its permit.
Deliver_KeepPermit(p) ==
  /\ stop[p]
  /\ stop' = [stop EXCEPT ![p] = FALSE]
  /\ IF task[p] \in Holding \union {"waiting"}
     THEN Accept(p, "cancelled", NoResult)
     ELSE task' = [task EXCEPT ![p] = "ended"] /\ UNCHANGED lifecycle
  /\ UNCHANGED <<stored, items, permits, token, main>>

\* CancelledError is delivered where the task is suspended.  One that holds a
\* permit releases it; inside _execute_provider_impl it is turned into an
\* execution, which accept refuses because the run is terminal.
Deliver(p) ==
  /\ stop[p]
  /\ stop' = [stop EXCEPT ![p] = FALSE]
  /\ permits' = IF task[p] \in Holding THEN permits + 1 ELSE permits
  /\ IF task[p] \in Holding \union {"waiting"}
     THEN Accept(p, "cancelled", NoResult)
     ELSE task' = [task EXCEPT ![p] = "ended"] /\ UNCHANGED lifecycle
  /\ UNCHANGED <<stored, items, token, main>>

\* accept has published: the task returns its execution.
Return(p) ==
  /\ task[p] = "accepting" /\ Resumed(p)
  /\ task' = [task EXCEPT ![p] = "ended"]
  /\ UNCHANGED <<lifecycle, stored, items, permits, stop, token, main>>

----------------------------------------------------------------------------
(* search() itself, and the user.                                          *)

Cancel ==
  /\ ~token /\ main # "closed"
  /\ token' = TRUE
  /\ UNCHANGED <<lifecycle, task, stored, items, permits, stop, main>>

\* gather is done, the token is not set and the deadline has not passed.  The
\* executions are offered to accept once more, which refuses all of them.
Gathered ==
  /\ main = "waiting" /\ ~token
  /\ \A p \in Providers : task[p] = "ended"
  /\ Finish(NaturalState, "skipped")
  /\ main' = "closed"
  /\ UNCHANGED <<task, stored, items, permits, stop, token>>

\* wait_cancelled has polled the token.
StopCancelled ==
  /\ main = "waiting" /\ token
  /\ Finish("cancelled", "cancelled")
  /\ main' = "finishing"
  /\ UNCHANGED <<task, stored, items, permits, stop, token>>

\* The deadline task is done first.
Deadline ==
  /\ main = "waiting" /\ ~token
  /\ Finish("timed_out", "timed_out")
  /\ main' = "finishing"
  /\ UNCHANGED <<task, stored, items, permits, stop, token>>

\* The terminal snapshot is published; after a deadline the token is set now.
Drain ==
  /\ main = "finishing"
  /\ token' = TRUE
  /\ main' = "draining"
  /\ UNCHANGED <<lifecycle, task, stored, items, permits, stop>>

\* Mutant: the tasks are awaited without being cancelled.
CancelTasks_AwaitOnly ==
  /\ main = "draining"
  /\ main' = "stopping"
  /\ UNCHANGED <<lifecycle, task, stored, items, permits, stop, token>>

\* The polling tasks are gone; task.cancel() on every task not done.
CancelTasks ==
  /\ main = "draining"
  /\ stop' = [p \in Providers |-> task[p] # "ended"]
  /\ main' = "stopping"
  /\ UNCHANGED <<lifecycle, task, stored, items, permits, token>>

Close ==
  /\ main = "stopping"
  /\ \A p \in Providers : task[p] = "ended"
  /\ main' = "closed"
  /\ UNCHANGED <<lifecycle, task, stored, items, permits, stop, token>>

----------------------------------------------------------------------------
\* Steps of a task that depend on the adapter, on the network or on a timer.
AdapterStep(p) ==
  \/ \E k \in {0, 1} : Page(p, k) \/ LastPage(p, k)
  \/ PageError(p) \/ SeeToken(p) \/ Timeout(p)
  \/ \E s \in {"not_configured", "unsupported"} : Unfit(p, s)

\* Steps the event loop takes by itself.
LoopStep(p) ==
  \/ \E s \in {"unsupported", "circuit_open"} : Refuse(p, s)
  \/ RefuseCancelled(p) \/ Queue(p) \/ Enter(p) \/ EnterRefused(p)
  \/ Collect(p) \/ CollectRefused(p) \/ Deliver(p) \/ Return(p)

MainStep ==
  Gathered \/ StopCancelled \/ Deadline \/ Drain \/ CancelTasks \/ Close

Next ==
  \/ \E p \in Providers : AdapterStep(p) \/ LoopStep(p)
  \/ MainStep \/ Cancel

Spec == Init /\ [][Next]_vars

\* The loop runs what is ready, and timers fire.  Nothing is assumed of the
\* adapters: every one of them may hang for ever.
Fairness == WF_vars(MainStep) /\ \A p \in Providers : WF_vars(LoopStep(p))

FairSpec == Spec /\ Fairness

----------------------------------------------------------------------------
(* Properties.                                                             *)

\* A permit is given back on every way out of the collection, cancellation
\* included, and never twice: at most MaxConcurrent adapters are at work
\* (RM-138, "Parallelism and deadlines"; async with semaphore).
PermitsConserved ==
  permits + Cardinality({p \in Providers : task[p] \in Holding}) = MaxConcurrent

\* Nothing is published after the terminal snapshot, although tasks go on
\* until they are cancelled: late executions and late mark_running calls are
\* refused (RM-138, "Terminal states are final").
SilentAfterTerminal == [][terminal => UNCHANGED lifecycle]_vars

\* No provider starts collecting in a terminal run, although mark_running may
\* have been publishing when the run became terminal.
NoDispatchAfterTerminal ==
  [][terminal => \A p \in Providers :
       task'[p] = "collecting" => task[p] = "collecting"]_vars

\* The search returns even if every adapter hangs, and leaves no task behind.
SearchEnds == <>(main = "closed" /\ \A p \in Providers : task[p] = "ended")

\* The search implements its abstract description.
outcome == [p \in Providers |->
              IF snap[p] \in Outcomes THEN snap[p] ELSE "pending"]

Abstract == INSTANCE SearchRun WITH state <- runState, usable <- merged,
                                    Successful <- Success

ImplementsSearchRun == Abstract!Spec

\* "No provider result, partial item, counter change may be accepted after a
\* terminal snapshot": read on the durable side, no page is committed by a
\* task of a terminal run.
NoCommitAfterTerminal == [][terminal => stored' = stored]_vars
=============================================================================

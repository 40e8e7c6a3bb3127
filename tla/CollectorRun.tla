---------------------------- MODULE CollectorRun ----------------------------
(***************************************************************************)
(* Collection runs over the shared SQLite registry.                        *)
(*                                                                         *)
(* Several processes (a second window, a restarted application) collect    *)
(* the same query from the same providers into one database.  A run is     *)
(* CollectorService.collect around AsyncProviderSearchEngine.search; every *)
(* transaction of CollectorStateRepository is one atomic step, and a       *)
(* process may die between any two of them.                                *)
(*                                                                         *)
(*   durable   runStatus, lease, ttl, pages, checkpoint, outcomes,         *)
(*             registry: the SQLite tables                                 *)
(*   volatile  phase, token, verdict, task, base, got, outcome, kept,      *)
(*             merged: what the process holds in memory, lost in a crash   *)
(*                                                                         *)
(* One query scope is modelled: checkpoints of different fingerprints are  *)
(* different rows and never meet.  Page n of provider p carries one item,  *)
(* <<p, n>>; LastPage is its terminal page, whose next cursor is empty.    *)
(* Listings of one purchase can contradict each other so that merging them *)
(* raises (an earliest publication after the latest deadline): Unmergeable *)
(* is the family of the item sets the deduplication raises on.             *)
(* The search engine is seen here at the granularity of its pages; its     *)
(* tasks, semaphore and snapshots are module CollectorEngine.              *)
(***************************************************************************)
EXTENDS Integers, FiniteSets

CONSTANTS
  Runs,        \* run identities (uuid4 values): each is used at most once
  Providers,   \* the selected providers
  NoRun,       \* "no row" in collector_run_leases
  LastPage,    \* the terminal page of every provider
  PageBudget,  \* CollectorRunBudget.max_pages_per_provider
  LeaseTTL,    \* lease duration, in units of Tick (900 s in the code)
  Unmergeable  \* the item sets on which normalize_and_deduplicate raises

ASSUME NoRunAssumption == NoRun \notin Runs
ASSUME UnmergeableAssumption == {} \notin Unmergeable
ASSUME BoundsAssumption ==
  /\ LastPage \in Nat \ {0}
  /\ PageBudget \in Nat \ {0}
  /\ LeaseTTL \in Nat \ {0}

VARIABLES
  runStatus,   \* collector_runs.status
  lease,       \* collector_run_leases: the run that holds 'production'
  ttl,         \* what is left of the lease a run acquired (expires_at - now)
  pages,       \* collector_accepted_pages: <<run, provider, page>>
  checkpoint,  \* collector_checkpoints: last accepted page and page count
  outcomes,    \* collector_run_providers: the outcome a finished run recorded
  registry,    \* items that reached the tender registry
  phase,       \* where collect() of the run stands
  token,       \* CollectorCancellationToken.is_cancelled
  verdict,     \* which branch of search() ended the run
  task,        \* the provider task: queued, running or ended
  base,        \* the checkpoint the task resumed from
  got,         \* pages the task accepted so far (accepted_pages)
  outcome,     \* the provider outcome the lifecycle accepted
  kept,        \* items of the accepted executions (result is not None)
  merged       \* items in the lifecycle's deduplication, which is what is saved

durable  == <<runStatus, lease, ttl, pages, checkpoint, outcomes, registry>>
memory   == <<token, verdict, task, base, got, outcome, kept, merged>>
volatile == <<phase, memory>>
vars     == <<durable, volatile>>

PageNo       == 1 .. LastPage
Item         == Providers \X PageNo
TerminalRun  == {"completed", "partial", "failed", "timed_out", "cancelled"}
RunStatus    == {"none", "running"} \union TerminalRun
Outcome      == {"none", "success", "failed", "timed_out", "cancelled",
                 "circuit_open"}
CheckpointOf == [last : 0 .. LastPage, count : Nat]   \* last = 0: no row

NoCheckpoint == [last |-> 0, count |-> 0]

\* Mutant: a collection starts one page too far.
ResumePage_Ahead(cp) == IF cp.last = LastPage THEN 1 ELSE cp.last + 2

\* The page a collection that resumes at cp fetches first: an absent row and
\* the empty cursor of the terminal page both start from the first page.
ResumePage(cp) == IF cp.last = LastPage THEN 1 ELSE cp.last + 1

NextPage(r, p) == ResumePage(base[r][p]) + got[r][p]

\* The items a task holds in accepted_items.
Taken(r, p) ==
  {<<p, n>> : n \in ResumePage(base[r][p]) .. (NextPage(r, p) - 1)}

\* Mutants: an expired row still refuses the run; the row is dropped without
\* looking at its expiry.
LeaseFree_NoExpiry == lease = NoRun
LeaseFree_AnyRow == TRUE

\* start_run admits a run when no lease row exists or the row has expired.
LeaseFree == lease # NoRun => ttl[lease] = 0

Active == {"search", "stopping", "batch", "saved", "reporting"}

TypeOK ==
  /\ runStatus \in [Runs -> RunStatus]
  /\ lease \in Runs \union {NoRun}
  /\ ttl \in [Runs -> 0 .. LeaseTTL]
  /\ pages \subseteq Runs \X Providers \X PageNo
  /\ checkpoint \in [Providers -> CheckpointOf]
  /\ outcomes \in [Runs -> [Providers -> Outcome]]
  /\ registry \subseteq Item
  /\ phase \in [Runs -> {"idle", "done", "dead"} \union Active]
  /\ token \in [Runs -> BOOLEAN]
  /\ verdict \in [Runs -> {"none", "natural", "cancelled", "timed_out"}]
  /\ task \in [Runs -> [Providers -> {"queued", "running", "ended"}]]
  /\ base \in [Runs -> [Providers -> CheckpointOf]]
  /\ got \in [Runs -> [Providers -> Nat]]
  /\ outcome \in [Runs -> [Providers -> Outcome]]
  /\ kept \in [Runs -> SUBSET Item]
  /\ merged \in [Runs -> SUBSET Item]

Init ==
  /\ runStatus = [r \in Runs |-> "none"]
  /\ lease = NoRun
  /\ ttl = [r \in Runs |-> 0]
  /\ pages = {}
  /\ checkpoint = [p \in Providers |-> NoCheckpoint]
  /\ outcomes = [r \in Runs |-> [p \in Providers |-> "none"]]
  /\ registry = {}
  /\ phase = [r \in Runs |-> "idle"]
  /\ token = [r \in Runs |-> FALSE]
  /\ verdict = [r \in Runs |-> "none"]
  /\ task = [r \in Runs |-> [p \in Providers |-> "queued"]]
  /\ base = [r \in Runs |-> [p \in Providers |-> NoCheckpoint]]
  /\ got = [r \in Runs |-> [p \in Providers |-> 0]]
  /\ outcome = [r \in Runs |-> [p \in Providers |-> "none"]]
  /\ kept = [r \in Runs |-> {}]
  /\ merged = [r \in Runs |-> {}]

----------------------------------------------------------------------------
(* Admission and the end of a run: CollectorStateRepository.               *)

\* collect(): start_run checks the lease, drops an expired row, inserts the
\* run and the new lease in one transaction.  A refused start raises before
\* anything is written, so it is no step here.
StartRun(r) ==
  /\ runStatus[r] = "none"
  /\ LeaseFree
  /\ runStatus' = [runStatus EXCEPT ![r] = "running"]
  /\ lease' = r
  /\ ttl' = [ttl EXCEPT ![r] = LeaseTTL]
  /\ phase' = [phase EXCEPT ![r] = "search"]
  /\ UNCHANGED <<pages, checkpoint, outcomes, registry, memory>>

\* Mutant: the lease row is not deleted.
CompleteRun_KeepLease(r, status) ==
  /\ runStatus' = [runStatus EXCEPT ![r] = status]
  /\ lease' = lease

\* complete_run: the run row is rewritten whatever its status was, and the
\* lease row is deleted only if this run still owns it.
CompleteRun(r, status) ==
  /\ runStatus' = [runStatus EXCEPT ![r] = status]
  /\ lease' = IF lease = r THEN NoRun ELSE lease

\* search() returned, or the process is gone: the locals of the engine and of
\* its tasks are gone with it.
ForgetSearch(r) ==
  /\ token' = [token EXCEPT ![r] = FALSE]
  /\ task' = [task EXCEPT ![r] = [p \in Providers |-> "queued"]]
  /\ base' = [base EXCEPT ![r] = [p \in Providers |-> NoCheckpoint]]
  /\ got' = [got EXCEPT ![r] = [p \in Providers |-> 0]]

\* collect() returned, or the process is gone: so are its batch and outcomes.
ForgetBatch(r) ==
  /\ verdict' = [verdict EXCEPT ![r] = "none"]
  /\ outcome' = [outcome EXCEPT ![r] = [p \in Providers |-> "none"]]
  /\ kept' = [kept EXCEPT ![r] = {}]
  /\ merged' = [merged EXCEPT ![r] = {}]

Forget(r) == ForgetSearch(r) /\ ForgetBatch(r)

----------------------------------------------------------------------------
(* One provider task: _execute_provider_impl and _collect_provider_pages.  *)

\* _rebuild_partial: the deduplication is replaced by one of all the accepted
\* items, unless that raises; then the previous one stays.
Rebuild(r) ==
  merged' = IF kept'[r] \in Unmergeable THEN merged
            ELSE [merged EXCEPT ![r] = kept'[r]]

\* Mutant: a failed execution carries no result.
Accept_DropFailed(r, p, status, items) ==
  IF verdict[r] = "none" /\ outcome[r][p] = "none"
  THEN /\ outcome' = [outcome EXCEPT ![r][p] = status]
       /\ kept' = [kept EXCEPT ![r] = IF status = "failed" THEN @ ELSE @ \union items]
       /\ Rebuild(r)
  ELSE UNCHANGED <<outcome, kept, merged>>

\* _SearchLifecycle.accept: nothing is accepted once the run is terminal
\* (verdict set) or the provider already has an outcome.  The outcome and the
\* items are there before the merge: when it raises, the exception ends the
\* task, gather(return_exceptions=True) drops it, and they remain.
Accept(r, p, status, items) ==
  IF verdict[r] = "none" /\ outcome[r][p] = "none"
  THEN /\ outcome' = [outcome EXCEPT ![r][p] = status]
       /\ kept' = [kept EXCEPT ![r] = @ \union items]
       /\ Rebuild(r)
  ELSE UNCHANGED <<outcome, kept, merged>>

EndTask(r, p) == task' = [task EXCEPT ![r][p] = "ended"]

\* The circuit is open, or the adapter cannot search: no page is requested.
RefuseProvider(r, p) ==
  /\ phase[r] = "search" /\ task[r][p] = "queued"
  /\ EndTask(r, p)
  /\ Accept(r, p, "circuit_open", {})
  /\ UNCHANGED <<durable, phase, token, verdict, base, got>>

\* mark_running, then get_checkpoint for the query fingerprint.
OpenProvider(r, p) ==
  /\ phase[r] = "search" /\ task[r][p] = "queued" /\ ~token[r]
  /\ task' = [task EXCEPT ![r][p] = "running"]
  /\ base' = [base EXCEPT ![r][p] = checkpoint[p]]
  /\ UNCHANGED <<durable, phase, token, verdict, got, outcome, kept, merged>>

\* Mutant: the count starts again at zero in a resumed task.
NextCheckpoint_FreshCount(r, p) ==
  [last |-> NextPage(r, p), count |-> got[r][p] + 1]

\* The checkpoint the engine builds for the page: its own accepted pages are
\* added to the count of the checkpoint it resumed from.
NextCheckpoint(r, p) ==
  [last |-> NextPage(r, p), count |-> base[r][p].count + got[r][p] + 1]

\* save_accepted_page commits the page row and the checkpoint together; the
\* checkpoint row is overwritten without looking at its previous value.  The
\* terminal page ends the task with SUCCESS, an exhausted page budget ends it
\* with FAILED; both keep the items.  In phase "stopping" the engine has
\* published TIMED_OUT but not yet cancelled the tasks.
AcceptPage(r, p) ==
  LET n == NextPage(r, p) IN
  /\ phase[r] \in {"search", "stopping"}
  /\ task[r][p] = "running" /\ ~token[r]
  /\ pages' = pages \union {<<r, p, n>>}
  /\ checkpoint' = [checkpoint EXCEPT
       ![p] = NextCheckpoint(r, p)]
  /\ got' = [got EXCEPT ![r][p] = @ + 1]
  /\ \/ /\ n = LastPage
        /\ EndTask(r, p)
        /\ Accept(r, p, "success", Taken(r, p) \union {<<p, n>>})
     \/ /\ n # LastPage /\ got[r][p] + 1 = PageBudget
        /\ EndTask(r, p)
        /\ Accept(r, p, "failed", Taken(r, p) \union {<<p, n>>})
     \/ /\ n # LastPage /\ got[r][p] + 1 # PageBudget
        /\ UNCHANGED <<task, outcome, kept, merged>>
  /\ UNCHANGED <<runStatus, lease, ttl, outcomes, registry, phase, token,
                 verdict, base>>

\* The adapter raises, or yields a page that breaks the page contract: after
\* at least one accepted page the error is carried beside the items.
FailProvider(r, p) ==
  /\ phase[r] \in {"search", "stopping"} /\ task[r][p] = "running"
  /\ EndTask(r, p)
  /\ Accept(r, p, "failed", Taken(r, p))
  /\ UNCHANGED <<durable, phase, token, verdict, base, got>>

\* asyncio.timeout(provider_timeout) cancels the collection: CancelledError
\* passes the except clauses of _collect_provider_pages, so the pages are
\* dropped and the outcome is TIMED_OUT with no result.
TimeoutProvider(r, p) ==
  /\ phase[r] \in {"search", "stopping"} /\ task[r][p] = "running"
  /\ EndTask(r, p)
  /\ Accept(r, p, "timed_out", {})
  /\ UNCHANGED <<durable, phase, token, verdict, base, got>>

\* The task meets throw_if_cancelled before the engine has polled the token,
\* or mark_running refuses it because the run is terminal already:
\* CollectorCancelledError is carried beside the items.
CancelProvider(r, p) ==
  /\ phase[r] \in {"search", "stopping"}
  /\ \/ token[r] /\ task[r][p] \in {"queued", "running"}
     \/ phase[r] = "stopping" /\ task[r][p] = "queued"
  /\ EndTask(r, p)
  /\ Accept(r, p, "cancelled", Taken(r, p))
  /\ UNCHANGED <<durable, phase, token, verdict, base, got>>

----------------------------------------------------------------------------
(* The branches of AsyncProviderSearchEngine.search.                       *)

\* The user presses stop (Qt thread) while the engine is searching.
Cancel(r) ==
  /\ phase[r] = "search" /\ ~token[r]
  /\ token' = [token EXCEPT ![r] = TRUE]
  /\ UNCHANGED <<durable, phase, verdict, task, base, got, outcome, kept, merged>>

\* Every task returned, no cancellation, no deadline.
Gathered(r) ==
  /\ phase[r] = "search" /\ ~token[r]
  /\ \A p \in Providers : task[r][p] = "ended"
  /\ verdict' = [verdict EXCEPT ![r] = "natural"]
  /\ phase' = [phase EXCEPT ![r] = "batch"]
  /\ ForgetSearch(r)
  /\ UNCHANGED <<durable, outcome, kept, merged>>

\* Mutant: providers without an outcome are forgotten.
Finish_Open(r, v) ==
  /\ verdict' = [verdict EXCEPT ![r] = v]
  /\ phase' = [phase EXCEPT ![r] = "stopping"]
  /\ UNCHANGED <<durable, token, task, base, got, outcome, kept, merged>>

\* finish(CANCELLED) or finish(TIMED_OUT): providers without an outcome get
\* the terminal one with result None; what was accepted before is retained.
Finish(r, v) ==
  /\ verdict' = [verdict EXCEPT ![r] = v]
  /\ phase' = [phase EXCEPT ![r] = "stopping"]
  /\ outcome' = [outcome EXCEPT ![r] =
       [p \in Providers |-> IF @[p] = "none" THEN v ELSE @[p]]]
  /\ UNCHANGED <<durable, token, task, base, got, kept, merged>>

StopCancelled(r) == phase[r] = "search" /\ token[r] /\ Finish(r, "cancelled")

Deadline(r) == phase[r] = "search" /\ ~token[r] /\ Finish(r, "timed_out")

\* Mutant: the tasks are awaited but not cancelled.
StopTasks_AwaitOnly(r) ==
  /\ phase[r] = "stopping"
  /\ \A p \in Providers : task[r][p] = "ended"
  /\ phase' = [phase EXCEPT ![r] = "batch"]
  /\ ForgetSearch(r)
  /\ UNCHANGED <<durable, verdict, outcome, kept, merged>>

\* The tasks are cancelled and awaited, after a deadline only once the token
\* is cancelled too: none of them commits a page any more.
StopTasks(r) ==
  /\ phase[r] = "stopping"
  /\ phase' = [phase EXCEPT ![r] = "batch"]
  /\ ForgetSearch(r)
  /\ UNCHANGED <<durable, verdict, outcome, kept, merged>>

----------------------------------------------------------------------------
(* The tail of collect().                                                  *)

\* save_batch: one transaction writes the items of batch.deduplication, which
\* is the lifecycle's last one that did not raise, to the registry.
SaveBatch(r) ==
  /\ phase[r] = "batch"
  /\ registry' = registry \union merged[r]
  /\ phase' = [phase EXCEPT ![r] = "saved"]
  /\ UNCHANGED <<runStatus, lease, ttl, pages, checkpoint, outcomes, memory>>

\* Normalisation, verification, ranking or save_batch raises and the batch is
\* rolled back, or complete_run raises after the batch was saved: the except
\* clause completes the run as FAILED, without provider outcomes.
FailBatch(r) ==
  /\ phase[r] \in {"batch", "saved"}
  /\ CompleteRun(r, "failed")
  /\ phase' = [phase EXCEPT ![r] = "done"]
  /\ Forget(r)
  /\ UNCHANGED <<ttl, pages, checkpoint, outcomes, registry>>

\* Mutant: a run without any success is completed like any other.
StatusForBatch_NoFailed(r) ==
  IF verdict[r] \in {"cancelled", "timed_out"} THEN verdict[r] ELSE "completed"

\* _status_for_batch.
StatusForBatch(r) ==
  LET successful == {p \in Providers : outcome[r][p] = "success"} IN
  CASE verdict[r] = "cancelled" -> "cancelled"
    [] verdict[r] = "timed_out" -> "timed_out"
    [] verdict[r] = "natural" /\ successful = {} -> "failed"
    [] verdict[r] = "natural" /\ successful = Providers -> "completed"
    [] OTHER -> "partial"

FinishRun(r) ==
  /\ phase[r] = "saved"
  /\ CompleteRun(r, StatusForBatch(r))
  /\ outcomes' = [outcomes EXCEPT ![r] = outcome[r]]
  /\ phase' = [phase EXCEPT ![r] = "reporting"]
  /\ Forget(r)
  /\ UNCHANGED <<ttl, pages, checkpoint, registry>>

\* The result is built; its metadata reads the discovery queue.
Report(r) ==
  /\ phase[r] = "reporting"
  /\ phase' = [phase EXCEPT ![r] = "done"]
  /\ UNCHANGED <<durable, memory>>

\* That read raises after the run was completed: the except clause completes
\* it again, as FAILED, with no outcomes (the rows already written stay).
FailReport(r) ==
  /\ phase[r] = "reporting"
  /\ CompleteRun(r, "failed")
  /\ phase' = [phase EXCEPT ![r] = "done"]
  /\ UNCHANGED <<ttl, pages, checkpoint, outcomes, registry, memory>>

\* The process dies, its event loop is torn down (BaseException is not caught
\* by collect), or completing the run as FAILED raises too: the run row stays
\* RUNNING and the lease row stays.
Crash(r) ==
  /\ phase[r] \in Active
  /\ phase' = [phase EXCEPT ![r] = "dead"]
  /\ Forget(r)
  /\ UNCHANGED durable

\* Time passes for every lease ever acquired.
Tick ==
  /\ \E r \in Runs : ttl[r] > 0
  /\ ttl' = [r \in Runs |-> IF ttl[r] > 0 THEN ttl[r] - 1 ELSE 0]
  /\ UNCHANGED <<runStatus, lease, pages, checkpoint, outcomes, registry,
                 volatile>>

----------------------------------------------------------------------------
ProviderStep(r, p) ==
  \/ RefuseProvider(r, p) \/ OpenProvider(r, p) \/ AcceptPage(r, p)
  \/ FailProvider(r, p) \/ TimeoutProvider(r, p) \/ CancelProvider(r, p)

\* Steps the event loop takes by itself once a run is started.
RunStep(r) ==
  \/ Gathered(r) \/ StopCancelled(r) \/ Deadline(r) \/ StopTasks(r)
  \/ SaveBatch(r) \/ FailBatch(r) \/ FinishRun(r)
  \/ Report(r) \/ FailReport(r)

Next ==
  \/ \E r \in Runs : StartRun(r) \/ Cancel(r) \/ RunStep(r) \/ Crash(r)
  \/ \E r \in Runs, p \in Providers : ProviderStep(r, p)
  \/ Tick

Spec == Init /\ [][Next]_vars

\* The deadline is a timer and the tail of collect() is straight-line code,
\* so a run always goes on; the clock always advances.  Nothing is assumed of
\* the providers, of the user, or of crashes not happening.
Fairness == WF_vars(Tick) /\ \A r \in Runs : WF_vars(RunStep(r))

FairSpec == Spec /\ Fairness

\* The same system when no process works on past its own lease, which is what
\* the 900 s of the lease are meant to cover.
Timely == \A r \in Runs : phase[r] \in Active => ttl[r] > 0

TimelySpec == Init /\ [][Next /\ (phase # phase' \/ ttl # ttl' => Timely')]_vars

----------------------------------------------------------------------------
(* Properties.                                                             *)

PagesOf(r, p) == {n \in PageNo : <<r, p, n>> \in pages}

\* No page is skipped (C-CP-002, on page rows): every page up to the one the
\* checkpoint names was committed by some run, whatever runs crashed, were
\* stopped, or overlapped after an expired lease (save_accepted_page).
AcceptedPrefix ==
  \A p \in Providers : \A n \in 1 .. checkpoint[p].last :
    \E r \in Runs : <<r, p, n>> \in pages

\* Run admission (C-LEASE-001): two runs that are both RUNNING are never both
\* inside their lease, although stale runs complete, and complete twice, after
\* another run took the lease over (start_run, complete_run).
LeaseExclusive ==
  \A r1, r2 \in Runs :
    /\ runStatus[r1] = "running" /\ ttl[r1] > 0
    /\ runStatus[r2] = "running" /\ ttl[r2] > 0
    => r1 = r2

\* A run that was completed, on any path of collect(), holds no lease: only a
\* dead process can make others wait for the expiry.
LeaseHeldByRunning == lease # NoRun => runStatus[lease] = "running"

\* The run accepted no listings that contradict each other.
Mergeable(r) == \A u \in Unmergeable : \E x \in u : <<r, x[1], x[2]>> \notin pages

\* What collector_run_providers records can be trusted: the pages that a run
\* accepted from a provider recorded as successful, or failed half-way, are
\* in the registry (the error paths of _collect_provider_pages keep items),
\* unless listings among its pages cannot be merged (_rebuild_partial).
RecordedOutcomeSaved ==
  \A r \in Runs, p \in Providers :
    outcomes[r][p] \in {"success", "failed"} /\ Mergeable(r) =>
      \A n \in PagesOf(r, p) : <<p, n>> \in registry

\* COMPLETED is never claimed early: the run itself fetched the terminal page
\* of every provider, and it saved every page it accepted unless listings among
\* them cannot be merged (_status_for_batch, _rebuild_partial).
CompletedRunSaved ==
  \A r \in Runs : runStatus[r] = "completed" =>
    \A p \in Providers :
      /\ LastPage \in PagesOf(r, p)
      /\ Mergeable(r) => \A n \in PagesOf(r, p) : <<p, n>> \in registry

\* Under TimelySpec the counter of the checkpoint is exact: it equals the
\* number of accepted page rows of the provider, across resumptions, crashes
\* and restarts of the cycle (accepted_page_count is computed by the engine
\* from the checkpoint the task resumed from, never read back by the store).
CountExact ==
  \A p \in Providers :
    checkpoint[p].count = Cardinality({x \in pages : x[2] = p})

\* The same as a property of the system that does overlap: the counter is exact
\* in every history in which no process worked on past its lease.
CountExactInTime == []Timely => []CountExact

\* Readers of the tables are told the truth by every step, however the writing
\* processes overlap, crash, are cut short or complete a run twice: pages and
\* checkpoint move together and in order, items come from pages of the run
\* itself, a run is closed with outcomes its rows bear out and that agree with
\* its status, and a second completion takes nobody's lease (start_run,
\* save_accepted_page, save_batch, complete_run).
Ledger == INSTANCE RunLedger WITH
  status   <- runStatus,
  holder   <- lease,
  inTime   <- {r \in Runs : ttl[r] > 0},
  position <- [p \in Providers |-> checkpoint[p].last]

ImplementsLedger == Ledger!Spec

\* A started run ends, completed or dead, even if every provider hangs for
\* ever: the deadline does not wait for the tasks (search, deadline_task).
RunEnds ==
  \A r \in Runs : phase[r] = "search" ~> phase[r] \in {"done", "dead"}

\* A crash never closes admission for good: whoever holds the lease, a new
\* run is admitted again after a while (start_run drops an expired row).
AdmissionRecovers == \A r \in Runs : lease = r ~> LeaseFree

\* "Accepted pages are kept on cancellation" (the contract, section 11) and
\* "the received data is saved" (the message of a stopped collection).
CancelledDataSaved ==
  \A r \in Runs : runStatus[r] = "cancelled" =>
    \A p \in Providers : \A n \in PagesOf(r, p) : <<p, n>> \in registry

\* "Invalid individual provider items ... do not corrupt accepted valid items
\* from that or another provider" (RM-138_PARALLEL_SEARCH_CONTRACT.md, 127):
\* every page of a run that says COMPLETED is saved, whatever it lists.
CompletedItemsSaved ==
  \A r \in Runs : runStatus[r] = "completed" =>
    \A p \in Providers : \A n \in PagesOf(r, p) : <<p, n>> \in registry

\* "Crash replay does not skip data" (C-CP-002): when a run has completed and
\* no other is at work, the items of every page up to the terminal one have
\* reached the registry.
ReplaySkipsNothing ==
  (\E r \in Runs : runStatus[r] = "completed")
    => Item \subseteq registry \/ \E r \in Runs : phase[r] \in Active \ {"reporting"}
=============================================================================

------------------------- MODULE ScheduledCollection -------------------------
(***************************************************************************)
(* When a collection starts, who owns it and how it ends: the schedule     *)
(* file and CollectorScheduler, the scheduler's and the search's UI        *)
(* controllers on the GUI thread, the worker thread of the run, and the    *)
(* freshness rows a run leaves for the next poll.                          *)
(*                                                                         *)
(* A step of the GUI is one slot, run to its end: a timer tick, a click, a *)
(* close, or the delivery of one signal the worker queued.  The run itself *)
(* is CollectorRun's; here it begins, may store freshness rows and ends.   *)
(***************************************************************************)
EXTENDS Integers, Sequences

CONSTANTS
  Tenders,   \* registered tenders with a freshness row
  Period,    \* ticks from one scheduled run to the next
  Recheck,   \* ticks until a fresh tender is due for reverification
  Lifetime,  \* ticks until the deadline of every tender passes
  MaxActs    \* bound: clicks, closes and crashes

ASSUME ScheduleAssumption ==
  /\ Period \in Nat \ {0}
  /\ Recheck \in Nat \ {0}
  /\ Lifetime \in Nat
  /\ MaxActs \in Nat

VARIABLES
  file,       \* the schedule file: settings and state
  recheck,    \* freshness row: ticks until verification_due_at
  deadline,   \* ticks until the application deadline of the tender
  process,    \* the GUI thread: in its event loop, joining the worker, down
  accepting,  \* _accepting_runs; FALSE also means scheduler _shutdown
  startup,    \* the single-shot startup check has not fired yet
  scheduled,  \* _scheduled_active
  stranded,   \* history: an exception left scheduled TRUE without a run
  state,      \* _lifecycle_snapshot.state
  worker,     \* _collector_worker: none, or the budget it runs with
  stage,      \* where the worker's runnable is in the thread pool
  token,      \* cancellation_token of the worker
  signals,    \* queued signals of the worker, not yet delivered
  acts        \* clicks, closes and crashes so far

gui  == <<process, accepting, startup, scheduled, stranded>>
run  == <<state, worker, stage, token, signals>>
rows == <<recheck, deadline>>
vars == <<file, recheck, deadline, process, accepting, startup, scheduled,
          stranded, state, worker, stage, token, signals, acts>>

Never   == -1   \* next_run_at is ""; no freshness row
Expired == -2   \* the row was stored with deadline_expired = 1

Active   == {"queued", "running", "cancelling"}            \* snapshot.active
Terminal == {"cancelled", "completed", "failed", "timed_out", "closed"}
Reasons  == {"scheduled", "startup", "freshness_due"}
Statuses == {"idle", "disabled", "deferred_busy", "start_rejected", "finished",
             "failed"} \union Reasons    \* a reason r stands for "running:r"

ScheduleFile ==
  [enabled : BOOLEAN, onStartup : BOOLEAN, nextRun : {Never} \union 0 .. Period,
   status : Statuses]

Signal == [name : {"started"}, ends : {"running"}] \union
          [name : {"succeeded"}, ends : {"completed", "timed_out", "cancelled"}] \union
          [name : {"failed"}, ends : {"failed", "timed_out", "cancelled"}]

TypeOK ==
  /\ file \in ScheduleFile
  /\ recheck \in [Tenders -> {Never, Expired} \union 0 .. Recheck]
  /\ deadline \in [Tenders -> 0 .. Lifetime]
  /\ process \in {"loop", "joining", "down"}
  /\ accepting \in BOOLEAN /\ startup \in BOOLEAN /\ token \in BOOLEAN
  /\ scheduled \in BOOLEAN /\ stranded \in BOOLEAN
  /\ state \in {"idle"} \union Active \union Terminal
  /\ worker \in {"none", "scheduled", "interactive"}
  /\ stage \in {"none", "queued", "running", "stored"}
  /\ signals \in Seq(Signal)
  /\ acts \in 0 .. MaxActs

\* A launch on an empty registry.  The schedule file is missing or unreadable
\* (the default settings), or only its state section is: an enabled schedule
\* without a slot.
Init ==
  /\ file \in [enabled : BOOLEAN, onStartup : {FALSE}, nextRun : {Never},
               status : {"idle"}]
  /\ recheck = [t \in Tenders |-> Never]
  /\ deadline = [t \in Tenders |-> Lifetime]
  /\ process = "loop"
  /\ accepting = TRUE
  /\ startup = TRUE
  /\ scheduled = FALSE
  /\ stranded = FALSE
  /\ state = "idle"
  /\ worker = "none"
  /\ stage = "none"
  /\ token = FALSE
  /\ signals = <<>>
  /\ acts = 0

\* Bounds the clicks, closes and crashes of a behaviour.
Act == acts < MaxActs /\ acts' = acts + 1

----------------------------------------------------------------------------
(* Starting a run.                                                         *)

\* try_start_collector: refused while shutting down or while a run is active;
\* otherwise a new generation is QUEUED and its worker given to the pool.
Start(budget) ==
  /\ accepting
  /\ worker = "none"
  /\ state \notin Active
  /\ state' = "queued"
  /\ worker' = budget
  /\ stage' = "queued"
  /\ token' = FALSE
  /\ UNCHANGED signals

\* Mutant: a rejected start leaves _scheduled_active set.
StartScheduled_KeepFlag(reason) ==
  LET started == [file EXCEPT !.status = reason,
                              !.nextRun = IF file.enabled THEN Period ELSE Never]
  IN /\ worker = "none"
     /\ scheduled' = TRUE
     /\ \/ Start("scheduled") /\ file' = started
        \/ file' = [started EXCEPT !.status = "start_rejected"] /\ UNCHANGED run
     /\ stranded' = FALSE

\* Mutant: the slot is not moved when the run starts.
StartScheduled_KeepSlot(reason) ==
  /\ worker = "none"
  /\ file' = [file EXCEPT !.status = reason]
  /\ Start("scheduled") /\ scheduled' = TRUE /\ stranded' = FALSE

\* _start_scheduled: mark_started moves the slot before the run is tried, and
\* the flag is set before the callback.  A rejected run (profile or providers
\* not available) clears it and is recorded, unless that write raises; when the
\* callback itself raises, the flag stays.
StartScheduled(reason) ==
  LET started == [file EXCEPT !.status = reason,
                              !.nextRun = IF file.enabled THEN Period ELSE Never]
  IN /\ worker = "none"
     /\ \/ /\ Start("scheduled")
           /\ file' = started
           /\ scheduled' = TRUE /\ stranded' = FALSE
        \/ /\ file' \in {started, [started EXCEPT !.status = "start_rejected"]}
           /\ scheduled' = FALSE /\ stranded' = FALSE
           /\ UNCHANGED run
        \/ /\ file' = started
           /\ scheduled' = TRUE /\ stranded' = TRUE
           /\ UNCHANGED run

RowDue(t) == recheck[t] = 0     \* list_due_reverification

\* Why the schedule is due now.  When the slot and a row are both due the
\* earlier one gives the reason.
DueReasons ==
  {r \in {"scheduled", "freshness_due"} :
     \/ r = "scheduled" /\ file.nextRun = 0
     \/ r = "freshness_due" /\ \E t \in Tenders : RowDue(t)}

\* An enabled schedule without a slot gets one.
Planned ==
  IF file.nextRun = Never THEN [file EXCEPT !.nextRun = Period] ELSE file

\* A slot or row found due while a run is active waits, marked deferred_busy.
Defer ==
  /\ DueReasons # {}
  /\ worker # "none"
  /\ file' = [Planned EXCEPT !.status = "deferred_busy"]
  /\ UNCHANGED <<run, gui>>

NotDue == DueReasons = {} /\ file' = Planned /\ UNCHANGED <<run, gui>>

\* The 30 s timer.
Poll ==
  /\ process = "loop" /\ accepting /\ file.enabled
  /\ \/ NotDue
     \/ Defer
     \/ /\ \E reason \in DueReasons : StartScheduled(reason)
        /\ UNCHANGED <<process, accepting, startup>>
  /\ UNCHANGED <<rows, acts>>

\* The startup check fires once; a request it cannot start is gone.
StartupCheck ==
  /\ process = "loop" /\ startup
  /\ startup' = FALSE
  /\ IF accepting /\ file.enabled /\ file.onStartup /\ worker = "none"
     THEN StartScheduled("startup")
     ELSE UNCHANGED <<file, run, scheduled, stranded>>
  /\ UNCHANGED <<rows, process, accepting, acts>>

\* "Run now", the collector dialog and a profile take the scheduled budget
\* while _scheduled_active is set; the unified search is always interactive.
RunNow ==
  /\ process = "loop"
  /\ \/ Start("interactive")
     \/ scheduled /\ Start("scheduled")
  /\ Act
  /\ UNCHANGED <<file, rows, gui>>

\* save_settings
SaveSettings ==
  /\ process = "loop" /\ Act
  /\ \E on, atStartup \in BOOLEAN :
       file' = [enabled |-> on, onStartup |-> atStartup,
                nextRun |-> IF on THEN Period ELSE Never,
                status |-> IF on THEN file.status ELSE "disabled"]
  /\ UNCHANGED <<rows, gui, run>>

Stop ==
  /\ process = "loop" /\ worker # "none" /\ Act
  /\ state' = "cancelling"
  /\ token' = TRUE
  /\ UNCHANGED <<file, rows, gui, worker, stage, signals>>

----------------------------------------------------------------------------
(* The worker thread.                                                      *)

Emit(name, ends) == signals' = Append(signals, [name |-> name, ends |-> ends])

Begin ==
  /\ stage = "queued"
  /\ stage' = "running"
  /\ Emit("started", "running")
  /\ UNCHANGED <<file, rows, gui, state, worker, token, acts>>

\* The run stores a freshness row for every tender it found: expired once the
\* deadline passed, due at once (forced) or after its interval otherwise.
StoreFreshness ==
  /\ stage = "running"
  /\ stage' = "stored"
  /\ \E found, forced \in SUBSET Tenders :
       recheck' = [t \in Tenders |->
                     IF t \notin found THEN recheck[t]
                     ELSE IF deadline[t] = 0 THEN Expired
                     ELSE IF t \in forced THEN 0 ELSE Recheck]
  /\ UNCHANGED <<file, deadline, gui, state, worker, token, signals, acts>>

\* Mutant: an exception of the run is lost with its thread.
EndRun_LoseError ==
  /\ stage \in {"running", "stored"}
  /\ stage' = "none"
  /\ \/ stage = "stored" /\ Emit("succeeded", "completed")
     \/ UNCHANGED signals
  /\ UNCHANGED <<file, rows, gui, state, worker, token, acts>>

\* run() returns a result or raises, emits the one terminal signal and sets
\* completion_event.  Only a run whose token is set ends cancelled.
EndRun ==
  /\ stage \in {"running", "stored"}
  /\ stage' = "none"
  /\ \/ stage = "stored" /\ \E ends \in {"completed", "timed_out"} :
                              Emit("succeeded", ends)
     \/ \E ends \in {"failed", "timed_out"} : Emit("failed", ends)
     \/ token /\ \E name \in {"succeeded", "failed"} : Emit(name, "cancelled")
  /\ UNCHANGED <<file, rows, gui, state, worker, token, acts>>

----------------------------------------------------------------------------
(* The signals, delivered to the GUI thread in the order they were emitted. *)

\* RUNNING is refused in a terminal or cancelling run.
OnStarted ==
  /\ state' = IF state = "queued" THEN "running" ELSE state
  /\ UNCHANGED <<file, gui, worker>>

\* Mutant: a result that arrives while the run is cancelling completes it.
EndState_Result(signal) == signal.ends

EndState(signal) ==
  IF signal.name = "succeeded" /\ state = "cancelling" THEN "cancelled"
  ELSE signal.ends

\* on_collector_finished and on_collector_failed of the scheduler: the outcome
\* is saved, then the flag cleared; when saving raises, the flag stays.
OnScheduleFinished(signal) ==
  \/ /\ file' = [file EXCEPT !.status =
                   IF signal.name = "failed" THEN "failed" ELSE "finished"]
     /\ scheduled' = FALSE
     /\ stranded' = FALSE
  \/ /\ stranded' = TRUE
     /\ UNCHANGED <<file, scheduled>>

\* A terminal signal ends the run and frees the worker; one that arrives in a
\* terminal run is dropped.
OnEnded(signal) ==
  IF state \in Terminal
  THEN UNCHANGED <<file, gui, state, worker>>
  ELSE /\ state' = EndState(signal)
       /\ worker' = "none"
       /\ IF scheduled
          THEN OnScheduleFinished(signal)
          ELSE UNCHANGED <<file, scheduled, stranded>>
       /\ UNCHANGED <<process, accepting, startup>>

Deliver ==
  /\ process = "loop" /\ signals # <<>>
  /\ signals' = Tail(signals)
  /\ IF Head(signals).name = "started" THEN OnStarted ELSE OnEnded(Head(signals))
  /\ UNCHANGED <<rows, stage, token, acts>>

----------------------------------------------------------------------------
(* Closing the window, the end of the process, and time.                   *)

\* shutdown up to the wait: no run is admitted any more, the run is cancelled,
\* a runnable still queued is taken out of the pool, and the thread blocks.
CloseRequest ==
  /\ process = "loop" /\ state # "closed" /\ Act
  /\ process' = "joining"
  /\ accepting' = FALSE /\ scheduled' = FALSE /\ stranded' = FALSE
  /\ IF worker = "none"
     THEN UNCHANGED <<state, token, stage>>
     ELSE /\ state' = "cancelling"
          /\ token' = TRUE
          /\ stage' = IF stage = "queued" THEN "none" ELSE stage
  /\ UNCHANGED <<file, rows, startup, worker, signals>>

\* Mutant: the window closes without waiting for the worker.
CloseDone_NoJoin ==
  /\ process = "joining"
  /\ process' = "loop" /\ state' = "closed" /\ worker' = "none"
  /\ UNCHANGED <<file, rows, accepting, startup, scheduled, stranded, stage,
                 token, signals, acts>>

\* The worker completed: shutdown ends the lifecycle and returns TRUE.
CloseDone ==
  /\ process = "joining" /\ stage = "none"
  /\ process' = "loop" /\ state' = "closed" /\ worker' = "none"
  /\ UNCHANGED <<file, rows, accepting, startup, scheduled, stranded, stage,
                 token, signals, acts>>

\* The wait times out on the run, or on other work of the pool (a provider
\* check, documents, scores): the close is ignored and the event loop goes on,
\* with the worker still held even if its runnable was taken out of the queue.
CloseTimeout ==
  /\ process = "joining"
  /\ process' = "loop"
  /\ UNCHANGED <<file, rows, run, accepting, startup, scheduled, stranded, acts>>

\* The closed application leaves its event loop.
Quit ==
  /\ process = "loop" /\ state = "closed"
  /\ process' = "down"
  /\ UNCHANGED <<file, rows, run, accepting, startup, scheduled, stranded, acts>>

\* The process dies with everything it had in memory.
Crash ==
  /\ process # "down" /\ Act
  /\ process' = "down"
  /\ state' = "closed" /\ worker' = "none" /\ stage' = "none" /\ signals' = <<>>
  /\ scheduled' = FALSE /\ stranded' = FALSE
  /\ UNCHANGED <<file, rows, accepting, startup, token>>

Restart ==
  /\ process = "down"
  /\ process' = "loop"
  /\ accepting' = TRUE /\ startup' = TRUE
  /\ scheduled' = FALSE /\ stranded' = FALSE
  /\ state' = "idle" /\ token' = FALSE /\ signals' = <<>>
  /\ UNCHANGED <<file, rows, worker, stage, acts>>

CountDown(n) == IF n > 0 THEN n - 1 ELSE n

Tick ==
  /\ file' = [file EXCEPT !.nextRun = CountDown(@)]
  /\ recheck' = [t \in Tenders |-> CountDown(recheck[t])]
  /\ deadline' = [t \in Tenders |-> CountDown(deadline[t])]
  /\ UNCHANGED <<gui, run, acts>>

Thread == Begin \/ StoreFreshness \/ EndRun
Close  == CloseDone \/ CloseTimeout

Next ==
  \/ Poll \/ StartupCheck \/ RunNow \/ SaveSettings \/ Stop
  \/ Thread \/ Deliver
  \/ CloseRequest \/ Close \/ Quit \/ Crash \/ Restart
  \/ Tick

Spec == Init /\ [][Next]_vars

\* The event loop fires its timer and delivers signals, the pool runs what it
\* was given, a run ends (its budgets bound it), a wait has a deadline.
FairSpec ==
  Spec /\ WF_vars(Poll) /\ WF_vars(Deliver) /\ WF_vars(Begin)
       /\ WF_vars(EndRun) /\ WF_vars(Close)

----------------------------------------------------------------------------
(* Properties.                                                             *)

\* One run at a time, and no run without its owner: a runnable in the pool and
\* a signal on its way belong to the worker the controller holds, so a new run
\* never meets an answer of the one before it, and a window that closed left
\* no run behind (lifecycle, worker and shutdown of the UI controller).
OneRun ==
  /\ worker = "none" => stage = "none" /\ state \notin Active
  /\ worker = "none" /\ state # "closed" => signals = <<>>
  /\ stage = "queued" => signals = <<>>

\* _scheduled_active says whose run the worker is: while the schedule admits
\* runs, the flag is set exactly during a run with the scheduled budget.  Only
\* an exception of the start or of the write of the outcome leaves it set
\* without one, until the next outcome is saved.
ScheduleOwnsItsRun ==
  /\ scheduled => worker = "scheduled" \/ stranded
  /\ worker = "scheduled" /\ accepting => scheduled

\* A stop is final for its run: once CANCELLING, a late "started" or a result
\* already on its way never makes the run RUNNING or COMPLETED.
StopSticks ==
  [][state = "cancelling" =>
       state' \in {"cancelling", "cancelled", "failed", "timed_out", "closed"}]_vars

\* A slot whose time has come is served: the run is tried (the slot moves), or
\* the schedule was switched off, or the application is closing or down.
DueIsServed ==
  (file.enabled /\ file.nextRun = 0) ~>
    (file.nextRun # 0 \/ ~accepting \/ process = "down")

\* While the application admits runs the worker is given back however the run
\* ends, so that the next one is not refused for ever; and a run that has begun
\* gives it back even when closing the window failed.  Only a runnable that a
\* failed close took out of the queue keeps it: no run is admitted then.
CollectorFreed ==
  /\ (worker # "none") ~> (worker = "none" \/ ~accepting)
  /\ (stage \in {"running", "stored"}) ~> (worker = "none")

\* A purchase whose deadline has passed does not start collections: a run
\* begun before its slot, for freshness, has a due tender that is still open.
FinishedNeverDrives ==
  [][/\ worker = "none" /\ worker' = "scheduled"
     /\ file.nextRun # 0 /\ file'.status = "freshness_due"
     => \E t \in Tenders : RowDue(t) /\ deadline[t] > 0]_vars
=============================================================================

--------------------------- MODULE ProviderHealth ---------------------------
(***************************************************************************)
(* Provider admission across collection runs: ProviderHealthMonitor (the   *)
(* circuit breaker), the outcome rows that complete_run leaves behind, and *)
(* hydrate_health_monitor, which rebuilds a fresh monitor from the rows at *)
(* the start of every run.                                                 *)
(*                                                                         *)
(* Runs follow one another (one Collector worker per window).  A run gives *)
(* every selected provider an outcome and then records all of them, or is  *)
(* lost: it died, or collect() failed after the search, and no row is      *)
(* written.  The engine is seen here only as far as it decides which       *)
(* provider is called, how the call ends and what is recorded.             *)
(***************************************************************************)
EXTENDS Integers, FiniteSets, Sequences, SequencesExt

CONSTANTS
  Providers,
  TokenProviders,  \* those that may answer "not configured" (no or bad token)
  Threshold,       \* ProviderHealthPolicy.failure_threshold
  Unavailable,     \* ProviderHealthPolicy.unavailable_threshold
  Cooldown,        \* ProviderHealthPolicy.cooldown_seconds, in ticks
  Permits,         \* max_concurrent_providers
  Window           \* list_provider_outcomes(limit=1000): rows hydration reads

ASSUME HealthAssumption ==
  /\ IsFiniteSet(Providers) /\ TokenProviders \subseteq Providers
  /\ Threshold \in Nat \ {0}
  /\ Unavailable \in Nat /\ Unavailable >= Threshold
  /\ Cooldown \in Nat /\ Permits \in Nat \ {0} /\ Window \in Nat \ {0}

VARIABLES
  history,  \* collector_run_providers, newest first: provider, status, age
  monitor,  \* ProviderHealthMonitor._states of the current runtime
  phase,    \* "idle", "searching", or "ended" (outcomes known, not recorded)
  stage,    \* what became of the provider in this run
  outcome,  \* its outcome in this run
  errors    \* history variable: failed calls of the provider, up to Threshold

vars == <<history, monitor, phase, stage, outcome, errors>>

Success       == {"success"}                    \* success and empty
RemoteFailure == {"failed", "timed_out"}
Neutral       == {"cancelled", "circuit_open"}  \* and unsupported, skipped
Status        == Success \union RemoteFailure \union Neutral \union {"not_configured"}

MaxAge  == 3 * Cooldown      \* older rows are all alike
NoTimer == -1                \* cooldown_until = 0.0
Row     == [provider : Providers, status : Status, age : 0 .. MaxAge]
Health  == [status : {"unknown", "available", "degraded", "cooldown",
                      "unavailable", "not_configured"},
            failures : Nat, left : {NoTimer} \union 0 .. MaxAge]
Unknown == [status |-> "unknown", failures |-> 0, left |-> NoTimer]

Stages == {"out", "new", "waiting", "called", "answered", "refused", "cut"}

TypeOK ==
  /\ history \in Seq(Row) /\ Len(history) <= Window
  /\ monitor \in [Providers -> Health]
  /\ phase \in {"idle", "searching", "ended"}
  /\ stage \in [Providers -> Stages]
  /\ outcome \in [Providers -> Status \union {"none"}]
  /\ errors \in [Providers -> 0 .. Threshold]

Init ==
  /\ history = <<>>
  /\ monitor = [p \in Providers |-> Unknown]
  /\ phase = "idle"
  /\ stage = [p \in Providers |-> "out"]
  /\ outcome = [p \in Providers |-> "none"]
  /\ errors = [p \in Providers |-> 0]

----------------------------------------------------------------------------
(* ProviderHealthMonitor.                                                  *)

Circuit == {"cooldown", "unavailable"}

\* _refresh_cooldown: an expired timer closes the circuit half-way.
Refresh(h) ==
  IF h.status \in Circuit /\ h.left = 0
  THEN [h EXCEPT !.status = "degraded", !.left = NoTimer]
  ELSE h

CanExecute(p) == Refresh(monitor[p]).status \notin Circuit \union {"not_configured"}

RegisterSuccess(h) == [status |-> "available", failures |-> 0, left |-> NoTimer]

\* register_failure: below the threshold the timer is left as it is.
RegisterFailure(h) ==
  LET n == h.failures + 1 IN
  CASE n >= Unavailable ->
         [status |-> "unavailable", failures |-> n, left |-> 3 * Cooldown]
    [] n < Unavailable /\ n >= Threshold ->
         [status |-> "cooldown", failures |-> n, left |-> Cooldown]
    [] OTHER -> [h EXCEPT !.status = "degraded", !.failures = n]

RegisterNotConfigured(h) == [h EXCEPT !.status = "not_configured"]

\* What the engine registers when a call it made ends with a status; a
\* cancelled call registers nothing.
Register(h, status) ==
  CASE status \in Success -> RegisterSuccess(h)
    [] status \in RemoteFailure -> RegisterFailure(h)
    [] status = "not_configured" -> RegisterNotConfigured(h)
    [] OTHER -> h

----------------------------------------------------------------------------
(* hydrate_health_monitor.                                                 *)

\* The places of the rows that say something about the provider; the smaller
\* the place, the newer the row.
Meaningful(p) ==
  {i \in DOMAIN history : history[i].provider = p /\ history[i].status \notin Neutral}

\* The newest of them.
Latest(p) ==
  history[CHOOSE i \in Meaningful(p) : \A j \in Meaningful(p) : i <= j]

\* Mutant: failures are counted past a success.
Failing_All(p) == {i \in Meaningful(p) : history[i].status \in RemoteFailure}

\* Those that are failures, down to the newest that is none.
Failing(p) ==
  {i \in Meaningful(p) :
     \A j \in Meaningful(p) : j <= i => history[j].status \in RemoteFailure}

Consecutive(p) == Cardinality(Failing(p))

\* How long the circuit stays open after n failures in a row.
CooldownLength(n) ==
  IF n >= Unavailable THEN 3 * Cooldown ELSE IF n >= Threshold THEN Cooldown ELSE 0

\* Mutant: the cooldown starts again at every hydration.
Remaining_Full(row, length) == length

\* What is left of a cooldown that began when the run of the row completed.
Remaining(row, length) == length - row.age

\* _operational_from_records and restore: an expired circuit is restored as
\* DEGRADED, a running one with what is left of its cooldown.
Hydrated(p) ==
  LET n == Consecutive(p)
      left == Remaining(Latest(p), CooldownLength(n))
  IN  CASE Meaningful(p) = {} -> Unknown
        [] Meaningful(p) # {} /\ n = 0 ->
             [status |-> IF Latest(p).status \in Success THEN "available"
                         ELSE "not_configured",
              failures |-> 0, left |-> NoTimer]
        [] Meaningful(p) # {} /\ n > 0 /\ left <= 0 ->
             [status |-> "degraded", failures |-> n, left |-> NoTimer]
        [] OTHER ->
             [status |-> IF n >= Unavailable THEN "unavailable" ELSE "cooldown",
              failures |-> n, left |-> left]

----------------------------------------------------------------------------
(* A run.                                                                  *)

\* CollectorRunSession.run: a fresh monitor, hydrated before the dispatch.
StartRun(selected) ==
  /\ phase = "idle"
  /\ phase' = "searching"
  /\ monitor' = [p \in Providers |-> Hydrated(p)]
  /\ stage' = [p \in Providers |-> IF p \in selected THEN "new" ELSE "out"]
  /\ outcome' = [p \in Providers |-> "none"]
  /\ UNCHANGED <<history, errors>>

\* Mutant: the refusal is reported as a failure of the provider.
Refuse_AsFailed(p) ==
  /\ phase = "searching" /\ stage[p] = "new" /\ ~CanExecute(p)
  /\ monitor' = [monitor EXCEPT ![p] = Refresh(@)]
  /\ stage' = [stage EXCEPT ![p] = "refused"]
  /\ outcome' = [outcome EXCEPT ![p] = "failed"]
  /\ UNCHANGED <<history, phase, errors>>

\* can_execute is false: the provider is not called.
Refuse(p) ==
  /\ phase = "searching" /\ stage[p] = "new" /\ ~CanExecute(p)
  /\ monitor' = [monitor EXCEPT ![p] = Refresh(@)]
  /\ stage' = [stage EXCEPT ![p] = "refused"]
  /\ outcome' = [outcome EXCEPT ![p] = "circuit_open"]
  /\ UNCHANGED <<history, phase, errors>>

\* can_execute is true: the task goes on to the semaphore.
Admit(p) ==
  /\ phase = "searching" /\ stage[p] = "new" /\ CanExecute(p)
  /\ monitor' = [monitor EXCEPT ![p] = Refresh(@)]
  /\ stage' = [stage EXCEPT ![p] = "waiting"]
  /\ UNCHANGED <<history, phase, outcome, errors>>

FreePermit == Cardinality({p \in Providers : stage[p] = "called"}) < Permits

Call(p) ==
  /\ phase = "searching" /\ stage[p] = "waiting" /\ FreePermit
  /\ stage' = [stage EXCEPT ![p] = "called"]
  /\ UNCHANGED <<history, monitor, phase, outcome, errors>>

CountError(q) ==
  errors' = [p \in Providers |-> IF p \in q /\ errors[p] < Threshold
                                  THEN errors[p] + 1 ELSE errors[p]]

\* The call ends and is registered.
Answer(p, status) ==
  /\ phase = "searching" /\ stage[p] = "called"
  /\ status = "not_configured" => p \in TokenProviders
  /\ stage' = [stage EXCEPT ![p] = "answered"]
  /\ outcome' = [outcome EXCEPT ![p] = status]
  /\ monitor' = [monitor EXCEPT ![p] = Register(@, status)]
  /\ CountError(IF status \in RemoteFailure THEN {p} ELSE {})
  /\ UNCHANGED <<history, phase>>

Open == {p \in Providers : stage[p] \in {"new", "waiting", "called"}}

\* finish: every provider without an outcome gets the one of the run, called
\* or not; nothing is registered.
CutShort(status) ==
  /\ phase' = "ended"
  /\ stage' = [p \in Providers |-> IF p \in Open THEN "cut" ELSE stage[p]]
  /\ outcome' = [p \in Providers |-> IF p \in Open THEN status ELSE outcome[p]]
  /\ CountError({p \in Providers : status = "timed_out" /\ stage[p] = "called"})
  /\ UNCHANGED <<history, monitor>>

\* The overall deadline: seconds have passed, so the tasks that could move by
\* themselves have moved, and somebody is still being waited for.
Deadline ==
  /\ phase = "searching"
  /\ \E p \in Providers : stage[p] = "called"
  /\ \A p \in Providers : stage[p] # "new" /\ (stage[p] = "waiting" => ~FreePermit)
  /\ CutShort("timed_out")

CancelRun == phase = "searching" /\ Open # {} /\ CutShort("cancelled")

Gathered ==
  /\ phase = "searching" /\ Open = {}
  /\ phase' = "ended"
  /\ UNCHANGED <<history, monitor, stage, outcome, errors>>

Selected == {p \in Providers : stage[p] # "out"}

\* complete_run writes one row per selected provider; list_provider_outcomes
\* will return the newest Window rows of all providers together.
Record ==
  /\ phase = "ended"
  /\ phase' = "idle"
  /\ LET rows == [i \in 1 .. Cardinality(Selected) |->
                    LET p == SetToSeq(Selected)[i]
                    IN  [provider |-> p, status |-> outcome[p], age |-> 0]]
         all == rows \o history
     IN  history' = SubSeq(all, 1, IF Len(all) < Window THEN Len(all) ELSE Window)
  /\ UNCHANGED <<monitor, stage, outcome, errors>>

\* The process died, or collect() completed the run as FAILED: no rows.
Lose ==
  /\ phase # "idle"
  /\ phase' = "idle"
  /\ UNCHANGED <<history, monitor, stage, outcome, errors>>

Older(row) == [row EXCEPT !.age = IF @ < MaxAge THEN @ + 1 ELSE @]

\* Between the end of the search and complete_run no time passes here: rows
\* carry the time the search ended.
Tick ==
  /\ phase # "ended"
  /\ history' = [i \in DOMAIN history |-> Older(history[i])]
  /\ monitor' = [p \in Providers |->
                   [monitor[p] EXCEPT !.left = IF @ > 0 THEN @ - 1 ELSE @]]
  /\ UNCHANGED <<phase, stage, outcome, errors>>

Step(p) ==
  \/ Refuse(p) \/ Admit(p) \/ Call(p)
  \/ \E s \in Status \ Neutral : Answer(p, s)

Next ==
  \/ \E selected \in SUBSET Providers \ {{}} : StartRun(selected)
  \/ \E p \in Providers : Step(p)
  \/ Deadline \/ CancelRun \/ Gathered \/ Record \/ Lose \/ Tick

Spec == Init /\ [][Next]_vars

\* Time passes, and the schedule starts runs again and again.  Runs may be
\* lost or stopped at any point, but not every one of them at the same one: a
\* step of the engine that run after run is ready to take is taken in some.
\* Nothing is assumed of how a call ends.
Fairness ==
  /\ WF_vars(Tick)
  /\ SF_vars(StartRun(Providers)) /\ SF_vars(Gathered) /\ SF_vars(Record)
  /\ \A p \in Providers :
       SF_vars(Refuse(p)) /\ SF_vars(Admit(p)) /\ SF_vars(Call(p))

FairSpec == Spec /\ Fairness

----------------------------------------------------------------------------
(* Properties.                                                             *)

\* The newest rows of p are at least Threshold failures, and the newest of
\* them is younger than the cooldown their number calls for.
OpenByRows(p) ==
  \E n \in {Threshold, Unavailable}, i \in Meaningful(p) :
    LET newest == {j \in Meaningful(p) : j <= i} IN
    /\ Cardinality(newest) >= n
    /\ \A j \in newest : history[j].status \in RemoteFailure
    /\ Latest(p).age < IF n = Unavailable THEN 3 * Cooldown ELSE Cooldown

\* The decision the engine takes is the one the recorded outcomes call for,
\* at the moment it is taken: hydration at the start of the run, the timers
\* that run on during the run and the age of the rows agree (restore,
\* _refresh_cooldown, can_execute).  An open circuit is never called; a
\* provider is never refused longer than its cooldown.
AdmissionMatchesRows ==
  [][\A p \in Providers : stage[p] = "new" =>
       /\ stage'[p] = "waiting" => ~OpenByRows(p)
       /\ stage'[p] = "refused" =>
            \/ OpenByRows(p)
            \/ Meaningful(p) # {} /\ Latest(p).status = "not_configured"]_vars

\* What the monitor of a run concluded from its own calls survives into the
\* next run: hydrating from the rows gives the failure count the monitor
\* ended with, unless the call found the provider unconfigured or older rows
\* have left the window, and then it is never larger (RM-139).
RestoreAgrees ==
  [][phase = "ended" /\ phase' = "idle" /\ history' # history =>
       \A p \in Providers : stage[p] = "answered" =>
         LET restored == Hydrated(p)' IN
         /\ restored.failures <= monitor[p].failures
         /\ outcome[p] # "not_configured" /\ Len(history) + Cardinality(Selected) <= Window
              => restored.failures = monitor[p].failures]_vars

\* No provider is locked out for ever: after any number of failures, and even
\* after "not configured", it is called again (refusals are neutral rows, and
\* rows that lock a provider out age or leave the window).
AlwaysCalledAgain == \A p \in Providers : []<>(stage[p] = "called")

\* "The source is temporarily disabled after repeated errors" (the message of
\* circuit_open): a refused provider has failed at least Threshold calls.
RefusedAfterErrors ==
  \A p \in Providers : stage[p] = "refused" => errors[p] >= Threshold
=============================================================================

----------------------- MODULE SearchProgress_proofs -----------------------
(***************************************************************************)
(* Proofs about the search engine (CollectorEngine) and the delivery of    *)
(* its progress (SearchProgress), for any finite set of providers, any     *)
(* number of permits and of pages, and any queue.                          *)
(*                                                                         *)
(* SearchInv says what the engine leaves implicit: search() waits exactly  *)
(* until the run is terminal, CancelledError is only ever sent to tasks of *)
(* a terminal run, a provider without an outcome has no result, a task     *)
(* that ended in a running run has left an outcome, and what is merged     *)
(* comes from results on record.  From it follow the finality of the       *)
(* terminal snapshot and the step from every state of the engine to a      *)
(* step, or a stutter, of SearchRun.                                       *)
(*                                                                         *)
(* ProgressInv adds the queue: its newest entry is the revision of the     *)
(* search, until close puts End behind it; a queue of two keeps both.      *)
(***************************************************************************)
EXTENDS SearchProgress, FiniteSetTheorems, SequenceTheorems, TLAPS

\* Tasks that hold a permit.
Holders == {p \in Providers : task[p] \in Holding}

SearchInv ==
  /\ terminal <=> main # "waiting"
  /\ merged \subseteq Contributing
  /\ \A p \in Providers :
       /\ stop[p] => terminal
       /\ snap[p] \notin Outcomes => result[p] = NoResult
       /\ task[p] \in {"accepting", "ended"} => terminal \/ snap[p] \in Outcomes

EngineInv == TypeOK /\ PermitsConserved /\ SearchInv

----------------------------------------------------------------------------
(* Permits.                                                                *)

LEMMA HoldersCounted ==
  /\ IsFiniteSet(Holders)
  /\ Cardinality(Holders) \in Nat
  /\ Cardinality(Holders') \in Nat
<1>1. Holders \in SUBSET Providers /\ Holders' \in SUBSET Providers
  BY DEF Holders
<1>2. IsFiniteSet(Holders) /\ IsFiniteSet(Holders')
  BY <1>1, FS_Subset, EngineAssumption
<1> QED BY <1>2, FS_CardinalityType

\* A task gets a permit, gives its permit back, or neither.
LEMMA PermitMoves ==
  ASSUME TypeOK, PermitsConserved,
         \/ Holders' = Holders /\ permits' = permits
         \/ \E p \in Providers \ Holders :
              Holders' = Holders \union {p} /\ permits' = permits - 1 /\ permits > 0
         \/ \E p \in Holders : Holders' = Holders \ {p} /\ permits' = permits + 1
  PROVE  PermitsConserved' /\ permits' \in 0 .. MaxConcurrent
<1>1. permits \in 0 .. MaxConcurrent /\ permits + Cardinality(Holders) = MaxConcurrent
  BY DEF TypeOK, PermitsConserved, Holders
<1>2. permits' \in Nat /\ permits' + Cardinality(Holders') = MaxConcurrent
  <2>1. CASE Holders' = Holders /\ permits' = permits
    BY <1>1, <2>1, EngineAssumption
  <2>2. ASSUME NEW p \in Providers \ Holders,
               Holders' = Holders \union {p}, permits' = permits - 1, permits > 0
        PROVE  permits' \in Nat /\ permits' + Cardinality(Holders') = MaxConcurrent
    <3>1. Cardinality(Holders') = Cardinality(Holders) + 1
      BY <2>2, HoldersCounted, FS_AddElement
    <3> QED BY <1>1, <2>2, <3>1, HoldersCounted, EngineAssumption
  <2>3. ASSUME NEW p \in Holders, Holders' = Holders \ {p}, permits' = permits + 1
        PROVE  permits' \in Nat /\ permits' + Cardinality(Holders') = MaxConcurrent
    <3>1. Cardinality(Holders') = Cardinality(Holders) - 1
      BY <2>3, HoldersCounted, FS_RemoveElement
    <3> QED BY <1>1, <2>3, <3>1, HoldersCounted, EngineAssumption
  <2> QED BY <2>1, <2>2, <2>3
<1> QED BY <1>2, HoldersCounted, EngineAssumption DEF PermitsConserved, Holders

----------------------------------------------------------------------------
(* _SearchLifecycle.                                                       *)

\* An execution offered to accept: the task goes on to "accepting" or "ended",
\* and the lifecycle changes only for a provider without an outcome.
LEMMA AcceptStep ==
  ASSUME TypeOK, SearchInv, NEW p \in Providers, NEW status \in Outcomes,
         NEW kept \in Nat \union {NoResult}, Accept(p, status, kept)
  PROVE  /\ runState' = runState
         /\ snap' \in [Providers -> {"queued", "running"} \union Outcomes]
         /\ result' \in [Providers -> Nat \union {NoResult}]
         /\ revision' \in Nat \union {-1}
         /\ merged \subseteq merged' /\ merged' \subseteq Contributing'
         /\ \E place \in {"accepting", "ended"} : task' = [task EXCEPT ![p] = place]
         /\ \A q \in Providers : snap'[q] \notin Outcomes => result'[q] = NoResult
         /\ \A q \in Providers :
              task'[q] \in {"accepting", "ended"} => terminal \/ snap'[q] \in Outcomes
<1>1. CASE terminal \/ snap[p] \in Outcomes
  BY <1>1 DEF Accept, TypeOK, SearchInv, lifecycle, Contributing
<1>2. CASE ~(terminal \/ snap[p] \in Outcomes)
  <2>1. /\ snap' = [snap EXCEPT ![p] = status] /\ result' = [result EXCEPT ![p] = kept]
        /\ revision' \in {revision, revision + 1} /\ runState' = runState
        /\ merged' \in {merged, Contributing'}
        /\ \E place \in {"accepting", "ended"} : task' = [task EXCEPT ![p] = place]
    BY <1>2 DEF Accept, Record
  <2>2. Contributing \subseteq Contributing'
    BY <1>2, <2>1 DEF Contributing, NoResult, TypeOK, SearchInv
  <2>3. merged \subseteq merged' /\ merged' \subseteq Contributing'
    BY <2>1, <2>2 DEF SearchInv
  <2>4. PICK place \in {"accepting", "ended"} : task' = [task EXCEPT ![p] = place]
    BY <2>1
  <2>5. /\ snap' \in [Providers -> {"queued", "running"} \union Outcomes]
        /\ result' \in [Providers -> Nat \union {NoResult}]
        /\ revision' \in Nat \union {-1}
    BY <2>1 DEF TypeOK
  <2>6. ASSUME NEW q \in Providers
        PROVE  /\ snap'[q] \notin Outcomes => result'[q] = NoResult
               /\ task'[q] \in {"accepting", "ended"} => terminal \/ snap'[q] \in Outcomes
    BY <2>1, <2>4 DEF TypeOK, SearchInv
  <2> QED BY <2>1, <2>3, <2>5, <2>6
<1> QED BY <1>1, <1>2

\* finish ends the run, leaves the outcomes that are there, and gives the other
\* providers one without a result.
LEMMA FinishStep ==
  ASSUME TypeOK, SearchInv, NEW state \in TerminalRun, NEW status \in Outcomes,
         Finish(state, status)
  PROVE  /\ terminal'
         /\ runState' \in TerminalRun
         /\ snap' \in [Providers -> {"queued", "running"} \union Outcomes]
         /\ result' = result /\ merged' = merged
         /\ revision' \in Nat
         /\ \A q \in Providers : snap'[q] \in Outcomes
<1>1. result' = result
  BY DEF Finish, TypeOK, SearchInv
<1> QED BY <1>1 DEF Finish, TypeOK, terminal

\* "running" is no outcome.
LEMMA Distinguished == "running" \notin Outcomes /\ "queued" \notin Outcomes
BY DEF Outcomes, Success, Failure

LEMMA NaturalStateTerminal == NaturalState \in TerminalRun
BY DEF NaturalState, TerminalRun

----------------------------------------------------------------------------
(* The invariant.                                                          *)

\* A task at place that moves elsewhere changes the holders by itself at most.
LEMMA HoldersMove ==
  ASSUME TypeOK, NEW p \in Providers, NEW place, task' = [task EXCEPT ![p] = place]
  PROVE  /\ task[p] \in Holding /\ place \in Holding => Holders' = Holders
         /\ task[p] \notin Holding /\ place \notin Holding => Holders' = Holders
         /\ task[p] \in Holding /\ place \notin Holding =>
              p \in Holders /\ Holders' = Holders \ {p}
         /\ task[p] \notin Holding /\ place \in Holding =>
              p \in Providers \ Holders /\ Holders' = Holders \union {p}
BY DEF Holders, TypeOK

\* What a task does besides being accepted.
Beside ==
  /\ stored' \in [Providers -> Nat]
  /\ items' \in [Providers -> Nat]
  /\ stop' \in [Providers -> BOOLEAN]
  /\ \A q \in Providers : stop'[q] => stop[q]
  /\ UNCHANGED <<token, main>>

LEMMA AcceptKeeps ==
  ASSUME EngineInv, NEW p \in Providers, NEW status \in Outcomes,
         NEW kept \in Nat \union {NoResult}, Accept(p, status, kept), Beside,
         permits' = IF task[p] \in Holding THEN permits + 1 ELSE permits
  PROVE  EngineInv'
<1> USE DEF EngineInv
<1>1. PICK place \in {"accepting", "ended"} : task' = [task EXCEPT ![p] = place]
  BY AcceptStep
<1>2. PermitsConserved' /\ permits' \in 0 .. MaxConcurrent
  <2>1. place \notin Holding
    BY DEF Holding
  <2>2. CASE task[p] \in Holding
    <3>1. p \in Holders /\ Holders' = Holders \ {p}
      BY <1>1, <2>1, <2>2, HoldersMove
    <3> QED BY <2>2, <3>1, PermitMoves
  <2>3. CASE task[p] \notin Holding
    <3>1. Holders' = Holders
      BY <1>1, <2>1, <2>3, HoldersMove
    <3> QED BY <2>3, <3>1, PermitMoves
  <2> QED BY <2>2, <2>3
<1>3. TypeOK'
  BY <1>1, <1>2, AcceptStep DEF Beside, TypeOK, Contributing
<1>4. SearchInv'
  BY AcceptStep DEF Beside, SearchInv, terminal
<1> QED BY <1>2, <1>3, <1>4

\* A task that is not accepted moves between its suspension points.
LEMMA TaskKeeps ==
  ASSUME EngineInv, NEW p \in Providers,
         NEW place \in {"waiting", "entering", "collecting", "accepting", "ended"},
         task' = [task EXCEPT ![p] = place],
         place \in {"accepting", "ended"} =>
           terminal \/ task[p] \in {"accepting", "ended"},
         \/ (task[p] \in Holding /\ place \in Holding) /\ permits' = permits
         \/ (task[p] \notin Holding /\ place \notin Holding) /\ permits' = permits
         \/ task[p] \notin Holding /\ place \in Holding /\ permits > 0
              /\ permits' = permits - 1,
         Beside, UNCHANGED <<runState, result, merged>>,
         \/ UNCHANGED <<snap, revision>>
         \/ /\ snap[p] \notin Outcomes
            /\ snap' = [snap EXCEPT ![p] = "running"] /\ revision' = revision + 1
  PROVE  EngineInv'
<1> USE DEF EngineInv
<1>1. PermitsConserved' /\ permits' \in 0 .. MaxConcurrent
  BY HoldersMove, PermitMoves
<1>2. TypeOK'
  <2>1. /\ task' \in [Providers -> {"new", "waiting", "entering", "collecting",
                                   "accepting", "ended"}]
        /\ revision' \in Nat \union {-1}
        /\ snap' \in [Providers -> {"queued", "running"} \union Outcomes]
    BY DEF TypeOK
  <2> QED BY <1>1, <2>1 DEF TypeOK, Beside
<1>3. SearchInv'
  BY Distinguished DEF TypeOK, Beside, SearchInv, terminal, Contributing
<1> QED BY <1>1, <1>2, <1>3

LEMMA EngineInit == Init => EngineInv
<1> SUFFICES ASSUME Init PROVE EngineInv
  OBVIOUS
<1>1. TypeOK
  <2>1. Cardinality(Providers) \in Nat
    BY EngineAssumption, FS_CardinalityType
  <2>2. /\ revision \in Nat \union {-1}
        /\ permits \in 0 .. MaxConcurrent
    BY <2>1, EngineAssumption DEF Init
  <2>3. /\ snap \in [Providers -> {"queued", "running"} \union Outcomes]
        /\ result \in [Providers -> Nat \union {NoResult}]
        /\ stored \in [Providers -> Nat]
        /\ items \in [Providers -> Nat]
        /\ stop \in [Providers -> BOOLEAN]
    BY DEF Init
  <2> QED BY <2>2, <2>3 DEF Init, TypeOK
<1>2. PermitsConserved
  <2>1. {p \in Providers : task[p] \in Holding} = {}
    BY DEF Init, Holding
  <2> QED BY <2>1, FS_EmptySet, EngineAssumption DEF Init, PermitsConserved
<1>3. SearchInv
  BY DEF Init, SearchInv, terminal, TerminalRun
<1> QED BY <1>1, <1>2, <1>3 DEF EngineInv

LEMMA AdapterKeeps ==
  ASSUME EngineInv, NEW p \in Providers, AdapterStep(p)
  PROVE  EngineInv'
<1> USE DEF EngineInv
<1>1. ASSUME NEW k \in {0, 1}, Page(p, k) PROVE EngineInv'
  <2>1. stored' \in [Providers -> Nat] /\ items' \in [Providers -> Nat]
    BY <1>1 DEF Page, TypeOK
  <2>2. TypeOK'
    BY <1>1, <2>1 DEF Page, TypeOK, lifecycle
  <2>3. PermitsConserved' /\ SearchInv'
    BY <1>1 DEF Page, PermitsConserved, SearchInv, terminal, lifecycle, Contributing
  <2> QED BY <2>2, <2>3
<1>2. ASSUME NEW k \in {0, 1}, LastPage(p, k) PROVE EngineInv'
  <2>1. items[p] + k \in Nat /\ Beside
    BY <1>2 DEF LastPage, Beside, TypeOK
  <2>2. (IF items[p] + k > 0 THEN "success" ELSE "empty") \in Outcomes
    BY DEF Outcomes, Success
  <2> QED BY <1>2, <2>1, <2>2, AcceptKeeps DEF LastPage, Leave, Holding
<1>3. ASSUME NEW status \in {"failed", "cancelled", "timed_out", "not_configured", "unsupported"},
             NEW kept \in {NoResult, Kept(p)},
             task[p] = "collecting", Leave(p, status, kept),
             UNCHANGED <<stored, items, stop, token, main>>
      PROVE  EngineInv'
  <2>1. kept \in Nat \union {NoResult} /\ status \in Outcomes
    BY DEF Kept, Outcomes, Failure, TypeOK
  <2>2. Beside
    BY <1>3 DEF Beside, TypeOK
  <2> QED BY <1>3, <2>1, <2>2, AcceptKeeps DEF Leave, Holding
<1>4. CASE PageError(p)
  BY <1>3, <1>4 DEF PageError
<1>5. CASE SeeToken(p)
  BY <1>3, <1>5 DEF SeeToken
<1>6. CASE Timeout(p)
  BY <1>3, <1>6 DEF Timeout
<1>7. ASSUME NEW status \in {"not_configured", "unsupported"}, Unfit(p, status)
      PROVE  EngineInv'
  BY <1>3, <1>7 DEF Unfit
<1> QED BY <1>1, <1>2, <1>4, <1>5, <1>6, <1>7 DEF AdapterStep

LEMMA LoopKeeps ==
  ASSUME EngineInv, NEW p \in Providers, LoopStep(p)
  PROVE  EngineInv'
<1> USE DEF EngineInv
<1>1. ASSUME NEW status \in {"unsupported", "circuit_open", "cancelled"},
             Accept(p, status, NoResult), Beside,
             permits' = IF task[p] \in Holding THEN permits + 1 ELSE permits
      PROVE  EngineInv'
  <2>1. status \in Outcomes
    BY DEF Outcomes, Failure
  <2> QED BY <1>1, <2>1, AcceptKeeps
<1>2. UNCHANGED <<stored, items, stop, token, main>> => Beside
  BY DEF Beside, TypeOK
<1>3. ASSUME NEW status \in {"unsupported", "circuit_open"}, Refuse(p, status)
      PROVE  EngineInv'
  BY <1>1, <1>2, <1>3 DEF Refuse, Holding
<1>4. CASE RefuseCancelled(p)
  BY <1>1, <1>2, <1>4 DEF RefuseCancelled, Holding
<1>5. CASE Queue(p)
  BY <1>2, <1>5, TaskKeeps DEF Queue, Holding, lifecycle
<1>6. CASE Enter(p)
  <2>1. "entering" \in Holding /\ task[p] \notin Holding /\ snap[p] \notin Outcomes
    BY <1>6, Distinguished DEF Enter, Holding
  <2> QED BY <1>2, <1>6, <2>1, TaskKeeps DEF Enter
<1>7. CASE EnterRefused(p)
  BY <1>1, <1>2, <1>7 DEF EnterRefused, Holding
<1>8. CASE Collect(p)
  BY <1>2, <1>8, TaskKeeps DEF Collect, Holding, lifecycle
<1>9. CASE CollectRefused(p)
  BY <1>1, <1>2, <1>9 DEF CollectRefused, Leave, Holding
<1>10. CASE Deliver(p)
  <2>1. Beside
    BY <1>10 DEF Deliver, Beside, TypeOK
  <2>2. CASE task[p] \in Holding \union {"waiting"}
    BY <1>1, <1>10, <2>1, <2>2 DEF Deliver
  <2>3. CASE task[p] \notin Holding \union {"waiting"}
    <3>1. terminal
      BY <1>10 DEF Deliver, SearchInv
    <3>2. task' = [task EXCEPT ![p] = "ended"] /\ permits' = permits /\ UNCHANGED lifecycle
      BY <1>10, <2>3 DEF Deliver
    <3> QED BY <2>1, <2>3, <3>1, <3>2, TaskKeeps DEF Holding, lifecycle
  <2> QED BY <2>2, <2>3
<1>11. CASE Return(p)
  BY <1>2, <1>11, TaskKeeps DEF Return, Holding, lifecycle
<1> QED
  BY <1>3, <1>4, <1>5, <1>6, <1>7, <1>8, <1>9, <1>10, <1>11 DEF LoopStep

LEMMA MainKeeps ==
  ASSUME EngineInv, MainStep \/ Cancel
  PROVE  EngineInv'
<1> USE DEF EngineInv
<1>1. ASSUME NEW state \in TerminalRun, NEW status \in Outcomes, Finish(state, status),
             main' \in {"finishing", "closed"},
             UNCHANGED <<task, stored, items, permits, stop, token>>
      PROVE  EngineInv'
  <2>1. TypeOK' /\ PermitsConserved'
    BY <1>1, FinishStep DEF TypeOK, PermitsConserved
  <2>2. SearchInv'
    BY <1>1, FinishStep DEF SearchInv, Contributing
  <2> QED BY <2>1, <2>2
<1>2. CASE Gathered
  <2>1. "skipped" \in Outcomes
    BY DEF Outcomes, Failure
  <2> QED BY <1>1, <1>2, <2>1, NaturalStateTerminal DEF Gathered
<1>3. CASE StopCancelled
  BY <1>1, <1>3 DEF StopCancelled, TerminalRun, Outcomes, Failure
<1>4. CASE Deadline
  BY <1>1, <1>4 DEF Deadline, TerminalRun, Outcomes, Failure
<1>5. CASE Drain \/ Close \/ Cancel
  BY <1>5 DEF Drain, Close, Cancel, TypeOK, PermitsConserved, SearchInv, terminal, lifecycle,
     Contributing
<1>6. CASE CancelTasks
  <2>1. terminal /\ stop' \in [Providers -> BOOLEAN]
    BY <1>6 DEF CancelTasks, SearchInv
  <2> QED
    BY <1>6, <2>1 DEF CancelTasks, TypeOK, PermitsConserved, SearchInv, terminal, lifecycle,
       Contributing
<1> QED BY <1>2, <1>3, <1>4, <1>5, <1>6 DEF MainStep

LEMMA EngineStep == EngineInv /\ [Next]_vars => EngineInv'
<1> SUFFICES ASSUME EngineInv, [Next]_vars PROVE EngineInv'
  OBVIOUS
<1>1. CASE UNCHANGED vars
  BY <1>1
     DEF vars, EngineInv, TypeOK, PermitsConserved, SearchInv, terminal, Contributing
<1> QED BY <1>1, AdapterKeeps, LoopKeeps, MainKeeps DEF Next

\* The strengthened invariant holds in every state of every search.
LEMMA EngineInvariant == Spec => []EngineInv
BY EngineInit, EngineStep, PTL DEF Spec

\* Every variable keeps its type, whatever the tasks, the deadline and the
\* user do.
THEOREM TypeCorrect == Spec => []TypeOK
<1>1. EngineInv => TypeOK
  BY DEF EngineInv
<1> QED BY <1>1, EngineInvariant, PTL

\* async with semaphore: the free permits and the tasks inside always add up
\* to max_concurrent_providers, cancellation at any await included.
THEOREM PermitsAreConserved == Spec => []PermitsConserved
<1>1. EngineInv => PermitsConserved
  BY DEF EngineInv
<1> QED BY <1>1, EngineInvariant, PTL

----------------------------------------------------------------------------
(* After the terminal snapshot.                                            *)

\* No task changes the lifecycle of a terminal run: accept refuses.
LEMMA TaskSilent ==
  ASSUME terminal, NEW p \in Providers, AdapterStep(p) \/ LoopStep(p)
  PROVE  /\ UNCHANGED lifecycle
         /\ \/ task' = task
            \/ \E place \in {"waiting", "accepting", "ended"} :
                 task' = [task EXCEPT ![p] = place]
<1>1. ASSUME NEW status, NEW kept, Accept(p, status, kept)
      PROVE  UNCHANGED lifecycle /\ task' = [task EXCEPT ![p] = "ended"]
  BY <1>1 DEF Accept
<1>2. CASE AdapterStep(p)
  BY <1>1, <1>2
     DEF AdapterStep, Page, LastPage, PageError, SeeToken, Timeout, Unfit, Leave
<1>3. CASE LoopStep(p)
  BY <1>1, <1>3
     DEF LoopStep, Refuse, RefuseCancelled, Queue, Enter, EnterRefused, Collect,
         CollectRefused, Deliver, Return, Leave
<1> QED BY <1>2, <1>3

LEMMA TerminalStep ==
  ASSUME EngineInv, [Next]_vars, terminal
  PROVE  /\ UNCHANGED lifecycle
         /\ \A p \in Providers : task'[p] = "collecting" => task[p] = "collecting"
<1>1. ASSUME NEW p \in Providers, AdapterStep(p) \/ LoopStep(p)
      PROVE  /\ UNCHANGED lifecycle
             /\ \A q \in Providers : task'[q] = "collecting" => task[q] = "collecting"
  BY <1>1, TaskSilent DEF EngineInv, TypeOK
<1>2. CASE MainStep \/ Cancel
  BY <1>2 DEF MainStep, Cancel, Gathered, StopCancelled, Deadline, Drain, CancelTasks,
              Close, EngineInv, SearchInv
<1>3. CASE UNCHANGED vars
  BY <1>3 DEF vars, lifecycle
<1> QED BY <1>1, <1>2, <1>3 DEF Next

\* Terminal states are final: tasks run on after the terminal snapshot, and
\* nothing they report changes a provider state, a result or the revision.
THEOREM TerminalIsSilent == Spec => SilentAfterTerminal
<1>1. EngineInv /\ [Next]_vars => [terminal => UNCHANGED lifecycle]_vars
  BY TerminalStep
<1> QED BY <1>1, EngineInvariant, PTL DEF Spec, SilentAfterTerminal

\* mark_running publishes and looks at the run again: no adapter is started in
\* a run that became terminal in the meantime.
THEOREM NothingIsDispatched == Spec => NoDispatchAfterTerminal
<1>1. EngineInv /\ [Next]_vars =>
        [terminal => \A p \in Providers :
           task'[p] = "collecting" => task[p] = "collecting"]_vars
  BY TerminalStep
<1> QED BY <1>1, EngineInvariant, PTL DEF Spec, NoDispatchAfterTerminal

----------------------------------------------------------------------------
(* The search implements SearchRun.                                        *)

\* A change that leaves every outcome and every result alone stutters.
LEMMA Stutter ==
  ASSUME TypeOK, runState' = runState, merged' = merged,
         \/ snap' = snap
         \/ \E p \in Providers :
              snap[p] = "queued" /\ snap' = [snap EXCEPT ![p] = "running"]
  PROVE  UNCHANGED Abstract!abstractVars
<1>1. outcome' = outcome
  BY Distinguished DEF outcome, TypeOK
<1> QED BY <1>1 DEF Abstract!abstractVars

\* An accepted execution completes its provider.
LEMMA AcceptCompletes ==
  ASSUME EngineInv, NEW p \in Providers, NEW status \in Outcomes,
         NEW kept \in Nat \union {NoResult}, Accept(p, status, kept)
  PROVE  [Abstract!Next]_(Abstract!abstractVars)
<1>1. CASE terminal \/ snap[p] \in Outcomes
  BY <1>1, Stutter DEF Accept, EngineInv, lifecycle
<1>2. CASE ~terminal /\ snap[p] \notin Outcomes
  <2>1. snap' = [snap EXCEPT ![p] = status] /\ runState' = runState
    BY <1>2 DEF Accept, Record
  <2>2. runState = "running"
    BY <1>2 DEF EngineInv, TypeOK, terminal
  <2>3. outcome[p] = "pending" /\ outcome' = [outcome EXCEPT ![p] = status]
    BY <1>2, <2>1 DEF outcome, EngineInv, TypeOK
  <2>4. /\ merged \subseteq merged' /\ merged' \subseteq Contributing'
        /\ \A q \in Providers : snap'[q] \notin Outcomes => result'[q] = NoResult
    BY AcceptStep DEF EngineInv
  <2>5. merged' \in SUBSET (Abstract!Done \union {p})
    <3>1. SUFFICES ASSUME NEW q \in Contributing', q # p  PROVE q \in Abstract!Done
      BY <2>4
    <3>2. q \in Providers /\ result'[q] > 0
      BY <3>1 DEF Contributing
    <3>3. snap'[q] \in Outcomes
      BY <2>4, <3>2 DEF NoResult
    <3>4. snap[q] \in Outcomes
      BY <2>1, <3>1, <3>2, <3>3 DEF EngineInv, TypeOK
    <3>5. "pending" \notin Outcomes
      BY DEF Outcomes, Success, Failure
    <3> QED BY <3>2, <3>4, <3>5 DEF Abstract!Done, outcome
  <2>6. p \notin Abstract!Done
    BY <2>3 DEF Abstract!Done
  <2> QED BY <2>1, <2>2, <2>3, <2>4, <2>5, <2>6 DEF Abstract!Next, Abstract!Complete
<1> QED BY <1>1, <1>2

\* finish before every task returned cuts the run short.
LEMMA FinishCutsShort ==
  ASSUME EngineInv, NEW reason \in {"cancelled", "timed_out"}, main = "waiting",
         Finish(reason, reason)
  PROVE  Abstract!CutShort(reason)
<1>1. runState = "running"
  BY DEF EngineInv, TypeOK, SearchInv, terminal
<1>3. outcome' = [p \in Providers |->
                    IF outcome[p] = "pending" THEN reason ELSE outcome[p]]
  <2>1. reason \in Outcomes /\ "pending" \notin Outcomes
    BY DEF Outcomes, Success, Failure
  <2> QED BY <2>1 DEF Finish, outcome
<1> QED BY <1>1, <1>3 DEF Finish, Abstract!CutShort

\* finish after the last task returned ends the run with what its outcomes say.
LEMMA GatheredEnds ==
  ASSUME EngineInv, Gathered
  PROVE  Abstract!End
<1>1. ~terminal /\ runState = "running"
  BY DEF Gathered, EngineInv, TypeOK, SearchInv, terminal
<1>2. \A p \in Providers : snap[p] \in Outcomes
  BY <1>1 DEF Gathered, EngineInv, SearchInv
<1>3. \A p \in Providers : outcome[p] = snap[p] /\ outcome[p] # "pending"
  <2>1. "pending" \notin Outcomes
    BY DEF Outcomes, Success, Failure
  <2> QED BY <1>2, <2>1 DEF outcome
<1>4. snap' = snap /\ merged' = merged
  BY <1>2 DEF Gathered, Finish, EngineInv, TypeOK
<1>5. outcome' = outcome
  BY <1>4 DEF outcome
<1>6. NaturalState = Abstract!Verdict
  <2>1. ({p \in Providers : snap[p] \notin Success} = {})
          <=> \A p \in Providers : outcome[p] \in Success
    BY <1>3
  <2> QED BY <1>3, <2>1 DEF NaturalState, Abstract!Verdict
<1>7. Abstract!Done = Providers
  BY <1>3 DEF Abstract!Done
<1> QED BY <1>1, <1>4, <1>5, <1>6, <1>7 DEF Gathered, Finish, Abstract!End

LEMMA RefinementInit == Init => Abstract!Init
BY Distinguished DEF Init, Abstract!Init, outcome

LEMMA RefinementStep ==
  ASSUME EngineInv, [Next]_vars
  PROVE  [Abstract!Next]_(Abstract!abstractVars)
<1>1. ASSUME NEW p \in Providers, AdapterStep(p) PROVE [Abstract!Next]_(Abstract!abstractVars)
  <2>1. ASSUME NEW k \in {0, 1}, Page(p, k) PROVE UNCHANGED Abstract!abstractVars
    BY <2>1, Stutter DEF Page, lifecycle, EngineInv
  <2>2. ASSUME NEW k \in {0, 1}, LastPage(p, k) PROVE [Abstract!Next]_(Abstract!abstractVars)
    <3>1. items[p] + k \in Nat
      BY DEF EngineInv, TypeOK
    <3>2. (IF items[p] + k > 0 THEN "success" ELSE "empty") \in Outcomes
      BY DEF Outcomes, Success
    <3> QED BY <2>2, <3>1, <3>2, AcceptCompletes DEF LastPage, Leave
  <2>3. ASSUME NEW status \in {"failed", "cancelled", "timed_out", "not_configured", "unsupported"},
               NEW kept \in {NoResult, Kept(p)}, Leave(p, status, kept)
        PROVE  [Abstract!Next]_(Abstract!abstractVars)
    <3>1. kept \in Nat \union {NoResult} /\ status \in Outcomes
      BY DEF Kept, Outcomes, Failure, EngineInv, TypeOK
    <3> QED BY <2>3, <3>1, AcceptCompletes DEF Leave
  <2>4. CASE PageError(p) \/ SeeToken(p) \/ Timeout(p)
    BY <2>3, <2>4 DEF PageError, SeeToken, Timeout
  <2>5. ASSUME NEW status \in {"not_configured", "unsupported"}, Unfit(p, status)
        PROVE  [Abstract!Next]_(Abstract!abstractVars)
    BY <2>3, <2>5 DEF Unfit
  <2> QED BY <1>1, <2>1, <2>2, <2>4, <2>5 DEF AdapterStep
<1>2. ASSUME NEW p \in Providers, LoopStep(p) PROVE [Abstract!Next]_(Abstract!abstractVars)
  <2>1. ASSUME NEW status \in {"unsupported", "circuit_open", "cancelled"},
               Accept(p, status, NoResult)
        PROVE  [Abstract!Next]_(Abstract!abstractVars)
    <3>1. status \in Outcomes
      BY DEF Outcomes, Failure
    <3> QED BY <2>1, <3>1, AcceptCompletes
  <2>2. CASE \/ \E s \in {"unsupported", "circuit_open"} : Refuse(p, s)
             \/ RefuseCancelled(p) \/ EnterRefused(p) \/ CollectRefused(p)
    BY <2>1, <2>2 DEF Refuse, RefuseCancelled, EnterRefused, CollectRefused, Leave
  <2>3. CASE Queue(p) \/ Collect(p) \/ Return(p)
    BY <2>3, Stutter DEF Queue, Collect, Return, lifecycle, EngineInv
  <2>4. CASE Enter(p)
    BY <2>4, Stutter DEF Enter, EngineInv
  <2>5. CASE Deliver(p)
    <3>1. Accept(p, "cancelled", NoResult) \/ UNCHANGED lifecycle
      BY <2>5 DEF Deliver
    <3> QED BY <2>1, <3>1, Stutter DEF lifecycle, EngineInv
  <2> QED BY <1>2, <2>2, <2>3, <2>4, <2>5 DEF LoopStep
<1>3. CASE MainStep \/ Cancel
  <2>1. CASE Gathered
    BY <2>1, GatheredEnds DEF Abstract!Next
  <2>2. CASE StopCancelled \/ Deadline
    BY <2>2, FinishCutsShort DEF StopCancelled, Deadline, Abstract!Next
  <2>3. CASE Drain \/ CancelTasks \/ Close \/ Cancel
    BY <2>3, Stutter DEF Drain, CancelTasks, Close, Cancel, lifecycle, EngineInv
  <2> QED BY <1>3, <2>1, <2>2, <2>3 DEF MainStep
<1>4. CASE UNCHANGED vars
  BY <1>4, Stutter DEF vars, EngineInv
<1> QED BY <1>1, <1>2, <1>3, <1>4 DEF Next

\* The engine with its tasks, permits, cancellation and deadline does what
\* SearchRun says of a search: one lasting outcome per provider, one end, and
\* an end that agrees with the outcomes.
THEOREM EngineImplementsSearchRun == Spec => ImplementsSearchRun
<1>1. Init => Abstract!Init
  BY RefinementInit
<1>2. EngineInv /\ [Next]_vars => [Abstract!Next]_(Abstract!abstractVars)
  BY RefinementStep
<1> QED
  BY <1>1, <1>2, EngineInvariant, PTL DEF Spec, ImplementsSearchRun, Abstract!Spec
----------------------------------------------------------------------------
(* The queue of snapshots.                                                 *)

Entries == Nat \union {-1, End}

\* Behind End, which is last, nothing is put; before it is the last revision.
Ending ==
  /\ Len(pending) >= 1 /\ pending[Len(pending)] = End
  /\ \A n \in 1 .. Len(pending) - 1 : pending[n] # End
  /\ Len(pending) = 1 => shown = revision
  /\ Len(pending) >= 2 => pending[Len(pending) - 1] = revision

Running ==
  /\ \A n \in 1 .. Len(pending) : pending[n] # End
  /\ Len(pending) = 0 => shown = revision
  /\ Len(pending) >= 1 => pending[Len(pending)] = revision

ProgressInv ==
  /\ EngineInv
  /\ pending \in Seq(Entries) /\ Len(pending) <= QueueSize
  /\ deliverer \in {"waiting", "calling", "ended"}
  /\ shown \in Nat \union {-1}
  /\ dispatcher \in {"open", "closing", "closed"}
  /\ gaveUp \in BOOLEAN
  /\ dispatcher # "open" => terminal
  /\ dispatcher = "open" => deliverer # "ended" /\ Running
  /\ dispatcher = "closing" =>
       IF deliverer = "ended" THEN shown = revision ELSE Ending
  /\ dispatcher = "closed" => deliverer = "ended"
  /\ dispatcher = "closed" /\ ~gaveUp => shown = revision

\* A full queue loses its oldest entry, and nothing else.
LEMMA PutProperties ==
  ASSUME NEW q \in Seq(Entries), Len(q) <= QueueSize, NEW e \in Entries
  PROVE  /\ Put(q, e) \in Seq(Entries)
         /\ Len(Put(q, e)) = (IF Len(q) = QueueSize THEN Len(q) ELSE Len(q) + 1)
         /\ Put(q, e)[Len(Put(q, e))] = e
         /\ \A n \in 1 .. Len(Put(q, e)) - 1 :
              Put(q, e)[n] = q[n + (IF Len(q) = QueueSize THEN 1 ELSE 0)]
<1>0. Len(q) \in Nat /\ QueueSize \in Nat /\ QueueSize >= 1
  BY LenProperties, ProgressAssumption
<1>1. CASE Len(q) = QueueSize
  <2>. DEFINE t == Tail(q)
  <2>1. q # << >>
    BY <1>0, <1>1
  <2>2. /\ t \in Seq(Entries) /\ Len(t) = Len(q) - 1
        /\ \A n \in 1 .. Len(t) : t[n] = q[n + 1]
    BY <2>1, HeadTailProperties
  <2>3. Put(q, e) = Append(t, e)
    BY <1>1 DEF Put
  <2>. HIDE DEF t
  <2>4. /\ Append(t, e) \in Seq(Entries) /\ Len(Append(t, e)) = Len(t) + 1
        /\ Append(t, e)[Len(t) + 1] = e
        /\ \A n \in 1 .. Len(t) : Append(t, e)[n] = t[n]
    BY <2>2
  <2>. QED
    BY <1>0, <1>1, <2>2, <2>3, <2>4
<1>2. CASE Len(q) # QueueSize
  <2>1. Put(q, e) = Append(q, e)
    BY <1>2 DEF Put
  <2>2. /\ Append(q, e) \in Seq(Entries) /\ Len(Append(q, e)) = Len(q) + 1
        /\ Append(q, e)[Len(q) + 1] = e
        /\ \A n \in 1 .. Len(q) : Append(q, e)[n] = q[n]
    OBVIOUS
  <2>. QED
    BY <1>0, <1>2, <2>1, <2>2
<1>. QED
  BY <1>1, <1>2

LEMMA ProgressInit == SearchInit => ProgressInv
<1>. SUFFICES ASSUME SearchInit  PROVE ProgressInv
  OBVIOUS
<1>1. EngineInv
  BY EngineInit DEF SearchInit
<1>2. revision \in Nat \union {-1}
  BY <1>1 DEF EngineInv, TypeOK
<1>3. shown \in Nat \union {-1} /\ shown <= revision
  BY <1>2 DEF SearchInit
<1>4. PICK kept \in {QueueSize, revision - shown} :
        /\ kept <= QueueSize /\ kept <= revision - shown
        /\ pending = [n \in 1 .. kept |-> revision - kept + n]
  BY DEF SearchInit
<1>5. kept \in Nat /\ (kept = 0 => shown = revision)
  BY <1>2, <1>3, <1>4, ProgressAssumption
<1>6. \A n \in 1 .. kept : pending[n] \in Nat
  BY <1>2, <1>3, <1>4, <1>5
<1>7. pending \in Seq(Entries) /\ Len(pending) = kept
  BY <1>4, <1>5, <1>6 DEF Entries
<1>8. Running
  BY <1>2, <1>4, <1>5, <1>6, <1>7 DEF Running, End
<1>. QED
  BY <1>1, <1>3, <1>4, <1>7, <1>8 DEF ProgressInv, SearchInit

LEMMA ProgressStep ==
  ASSUME QueueSize >= 2, ProgressInv, [SearchNext]_searchVars
  PROVE  ProgressInv'
<1>t. /\ EngineInv /\ revision \in Nat \union {-1} /\ revision \in Entries
      /\ revision # End /\ End \in Entries
      /\ pending \in Seq(Entries) /\ Len(pending) \in Nat /\ Len(pending) <= QueueSize
      /\ QueueSize \in Nat
  BY LenProperties, ProgressAssumption DEF ProgressInv, EngineInv, TypeOK, Entries, End
<1>e. [Next]_vars => EngineInv'
  BY <1>t, EngineStep
<1>1. CASE SearchStep
  <2>1. EngineInv' /\ revision' \in Nat \union {-1}
    BY <1>1, <1>e DEF SearchStep, EngineInv, TypeOK
  <2>2. CASE revision' = revision
    <3>1. terminal => terminal'
      BY <1>1, <1>t, TerminalStep DEF SearchStep, lifecycle, terminal
    <3>. QED
      BY <1>1, <2>1, <2>2, <3>1 DEF SearchStep, ProgressInv, Running, Ending
  <2>3. CASE revision' # revision
    <3>1. ~terminal
      BY <1>1, <1>t, <2>3, TerminalStep DEF SearchStep, lifecycle
    <3>2. dispatcher = "open" /\ Running
      BY <3>1 DEF ProgressInv
    <3>3. pending' = Put(pending, revision') /\ revision' \in Entries /\ revision' # End
      BY <1>1, <2>1, <2>3 DEF SearchStep, Entries, End
    <3>4. /\ pending' \in Seq(Entries) /\ Len(pending') \in Nat
          /\ Len(pending') = (IF Len(pending) = QueueSize THEN Len(pending)
                              ELSE Len(pending) + 1)
          /\ pending'[Len(pending')] = revision'
          /\ \A n \in 1 .. Len(pending') - 1 :
               pending'[n] = pending[n + (IF Len(pending) = QueueSize THEN 1 ELSE 0)]
      <4>1. PICK e \in Entries : e = revision'
        BY <3>3
      <4>2. pending' = Put(pending, e)
        BY <3>3, <4>1
      <4>3. /\ Put(pending, e) \in Seq(Entries)
            /\ Len(Put(pending, e)) = (IF Len(pending) = QueueSize THEN Len(pending)
                                        ELSE Len(pending) + 1)
            /\ Put(pending, e)[Len(Put(pending, e))] = e
            /\ \A n \in 1 .. Len(Put(pending, e)) - 1 :
                 Put(pending, e)[n] = pending[n + (IF Len(pending) = QueueSize THEN 1 ELSE 0)]
        BY <1>t, PutProperties
      <4>. QED
        BY <1>t, <4>1, <4>2, <4>3, LenProperties
    <3>5. Running'
      BY <1>t, <3>2, <3>3, <3>4 DEF Running
    <3>. QED
      BY <1>1, <1>t, <2>1, <3>2, <3>4, <3>5 DEF SearchStep, ProgressInv
  <2>. QED
    BY <2>2, <2>3
<1>2. CASE Take
  <2>1. /\ EngineInv' /\ revision' = revision /\ (terminal => terminal')
    BY <1>2, <1>e DEF Take, vars, terminal
  <2>2. /\ Len(pending) >= 1 /\ pending' \in Seq(Entries)
        /\ Len(pending') = Len(pending) - 1 /\ Head(pending) = pending[1]
        /\ Head(pending) \in Entries
        /\ \A n \in 1 .. Len(pending') : pending'[n] = pending[n + 1]
    <3>1. pending # << >> /\ pending' = Tail(pending)
      BY <1>2 DEF Take
    <3>. QED
      BY <1>t, <3>1, HeadTailProperties
  <2>3. CASE dispatcher = "open"
    <3>1. Running
      BY <2>3 DEF ProgressInv
    <3>2. Head(pending) # End /\ shown' = Head(pending) /\ deliverer' # "ended"
      BY <1>t, <1>2, <2>2, <3>1 DEF Take, Running
    <3>3. Running'
      BY <1>t, <2>1, <2>2, <3>1, <3>2 DEF Running
    <3>4. shown' \in Nat \union {-1}
      BY <2>2, <3>2 DEF Entries
    <3>. QED
      BY <1>2, <1>t, <2>1, <2>2, <2>3, <3>2, <3>3, <3>4 DEF Take, ProgressInv
  <2>4. CASE dispatcher = "closing"
    <3>1. Ending
      BY <1>2, <2>4 DEF Take, ProgressInv
    <3>2. CASE Head(pending) = End
      <4>1. Len(pending) = 1 /\ shown = revision
        BY <1>t, <2>2, <3>1, <3>2 DEF Ending
      <4>2. deliverer' = "ended" /\ shown' = shown
        BY <1>2, <3>2 DEF Take
      <4>. QED
        BY <1>2, <1>t, <2>1, <2>2, <2>4, <4>1, <4>2 DEF Take, ProgressInv
    <3>3. CASE Head(pending) # End
      <4>1. Len(pending) >= 2 /\ shown' = Head(pending) /\ deliverer' # "ended"
        BY <1>t, <1>2, <2>2, <3>1, <3>3 DEF Take, Ending
      <4>2. Ending'
        <5>1. /\ Len(pending') >= 1 /\ Len(pending') \in Nat
              /\ pending'[Len(pending')] = End
          BY <1>t, <2>2, <3>1, <4>1 DEF Ending
        <5>2. \A n \in 1 .. Len(pending') - 1 : pending'[n] # End
          BY <1>t, <2>2, <3>1, <4>1, <5>1 DEF Ending
        <5>3. Len(pending') = 1 => shown' = revision'
          BY <1>t, <2>1, <2>2, <3>1, <4>1 DEF Ending
        <5>4. Len(pending') >= 2 => pending'[Len(pending') - 1] = revision'
          BY <1>t, <2>1, <2>2, <3>1, <4>1 DEF Ending
        <5>. QED
          BY <5>1, <5>2, <5>3, <5>4 DEF Ending
      <4>3. shown' \in Nat \union {-1}
        BY <2>2, <3>3, <4>1 DEF Entries
      <4>. QED
        BY <1>2, <1>t, <2>1, <2>2, <2>4, <4>1, <4>2, <4>3 DEF Take, ProgressInv
    <3>. QED
      BY <3>2, <3>3
  <2>5. dispatcher # "closed"
    BY <1>2 DEF Take, ProgressInv
  <2>. QED
    BY <2>3, <2>4, <2>5 DEF ProgressInv
<1>3. CASE CallbackReturns
  <2>1. EngineInv' /\ (terminal => terminal')
    BY <1>3, <1>e DEF CallbackReturns, vars, terminal
  <2>. QED
    BY <1>3, <2>1 DEF CallbackReturns, ProgressInv, Running, Ending, vars
<1>4. CASE BeginClose
  <2>1. EngineInv' /\ revision' = revision
    BY <1>4, <1>e DEF BeginClose, vars
  <2>2. terminal'
    BY <1>4, <1>t DEF BeginClose, vars, terminal, EngineInv, SearchInv
  <2>3. Running /\ deliverer # "ended"
    BY <1>4 DEF BeginClose, ProgressInv
  <2>4. /\ pending' \in Seq(Entries) /\ Len(pending') \in Nat
        /\ Len(pending') = (IF Len(pending) = QueueSize THEN Len(pending)
                            ELSE Len(pending) + 1)
        /\ pending'[Len(pending')] = End
        /\ \A n \in 1 .. Len(pending') - 1 :
             pending'[n] = pending[n + (IF Len(pending) = QueueSize THEN 1 ELSE 0)]
    <3>1. pending' = Put(pending, End)
      BY <1>4 DEF BeginClose
    <3>. QED
      BY <1>t, <3>1, PutProperties
  <2>5. Ending'
    <3>1. shown' = shown
      BY <1>4 DEF BeginClose
    <3>. QED
      BY <1>t, <2>1, <2>3, <2>4, <3>1 DEF Running, Ending
  <2>. QED
    BY <1>4, <1>t, <2>1, <2>2, <2>3, <2>4, <2>5 DEF BeginClose, ProgressInv
<1>5. CASE Closed \/ GiveUp
  <2>1. EngineInv' /\ (terminal => terminal')
    BY <1>5, <1>e DEF Closed, GiveUp, vars, terminal
  <2>. QED
    BY <1>5, <2>1 DEF Closed, GiveUp, ProgressInv, vars
<1>6. CASE UNCHANGED searchVars
  <2>1. EngineInv' /\ (terminal => terminal')
    BY <1>6, <1>e DEF searchVars, vars, terminal
  <2>. QED
    BY <1>6, <2>1 DEF searchVars, progressVars, ProgressInv, Running, Ending, vars
<1>. QED
  BY <1>1, <1>2, <1>3, <1>4, <1>5, <1>6 DEF SearchNext

\* The subscriber is left with the terminal snapshot, for any number of
\* providers and any queue of at least two entries.
THEOREM TerminalIsShown == ASSUME QueueSize >= 2  PROVE SearchSpec => []TerminalShown
<1>1. ProgressInv => TerminalShown
  BY DEF ProgressInv, TerminalShown
<1>. QED
  BY ProgressInit, ProgressStep, <1>1, PTL DEF SearchSpec
=============================================================================

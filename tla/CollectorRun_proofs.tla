------------------------- MODULE CollectorRun_proofs -------------------------
(***************************************************************************)
(* Proofs about CollectorRun, for any number of runs, providers, pages and *)
(* any lease duration.                                                     *)
(*                                                                         *)
(* PageInv makes TypeOK and AcceptedPrefix inductive: what a running task  *)
(* fetches next is a page of the provider, and every page below it was     *)
(* accepted by some run, however often the checkpoint was overwritten in   *)
(* between.  LeaseInv makes LeaseExclusive inductive: a run inside its     *)
(* lease owns the lease row.  SavedInv follows the pages of a run to the   *)
(* executions that carry them, RegistryInv from there into the registry;   *)
(* CountInv ties the counter of the one task at work to the page rows.     *)
(* ToldInv says that what a run is about to write is true, which makes     *)
(* every step a step of RunLedger.                                         *)
(***************************************************************************)
EXTENDS CollectorRun, FiniteSetTheorems, TLAPS

Accepted(p, n) == \E r \in Runs : <<r, p, n>> \in pages

\* A queued task has accepted nothing.
QueuedFresh ==
  \A r \in Runs, p \in Providers : task[r][p] = "queued" => got[r][p] = 0

\* The page a running task fetches next exists, and all before it are there.
RunningPage ==
  \A r \in Runs, p \in Providers : task[r][p] = "running" =>
    /\ NextPage(r, p) \in PageNo
    /\ \A n \in 1 .. (NextPage(r, p) - 1) : Accepted(p, n)

PageInv == TypeOK /\ QueuedFresh /\ RunningPage /\ AcceptedPrefix

\* A run that is RUNNING inside its lease owns the lease row.
LeaseInv ==
  /\ LeaseHeldByRunning
  /\ \A r \in Runs : runStatus[r] = "running" /\ ttl[r] > 0 => lease = r

----------------------------------------------------------------------------
(* Lemmas about the operators of the model.                                *)

\* Collection resumes at a page of the provider, below which every page is
\* covered by the checkpoint, unless it starts again from the first page.
LEMMA ResumeIsPage ==
  ASSUME NEW cp \in CheckpointOf
  PROVE  /\ ResumePage(cp) \in PageNo
         /\ ResumePage(cp) = 1 \/ ResumePage(cp) = cp.last + 1
BY BoundsAssumption DEF CheckpointOf, ResumePage, PageNo

\* Whatever the outcome, _status_for_batch yields a terminal status.
LEMMA StatusIsTerminal ==
  ASSUME NEW r \in Runs
  PROVE  StatusForBatch(r) \in TerminalRun
BY DEF StatusForBatch, TerminalRun

\* The items a task holds are items of the providers.
LEMMA TakenIsItems ==
  ASSUME TypeOK, QueuedFresh, RunningPage,
         NEW r \in Runs, NEW p \in Providers,
         task[r][p] \in {"queued", "running"}
  PROVE  Taken(r, p) \subseteq Item
<1>1. base[r][p] \in CheckpointOf /\ got[r][p] \in Nat
  BY DEF TypeOK
<1>2. ResumePage(base[r][p]) \in PageNo
  BY <1>1, ResumeIsPage
<1>3. CASE task[r][p] = "queued"
  <2>1. got[r][p] = 0
    BY <1>3 DEF QueuedFresh
  <2> QED BY <1>2, <2>1, BoundsAssumption DEF Taken, NextPage, Item, PageNo
<1>4. CASE task[r][p] = "running"
  <2>1. NextPage(r, p) \in PageNo
    BY <1>4 DEF RunningPage
  <2> QED BY <1>2, <2>1, BoundsAssumption DEF Taken, Item, PageNo
<1> QED BY <1>3, <1>4

\* Accepting an execution keeps outcomes and items within their types.
LEMMA AcceptTyped ==
  ASSUME TypeOK, NEW r \in Runs, NEW p \in Providers,
         NEW status \in Outcome, NEW items \in SUBSET Item,
         Accept(r, p, status, items)
  PROVE  /\ outcome' \in [Runs -> [Providers -> Outcome]]
         /\ kept' \in [Runs -> SUBSET Item]
         /\ merged' \in [Runs -> SUBSET Item]
<1>1. /\ outcome \in [Runs -> [Providers -> Outcome]]
      /\ kept \in [Runs -> SUBSET Item] /\ merged \in [Runs -> SUBSET Item]
  BY DEF TypeOK
<1>2. CASE verdict[r] = "none" /\ outcome[r][p] = "none"
  <2>1. outcome' = [outcome EXCEPT ![r][p] = status]
    BY <1>2 DEF Accept
  <2>2. kept' = [kept EXCEPT ![r] = @ \union items]
    BY <1>2 DEF Accept
  <2>3. kept[r] \union items \in SUBSET Item
    BY <1>1
  <2>4. kept' \in [Runs -> SUBSET Item]
    BY <1>1, <2>2, <2>3
  <2>5. merged' = merged \/ merged' = [merged EXCEPT ![r] = kept'[r]]
    BY <1>2 DEF Accept, Rebuild
  <2>6. merged' \in [Runs -> SUBSET Item]
    BY <1>1, <2>4, <2>5
  <2> QED BY <1>1, <2>1, <2>4, <2>6
<1>3. CASE ~(verdict[r] = "none" /\ outcome[r][p] = "none")
  BY <1>1, <1>3 DEF Accept
<1> QED BY <1>2, <1>3

\* Forgetting returns to values of the right types.
LEMMA ForgetSearchTyped ==
  ASSUME TypeOK, NEW r \in Runs, ForgetSearch(r)
  PROVE  /\ token' \in [Runs -> BOOLEAN]
         /\ task' \in [Runs -> [Providers -> {"queued", "running", "ended"}]]
         /\ base' \in [Runs -> [Providers -> CheckpointOf]]
         /\ got' \in [Runs -> [Providers -> Nat]]
<1>1. NoCheckpoint \in CheckpointOf
  BY BoundsAssumption DEF NoCheckpoint, CheckpointOf
<1>2. [p \in Providers |-> NoCheckpoint] \in [Providers -> CheckpointOf]
  BY <1>1
<1>3. base' \in [Runs -> [Providers -> CheckpointOf]]
  BY <1>2 DEF TypeOK, ForgetSearch
<1> QED BY <1>3 DEF TypeOK, ForgetSearch

\* So does forgetting the batch.
LEMMA ForgetBatchTyped ==
  ASSUME TypeOK, NEW r \in Runs, ForgetBatch(r)
  PROVE  /\ verdict' \in [Runs -> {"none", "natural", "cancelled", "timed_out"}]
         /\ outcome' \in [Runs -> [Providers -> Outcome]]
         /\ kept' \in [Runs -> SUBSET Item]
         /\ merged' \in [Runs -> SUBSET Item]
<1>1. [p \in Providers |-> "none"] \in [Providers -> Outcome]
  BY DEF Outcome
<1> QED BY <1>1 DEF TypeOK, ForgetBatch

\* Completing a run leaves a lease row that is absent or names a run.
LEMMA CompleteRunTyped ==
  ASSUME TypeOK, NEW r \in Runs, NEW status \in TerminalRun, CompleteRun(r, status)
  PROVE  runStatus' \in [Runs -> RunStatus] /\ lease' \in Runs \union {NoRun}
BY DEF TypeOK, CompleteRun, RunStatus

----------------------------------------------------------------------------
(* PageInv.                                                                *)

\* The initial state: no task runs and no checkpoint row exists.
LEMMA InitPageInv == Init => PageInv
<1> SUFFICES ASSUME Init PROVE PageInv
  OBVIOUS
<1>1. NoCheckpoint \in CheckpointOf
  BY BoundsAssumption DEF NoCheckpoint, CheckpointOf
<1>2. TypeOK
  BY <1>1, BoundsAssumption DEF Init, TypeOK, RunStatus, Outcome
<1>3. QueuedFresh /\ RunningPage
  BY DEF Init, QueuedFresh, RunningPage
<1>4. AcceptedPrefix
  BY DEF Init, AcceptedPrefix, NoCheckpoint
<1> QED BY <1>2, <1>3, <1>4 DEF PageInv

\* The steps of a provider task preserve the types.
LEMMA ProviderStepTyped ==
  ASSUME TypeOK, QueuedFresh, RunningPage,
         NEW r \in Runs, NEW p \in Providers, ProviderStep(r, p)
  PROVE  TypeOK'
<1> USE DEF TypeOK
<1>1. ASSUME RefuseProvider(r, p) PROVE TypeOK'
  BY <1>1, AcceptTyped DEF RefuseProvider, EndTask, Outcome, durable
<1>2. ASSUME OpenProvider(r, p) PROVE TypeOK'
  BY <1>2 DEF OpenProvider, durable
<1>3. ASSUME AcceptPage(r, p) PROVE TypeOK'
  <2> DEFINE n == NextPage(r, p)
  <2>1. n \in PageNo
    BY <1>3 DEF AcceptPage, RunningPage
  <2>2. Taken(r, p) \union {<<p, n>>} \in SUBSET Item
    BY <2>1, <1>3, TakenIsItems DEF AcceptPage, Item
  <2>3. pages' \subseteq Runs \X Providers \X PageNo
    BY <1>3, <2>1 DEF AcceptPage
  <2>4. NextCheckpoint(r, p) \in CheckpointOf
    BY <2>1, BoundsAssumption DEF NextCheckpoint, CheckpointOf, PageNo
  <2>5. checkpoint' \in [Providers -> CheckpointOf]
    BY <1>3, <2>4 DEF AcceptPage
  <2>6. got' \in [Runs -> [Providers -> Nat]]
    BY <1>3 DEF AcceptPage
  <2>7. ASSUME NEW status \in {"success", "failed"},
               EndTask(r, p),
               Accept(r, p, status, Taken(r, p) \union {<<p, n>>})
        PROVE  /\ task' \in [Runs -> [Providers -> {"queued", "running", "ended"}]]
               /\ outcome' \in [Runs -> [Providers -> Outcome]]
               /\ kept' \in [Runs -> SUBSET Item]
               /\ merged' \in [Runs -> SUBSET Item]
    <3>1. status \in Outcome
      BY DEF Outcome
    <3>2. /\ outcome' \in [Runs -> [Providers -> Outcome]]
          /\ kept' \in [Runs -> SUBSET Item]
          /\ merged' \in [Runs -> SUBSET Item]
      BY <2>2, <2>7, <3>1, AcceptTyped
    <3> QED BY <2>7, <3>2 DEF EndTask
  <2>8. /\ task' \in [Runs -> [Providers -> {"queued", "running", "ended"}]]
        /\ outcome' \in [Runs -> [Providers -> Outcome]]
        /\ kept' \in [Runs -> SUBSET Item]
        /\ merged' \in [Runs -> SUBSET Item]
    <3>1. \/ EndTask(r, p) /\ Accept(r, p, "success", Taken(r, p) \union {<<p, n>>})
          \/ EndTask(r, p) /\ Accept(r, p, "failed", Taken(r, p) \union {<<p, n>>})
          \/ UNCHANGED <<task, outcome, kept, merged>>
      BY <1>3 DEF AcceptPage
    <3>2. CASE UNCHANGED <<task, outcome, kept, merged>>
      BY <3>2
    <3> QED BY <2>7, <3>1, <3>2
  <2> QED BY <1>3, <2>3, <2>5, <2>6, <2>8 DEF AcceptPage
<1>4. ASSUME FailProvider(r, p) PROVE TypeOK'
  BY <1>4, AcceptTyped, TakenIsItems DEF FailProvider, EndTask, Outcome, durable
<1>5. ASSUME TimeoutProvider(r, p) PROVE TypeOK'
  BY <1>5, AcceptTyped DEF TimeoutProvider, EndTask, Outcome, durable
<1>6. ASSUME CancelProvider(r, p) PROVE TypeOK'
  BY <1>6, AcceptTyped, TakenIsItems DEF CancelProvider, EndTask, Outcome, durable
<1> QED BY <1>1, <1>2, <1>3, <1>4, <1>5, <1>6 DEF ProviderStep

\* So do the steps of the run itself.
LEMMA RunStepTyped ==
  ASSUME TypeOK, NEW r \in Runs, StartRun(r) \/ Cancel(r) \/ RunStep(r) \/ Crash(r)
  PROVE  TypeOK'
<1> USE DEF TypeOK
<1>1. ASSUME StartRun(r) PROVE TypeOK'
  BY <1>1, BoundsAssumption DEF StartRun, RunStatus, Active, memory
<1>2. ASSUME Cancel(r) PROVE TypeOK'
  BY <1>2 DEF Cancel, durable
<1>3. ASSUME Crash(r) PROVE TypeOK'
  BY <1>3, ForgetSearchTyped, ForgetBatchTyped DEF Crash, Forget, durable
<1>4. ASSUME Gathered(r) PROVE TypeOK'
  BY <1>4, ForgetSearchTyped DEF Gathered, durable, Active
<1>5. ASSUME NEW v \in {"cancelled", "timed_out"}, Finish(r, v) PROVE TypeOK'
  <2>1. [p \in Providers |-> IF outcome[r][p] = "none" THEN v ELSE outcome[r][p]]
          \in [Providers -> Outcome]
    BY DEF Outcome
  <2>2. outcome' \in [Runs -> [Providers -> Outcome]]
    BY <1>5, <2>1 DEF Finish
  <2> QED BY <1>5, <2>2 DEF Finish, durable, Active
<1>6. ASSUME StopTasks(r) PROVE TypeOK'
  BY <1>6, ForgetSearchTyped DEF StopTasks, durable, Active
<1>7. ASSUME SaveBatch(r) PROVE TypeOK'
  BY <1>7 DEF SaveBatch, Active, memory
<1>8. ASSUME FailBatch(r) PROVE TypeOK'
  BY <1>8, CompleteRunTyped, ForgetSearchTyped, ForgetBatchTyped
     DEF FailBatch, Forget, TerminalRun
<1>9. ASSUME FinishRun(r) PROVE TypeOK'
  <2>1. StatusForBatch(r) \in TerminalRun
    BY StatusIsTerminal
  <2>2. outcomes' \in [Runs -> [Providers -> Outcome]]
    BY <1>9 DEF FinishRun
  <2> QED BY <1>9, <2>1, <2>2, CompleteRunTyped, ForgetSearchTyped, ForgetBatchTyped
          DEF FinishRun, Forget, Active
<1>10. ASSUME Report(r) PROVE TypeOK'
  BY <1>10 DEF Report, durable, memory
<1>11. ASSUME FailReport(r) PROVE TypeOK'
  BY <1>11, CompleteRunTyped DEF FailReport, TerminalRun, memory
<1> QED BY <1>1, <1>2, <1>3, <1>4, <1>5, <1>6, <1>7, <1>8, <1>9, <1>10, <1>11
        DEF RunStep, StopCancelled, Deadline

----------------------------------------------------------------------------
(* Page rows only ever grow, so what was accepted stays accepted.          *)

\* No step deletes an accepted page row.
LEMMA PagesGrow ==
  ASSUME [Next]_vars
  PROVE  pages \subseteq pages'
<1>1. ASSUME NEW r \in Runs, NEW p \in Providers, ProviderStep(r, p)
      PROVE  pages \subseteq pages'
  BY <1>1 DEF ProviderStep, RefuseProvider, OpenProvider, AcceptPage, FailProvider,
              TimeoutProvider, CancelProvider, durable
<1>2. ASSUME NEW r \in Runs, StartRun(r) \/ Cancel(r) \/ RunStep(r) \/ Crash(r)
      PROVE  pages \subseteq pages'
  BY <1>2 DEF StartRun, Cancel, Crash, RunStep, Gathered, StopCancelled, Deadline, Finish,
              StopTasks, SaveBatch, FailBatch, FinishRun, Report, FailReport, durable
<1>3. CASE Tick \/ UNCHANGED vars
  BY <1>3 DEF Tick, vars, durable
<1> QED BY <1>1, <1>2, <1>3 DEF Next

\* A page accepted before a step is accepted after it.
LEMMA AcceptedStays ==
  ASSUME pages \subseteq pages', NEW p \in Providers, NEW n, Accepted(p, n)
  PROVE  Accepted(p, n)'
BY DEF Accepted

\* The steps that leave checkpoints alone and start no task preserve the page
\* part of the invariant: they keep a task as it is, or end or forget it.
LEMMA QuietStep ==
  ASSUME QueuedFresh, RunningPage, AcceptedPrefix, pages \subseteq pages',
         checkpoint' = checkpoint,
         \A r \in Runs, p \in Providers :
           \/ /\ task'[r][p] = task[r][p]
              /\ base'[r][p] = base[r][p]
              /\ got'[r][p] = got[r][p]
           \/ task'[r][p] = "ended"
           \/ task'[r][p] = "queued" /\ got'[r][p] = 0
  PROVE  QueuedFresh' /\ RunningPage' /\ AcceptedPrefix'
<1>1. QueuedFresh'
  BY DEF QueuedFresh
<1>2. RunningPage'
  <2> SUFFICES ASSUME NEW r \in Runs, NEW p \in Providers, task'[r][p] = "running"
               PROVE  /\ NextPage(r, p)' \in PageNo
                      /\ \A n \in 1 .. (NextPage(r, p)' - 1) : Accepted(p, n)'
    BY DEF RunningPage, PageNo
  <2>1. task[r][p] = "running" /\ NextPage(r, p)' = NextPage(r, p)
    BY DEF NextPage
  <2> QED BY <2>1, AcceptedStays DEF RunningPage
<1>3. AcceptedPrefix'
  BY DEF AcceptedPrefix
<1> QED BY <1>1, <1>2, <1>3

\* A task opens where the checkpoint says: all pages below are accepted.
LEMMA OpenProviderPages ==
  ASSUME PageInv, NEW r \in Runs, NEW p \in Providers, OpenProvider(r, p)
  PROVE  QueuedFresh' /\ RunningPage' /\ AcceptedPrefix'
<1> USE DEF PageInv
<1>1. /\ task' = [task EXCEPT ![r][p] = "running"]
      /\ base' = [base EXCEPT ![r][p] = checkpoint[p]]
      /\ UNCHANGED <<got, pages, checkpoint>>
  BY DEF OpenProvider, durable
<1>2. got[r][p] = 0
  BY DEF OpenProvider, QueuedFresh
<1>3. checkpoint[p] \in CheckpointOf
  BY DEF TypeOK
<1>4. NextPage(r, p)' = ResumePage(checkpoint[p])
  <2>1. ResumePage(checkpoint[p]) \in Nat
    BY <1>3, ResumeIsPage DEF PageNo
  <2>2. base'[r][p] = checkpoint[p] /\ got'[r][p] = 0
    BY <1>1, <1>2 DEF TypeOK
  <2> QED BY <2>1, <2>2 DEF NextPage, ResumePage
<1>5. QueuedFresh'
  BY <1>1 DEF QueuedFresh, TypeOK
<1>6. RunningPage'
  <2> SUFFICES ASSUME NEW q \in Runs, NEW o \in Providers, task'[q][o] = "running"
               PROVE  /\ NextPage(q, o)' \in PageNo
                      /\ \A n \in 1 .. (NextPage(q, o)' - 1) : Accepted(o, n)'
    BY DEF RunningPage, PageNo
  <2>1. CASE q = r /\ o = p
    <3>1. NextPage(q, o)' \in PageNo
      BY <1>3, <1>4, <2>1, ResumeIsPage
    <3>2. ASSUME NEW n \in 1 .. (NextPage(q, o)' - 1) PROVE Accepted(o, n)'
      <4>1. n \in 1 .. checkpoint[p].last
        BY <1>3, <1>4, <2>1, ResumeIsPage DEF CheckpointOf
      <4> QED BY <4>1, <1>1, <2>1 DEF AcceptedPrefix, Accepted
    <3> QED BY <3>1, <3>2
  <2>2. CASE ~(q = r /\ o = p)
    <3>1. task[q][o] = "running" /\ NextPage(q, o)' = NextPage(q, o)
      BY <1>1, <2>2 DEF NextPage, TypeOK
    <3> QED BY <3>1, <1>1 DEF RunningPage, Accepted
  <2> QED BY <2>1, <2>2
<1>7. AcceptedPrefix'
  BY <1>1 DEF AcceptedPrefix
<1> QED BY <1>5, <1>6, <1>7

\* An accepted page extends the accepted prefix by one, and the checkpoint that
\* is written with it names a page inside that prefix.
LEMMA AcceptPagePages ==
  ASSUME PageInv, NEW r \in Runs, NEW p \in Providers, AcceptPage(r, p)
  PROVE  QueuedFresh' /\ RunningPage' /\ AcceptedPrefix'
<1> USE DEF PageInv
<1> DEFINE n == NextPage(r, p)
<1>1. /\ pages' = pages \union {<<r, p, n>>}
      /\ checkpoint' = [checkpoint EXCEPT ![p] = NextCheckpoint(r, p)]
      /\ got' = [got EXCEPT ![r][p] = @ + 1]
      /\ base' = base
      /\ task[r][p] = "running"
      /\ \/ task' = [task EXCEPT ![r][p] = "ended"]
         \/ task' = task /\ n # LastPage
  BY DEF AcceptPage, EndTask
<1>2. n \in PageNo /\ \A m \in 1 .. (n - 1) : Accepted(p, m)
  BY <1>1 DEF RunningPage
<1>3. \A m \in 1 .. n : Accepted(p, m)'
  <2> SUFFICES ASSUME NEW m \in 1 .. n PROVE Accepted(p, m)'
    OBVIOUS
  <2>1. CASE m = n
    BY <1>1, <2>1 DEF Accepted
  <2>2. CASE m # n
    <3>1. m \in 1 .. (n - 1)
      BY <1>2, <2>2 DEF PageNo
    <3> QED BY <1>1, <1>2, <3>1, AcceptedStays
  <2> QED BY <2>1, <2>2
<1>4. QueuedFresh'
  BY <1>1 DEF QueuedFresh, TypeOK
<1>5. RunningPage'
  <2> SUFFICES ASSUME NEW q \in Runs, NEW o \in Providers, task'[q][o] = "running"
               PROVE  /\ NextPage(q, o)' \in PageNo
                      /\ \A m \in 1 .. (NextPage(q, o)' - 1) : Accepted(o, m)'
    BY DEF RunningPage, PageNo
  <2>1. CASE q = r /\ o = p
    <3>1. n # LastPage
      BY <1>1, <2>1 DEF TypeOK
    <3>2. NextPage(r, p)' = n + 1
      <4>1. ResumePage(base[r][p]) \in Nat
        <5>1. base[r][p] \in CheckpointOf
          BY DEF TypeOK
        <5> QED BY <5>1, ResumeIsPage DEF PageNo
      <4>2. got'[r][p] = got[r][p] + 1 /\ got[r][p] \in Nat
        BY <1>1 DEF TypeOK
      <4>3. ResumePage(base[r][p])' = ResumePage(base[r][p])
        BY <1>1 DEF ResumePage
      <4> QED BY <4>1, <4>2, <4>3 DEF NextPage
    <3>3. n + 1 \in PageNo
      BY <1>2, <3>1, BoundsAssumption DEF PageNo
    <3> QED BY <1>2, <1>3, <2>1, <3>2, <3>3 DEF PageNo
  <2>2. CASE ~(q = r /\ o = p)
    <3>1. task[q][o] = "running" /\ NextPage(q, o)' = NextPage(q, o)
      BY <1>1, <2>2 DEF NextPage, ResumePage, TypeOK
    <3> QED BY <3>1, <1>1, AcceptedStays DEF RunningPage
  <2> QED BY <2>1, <2>2
<1>6. AcceptedPrefix'
  <2> SUFFICES ASSUME NEW o \in Providers, NEW m \in 1 .. checkpoint'[o].last
               PROVE  Accepted(o, m)'
    BY DEF AcceptedPrefix, Accepted
  <2>1. CASE o = p
    <3>1. checkpoint'[o].last = n
      BY <1>1, <2>1 DEF TypeOK, NextCheckpoint
    <3> QED BY <1>3, <2>1, <3>1
  <2>2. CASE o # p
    <3>1. m \in 1 .. checkpoint[o].last
      BY <1>1, <2>2 DEF TypeOK
    <3> QED BY <1>1, <3>1, AcceptedStays DEF AcceptedPrefix, Accepted
  <2> QED BY <2>1, <2>2
<1> QED BY <1>4, <1>5, <1>6

\* What a step of the run itself does to tasks and checkpoints: nothing, or it
\* forgets the tasks.
LEMMA RunStepPages ==
  ASSUME PageInv, NEW r \in Runs, StartRun(r) \/ Cancel(r) \/ RunStep(r) \/ Crash(r)
  PROVE  QueuedFresh' /\ RunningPage' /\ AcceptedPrefix'
<1>1. pages' = pages /\ checkpoint' = checkpoint
  BY DEF StartRun, Cancel, Crash, RunStep, Gathered, StopCancelled, Deadline, Finish,
         StopTasks, SaveBatch, FailBatch, FinishRun, Report, FailReport, durable
<1>2. \/ UNCHANGED <<task, base, got>>
      \/ ForgetSearch(r)
  BY DEF StartRun, Cancel, Crash, RunStep, Gathered, StopCancelled, Deadline, Finish,
         StopTasks, SaveBatch, FailBatch, FinishRun, Report, FailReport, memory, Forget
<1>3. CASE UNCHANGED <<task, base, got>>
  BY <1>1, <1>3, QuietStep DEF PageInv
<1>4. CASE ForgetSearch(r)
  <2>1. ASSUME NEW q \in Runs, NEW p \in Providers
        PROVE  \/ /\ task'[q][p] = task[q][p]
                  /\ base'[q][p] = base[q][p]
                  /\ got'[q][p] = got[q][p]
               \/ task'[q][p] = "queued" /\ got'[q][p] = 0
    BY <1>4 DEF ForgetSearch, PageInv, TypeOK
  <2> QED BY <1>1, <2>1, QuietStep DEF PageInv
<1> QED BY <1>2, <1>3, <1>4

\* Every step of the system preserves PageInv.
LEMMA NextPageInv == PageInv /\ [Next]_vars => PageInv'
<1> SUFFICES ASSUME PageInv, [Next]_vars PROVE PageInv'
  OBVIOUS
<1>1. ASSUME NEW r \in Runs, StartRun(r) \/ Cancel(r) \/ RunStep(r) \/ Crash(r)
      PROVE  PageInv'
  BY <1>1, RunStepTyped, RunStepPages DEF PageInv
<1>2. ASSUME NEW r \in Runs, NEW p \in Providers, ProviderStep(r, p)
      PROVE  PageInv'
  <2>1. TypeOK'
    BY <1>2, ProviderStepTyped DEF PageInv
  <2>2. CASE OpenProvider(r, p)
    BY <2>1, <2>2, OpenProviderPages DEF PageInv
  <2>3. CASE AcceptPage(r, p)
    BY <2>1, <2>3, AcceptPagePages DEF PageInv
  <2>4. CASE \/ RefuseProvider(r, p) \/ FailProvider(r, p)
             \/ TimeoutProvider(r, p) \/ CancelProvider(r, p)
    <3>1. /\ EndTask(r, p)
          /\ UNCHANGED <<pages, checkpoint, base, got>>
      BY <2>4 DEF RefuseProvider, FailProvider, TimeoutProvider, CancelProvider, durable
    <3>2. ASSUME NEW q \in Runs, NEW o \in Providers
          PROVE  \/ /\ task'[q][o] = task[q][o]
                    /\ base'[q][o] = base[q][o]
                    /\ got'[q][o] = got[q][o]
                 \/ task'[q][o] = "ended"
      BY <3>1 DEF EndTask, PageInv, TypeOK
    <3>3. QueuedFresh' /\ RunningPage' /\ AcceptedPrefix'
      BY <3>1, <3>2, QuietStep DEF PageInv
    <3> QED BY <2>1, <3>3 DEF PageInv
  <2> QED BY <1>2, <2>2, <2>3, <2>4 DEF ProviderStep
<1>3. CASE Tick \/ UNCHANGED vars
  <2>1. /\ UNCHANGED <<runStatus, lease, pages, checkpoint, outcomes, registry, volatile>>
        /\ ttl' \in [Runs -> 0 .. LeaseTTL]
    <3>1. CASE Tick
      <4>1. \A q \in Runs : (IF ttl[q] > 0 THEN ttl[q] - 1 ELSE 0) \in 0 .. LeaseTTL
        BY BoundsAssumption DEF PageInv, TypeOK
      <4> QED BY <3>1, <4>1 DEF Tick
    <3>2. CASE UNCHANGED vars
      BY <3>2 DEF vars, durable, volatile, memory, PageInv, TypeOK
    <3> QED BY <1>3, <3>1, <3>2
  <2>2. TypeOK'
    BY <2>1 DEF PageInv, TypeOK, volatile, memory
  <2>3. QueuedFresh' /\ RunningPage' /\ AcceptedPrefix'
    BY <2>1, QuietStep DEF PageInv, volatile, memory
  <2> QED BY <2>2, <2>3 DEF PageInv
<1> QED BY <1>1, <1>2, <1>3 DEF Next

\* Every variable keeps its type (collect, search and the store's transactions).
THEOREM TypeCorrect == Spec => []TypeOK
<1>1. PageInv => TypeOK
  BY DEF PageInv
<1> QED BY <1>1, InitPageInv, NextPageInv, PTL DEF Spec

\* No page is skipped, whatever runs crash, stop or overlap: every page up to the
\* one a checkpoint names was committed by some run (save_accepted_page).
THEOREM NoPageSkipped == Spec => []AcceptedPrefix
<1>1. PageInv => AcceptedPrefix
  BY DEF PageInv
<1> QED BY <1>1, InitPageInv, NextPageInv, PTL DEF Spec

----------------------------------------------------------------------------
(* LeaseInv.                                                               *)

\* Every step preserves the two facts about the lease row.
LEMMA NextLeaseInv == TypeOK /\ LeaseInv /\ [Next]_vars => LeaseInv'
<1> SUFFICES ASSUME TypeOK, LeaseInv, [Next]_vars PROVE LeaseInv'
  OBVIOUS
<1> USE NoRunAssumption DEF LeaseInv, LeaseHeldByRunning
<1>1. ASSUME UNCHANGED <<runStatus, lease, ttl>> PROVE LeaseInv'
  BY <1>1
<1>2. ASSUME NEW r \in Runs, StartRun(r) PROVE LeaseInv'
  <2>1. lease' = r /\ runStatus'[r] = "running"
    BY <1>2 DEF StartRun, TypeOK
  <2>2. ASSUME NEW q \in Runs, q # r PROVE ~(runStatus'[q] = "running" /\ ttl'[q] > 0)
    BY <1>2, <2>2 DEF StartRun, LeaseFree, TypeOK
  <2> QED BY <2>1, <2>2
<1>3. ASSUME NEW r \in Runs, NEW status \in TerminalRun,
             CompleteRun(r, status), ttl' = ttl
      PROVE  LeaseInv'
  <2>1. runStatus'[r] # "running"
    BY <1>3 DEF CompleteRun, TypeOK, TerminalRun
  <2>2. \A q \in Runs : q # r => runStatus'[q] = runStatus[q]
    BY <1>3 DEF CompleteRun, TypeOK
  <2>3. lease' = IF lease = r THEN NoRun ELSE lease
    BY <1>3 DEF CompleteRun
  <2> QED BY <1>3, <2>1, <2>2, <2>3 DEF TypeOK
<1>4. CASE Tick
  BY <1>4 DEF Tick, TypeOK
<1>5. ASSUME NEW r \in Runs, NEW p \in Providers, ProviderStep(r, p) PROVE LeaseInv'
  BY <1>1, <1>5 DEF ProviderStep, RefuseProvider, OpenProvider, AcceptPage,
     FailProvider, TimeoutProvider, CancelProvider, durable
<1>6. ASSUME NEW r \in Runs, FailBatch(r) \/ FinishRun(r) \/ FailReport(r)
      PROVE  LeaseInv'
  BY <1>3, <1>6, StatusIsTerminal DEF FailBatch, FinishRun, FailReport, TerminalRun
<1>7. ASSUME NEW r \in Runs,
             \/ Cancel(r) \/ Crash(r) \/ Gathered(r) \/ StopCancelled(r)
             \/ Deadline(r) \/ StopTasks(r) \/ SaveBatch(r) \/ Report(r)
      PROVE  LeaseInv'
  BY <1>1, <1>7 DEF Cancel, Crash, Gathered, StopCancelled, Deadline, Finish, StopTasks,
     SaveBatch, Report, durable
<1>8. CASE UNCHANGED vars
  BY <1>1, <1>8 DEF vars, durable
<1> QED BY <1>2, <1>4, <1>5, <1>6, <1>7, <1>8 DEF Next, RunStep

\* The lease facts hold in every reachable state.
LEMMA LeaseInvariant == Spec => []LeaseInv
<1>1. Init => LeaseInv
  BY DEF Init, LeaseInv, LeaseHeldByRunning
<1> QED BY <1>1, NextLeaseInv, TypeCorrect, PTL DEF Spec

\* Two runs that are both RUNNING are never both inside their lease, although
\* stale runs complete after another run took the lease (start_run, complete_run).
THEOREM OneRunInsideItsLease == Spec => []LeaseExclusive
<1>1. LeaseInv => LeaseExclusive
  BY DEF LeaseInv, LeaseExclusive
<1> QED BY <1>1, LeaseInvariant, PTL

\* A completed run holds no lease, on any path of collect(): only a dead process
\* makes others wait for the expiry.
THEOREM CompletedRunsHoldNoLease == Spec => []LeaseHeldByRunning
<1>1. LeaseInv => LeaseHeldByRunning
  BY DEF LeaseInv
<1> QED BY <1>1, LeaseInvariant, PTL

----------------------------------------------------------------------------
(* SavedInv: where the pages of a run are before they are saved, and what  *)
(* has been recorded of them.                                              *)

Searching(r) == phase[r] \in {"search", "stopping"}
Ended        == {"reporting", "done", "dead"}
Keeping      == {"success", "failed"}

\* The pages a run accepted from a provider are held by its task, then by the
\* accepted execution.
ProviderSaved(r, p) ==
  /\ phase[r] = "idle" => task[r][p] = "queued" /\ outcome[r][p] = "none"
  /\ (phase[r] = "idle" \/ Searching(r)) /\ task[r][p] = "queued" => PagesOf(r, p) = {}
  /\ Searching(r) /\ task[r][p] = "running" =>
       \A n \in PagesOf(r, p) : <<p, n>> \in Taken(r, p)
  /\ Searching(r) /\ outcome[r][p] \in Keeping => task[r][p] = "ended"
  /\ outcome[r][p] \in Keeping => \A n \in PagesOf(r, p) : <<p, n>> \in kept[r]
  /\ outcome[r][p] = "success" => LastPage \in PagesOf(r, p)
  /\ outcomes[r][p] # "none" => phase[r] \in Ended
  /\ outcomes[r][p] = "success" => LastPage \in PagesOf(r, p)
  /\ runStatus[r] = "completed" => outcomes[r][p] = "success"

RunSaved(r) ==
  /\ phase[r] = "idle" <=> runStatus[r] = "none"
  /\ runStatus[r] = "completed" => phase[r] \in Ended
  /\ \A p \in Providers : ProviderSaved(r, p)

SavedInv == \A r \in Runs : RunSaved(r)

\* A step that keeps all that RunSaved says of run q.
Untouched(q) ==
  /\ phase'[q] = phase[q]
  /\ runStatus'[q] = runStatus[q]
  /\ outcomes'[q] = outcomes[q]
  /\ task'[q] = task[q]
  /\ base'[q] = base[q]
  /\ got'[q] = got[q]
  /\ outcome'[q] = outcome[q]
  /\ kept'[q] = kept[q]
  /\ merged'[q] = merged[q]
  /\ \A p \in Providers : PagesOf(q, p)' = PagesOf(q, p)

\* What a provider task holds is safe while the run takes steps elsewhere: its
\* execution may only gain items.
LEMMA ProviderStays ==
  ASSUME NEW q \in Runs, NEW o \in Providers, ProviderSaved(q, o),
         phase'[q] = phase[q], runStatus'[q] = runStatus[q],
         outcomes'[q][o] = outcomes[q][o], task'[q][o] = task[q][o],
         base'[q][o] = base[q][o], got'[q][o] = got[q][o],
         outcome'[q][o] = outcome[q][o], PagesOf(q, o)' = PagesOf(q, o),
         kept[q] \subseteq kept'[q]
  PROVE  ProviderSaved(q, o)'
<1>1. Taken(q, o)' = Taken(q, o)
  BY DEF Taken, NextPage, ResumePage
<1> QED BY <1>1 DEF ProviderSaved, Searching

\* A run that a step does not touch keeps its pages where they are.
LEMMA RunStays ==
  ASSUME NEW q \in Runs, RunSaved(q), Untouched(q)
  PROVE  RunSaved(q)'
<1>1. \A p \in Providers : ProviderSaved(q, p)'
  BY ProviderStays DEF RunSaved, Untouched
<1> QED BY <1>1 DEF RunSaved, Untouched

\* The steps of one run leave every other run alone.
LEMMA OthersUntouched ==
  ASSUME TypeOK, NEW r \in Runs, NEW q \in Runs, q # r,
         \/ StartRun(r) \/ Cancel(r) \/ RunStep(r) \/ Crash(r)
         \/ \E p \in Providers : ProviderStep(r, p)
  PROVE  Untouched(q)
<1> USE DEF TypeOK, Untouched, PagesOf
<1>1. ASSUME StartRun(r) PROVE Untouched(q)
  BY <1>1 DEF StartRun, memory
<1>2. ASSUME Cancel(r) PROVE Untouched(q)
  BY <1>2 DEF Cancel, durable
<1>3. ASSUME Crash(r) PROVE Untouched(q)
  BY <1>3 DEF Crash, durable, Forget, ForgetSearch, ForgetBatch
<1>4. ASSUME Gathered(r) \/ StopTasks(r) PROVE Untouched(q)
  BY <1>4 DEF Gathered, StopTasks, durable, ForgetSearch
<1>5. ASSUME StopCancelled(r) \/ Deadline(r) PROVE Untouched(q)
  BY <1>5 DEF StopCancelled, Deadline, Finish, durable
<1>6. ASSUME SaveBatch(r) \/ Report(r) PROVE Untouched(q)
  BY <1>6 DEF SaveBatch, Report, durable, memory
<1>7. ASSUME FailBatch(r) PROVE Untouched(q)
  BY <1>7 DEF FailBatch, CompleteRun, Forget, ForgetSearch, ForgetBatch
<1>8. ASSUME FinishRun(r) PROVE Untouched(q)
  BY <1>8 DEF FinishRun, CompleteRun, Forget, ForgetSearch, ForgetBatch
<1>9. ASSUME FailReport(r) PROVE Untouched(q)
  BY <1>9 DEF FailReport, CompleteRun, memory
<1>10. ASSUME NEW p \in Providers, ProviderStep(r, p) PROVE Untouched(q)
  <2>1. /\ UNCHANGED <<runStatus, outcomes, phase>>
        /\ \/ pages' = pages
           \/ pages' = pages \union {<<r, p, NextPage(r, p)>>}
        /\ task'[q] = task[q] /\ base'[q] = base[q] /\ got'[q] = got[q]
    BY <1>10 DEF ProviderStep, RefuseProvider, OpenProvider, AcceptPage, FailProvider,
       TimeoutProvider, CancelProvider, durable, EndTask
  <2>2. outcome'[q] = outcome[q] /\ kept'[q] = kept[q] /\ merged'[q] = merged[q]
    BY <1>10 DEF ProviderStep, RefuseProvider, OpenProvider, AcceptPage, FailProvider,
       TimeoutProvider, CancelProvider, Accept, Rebuild
  <2> QED BY <2>1, <2>2
<1> QED BY <1>1, <1>2, <1>3, <1>4, <1>5, <1>6, <1>7, <1>8, <1>9, <1>10 DEF RunStep

\* Whether an execution is accepted or comes too late.
LEMMA AcceptEffect ==
  ASSUME TypeOK, NEW r \in Runs, NEW p \in Providers, NEW status, NEW items,
         Accept(r, p, status, items)
  PROVE  /\ \A o \in Providers : o # p => outcome'[r][o] = outcome[r][o]
         /\ kept[r] \subseteq kept'[r]
         /\ \/ outcome'[r][p] = outcome[r][p]
            \/ outcome'[r][p] = status /\ items \subseteq kept'[r]
BY DEF Accept, TypeOK

\* A task that ends without another page: what it accepted is safe if an
\* execution with items carries all of them.
LEMMA EndedTaskSaved ==
  ASSUME TypeOK, NEW r \in Runs, NEW p \in Providers, RunSaved(r), Searching(r),
         NEW status \in {"failed", "timed_out", "cancelled", "circuit_open"}, NEW items,
         status = "failed" => \A n \in PagesOf(r, p) : <<p, n>> \in items,
         EndTask(r, p), Accept(r, p, status, items),
         UNCHANGED <<durable, phase, base, got>>
  PROVE  RunSaved(r)'
<1>1. UNCHANGED <<runStatus, outcomes, registry, pages, phase, base, got>>
  BY DEF durable
<1>2. task'[r][p] = "ended" /\ \A o \in Providers : o # p => task'[r][o] = task[r][o]
  BY DEF EndTask, TypeOK
<1>3. /\ \A o \in Providers : o # p => outcome'[r][o] = outcome[r][o]
      /\ kept[r] \subseteq kept'[r]
      /\ \/ outcome'[r][p] = outcome[r][p]
         \/ outcome'[r][p] = status /\ items \subseteq kept'[r]
  BY AcceptEffect
<1>4. \A o \in Providers : PagesOf(r, o)' = PagesOf(r, o)
  BY <1>1 DEF PagesOf
<1>5. ASSUME NEW o \in Providers, o # p PROVE ProviderSaved(r, o)'
  BY <1>1, <1>2, <1>3, <1>4, <1>5, ProviderStays DEF RunSaved
<1>6. ProviderSaved(r, p)'
  <2>1. ProviderSaved(r, p)
    BY DEF RunSaved
  <2> QED BY <2>1, <1>1, <1>2, <1>3, <1>4 DEF ProviderSaved, Searching, Keeping
<1> QED BY <1>1, <1>5, <1>6 DEF RunSaved, Searching

\* The page a task accepts joins the items the task holds.
LEMMA TakenGrows ==
  ASSUME TypeOK, NEW r \in Runs, NEW p \in Providers, AcceptPage(r, p)
  PROVE  Taken(r, p)' = Taken(r, p) \union {<<p, NextPage(r, p)>>}
<1>1. base' = base /\ got'[r][p] = got[r][p] + 1
  BY DEF AcceptPage, TypeOK
<1>2. ResumePage(base[r][p]) \in Nat /\ got[r][p] \in Nat
  <2>1. base[r][p] \in CheckpointOf
    BY DEF TypeOK
  <2> QED BY <2>1, ResumeIsPage DEF PageNo, TypeOK
<1>3. ResumePage(base[r][p])' = ResumePage(base[r][p])
  BY <1>1 DEF ResumePage
<1> DEFINE b == ResumePage(base[r][p])  k == got[r][p]
<1>4. b .. (b + (k + 1) - 1) = (b .. (b + k - 1)) \union {b + k}
  BY <1>2
<1> QED BY <1>1, <1>2, <1>3, <1>4 DEF Taken, NextPage

\* An accepted page is among the items the task holds, and goes into the
\* execution with them when the page ends the task.
LEMMA AcceptPageSaved ==
  ASSUME PageInv, NEW r \in Runs, NEW p \in Providers, RunSaved(r), AcceptPage(r, p)
  PROVE  RunSaved(r)'
<1> DEFINE n == NextPage(r, p)
<1> USE DEF PageInv
<1>1. /\ UNCHANGED <<runStatus, outcomes, registry, phase, base>>
      /\ Searching(r) /\ task[r][p] = "running"
      /\ pages' = pages \union {<<r, p, n>>}
      /\ \A o \in Providers : o # p => got'[r][o] = got[r][o]
  BY DEF AcceptPage, Searching, TypeOK
<1>2. n \in PageNo
  BY <1>1 DEF RunningPage
<1>3. /\ PagesOf(r, p)' = PagesOf(r, p) \union {n}
      /\ \A o \in Providers : o # p => PagesOf(r, o)' = PagesOf(r, o)
  BY <1>1, <1>2 DEF PagesOf
<1>4. \/ /\ task'[r][p] = "ended" /\ n = LastPage
         /\ Accept(r, p, "success", Taken(r, p) \union {<<p, n>>})
      \/ /\ task'[r][p] = "ended"
         /\ Accept(r, p, "failed", Taken(r, p) \union {<<p, n>>})
      \/ UNCHANGED <<task, outcome, kept, merged>>
  BY DEF AcceptPage, EndTask, TypeOK
<1>5. \A o \in Providers : o # p => task'[r][o] = task[r][o]
  BY DEF AcceptPage, EndTask, TypeOK
<1>6. /\ \A o \in Providers : o # p => outcome'[r][o] = outcome[r][o]
      /\ kept[r] \subseteq kept'[r]
      /\ \/ outcome'[r][p] = outcome[r][p]
         \/ /\ outcome'[r][p] \in Keeping
            /\ outcome'[r][p] = "success" => n = LastPage
            /\ Taken(r, p) \union {<<p, n>>} \subseteq kept'[r]
            /\ task'[r][p] = "ended"
  BY <1>4, AcceptEffect DEF Keeping
<1>7. ASSUME NEW o \in Providers, o # p PROVE ProviderSaved(r, o)'
  BY <1>1, <1>3, <1>5, <1>6, <1>7, ProviderStays DEF RunSaved
<1>8. ProviderSaved(r, p)'
  <2>1. /\ \A m \in PagesOf(r, p) : <<p, m>> \in Taken(r, p)
        /\ outcome[r][p] \notin Keeping
        /\ outcomes[r][p] = "none" /\ runStatus[r] # "completed"
        /\ phase[r] # "idle"
    BY <1>1 DEF RunSaved, ProviderSaved, Searching, Ended
  <2>2. \A m \in PagesOf(r, p)' : <<p, m>> \in Taken(r, p) \union {<<p, n>>}
    BY <1>3, <2>1
  <2>3. Taken(r, p)' = Taken(r, p) \union {<<p, n>>}
    BY TakenGrows
  <2>4. task'[r][p] # "queued"
    BY <1>1, <1>4
  <2>5. outcome'[r][p] \in Keeping =>
          /\ task'[r][p] = "ended"
          /\ \A m \in PagesOf(r, p)' : <<p, m>> \in kept'[r]
          /\ outcome'[r][p] = "success" => LastPage \in PagesOf(r, p)'
    BY <1>3, <1>6, <2>1, <2>2
  <2> QED BY <1>1, <2>1, <2>2, <2>3, <2>4, <2>5 DEF ProviderSaved, Keeping, Searching
<1> QED BY <1>1, <1>7, <1>8 DEF RunSaved, Searching

\* A task that opens has accepted no page yet.
LEMMA OpenProviderSaved ==
  ASSUME TypeOK, NEW r \in Runs, NEW p \in Providers, RunSaved(r), OpenProvider(r, p)
  PROVE  RunSaved(r)'
<1>1. /\ UNCHANGED <<runStatus, outcomes, registry, phase, pages, got, outcome, kept>>
      /\ Searching(r) /\ task[r][p] = "queued" /\ task'[r][p] = "running"
      /\ \A o \in Providers : o # p => task'[r][o] = task[r][o] /\ base'[r][o] = base[r][o]
  BY DEF OpenProvider, Searching, durable, TypeOK
<1>2. \A o \in Providers : PagesOf(r, o)' = PagesOf(r, o)
  BY <1>1 DEF PagesOf
<1>3. ASSUME NEW o \in Providers, o # p PROVE ProviderSaved(r, o)'
  BY <1>1, <1>2, <1>3, ProviderStays DEF RunSaved
<1>4. ProviderSaved(r, p)'
  BY <1>1, <1>2 DEF RunSaved, ProviderSaved, Searching, Keeping
<1> QED BY <1>1, <1>3, <1>4 DEF RunSaved, Searching

\* The steps of the tasks keep the pages of their run safe.
LEMMA ProviderStepSaved ==
  ASSUME PageInv, NEW r \in Runs, NEW p \in Providers, RunSaved(r), ProviderStep(r, p)
  PROVE  RunSaved(r)'
<1> USE DEF PageInv
<1>1. CASE OpenProvider(r, p)
  BY <1>1, OpenProviderSaved
<1>2. CASE AcceptPage(r, p)
  BY <1>2, AcceptPageSaved
<1>3. CASE RefuseProvider(r, p)
  BY <1>3, EndedTaskSaved DEF RefuseProvider, Searching
<1>4. CASE FailProvider(r, p)
  <2>1. \A n \in PagesOf(r, p) : <<p, n>> \in Taken(r, p)
    BY <1>4 DEF FailProvider, RunSaved, ProviderSaved, Searching
  <2> QED BY <1>4, <2>1, EndedTaskSaved DEF FailProvider, Searching
<1>5. CASE TimeoutProvider(r, p)
  BY <1>5, EndedTaskSaved DEF TimeoutProvider, Searching
<1>6. CASE CancelProvider(r, p)
  BY <1>6, EndedTaskSaved DEF CancelProvider, Searching
<1> QED BY <1>1, <1>2, <1>3, <1>4, <1>5, <1>6 DEF ProviderStep

\* The steps of a run that leave its recorded outcomes, its pages and its
\* execution alone, or forget the search, and go to a later phase.
LEMMA PhaseStepSaved ==
  ASSUME TypeOK, NEW r \in Runs, RunSaved(r),
         UNCHANGED <<outcomes, pages, outcome, kept>>,
         phase[r] # "idle" /\ phase'[r] # "idle",
         runStatus'[r] # "none" /\ runStatus'[r] # "completed",
         phase[r] \in Ended => phase'[r] \in Ended,
         ~Searching(r)'
  PROVE  RunSaved(r)'
<1>1. \A o \in Providers : PagesOf(r, o)' = PagesOf(r, o)
  BY DEF PagesOf
<1>2. ASSUME NEW o \in Providers PROVE ProviderSaved(r, o)'
  BY <1>1 DEF RunSaved, ProviderSaved, Searching
<1> QED BY <1>2 DEF RunSaved

\* The recorded outcomes stay true when the run goes on without its batch.
LEMMA ForgetSaved ==
  ASSUME TypeOK, NEW r \in Runs, RunSaved(r),
         UNCHANGED <<outcomes, pages>>, ForgetBatch(r),
         phase[r] # "idle", phase'[r] \in Ended,
         \/ runStatus'[r] = runStatus[r]
         \/ runStatus'[r] = "failed"
  PROVE  RunSaved(r)'
<1>1. \A o \in Providers : PagesOf(r, o)' = PagesOf(r, o) /\ outcome'[r][o] = "none"
  BY DEF PagesOf, ForgetBatch, TypeOK
<1>2. ASSUME NEW o \in Providers PROVE ProviderSaved(r, o)'
  BY <1>1 DEF RunSaved, ProviderSaved, Searching, Ended, Keeping
<1> QED BY <1>2 DEF RunSaved, Ended

\* COMPLETED is claimed only when every provider succeeded (_status_for_batch).
LEMMA CompletedMeansSuccess ==
  ASSUME NEW r \in Runs, StatusForBatch(r) = "completed"
  PROVE  \A p \in Providers : outcome[r][p] = "success"
BY DEF StatusForBatch

\* The end of a run: complete_run records the outcomes of its executions.
LEMMA FinishRunSaved ==
  ASSUME TypeOK, NEW r \in Runs, RunSaved(r), FinishRun(r)
  PROVE  RunSaved(r)'
<1>1. /\ phase[r] = "saved" /\ phase'[r] = "reporting"
      /\ pages' = pages
      /\ runStatus'[r] = StatusForBatch(r)
      /\ outcomes'[r] = outcome[r]
  BY DEF FinishRun, CompleteRun, RunSaved, TypeOK
<1>2. \A o \in Providers : PagesOf(r, o)' = PagesOf(r, o) /\ outcome'[r][o] = "none"
  BY <1>1 DEF FinishRun, Forget, ForgetBatch, PagesOf, TypeOK
<1>3. runStatus'[r] # "none"
  BY <1>1, StatusIsTerminal DEF TerminalRun
<1>4. ASSUME NEW o \in Providers PROVE ProviderSaved(r, o)'
  <2>1. ProviderSaved(r, o)
    BY DEF RunSaved
  <2>2. outcomes'[r][o] = outcome[r][o]
    BY <1>1
  <2>3. runStatus'[r] = "completed" => outcomes'[r][o] = "success"
    BY <1>1, <2>2, CompletedMeansSuccess
  <2> QED BY <1>1, <1>2, <2>1, <2>2, <2>3 DEF ProviderSaved, Searching, Ended, Keeping
<1> QED BY <1>1, <1>3, <1>4 DEF RunSaved, Ended

\* The steps of the run itself keep its pages safe.
LEMMA RunStepSaved ==
  ASSUME TypeOK, NEW r \in Runs, RunSaved(r),
         StartRun(r) \/ Cancel(r) \/ RunStep(r) \/ Crash(r)
  PROVE  RunSaved(r)'
<1>1. ASSUME StartRun(r) PROVE RunSaved(r)'
  <2>1. /\ UNCHANGED <<pages, outcomes, registry, task, base, got, outcome, kept>>
        /\ runStatus'[r] = "running" /\ phase'[r] = "search" /\ phase[r] = "idle"
    BY <1>1 DEF StartRun, memory, TypeOK, RunSaved
  <2>2. \A o \in Providers : PagesOf(r, o)' = PagesOf(r, o)
    BY <2>1 DEF PagesOf
  <2>3. ASSUME NEW o \in Providers PROVE ProviderSaved(r, o)'
    BY <2>1, <2>2 DEF RunSaved, ProviderSaved, Searching, Ended, Keeping
  <2> QED BY <2>1, <2>3 DEF RunSaved
<1>2. ASSUME Cancel(r) PROVE RunSaved(r)'
  <2>1. UNCHANGED <<runStatus, outcomes, pages, phase, task, base, got, outcome, kept, merged>>
    BY <1>2 DEF Cancel, durable
  <2> QED BY <2>1, RunStays DEF Untouched, PagesOf
<1>3. ASSUME Crash(r) PROVE RunSaved(r)'
  <2>1. phase[r] # "idle" /\ phase'[r] = "dead"
    BY <1>3 DEF Crash, Active, TypeOK
  <2> QED BY <1>3, <2>1, ForgetSaved DEF Crash, Forget, durable, Ended
<1>4. ASSUME Gathered(r) \/ StopTasks(r) PROVE RunSaved(r)'
  <2>1. /\ UNCHANGED <<runStatus, outcomes, pages, registry, outcome, kept>>
        /\ Searching(r) /\ phase'[r] = "batch"
    BY <1>4 DEF Gathered, StopTasks, durable, Searching, TypeOK
  <2>2. runStatus[r] # "none" /\ runStatus[r] # "completed"
    BY <2>1 DEF RunSaved, Searching, Ended
  <2> QED BY <2>1, <2>2, PhaseStepSaved DEF Searching, Ended
<1>5. ASSUME NEW v \in {"cancelled", "timed_out"}, phase[r] = "search", Finish(r, v)
      PROVE  RunSaved(r)'
  <2>1. /\ UNCHANGED <<runStatus, outcomes, pages, registry, task, base, got, kept>>
        /\ phase'[r] = "stopping"
        /\ \A o \in Providers :
             outcome'[r][o] = IF outcome[r][o] = "none" THEN v ELSE outcome[r][o]
    BY <1>5 DEF Finish, durable, TypeOK
  <2>2. \A o \in Providers : PagesOf(r, o)' = PagesOf(r, o) /\ Taken(r, o)' = Taken(r, o)
    BY <2>1 DEF PagesOf, Taken, NextPage, ResumePage
  <2>3. ASSUME NEW o \in Providers PROVE ProviderSaved(r, o)'
    <3>1. ProviderSaved(r, o)
      BY DEF RunSaved
    <3> QED BY <1>5, <2>1, <2>2, <3>1 DEF ProviderSaved, Searching, Ended, Keeping
  <2> QED BY <1>5, <2>1, <2>3 DEF RunSaved, Ended
<1>6. ASSUME SaveBatch(r) PROVE RunSaved(r)'
  <2>1. /\ UNCHANGED <<runStatus, outcomes, pages, outcome, kept>>
        /\ phase[r] = "batch" /\ phase'[r] = "saved"
    BY <1>6 DEF SaveBatch, memory, TypeOK
  <2>2. runStatus[r] # "none" /\ runStatus[r] # "completed"
    BY <2>1 DEF RunSaved, Ended
  <2> QED BY <2>1, <2>2, PhaseStepSaved DEF Searching, Ended
<1>7. ASSUME FailBatch(r) PROVE RunSaved(r)'
  <2>1. /\ UNCHANGED <<outcomes, pages>>
        /\ phase[r] \in {"batch", "saved"} /\ phase'[r] = "done" /\ runStatus'[r] = "failed"
    BY <1>7 DEF FailBatch, CompleteRun, TypeOK
  <2> QED BY <1>7, <2>1, ForgetSaved DEF FailBatch, Forget, Ended
<1>8. ASSUME FinishRun(r) PROVE RunSaved(r)'
  BY <1>8, FinishRunSaved
<1>9. ASSUME Report(r) \/ FailReport(r) PROVE RunSaved(r)'
  <2>1. /\ UNCHANGED <<outcomes, pages, registry, outcome, kept>>
        /\ phase[r] = "reporting" /\ phase'[r] = "done"
        /\ \/ runStatus'[r] = runStatus[r]
           \/ runStatus'[r] = "failed"
    BY <1>9 DEF Report, FailReport, CompleteRun, durable, memory, TypeOK
  <2>2. \A o \in Providers : PagesOf(r, o)' = PagesOf(r, o)
    BY <2>1 DEF PagesOf
  <2>3. ASSUME NEW o \in Providers PROVE ProviderSaved(r, o)'
    BY <2>1, <2>2 DEF RunSaved, ProviderSaved, Searching, Ended, Keeping
  <2> QED BY <2>1, <2>3 DEF RunSaved, Ended
<1> QED BY <1>1, <1>2, <1>3, <1>4, <1>5, <1>6, <1>7, <1>8, <1>9
        DEF RunStep, StopCancelled, Deadline

\* Every step of the system keeps the pages of every run safe.
LEMMA NextSavedInv == PageInv /\ SavedInv /\ [Next]_vars => SavedInv'
<1> SUFFICES ASSUME PageInv, SavedInv, [Next]_vars, NEW q \in Runs PROVE RunSaved(q)'
  BY DEF SavedInv
<1>1. RunSaved(q) /\ TypeOK
  BY DEF SavedInv, PageInv
<1>2. ASSUME NEW r \in Runs, StartRun(r) \/ Cancel(r) \/ RunStep(r) \/ Crash(r)
      PROVE  RunSaved(q)'
  BY <1>1, <1>2, RunStepSaved, OthersUntouched, RunStays
<1>3. ASSUME NEW r \in Runs, NEW p \in Providers, ProviderStep(r, p)
      PROVE  RunSaved(q)'
  BY <1>1, <1>3, ProviderStepSaved, OthersUntouched, RunStays
<1>4. CASE Tick \/ UNCHANGED vars
  <2>1. UNCHANGED <<runStatus, outcomes, pages, phase, task, base, got, outcome, kept, merged>>
    BY <1>4 DEF Tick, vars, durable, volatile, memory
  <2> QED BY <1>1, <2>1, RunStays DEF Untouched, PagesOf
<1> QED BY <1>2, <1>3, <1>4 DEF Next

\* The pages of a run are where SavedInv says in every reachable state.
LEMMA SavedInvariant == Spec => []SavedInv
<1>1. Init => SavedInv
  BY DEF Init, SavedInv, RunSaved, ProviderSaved, Searching, Ended, Keeping, PagesOf
<1> QED BY <1>1, InitPageInv, NextPageInv, NextSavedInv, PTL DEF Spec

----------------------------------------------------------------------------
(* CountInv: while no process works on past its lease, one run is at work, *)
(* so the counter its tasks carry on from is never stale.                  *)

\* A run that collects or saves has a row that is RUNNING.
WorkingRow ==
  \A r \in Runs :
    phase[r] \in {"search", "stopping", "batch", "saved"} => runStatus[r] = "running"

\* What the task at work has counted is what the checkpoint row says.
TaskCount ==
  \A r \in Runs, p \in Providers :
    Searching(r) /\ task[r][p] = "running" =>
      checkpoint[p].count = base[r][p].count + got[r][p]

RowsOf(p) == {x \in pages : x[2] = p}

CountInv ==
  /\ IsFiniteSet(pages)
  /\ WorkingRow
  /\ TaskCount
  /\ \A p \in Providers : checkpoint[p].count = Cardinality(RowsOf(p))

\* At most one run is searching while all work inside their leases.
LEMMA OneSearching ==
  ASSUME LeaseInv, WorkingRow, Timely, NEW r \in Runs, NEW q \in Runs,
         Searching(r), Searching(q)
  PROVE  r = q
BY DEF LeaseInv, WorkingRow, Timely, Active, Searching

\* The row of a working run changes only when the run is over.
LEMMA WorkingRowStays ==
  ASSUME TypeOK, WorkingRow, [Next]_vars
  PROVE  WorkingRow'
<1> SUFFICES ASSUME NEW q \in Runs,
                    phase'[q] \in {"search", "stopping", "batch", "saved"}
             PROVE  runStatus'[q] = "running"
  BY DEF WorkingRow
<1>1. ASSUME NEW r \in Runs, q # r,
             \/ StartRun(r) \/ Cancel(r) \/ RunStep(r) \/ Crash(r)
             \/ \E p \in Providers : ProviderStep(r, p)
      PROVE  runStatus'[q] = "running"
  BY <1>1, OthersUntouched DEF Untouched, WorkingRow
<1>2. ASSUME StartRun(q) \/ Cancel(q) \/ RunStep(q) \/ Crash(q)
      PROVE  runStatus'[q] = "running"
  BY <1>2 DEF WorkingRow, TypeOK, StartRun, Cancel, Crash, RunStep, Gathered,
     StopCancelled, Deadline, Finish, StopTasks, SaveBatch, FailBatch, FinishRun, Report,
     FailReport, durable
<1>3. ASSUME NEW p \in Providers, ProviderStep(q, p)
      PROVE  runStatus'[q] = "running"
  BY <1>3 DEF WorkingRow, ProviderStep, RefuseProvider, OpenProvider, AcceptPage,
     FailProvider, TimeoutProvider, CancelProvider, durable
<1>4. CASE Tick \/ UNCHANGED vars
  BY <1>4 DEF WorkingRow, Tick, vars, durable, volatile
<1> QED BY <1>1, <1>2, <1>3, <1>4 DEF Next

\* Steps that write no page leave the counters exact: a task that is at work
\* afterwards was at work before, with the same count.
LEMMA QuietCount ==
  ASSUME CountInv, WorkingRow', UNCHANGED <<pages, checkpoint>>,
         \A r \in Runs, p \in Providers :
           Searching(r)' /\ task'[r][p] = "running" =>
             /\ Searching(r) /\ task[r][p] = "running"
             /\ base'[r][p] = base[r][p]
             /\ got'[r][p] = got[r][p]
  PROVE  CountInv'
<1>1. TaskCount'
  BY DEF CountInv, TaskCount
<1> QED BY <1>1 DEF CountInv, RowsOf

\* A task that opens counts on from the checkpoint row it has just read.
LEMMA OpenProviderCount ==
  ASSUME PageInv, CountInv, WorkingRow',
         NEW r \in Runs, NEW p \in Providers, OpenProvider(r, p)
  PROVE  CountInv'
<1>1. /\ UNCHANGED <<pages, checkpoint, phase, got>>
      /\ task[r][p] = "queued"
      /\ task' = [task EXCEPT ![r][p] = "running"]
      /\ base' = [base EXCEPT ![r][p] = checkpoint[p]]
  BY DEF OpenProvider, durable
<1>2. got[r][p] = 0 /\ checkpoint[p] \in CheckpointOf
  BY <1>1 DEF PageInv, QueuedFresh, TypeOK
<1>3. TaskCount'
  <2> SUFFICES ASSUME NEW q \in Runs, NEW o \in Providers,
                      Searching(q)', task'[q][o] = "running"
               PROVE  checkpoint'[o].count = base'[q][o].count + got'[q][o]
    BY DEF TaskCount
  <2>1. CASE q = r /\ o = p
    <3>1. base'[q][o] = checkpoint[p] /\ got'[q][o] = 0
      BY <1>1, <1>2, <2>1 DEF PageInv, TypeOK
    <3> QED BY <1>1, <1>2, <2>1, <3>1 DEF CheckpointOf
  <2>2. CASE ~(q = r /\ o = p)
    <3>1. task[q][o] = "running" /\ base'[q][o] = base[q][o] /\ got'[q][o] = got[q][o]
      BY <1>1, <2>2 DEF PageInv, TypeOK
    <3> QED BY <1>1, <3>1 DEF CountInv, TaskCount, Searching
  <2> QED BY <2>1, <2>2
<1> QED BY <1>1, <1>3 DEF CountInv, RowsOf

\* An accepted page adds one page row and one to the counter of its provider:
\* no other run has moved the checkpoint since the task opened.
LEMMA AcceptPageCount ==
  ASSUME PageInv, LeaseInv, SavedInv, CountInv, Timely, WorkingRow',
         NEW r \in Runs, NEW p \in Providers, AcceptPage(r, p)
  PROVE  CountInv'
<1> DEFINE n == NextPage(r, p)
<1> DEFINE row == <<r, p, n>>
<1>1. /\ Searching(r) /\ task[r][p] = "running"
      /\ pages' = pages \union {row}
      /\ checkpoint' = [checkpoint EXCEPT ![p] = NextCheckpoint(r, p)]
      /\ got' = [got EXCEPT ![r][p] = @ + 1]
      /\ UNCHANGED <<phase, base>>
      /\ \/ task' = [task EXCEPT ![r][p] = "ended"]
         \/ task' = task
  BY DEF AcceptPage, Searching, EndTask
<1>2. base[r][p] \in CheckpointOf /\ got[r][p] \in Nat
  BY DEF PageInv, TypeOK
<1>3. row \notin pages
  <2>1. n \in PageNo
    BY <1>1 DEF PageInv, RunningPage
  <2>2. ResumePage(base[r][p]) \in Nat
    BY <1>2, ResumeIsPage DEF PageNo
  <2>3. <<p, n>> \notin Taken(r, p)
    BY <1>2, <2>2 DEF Taken, NextPage
  <2>4. \A m \in PagesOf(r, p) : <<p, m>> \in Taken(r, p)
    BY <1>1 DEF SavedInv, RunSaved, ProviderSaved
  <2> QED BY <2>1, <2>3, <2>4 DEF PagesOf
<1>4. checkpoint[p].count = base[r][p].count + got[r][p]
  BY <1>1 DEF CountInv, TaskCount
<1>5. checkpoint'[p].count = checkpoint[p].count + 1
  <2>1. checkpoint'[p] = NextCheckpoint(r, p)
    BY <1>1 DEF PageInv, TypeOK
  <2> QED BY <1>2, <1>4, <2>1 DEF NextCheckpoint, CheckpointOf
<1>6. ASSUME NEW o \in Providers
      PROVE  checkpoint'[o].count = Cardinality(RowsOf(o)')
  <2>1. IsFiniteSet(RowsOf(o)) /\ checkpoint[o].count = Cardinality(RowsOf(o))
    <3>1. RowsOf(o) \subseteq pages
      BY DEF RowsOf
    <3> QED BY <3>1, FS_Subset DEF CountInv
  <2>2. CASE o = p
    <3>1. RowsOf(o)' = RowsOf(o) \union {row}
      BY <1>1, <2>2 DEF RowsOf
    <3>2. row \notin RowsOf(o)
      BY <1>3 DEF RowsOf
    <3>3. Cardinality(RowsOf(o) \union {row}) = Cardinality(RowsOf(o)) + 1
      BY <2>1, <3>2, FS_AddElement
    <3> QED BY <1>5, <2>1, <2>2, <3>1, <3>3
  <2>3. CASE o # p
    <3>1. RowsOf(o)' = RowsOf(o)
      BY <1>1, <2>3 DEF RowsOf
    <3>2. checkpoint'[o] = checkpoint[o]
      BY <1>1, <2>3 DEF PageInv, TypeOK
    <3> QED BY <2>1, <3>1, <3>2
  <2> QED BY <2>2, <2>3
<1>7. TaskCount'
  <2> SUFFICES ASSUME NEW q \in Runs, NEW o \in Providers,
                      Searching(q)', task'[q][o] = "running"
               PROVE  checkpoint'[o].count = base'[q][o].count + got'[q][o]
    BY DEF TaskCount
  <2>1. Searching(q) /\ task[q][o] = "running"
    <3>1. task \in [Runs -> [Providers -> {"queued", "running", "ended"}]]
      BY DEF PageInv, TypeOK
    <3>2. task[q][o] = "running"
      BY <1>1, <3>1
    <3>3. Searching(q)
      BY <1>1 DEF Searching
    <3> QED BY <3>2, <3>3
  <2>2. q = r
    BY <1>1, <2>1, OneSearching DEF CountInv
  <2>3. CASE o = p
    <3>1. got'[q][o] = got[r][p] + 1 /\ base'[q][o] = base[r][p]
      BY <1>1, <2>2, <2>3 DEF PageInv, TypeOK
    <3> QED BY <1>2, <1>4, <1>5, <2>3, <3>1 DEF CheckpointOf
  <2>4. CASE o # p
    <3>1. got'[q][o] = got[q][o] /\ base'[q][o] = base[q][o] /\ checkpoint'[o] = checkpoint[o]
      BY <1>1, <2>4 DEF PageInv, TypeOK
    <3> QED BY <2>1, <3>1 DEF CountInv, TaskCount
  <2> QED BY <2>3, <2>4
<1>8. IsFiniteSet(pages')
  BY <1>1, FS_AddElement DEF CountInv
<1> QED BY <1>6, <1>7, <1>8 DEF CountInv

\* Every step preserves CountInv as long as the processes are inside their leases.
LEMMA NextCountInv ==
  PageInv /\ LeaseInv /\ SavedInv /\ CountInv /\ Timely /\ [Next]_vars => CountInv'
<1> SUFFICES ASSUME PageInv, LeaseInv, SavedInv, CountInv, Timely, [Next]_vars
             PROVE  CountInv'
  OBVIOUS
<1>1. WorkingRow'
  BY WorkingRowStays DEF CountInv, PageInv
<1>2. ASSUME NEW r \in Runs, StartRun(r) PROVE CountInv'
  <2>1. /\ UNCHANGED <<pages, checkpoint, task, base, got>>
        /\ \A q \in Runs : q # r => phase'[q] = phase[q]
        /\ \A p \in Providers : task[r][p] = "queued"
    BY <1>2 DEF StartRun, memory, PageInv, TypeOK, SavedInv, RunSaved, ProviderSaved
  <2> QED BY <1>1, <2>1, QuietCount DEF Searching
<1>3. ASSUME NEW r \in Runs, Cancel(r) \/ RunStep(r) \/ Crash(r) PROVE CountInv'
  <2>1. UNCHANGED <<pages, checkpoint>>
    BY <1>3 DEF Cancel, Crash, RunStep, Gathered, StopCancelled, Deadline, Finish,
       StopTasks, SaveBatch, FailBatch, FinishRun, Report, FailReport, durable
  <2>2. \/ UNCHANGED <<task, base, got>>
        \/ ForgetSearch(r)
    BY <1>3 DEF Cancel, Crash, RunStep, Gathered, StopCancelled, Deadline, Finish,
       StopTasks, SaveBatch, FailBatch, FinishRun, Report, FailReport, memory, Forget
  <2>3. \A q \in Runs : Searching(q)' => Searching(q)
    BY <1>3 DEF PageInv, TypeOK, Searching, Cancel, Crash, RunStep, Gathered,
       StopCancelled, Deadline, Finish, StopTasks, SaveBatch, FailBatch, FinishRun,
       Report, FailReport
  <2>4. ASSUME NEW q \in Runs, NEW o \in Providers, task'[q][o] = "running"
        PROVE  /\ task[q][o] = "running"
               /\ base'[q][o] = base[q][o]
               /\ got'[q][o] = got[q][o]
    <3>1. CASE UNCHANGED <<task, base, got>>
      BY <2>4, <3>1
    <3>2. CASE ForgetSearch(r)
      <4>1. q # r
        BY <2>4, <3>2 DEF ForgetSearch, PageInv, TypeOK
      <4> QED BY <2>4, <3>2, <4>1 DEF ForgetSearch, PageInv, TypeOK
    <3> QED BY <2>2, <3>1, <3>2
  <2> QED BY <1>1, <2>1, <2>3, <2>4, QuietCount
<1>4. ASSUME NEW r \in Runs, NEW p \in Providers, ProviderStep(r, p) PROVE CountInv'
  <2>1. CASE OpenProvider(r, p)
    BY <1>1, <2>1, OpenProviderCount
  <2>2. CASE AcceptPage(r, p)
    BY <1>1, <2>2, AcceptPageCount
  <2>3. CASE \/ RefuseProvider(r, p) \/ FailProvider(r, p)
             \/ TimeoutProvider(r, p) \/ CancelProvider(r, p)
    <3>1. EndTask(r, p) /\ UNCHANGED <<pages, checkpoint, phase, base, got>>
      BY <2>3 DEF RefuseProvider, FailProvider, TimeoutProvider, CancelProvider, durable
    <3>2. \A q \in Runs, o \in Providers :
            task'[q][o] = "running" => task[q][o] = "running"
      BY <3>1 DEF EndTask, PageInv, TypeOK
    <3> QED BY <1>1, <3>1, <3>2, QuietCount DEF Searching
  <2> QED BY <1>4, <2>1, <2>2, <2>3 DEF ProviderStep
<1>5. CASE Tick \/ UNCHANGED vars
  <2>1. UNCHANGED <<pages, checkpoint, phase, task, base, got>>
    BY <1>5 DEF Tick, vars, durable, volatile, memory
  <2> QED BY <1>1, <2>1, QuietCount DEF Searching
<1> QED BY <1>2, <1>3, <1>4, <1>5 DEF Next

\* The initial state: no page and no checkpoint.
LEMMA InitCountInv == Init => CountInv
<1> SUFFICES ASSUME Init PROVE CountInv
  OBVIOUS
<1>1. IsFiniteSet(pages)
  BY FS_EmptySet DEF Init
<1>2. \A p \in Providers : checkpoint[p].count = Cardinality(RowsOf(p))
  <2>1. \A p \in Providers : RowsOf(p) = {} /\ checkpoint[p].count = 0
    BY DEF Init, RowsOf, NoCheckpoint
  <2> QED BY <2>1, FS_EmptySet
<1> QED BY <1>1, <1>2 DEF Init, CountInv, WorkingRow, TaskCount, Searching

\* In every history in which no process works on past its lease, the counter of
\* a checkpoint equals the number of page rows, across resumptions, crashes and
\* restarts of the cycle (accepted_page_count in save_accepted_page).
THEOREM CountIsExactInTime == Spec => CountExactInTime
<1>1. CountInv => CountExact
  BY DEF CountInv, CountExact, RowsOf
<1>2. Spec => [](PageInv /\ LeaseInv /\ SavedInv)
  BY InitPageInv, NextPageInv, LeaseInvariant, SavedInvariant, PTL DEF Spec
<1> QED BY <1>1, <1>2, InitCountInv, NextCountInv, PTL DEF Spec, CountExactInTime
----------------------------------------------------------------------------
(* ToldInv: what a run is about to write is true, and it is the last to    *)
(* write it.  With it every step is a step of RunLedger.                   *)

Own(r, x) == <<r, x[1], x[2]>> \in pages

\* The items a run holds come from pages it accepted itself: those of its tasks
\* and those of its accepted executions, of which it merges some.
HoldsOwn(r) ==
  /\ \A p \in Providers : Searching(r) /\ task[r][p] = "running" =>
       \A x \in Taken(r, p) : Own(r, x)
  /\ \A x \in kept[r] : Own(r, x)
  /\ merged[r] \subseteq kept[r]

\* When the search is over every provider has an outcome; when the run row is
\* completed it is terminal.
Concluded(r) ==
  /\ phase[r] \in {"idle", "search"} => verdict[r] = "none"
  /\ phase[r] = "search" =>
       \A p \in Providers : task[r][p] = "ended" => outcome[r][p] # "none"
  /\ phase[r] \in {"stopping", "batch", "saved"} =>
       verdict[r] # "none" /\ \A p \in Providers : outcome[r][p] # "none"
  /\ phase[r] = "reporting" => runStatus[r] \in TerminalRun

RunTold(r) == HoldsOwn(r) /\ Concluded(r)

ToldInv == \A r \in Runs : RunTold(r)

\* A run that a step does not touch goes on holding its own pages.
LEMMA ToldStays ==
  ASSUME NEW q \in Runs, RunTold(q), Untouched(q), verdict'[q] = verdict[q],
         pages \subseteq pages'
  PROVE  RunTold(q)'
<1>1. \A p \in Providers : Taken(q, p)' = Taken(q, p)
  BY DEF Untouched, Taken, NextPage, ResumePage
<1> QED BY <1>1 DEF RunTold, HoldsOwn, Concluded, Own, Untouched, Searching

\* The branch a run took is its own.
LEMMA OthersVerdict ==
  ASSUME TypeOK, NEW r \in Runs, NEW q \in Runs, q # r,
         \/ StartRun(r) \/ Cancel(r) \/ RunStep(r) \/ Crash(r)
         \/ \E p \in Providers : ProviderStep(r, p)
  PROVE  verdict'[q] = verdict[q]
<1>1. ASSUME NEW p \in Providers, ProviderStep(r, p) PROVE verdict'[q] = verdict[q]
  BY <1>1 DEF ProviderStep, RefuseProvider, OpenProvider, AcceptPage, FailProvider,
              TimeoutProvider, CancelProvider
<1>2. ASSUME StartRun(r) \/ Cancel(r) \/ Gathered(r) \/ StopTasks(r) \/ SaveBatch(r)
             \/ Report(r) \/ FailReport(r)
      PROVE  verdict'[q] = verdict[q]
  BY <1>2 DEF StartRun, Cancel, Gathered, StopTasks, SaveBatch, Report, FailReport, memory,
              TypeOK
<1>3. ASSUME StopCancelled(r) \/ Deadline(r) \/ FailBatch(r) \/ FinishRun(r) \/ Crash(r)
      PROVE  verdict'[q] = verdict[q]
  BY <1>3 DEF StopCancelled, Deadline, Finish, FailBatch, FinishRun, Crash, Forget,
              ForgetBatch, TypeOK
<1> QED BY <1>1, <1>2, <1>3 DEF RunStep

\* A task that ends without another page leaves an outcome while the run is
\* open, and nothing once it is not.
LEMMA EndedTaskTold ==
  ASSUME TypeOK, NEW r \in Runs, NEW p \in Providers, RunTold(r), Searching(r),
         NEW status \in Outcome \ {"none"}, NEW items, \A x \in items : Own(r, x),
         EndTask(r, p), Accept(r, p, status, items),
         UNCHANGED <<durable, phase, verdict, base, got>>
  PROVE  RunTold(r)'
<1>1. UNCHANGED <<runStatus, pages, phase, verdict, base, got>>
  BY DEF durable
<1>2. task'[r][p] = "ended" /\ \A o \in Providers : o # p => task'[r][o] = task[r][o]
  BY DEF EndTask, TypeOK
<1>3. /\ \A o \in Providers : o # p => outcome'[r][o] = outcome[r][o]
      /\ IF verdict[r] = "none" /\ outcome[r][p] = "none"
         THEN /\ outcome'[r][p] = status
              /\ kept'[r] = kept[r] \union items
              /\ merged'[r] \in {merged[r], kept'[r]}
         ELSE UNCHANGED <<outcome, kept, merged>>
  BY DEF Accept, Rebuild, TypeOK
<1>4. \A o \in Providers : Taken(r, o)' = Taken(r, o)
  BY <1>1 DEF Taken, NextPage, ResumePage
<1>5. HoldsOwn(r)'
  BY <1>1, <1>2, <1>3, <1>4 DEF RunTold, HoldsOwn, Own, Searching
<1>6. Concluded(r)'
  BY <1>1, <1>2, <1>3 DEF RunTold, Concluded, Searching
<1> QED BY <1>5, <1>6 DEF RunTold

\* An accepted page is one of the run's own, and so are the items that go into
\* the execution with it.
LEMMA AcceptPageTold ==
  ASSUME PageInv, NEW r \in Runs, NEW p \in Providers, RunTold(r), AcceptPage(r, p)
  PROVE  RunTold(r)'
<1> DEFINE n == NextPage(r, p)  items == Taken(r, p) \union {<<p, n>>}
<1> USE DEF PageInv
<1>1. /\ UNCHANGED <<runStatus, phase, verdict, base>>
      /\ Searching(r) /\ task[r][p] = "running"
      /\ pages' = pages \union {<<r, p, n>>}
      /\ \A o \in Providers : o # p => got'[r][o] = got[r][o] /\ task'[r][o] = task[r][o]
  BY DEF AcceptPage, Searching, EndTask, TypeOK
<1>2. \/ /\ task'[r][p] = "ended"
         /\ Accept(r, p, "success", items) \/ Accept(r, p, "failed", items)
      \/ UNCHANGED <<task, outcome, kept, merged>>
  BY DEF AcceptPage, EndTask, TypeOK
<1>3. /\ \A o \in Providers : o # p => outcome'[r][o] = outcome[r][o]
      /\ \/ UNCHANGED <<task, outcome, kept, merged>>
         \/ /\ task'[r][p] = "ended"
            /\ IF verdict[r] = "none" /\ outcome[r][p] = "none"
               THEN /\ outcome'[r][p] # "none"
                    /\ kept'[r] = kept[r] \union items
                    /\ merged'[r] \in {merged[r], kept'[r]}
               ELSE UNCHANGED <<outcome, kept, merged>>
  BY <1>2 DEF Accept, Rebuild, TypeOK
<1>4. \A o \in Providers : o # p => Taken(r, o)' = Taken(r, o)
  BY <1>1 DEF Taken, NextPage, ResumePage
<1>5. Taken(r, p)' = items
  BY TakenGrows
<1>6. \A x \in items : Own(r, x)'
  <2>1. \A x \in Taken(r, p) : Own(r, x)
    BY <1>1 DEF RunTold, HoldsOwn
  <2> QED BY <1>1, <2>1 DEF Own
<1>7. \A x : Own(r, x) => Own(r, x)'
  BY <1>1 DEF Own
<1> HIDE DEF items
<1>8. HoldsOwn(r)'
  BY <1>1, <1>3, <1>4, <1>5, <1>6, <1>7 DEF RunTold, HoldsOwn, Searching
<1>9. Concluded(r)'
  BY <1>1, <1>3 DEF RunTold, Concluded, Searching
<1> QED BY <1>8, <1>9 DEF RunTold

\* A task that has accepted no page holds nothing.
LEMMA FreshHoldsNothing ==
  ASSUME TypeOK, NEW r \in Runs, NEW p \in Providers, got[r][p] = 0
  PROVE  Taken(r, p) = {}
<1>1. ResumePage(base[r][p]) \in Nat
  <2>1. base[r][p] \in CheckpointOf
    BY DEF TypeOK
  <2> QED BY <2>1, ResumeIsPage DEF PageNo
<1> QED BY <1>1 DEF Taken, NextPage

\* The steps of the tasks.
LEMMA ProviderStepTold ==
  ASSUME PageInv, NEW r \in Runs, NEW p \in Providers, RunTold(r),
         ProviderStep(r, p)
  PROVE  RunTold(r)'
<1> USE DEF PageInv
<1>1. CASE OpenProvider(r, p)
  <2>1. /\ UNCHANGED <<runStatus, pages, phase, verdict, got, outcome, kept, merged>>
        /\ Searching(r) /\ task[r][p] = "queued" /\ task'[r][p] = "running"
        /\ \A o \in Providers : o # p => task'[r][o] = task[r][o] /\ base'[r][o] = base[r][o]
    BY <1>1 DEF OpenProvider, Searching, durable, TypeOK
  <2>2. got'[r][p] = 0 /\ base'[r][p] = checkpoint[p]
    BY <1>1, <2>1 DEF OpenProvider, QueuedFresh, TypeOK
  <2>3. Taken(r, p)' = {}
    <3>1. ResumePage(checkpoint[p]) \in Nat
      BY ResumeIsPage DEF TypeOK, PageNo
    <3> QED BY <2>2, <3>1 DEF Taken, NextPage, ResumePage
  <2>4. \A o \in Providers : o # p => Taken(r, o)' = Taken(r, o)
    BY <2>1 DEF Taken, NextPage, ResumePage
  <2> QED BY <2>1, <2>3, <2>4 DEF RunTold, HoldsOwn, Concluded, Own, Searching
<1>2. CASE AcceptPage(r, p)
  BY <1>2, AcceptPageTold
<1>3. CASE RefuseProvider(r, p)
  BY <1>3, EndedTaskTold DEF RefuseProvider, Searching, Outcome
<1>4. CASE FailProvider(r, p)
  <2>1. \A x \in Taken(r, p) : Own(r, x)
    BY <1>4 DEF FailProvider, RunTold, HoldsOwn, Searching
  <2> QED BY <1>4, <2>1, EndedTaskTold DEF FailProvider, Searching, Outcome
<1>5. CASE TimeoutProvider(r, p)
  BY <1>5, EndedTaskTold DEF TimeoutProvider, Searching, Outcome
<1>6. CASE CancelProvider(r, p)
  <2>1. \A x \in Taken(r, p) : Own(r, x)
    <3>1. CASE task[r][p] = "queued"
      BY <3>1, FreshHoldsNothing DEF QueuedFresh
    <3>2. CASE task[r][p] = "running"
      BY <1>6, <3>2 DEF CancelProvider, RunTold, HoldsOwn, Searching
    <3> QED BY <1>6, <3>1, <3>2 DEF CancelProvider
  <2> QED BY <1>6, <2>1, EndedTaskTold DEF CancelProvider, Searching, Outcome
<1> QED BY <1>1, <1>2, <1>3, <1>4, <1>5, <1>6 DEF ProviderStep

\* The steps of the run itself.
LEMMA RunStepTold ==
  ASSUME TypeOK, SavedInv, NEW r \in Runs, RunTold(r),
         StartRun(r) \/ Cancel(r) \/ RunStep(r) \/ Crash(r)
  PROVE  RunTold(r)'
<1> USE DEF RunTold, HoldsOwn, Own, Searching
<1>1. ASSUME StartRun(r) PROVE RunTold(r)'
  <2>1. /\ UNCHANGED <<pages, task, verdict, kept, merged>>
        /\ phase'[r] = "search" /\ phase[r] = "idle"
    BY <1>1 DEF StartRun, memory, TypeOK, SavedInv, RunSaved
  <2>2. \A o \in Providers : task[r][o] = "queued"
    BY <2>1 DEF SavedInv, RunSaved, ProviderSaved
  <2> QED BY <2>1, <2>2 DEF Concluded
<1>2. ASSUME Cancel(r) PROVE RunTold(r)'
  <2>1. UNCHANGED <<runStatus, outcomes, pages, phase, verdict, task, base, got, outcome, kept,
                    merged>>
    BY <1>2 DEF Cancel, durable
  <2> QED BY <2>1, ToldStays DEF Untouched, PagesOf
<1>3. ASSUME Crash(r) \/ FailBatch(r) \/ FinishRun(r) PROVE RunTold(r)'
  <2>1. /\ pages' = pages /\ kept'[r] = {} /\ merged'[r] = {}
        /\ \/ phase'[r] \in {"dead", "done"}
           \/ phase'[r] = "reporting" /\ runStatus'[r] = StatusForBatch(r)
    BY <1>3 DEF Crash, FailBatch, FinishRun, CompleteRun, Forget, ForgetBatch, durable, TypeOK
  <2> QED BY <2>1, StatusIsTerminal DEF Concluded
<1>4. ASSUME Gathered(r) PROVE RunTold(r)'
  <2>1. /\ UNCHANGED <<pages, outcome, kept, merged>>
        /\ phase[r] = "search" /\ phase'[r] = "batch" /\ verdict'[r] = "natural"
        /\ \A o \in Providers : task[r][o] = "ended"
    BY <1>4 DEF Gathered, durable, TypeOK
  <2> QED BY <2>1 DEF Concluded
<1>5. ASSUME StopTasks(r) PROVE RunTold(r)'
  <2>1. /\ UNCHANGED <<pages, verdict, outcome, kept, merged>>
        /\ phase[r] = "stopping" /\ phase'[r] = "batch"
    BY <1>5 DEF StopTasks, durable, TypeOK
  <2> QED BY <2>1 DEF Concluded
<1>6. ASSUME NEW v \in {"cancelled", "timed_out"}, phase[r] = "search", Finish(r, v)
      PROVE  RunTold(r)'
  <2>1. /\ UNCHANGED <<pages, task, base, got, kept, merged>>
        /\ phase'[r] = "stopping" /\ verdict'[r] = v
        /\ \A o \in Providers :
             outcome'[r][o] = IF outcome[r][o] = "none" THEN v ELSE outcome[r][o]
    BY <1>6 DEF Finish, durable, TypeOK
  <2>2. \A o \in Providers : Taken(r, o)' = Taken(r, o)
    BY <2>1 DEF Taken, NextPage, ResumePage
  <2> QED BY <1>6, <2>1, <2>2 DEF Concluded
<1>7. ASSUME SaveBatch(r) \/ Report(r) \/ FailReport(r) PROVE RunTold(r)'
  <2>1. /\ UNCHANGED <<pages, verdict, outcome, kept, merged>>
        /\ \/ phase[r] = "batch" /\ phase'[r] = "saved"
           \/ phase'[r] = "done"
    BY <1>7 DEF SaveBatch, Report, FailReport, durable, memory, TypeOK
  <2> QED BY <2>1 DEF Concluded
<1> QED BY <1>1, <1>2, <1>3, <1>4, <1>5, <1>6, <1>7 DEF RunStep, StopCancelled, Deadline

\* Every step of the system keeps what the runs are about to write true.
LEMMA NextToldInv == PageInv /\ SavedInv /\ ToldInv /\ [Next]_vars => ToldInv'
<1> SUFFICES ASSUME PageInv, SavedInv, ToldInv, [Next]_vars, NEW q \in Runs
             PROVE  RunTold(q)'
  BY DEF ToldInv
<1>1. RunTold(q) /\ TypeOK /\ pages \subseteq pages'
  BY PagesGrow DEF ToldInv, PageInv
<1>2. ASSUME NEW r \in Runs, StartRun(r) \/ Cancel(r) \/ RunStep(r) \/ Crash(r)
      PROVE  RunTold(q)'
  BY <1>1, <1>2, RunStepTold, OthersUntouched, OthersVerdict, ToldStays
<1>3. ASSUME NEW r \in Runs, NEW p \in Providers, ProviderStep(r, p)
      PROVE  RunTold(q)'
  BY <1>1, <1>3, ProviderStepTold, OthersUntouched, OthersVerdict, ToldStays
<1>4. CASE Tick \/ UNCHANGED vars
  <2>1. UNCHANGED <<runStatus, outcomes, pages, phase, verdict, task, base, got, outcome, kept,
                    merged>>
    BY <1>4 DEF Tick, vars, durable, volatile, memory
  <2> QED BY <1>1, <2>1, ToldStays DEF Untouched, PagesOf
<1> QED BY <1>2, <1>3, <1>4 DEF Next

----------------------------------------------------------------------------
(* RegistryInv: while the pages of a run hold no contradiction, every      *)
(* merge of its items succeeds, so what it holds is what it saves.         *)

RunRegistered(r) ==
  /\ kept[r] \subseteq merged[r]
  /\ phase[r] = "saved" => kept[r] \subseteq registry
  /\ \A p \in Providers : outcomes[r][p] \in Keeping =>
       \A n \in PagesOf(r, p) : <<p, n>> \in registry

RegistryInv == \A r \in Runs : Mergeable(r) => RunRegistered(r)

\* Items never leave the registry (save_batch only inserts).
LEMMA RegistryGrows ==
  ASSUME [Next]_vars
  PROVE  registry \subseteq registry'
<1>1. ASSUME NEW r \in Runs, NEW p \in Providers, ProviderStep(r, p)
      PROVE  registry \subseteq registry'
  BY <1>1 DEF ProviderStep, RefuseProvider, OpenProvider, AcceptPage, FailProvider,
              TimeoutProvider, CancelProvider, durable
<1>2. ASSUME NEW r \in Runs, StartRun(r) \/ Cancel(r) \/ RunStep(r) \/ Crash(r)
      PROVE  registry \subseteq registry'
  BY <1>2 DEF StartRun, Cancel, Crash, RunStep, Gathered, StopCancelled, Deadline, Finish,
              StopTasks, SaveBatch, FailBatch, FinishRun, Report, FailReport, durable
<1>3. CASE Tick \/ UNCHANGED vars
  BY <1>3 DEF Tick, vars, durable
<1> QED BY <1>1, <1>2, <1>3 DEF Next

\* A contradiction among the pages of a run stays there.
LEMMA MergeableBefore ==
  ASSUME NEW r \in Runs, pages \subseteq pages', Mergeable(r)'
  PROVE  Mergeable(r)
BY DEF Mergeable

\* A run that a step does not touch: its items stay where they are.
LEMMA RegisteredStays ==
  ASSUME NEW q \in Runs, RunRegistered(q), Untouched(q), registry \subseteq registry'
  PROVE  RunRegistered(q)'
BY DEF RunRegistered, Untouched

\* The items of an execution join the deduplication: a merge can only raise
\* over items that contradict each other, and all of them are the run's own.
LEMMA AcceptRegistered ==
  ASSUME TypeOK, NEW r \in Runs, NEW p \in Providers, NEW status, NEW items,
         Accept(r, p, status, items), RunTold(r)', Mergeable(r)',
         kept[r] \subseteq merged[r]
  PROVE  kept'[r] \subseteq merged'[r]
<1>1. CASE UNCHANGED <<outcome, kept, merged>>
  BY <1>1
<1>2. CASE Rebuild(r)
  <2>1. \A x \in kept'[r] : <<r, x[1], x[2]>> \in pages'
    BY DEF RunTold, HoldsOwn, Own
  <2>2. kept'[r] \notin Unmergeable
    BY <2>1 DEF Mergeable
  <2> QED BY <1>2, <2>2 DEF Rebuild, TypeOK
<1> QED BY <1>1, <1>2 DEF Accept

\* The steps of the tasks of a run save nothing; their items are merged.
LEMMA ProviderStepRegistered ==
  ASSUME TypeOK, NEW r \in Runs, NEW p \in Providers, ProviderStep(r, p),
         RunSaved(r), RunTold(r)', Mergeable(r)', RunRegistered(r)
  PROVE  RunRegistered(r)'
<1>1. kept'[r] \subseteq merged'[r]
  <2>1. \/ UNCHANGED <<kept, merged>>
        \/ \E status \in Outcome : \E items \in {{}, Taken(r, p), Taken(r, p) \union {<<p, NextPage(r, p)>>}} :
             Accept(r, p, status, items)
    BY DEF ProviderStep, RefuseProvider, OpenProvider, AcceptPage, FailProvider,
       TimeoutProvider, CancelProvider, Outcome
  <2>2. CASE UNCHANGED <<kept, merged>>
    BY <2>2 DEF RunRegistered
  <2>3. ASSUME NEW status, NEW items, Accept(r, p, status, items)
        PROVE  kept'[r] \subseteq merged'[r]
    BY <2>3, AcceptRegistered DEF RunRegistered
  <2> QED BY <2>1, <2>2, <2>3
<1>2. phase'[r] = phase[r] /\ outcomes' = outcomes /\ Searching(r)
  BY DEF ProviderStep, RefuseProvider, OpenProvider, AcceptPage, FailProvider,
     TimeoutProvider, CancelProvider, Searching, durable
<1>3. \A o \in Providers : outcomes[r][o] = "none"
  BY <1>2 DEF RunSaved, ProviderSaved, Searching, Ended
<1> QED BY <1>1, <1>2, <1>3 DEF RunRegistered, Searching, Keeping

\* save_batch writes all that was merged, and complete_run records outcomes of
\* what was saved just before.
LEMMA RunStepRegistered ==
  ASSUME TypeOK, NEW r \in Runs, RunSaved(r), RunRegistered(r),
         StartRun(r) \/ Cancel(r) \/ RunStep(r) \/ Crash(r)
  PROVE  RunRegistered(r)'
<1>1. \A o \in Providers : PagesOf(r, o)' = PagesOf(r, o)
  BY DEF StartRun, Cancel, Crash, RunStep, Gathered, StopCancelled, Deadline, Finish,
     StopTasks, SaveBatch, FailBatch, FinishRun, Report, FailReport, durable, PagesOf
<1>2. CASE SaveBatch(r)
  BY <1>1, <1>2 DEF SaveBatch, RunRegistered, memory, TypeOK
<1>3. CASE FinishRun(r)
  <2>1. /\ phase[r] = "saved" /\ phase'[r] = "reporting"
        /\ kept'[r] = {} /\ registry' = registry /\ outcomes'[r] = outcome[r]
    BY <1>3 DEF FinishRun, Forget, ForgetBatch, TypeOK
  <2> QED BY <1>1, <2>1 DEF RunRegistered, RunSaved, ProviderSaved
<1>4. CASE Crash(r) \/ FailBatch(r)
  <2>1. /\ kept'[r] = {} /\ phase'[r] # "saved"
        /\ UNCHANGED <<registry, outcomes>>
    BY <1>4 DEF Crash, FailBatch, Forget, ForgetBatch, durable, TypeOK
  <2> QED BY <1>1, <2>1 DEF RunRegistered
<1>5. CASE \/ StartRun(r) \/ Cancel(r) \/ Gathered(r) \/ StopCancelled(r) \/ Deadline(r)
           \/ StopTasks(r) \/ Report(r) \/ FailReport(r)
  <2>1. UNCHANGED <<registry, outcomes, kept, merged>> /\ (phase'[r] = "saved" => phase[r] = "saved")
    BY <1>5 DEF StartRun, Cancel, Gathered, StopCancelled, Deadline, Finish, StopTasks,
       Report, FailReport, durable, memory, TypeOK
  <2> QED BY <1>1, <2>1 DEF RunRegistered
<1> QED BY <1>2, <1>3, <1>4, <1>5 DEF RunStep

\* Every step of the system keeps the items of every run on their way.
LEMMA NextRegistryInv ==
  PageInv /\ SavedInv /\ ToldInv' /\ RegistryInv /\ [Next]_vars => RegistryInv'
<1> SUFFICES ASSUME PageInv, SavedInv, ToldInv', RegistryInv, [Next]_vars,
                    NEW q \in Runs, Mergeable(q)'
             PROVE  RunRegistered(q)'
  BY DEF RegistryInv
<1>1. registry \subseteq registry' /\ pages \subseteq pages'
  BY RegistryGrows, PagesGrow
<1>2. TypeOK /\ RunSaved(q) /\ RunTold(q)' /\ RunRegistered(q)
  BY <1>1, MergeableBefore DEF PageInv, SavedInv, ToldInv, RegistryInv
<1>3. ASSUME NEW r \in Runs, StartRun(r) \/ Cancel(r) \/ RunStep(r) \/ Crash(r)
      PROVE  RunRegistered(q)'
  BY <1>1, <1>2, <1>3, RunStepRegistered, OthersUntouched, RegisteredStays
<1>4. ASSUME NEW r \in Runs, NEW p \in Providers, ProviderStep(r, p)
      PROVE  RunRegistered(q)'
  BY <1>1, <1>2, <1>4, ProviderStepRegistered, OthersUntouched, RegisteredStays
<1>5. CASE Tick \/ UNCHANGED vars
  <2>1. UNCHANGED <<runStatus, outcomes, pages, phase, task, base, got, outcome, kept, merged>>
    BY <1>5 DEF Tick, vars, durable, volatile, memory
  <2> QED BY <1>1, <1>2, <2>1, RegisteredStays DEF Untouched, PagesOf
<1> QED BY <1>3, <1>4, <1>5 DEF Next

\* Everything the refinement rests on.
LedgerInv == PageInv /\ LeaseInv /\ SavedInv /\ WorkingRow /\ ToldInv /\ RegistryInv

\* It holds in every reachable state.
LEMMA LedgerInvariant == Spec => []LedgerInv
<1>1. Init => WorkingRow /\ ToldInv /\ RegistryInv
  BY DEF Init, WorkingRow, ToldInv, RunTold, HoldsOwn, Concluded, Searching, RegistryInv,
     RunRegistered, Keeping
<1>2. PageInv /\ WorkingRow /\ [Next]_vars => WorkingRow'
  BY WorkingRowStays DEF PageInv
<1>3. PageInv /\ SavedInv /\ ToldInv /\ RegistryInv /\ [Next]_vars => RegistryInv'
  BY NextToldInv, NextRegistryInv
<1> QED BY <1>1, <1>2, <1>3, InitPageInv, NextPageInv, LeaseInvariant, SavedInvariant,
           NextToldInv, PTL DEF Spec, LedgerInv

\* What collector_run_providers records can be trusted: the pages a run accepted
\* from a provider recorded as successful, or as failed half-way, are in the
\* registry, unless listings among its pages cannot be merged (the error paths
\* of _collect_provider_pages keep their items; _rebuild_partial).
THEOREM RecordedOutcomesAreSaved == Spec => []RecordedOutcomeSaved
<1>1. LedgerInv => RecordedOutcomeSaved
  BY DEF LedgerInv, RegistryInv, RunRegistered, Keeping, RecordedOutcomeSaved
<1> QED BY <1>1, LedgerInvariant, PTL

\* COMPLETED is never claimed early: the run itself accepted the terminal page
\* of every provider, and saved every page it accepted unless listings among
\* them cannot be merged (_status_for_batch).
THEOREM CompletedRunsAreSaved == Spec => []CompletedRunSaved
<1>1. LedgerInv => CompletedRunSaved
  BY DEF LedgerInv, SavedInv, RunSaved, ProviderSaved, RegistryInv, RunRegistered, Keeping,
     CompletedRunSaved
<1> QED BY <1>1, LedgerInvariant, PTL

----------------------------------------------------------------------------
(* The tables do what RunLedger says.                                      *)

InTime   == {r \in Runs : ttl[r] > 0}
Position == [p \in Providers |-> checkpoint[p].last]

\* A step that writes no table is no step of the ledger.
LEMMA LedgerStutter ==
  ASSUME UNCHANGED durable
  PROVE  UNCHANGED Ledger!ledger
BY DEF durable, Ledger!ledger

\* The lease row is absent, or its time is over, when a run is admitted.
LEMMA StartRunAdmits ==
  ASSUME TypeOK, NEW r \in Runs, StartRun(r)
  PROVE  Ledger!Admit(r)
<1>1. lease \notin InTime
  BY NoRunAssumption DEF StartRun, LeaseFree, InTime, TypeOK
<1>2. InTime' = InTime \union {r}
  BY BoundsAssumption DEF StartRun, InTime, TypeOK
<1>3. Position' = Position
  BY DEF StartRun, Position
<1> QED BY <1>1, <1>2, <1>3 DEF StartRun, InTime, Position, Ledger!Admit

\* The clock only lets leases expire.
LEMMA TickExpires ==
  ASSUME TypeOK, Tick
  PROVE  Ledger!Expire
<1>1. InTime' \subseteq InTime
  BY DEF Tick, InTime, TypeOK
<1>2. Position' = Position
  BY DEF Tick, Position
<1> QED BY <1>1, <1>2 DEF Tick, InTime, Position, Ledger!Expire

\* A page commit moves the position to its page, with all pages below accepted,
\* and only a run whose row is RUNNING makes one.
LEMMA AcceptPageAccepts ==
  ASSUME LedgerInv, NEW r \in Runs, NEW p \in Providers, AcceptPage(r, p)
  PROVE  \E n \in 1 .. LastPage : Ledger!AcceptPage(r, p, n)
<1>1. runStatus[r] = "running"
  BY DEF LedgerInv, WorkingRow, AcceptPage
<1> PICK n \in PageNo : n = NextPage(r, p)
  BY DEF LedgerInv, PageInv, RunningPage, AcceptPage
<1>2. \A m \in 1 .. n - 1 : \E q \in Runs : <<q, p, m>> \in pages
  BY DEF LedgerInv, PageInv, RunningPage, Accepted, AcceptPage
<1>3. Position' = [Position EXCEPT ![p] = n]
  <2>1. checkpoint' = [checkpoint EXCEPT ![p] = NextCheckpoint(r, p)]
    BY DEF AcceptPage
  <2>2. NextCheckpoint(r, p).last = n
    BY DEF NextCheckpoint
  <2>3. DOMAIN checkpoint = Providers
    BY DEF LedgerInv, PageInv, TypeOK
  <2> QED BY <2>1, <2>2, <2>3 DEF Position
<1>4. InTime' = InTime
  BY DEF AcceptPage, InTime
<1>5. Ledger!AcceptPage(r, p, n)
  BY <1>1, <1>2, <1>3, <1>4 DEF AcceptPage, InTime, Position, Ledger!AcceptPage
<1> QED BY <1>5 DEF PageNo

\* save_batch writes items of pages the run itself accepted.
LEMMA SaveBatchSaves ==
  ASSUME LedgerInv, NEW r \in Runs, SaveBatch(r)
  PROVE  Ledger!Save(r)
<1>1. runStatus[r] = "running" /\ \A x \in merged[r] : <<r, x[1], x[2]>> \in pages
  BY DEF LedgerInv, WorkingRow, ToldInv, RunTold, HoldsOwn, Own, SaveBatch
<1>2. InTime' = InTime /\ Position' = Position
  BY DEF SaveBatch, InTime, Position
<1> QED BY <1>1, <1>2 DEF SaveBatch, InTime, Position, Ledger!Save

\* complete_run records outcomes that the rows of the run bear out, and a
\* status that agrees with them.
LEMMA FinishRunCloses ==
  ASSUME LedgerInv, NEW r \in Runs, FinishRun(r)
  PROVE  Ledger!Close(r)
<1> DEFINE out == outcome[r]
<1>1. /\ phase[r] = "saved" /\ TypeOK
      /\ runStatus' = [runStatus EXCEPT ![r] = StatusForBatch(r)]
      /\ outcomes' = [outcomes EXCEPT ![r] = out]
      /\ lease' = IF lease = r THEN NoRun ELSE lease
      /\ UNCHANGED <<ttl, pages, checkpoint, registry>>
  BY DEF FinishRun, CompleteRun, LedgerInv, PageInv
<1>2. runStatus[r] = "running"
  BY <1>1 DEF LedgerInv, WorkingRow
<1>3. runStatus'[r] = StatusForBatch(r) /\ outcomes'[r] = out
  BY <1>1 DEF TypeOK
<1>4. runStatus'[r] \in Ledger!Closing
  BY <1>3, StatusIsTerminal DEF TerminalRun, Ledger!Closing
<1>5. verdict[r] # "none" /\ \A p \in Providers : out[p] # "none"
  BY <1>1 DEF LedgerInv, ToldInv, RunTold, Concluded
<1>6. out \in [Providers -> Ledger!Recorded]
  <2>1. out \in [Providers -> Outcome]
    BY <1>1 DEF TypeOK
  <2> QED BY <1>5, <2>1 DEF Outcome, Ledger!Recorded
<1>7. Ledger!BorneOut(r, out)
  <2> SUFFICES ASSUME NEW p \in Providers
               PROVE  /\ out[p] = "success" => <<r, p, LastPage>> \in pages
                      /\ out[p] \in {"success", "failed"} /\ Mergeable(r) =>
                           \A n \in 1 .. LastPage : <<r, p, n>> \in pages => <<p, n>> \in registry
    BY DEF Ledger!BorneOut, Ledger!Mergeable, Mergeable
  <2>1. ProviderSaved(r, p) /\ (Mergeable(r) => kept[r] \subseteq registry)
    BY <1>1 DEF LedgerInv, SavedInv, RunSaved, RegistryInv, RunRegistered
  <2> QED BY <2>1 DEF ProviderSaved, Keeping, PagesOf, PageNo
<1>8. Ledger!Agrees(StatusForBatch(r), out)
  <2>1. verdict[r] \in {"natural", "cancelled", "timed_out"}
    BY <1>1, <1>5 DEF TypeOK
  <2> QED BY <2>1 DEF StatusForBatch, Ledger!Agrees
<1>9. InTime' = InTime /\ Position' = Position
  BY <1>1 DEF InTime, Position
<1> HIDE DEF out
<1> QED BY <1>1, <1>2, <1>3, <1>4, <1>6, <1>7, <1>8, <1>9
        DEF InTime, Position, Ledger!Close, Ledger!Release

\* A failed batch leaves no outcome behind.
LEMMA FailBatchAbandons ==
  ASSUME LedgerInv, NEW r \in Runs, FailBatch(r)
  PROVE  Ledger!Abandon(r)
<1>1. runStatus[r] = "running"
  BY DEF LedgerInv, WorkingRow, FailBatch
<1>2. InTime' = InTime /\ Position' = Position
  BY DEF FailBatch, InTime, Position
<1> QED BY <1>1, <1>2 DEF FailBatch, CompleteRun, InTime, Position, Ledger!Abandon,
                          Ledger!Release

\* The second completion of a run finds the lease row gone, or with another run.
LEMMA FailReportAmends ==
  ASSUME LedgerInv, NEW r \in Runs, FailReport(r)
  PROVE  Ledger!Amend(r)
<1>1. runStatus[r] \in TerminalRun
  BY DEF LedgerInv, ToldInv, RunTold, Concluded, FailReport
<1>2. lease # r
  BY <1>1, NoRunAssumption DEF LedgerInv, LeaseInv, LeaseHeldByRunning, TerminalRun
<1>3. InTime' = InTime /\ Position' = Position
  BY DEF FailReport, InTime, Position
<1> QED BY <1>1, <1>2, <1>3 DEF FailReport, CompleteRun, TerminalRun, InTime, Position,
                                Ledger!Amend, Ledger!Closing

\* The tables are empty at first.
LEMMA LedgerInit == Init => Ledger!Init
<1> SUFFICES ASSUME Init PROVE Ledger!Init
  OBVIOUS
<1>1. InTime = {} /\ Position = [p \in Providers |-> 0]
  BY DEF Init, InTime, Position, NoCheckpoint
<1> QED BY <1>1 DEF Init, InTime, Position, Ledger!Init

\* Every step of the processes is a step of the ledger or writes no table.
LEMMA LedgerStep == LedgerInv /\ [Next]_vars => [Ledger!Next]_(Ledger!ledger)
<1> SUFFICES ASSUME LedgerInv, [Next]_vars  PROVE Ledger!Next \/ UNCHANGED Ledger!ledger
  OBVIOUS
<1>1. TypeOK
  BY DEF LedgerInv, PageInv
<1>2. ASSUME NEW r \in Runs, NEW p \in Providers, ProviderStep(r, p)
      PROVE  Ledger!Next \/ UNCHANGED Ledger!ledger
  <2>1. CASE AcceptPage(r, p)
    BY <2>1, AcceptPageAccepts DEF Ledger!Next
  <2>2. CASE ~AcceptPage(r, p)
    BY <1>2, <2>2, LedgerStutter DEF ProviderStep, RefuseProvider, OpenProvider,
       FailProvider, TimeoutProvider, CancelProvider
  <2> QED BY <2>1, <2>2
<1>3. ASSUME NEW r \in Runs, StartRun(r) \/ Cancel(r) \/ RunStep(r) \/ Crash(r)
      PROVE  Ledger!Next \/ UNCHANGED Ledger!ledger
  <2>1. CASE StartRun(r)
    BY <1>1, <2>1, StartRunAdmits DEF Ledger!Next
  <2>2. CASE SaveBatch(r)
    BY <2>2, SaveBatchSaves DEF Ledger!Next
  <2>3. CASE FinishRun(r)
    BY <2>3, FinishRunCloses DEF Ledger!Next
  <2>4. CASE FailBatch(r)
    BY <2>4, FailBatchAbandons DEF Ledger!Next
  <2>5. CASE FailReport(r)
    BY <2>5, FailReportAmends DEF Ledger!Next
  <2>6. CASE \/ Cancel(r) \/ Crash(r) \/ Gathered(r) \/ StopCancelled(r) \/ Deadline(r)
             \/ StopTasks(r) \/ Report(r)
    BY <2>6, LedgerStutter DEF Cancel, Crash, Gathered, StopCancelled, Deadline, Finish,
       StopTasks, Report
  <2> QED BY <1>3, <2>1, <2>2, <2>3, <2>4, <2>5, <2>6 DEF RunStep
<1>4. CASE Tick
  BY <1>1, <1>4, TickExpires DEF Ledger!Next
<1>5. CASE UNCHANGED vars
  BY <1>5, LedgerStutter DEF vars
<1> QED BY <1>2, <1>3, <1>4, <1>5 DEF Next

\* Whatever the processes do to each other, the tables go through the steps of
\* RunLedger: what a reader finds in them was true when it was written
\* (CollectorStateRepository).
THEOREM TablesTellTheTruth == Spec => ImplementsLedger
<1>1. Init => Ledger!Init
  BY LedgerInit
<1>2. LedgerInv /\ [Next]_vars => [Ledger!Next]_(Ledger!ledger)
  BY LedgerStep
<1> QED
  BY <1>1, <1>2, LedgerInvariant, PTL DEF Spec, ImplementsLedger, Ledger!Spec
=============================================================================

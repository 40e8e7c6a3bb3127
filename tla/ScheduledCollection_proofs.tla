---------------------- MODULE ScheduledCollection_proofs ----------------------
(***************************************************************************)
(* Proofs about ScheduledCollection, for any set of tenders, any intervals *)
(* and any number of clicks, closes and crashes.                           *)
(*                                                                         *)
(* OneRun is not inductive: that delivering a terminal signal leaves no    *)
(* other signal behind needs Coupling, which says that such a signal is    *)
(* the last one of a run whose thread has ended, that a held worker has an *)
(* active lifecycle, and where the GUI thread can be in a closed one.      *)
(***************************************************************************)
EXTENDS ScheduledCollection, SequenceTheorems, TLAPS

Coupling ==
  /\ worker # "none" => state \in Active
  /\ process = "down" => state = "closed"
  /\ process = "joining" => ~accepting
  /\ state = "closed" => process = "down" \/ ~accepting
  /\ \A i \in 1 .. Len(signals) :
       signals[i].name # "started" => i = Len(signals) /\ stage = "none"

RunInv == TypeOK /\ OneRun /\ Coupling

----------------------------------------------------------------------------
(* Lemmas about the operators of the model.                                *)

\* What the operations write over the schedule file keeps it a schedule file.
LEMMA FileTyped ==
  ASSUME NEW f \in ScheduleFile, NEW s \in Statuses,
         NEW n \in {Never} \union 0 .. Period
  PROVE  /\ [f EXCEPT !.status = s] \in ScheduleFile
         /\ [f EXCEPT !.nextRun = n] \in ScheduleFile
         /\ [f EXCEPT !.status = s, !.nextRun = n] \in ScheduleFile
         /\ f.status \in Statuses
         /\ f.nextRun \in {Never} \union 0 .. Period
BY DEF ScheduleFile

\* The slot after a start, or of a schedule just enabled, is a legal one.
LEMMA SlotTyped ==
  ASSUME NEW on \in BOOLEAN
  PROVE  (IF on THEN Period ELSE Never) \in {Never} \union 0 .. Period
BY ScheduleAssumption

\* mark_started keeps the file typed, whatever became of the run.
LEMMA StartTyped ==
  ASSUME TypeOK, NEW reason \in Reasons, StartScheduled(reason)
  PROVE  /\ file' \in ScheduleFile
         /\ scheduled' \in BOOLEAN /\ stranded' \in BOOLEAN
<1> DEFINE slot == IF file.enabled THEN Period ELSE Never
           started == [file EXCEPT !.status = reason, !.nextRun = slot]
<1>1. file \in ScheduleFile /\ reason \in Statuses /\ "start_rejected" \in Statuses
  BY DEF TypeOK, Statuses
<1>2. slot \in {Never} \union 0 .. Period
  BY ScheduleAssumption
<1>3. started \in ScheduleFile
  BY <1>1, <1>2, FileTyped
<1>4. [started EXCEPT !.status = "start_rejected"] \in ScheduleFile
  BY <1>1, <1>3, FileTyped
<1>5. file' \in {started, [started EXCEPT !.status = "start_rejected"]}
  BY DEF StartScheduled
<1> QED BY <1>3, <1>4, <1>5 DEF StartScheduled

\* A run that starts, or does not, leaves the controller's state typed.
LEMMA StartScheduledRun ==
  ASSUME TypeOK, NEW reason, StartScheduled(reason)
  PROVE  /\ state' \in {"idle"} \union Active \union Terminal
         /\ worker' \in {"none", "scheduled", "interactive"}
         /\ stage' \in {"none", "queued", "running", "stored"}
         /\ token' \in BOOLEAN
         /\ signals' \in Seq(Signal)
BY DEF TypeOK, StartScheduled, Start, run, Active

\* A countdown stays within its bounds and keeps the special values.
LEMMA CountDownTyped ==
  ASSUME NEW m \in Nat
  PROVE  /\ \A n \in 0 .. m : CountDown(n) \in 0 .. m
         /\ CountDown(Never) = Never
         /\ CountDown(Expired) = Expired
BY DEF CountDown, Never, Expired

\* Emitting a signal appends it.
LEMMA EmitTyped ==
  ASSUME TypeOK, NEW name, NEW ends, Emit(name, ends),
         [name |-> name, ends |-> ends] \in Signal
  PROVE  signals' \in Seq(Signal)
BY DEF TypeOK, Emit

\* The bound on clicks, closes and crashes is kept.
LEMMA ActTyped == ASSUME TypeOK, Act PROVE acts' \in 0 .. MaxActs
BY ScheduleAssumption DEF TypeOK, Act

----------------------------------------------------------------------------
(* Type correctness.                                                       *)

LEMMA TypeInit == ASSUME Init PROVE TypeOK
<1>1. file \in ScheduleFile
  BY DEF Init, ScheduleFile, Statuses
<1>2. <<>> \in Seq(Signal)
  OBVIOUS
<1>3. /\ recheck \in [Tenders -> {Never, Expired} \union 0 .. Recheck]
      /\ deadline \in [Tenders -> 0 .. Lifetime]
      /\ acts \in 0 .. MaxActs
  BY ScheduleAssumption DEF Init
<1> QED BY <1>1, <1>2, <1>3 DEF Init, TypeOK

LEMMA TypeStep == ASSUME TypeOK, [Next]_vars PROVE TypeOK'
<1>1. CASE Poll
  <2>1. CASE NotDue \/ Defer
    <3>1. Planned \in ScheduleFile
      <4>1. Period \in {Never} \union 0 .. Period /\ "idle" \in Statuses
        BY ScheduleAssumption DEF Statuses
      <4> QED BY <4>1, FileTyped DEF TypeOK, Planned
    <3>2. [Planned EXCEPT !.status = "deferred_busy"] \in ScheduleFile
      BY <3>1, FileTyped DEF Statuses
    <3> QED BY <1>1, <2>1, <3>1, <3>2 DEF TypeOK, Poll, NotDue, Defer, gui, run, rows
  <2>2. CASE \E reason \in DueReasons : StartScheduled(reason)
    <3>1. PICK reason \in DueReasons : StartScheduled(reason)
      BY <2>2
    <3>2. reason \in Reasons
      BY DEF DueReasons, Reasons
    <3>3. UNCHANGED <<rows, acts, process, accepting, startup>>
      BY <1>1, <3>1 DEF Poll, NotDue, Defer, gui, StartScheduled
    <3> QED BY <3>1, <3>2, <3>3, StartTyped, StartScheduledRun DEF TypeOK, rows
  <2> QED BY <1>1, <2>1, <2>2 DEF Poll
<1>2. CASE StartupCheck
  <2>1. CASE StartScheduled("startup")
    <3>1. "startup" \in Reasons
      BY DEF Reasons
    <3> QED BY <1>2, <2>1, <3>1, StartTyped, StartScheduledRun
         DEF TypeOK, StartupCheck, rows
  <2>2. CASE UNCHANGED <<file, run, scheduled, stranded>>
    BY <1>2, <2>2 DEF TypeOK, StartupCheck, run, rows
  <2> QED BY <1>2, <2>1, <2>2 DEF StartupCheck
<1>3. CASE RunNow
  BY <1>3, ActTyped DEF TypeOK, RunNow, Start, rows, gui, Active
<1>4. CASE SaveSettings
  <2>1. file' \in ScheduleFile
    <3>1. PICK on, atStartup \in BOOLEAN :
            file' = [enabled |-> on, onStartup |-> atStartup,
                     nextRun |-> IF on THEN Period ELSE Never,
                     status |-> IF on THEN file.status ELSE "disabled"]
      BY <1>4 DEF SaveSettings
    <3>2. file.status \in Statuses /\ "disabled" \in Statuses
      BY DEF TypeOK, ScheduleFile, Statuses
    <3> QED BY <3>1, <3>2, ScheduleAssumption DEF ScheduleFile
  <2> QED BY <1>4, <2>1, ActTyped DEF TypeOK, SaveSettings, rows, gui, run
<1>5. CASE Stop
  BY <1>5, ActTyped DEF TypeOK, Stop, rows, gui, Active
<1>6. CASE Begin
  <2>1. signals' \in Seq(Signal)
    BY <1>6, EmitTyped DEF Begin, Signal
  <2> QED BY <1>6, <2>1 DEF TypeOK, Begin, rows, gui
<1>7. CASE StoreFreshness
  <2>1. recheck' \in [Tenders -> {Never, Expired} \union 0 .. Recheck]
    BY <1>7, ScheduleAssumption DEF TypeOK, StoreFreshness
  <2> QED BY <1>7, <2>1 DEF TypeOK, StoreFreshness, gui
<1>8. CASE EndRun
  <2>1. PICK name, ends : Emit(name, ends) /\ [name |-> name, ends |-> ends] \in Signal
    BY <1>8 DEF EndRun, Signal
  <2>2. signals' \in Seq(Signal)
    BY <2>1, EmitTyped
  <2> QED BY <1>8, <2>2 DEF TypeOK, EndRun, rows, gui
<1>9. CASE Deliver
  <2>1. Head(signals) \in Signal /\ Tail(signals) \in Seq(Signal)
    BY <1>9 DEF TypeOK, Deliver
  <2>2. CASE OnStarted
    BY <1>9, <2>1, <2>2 DEF TypeOK, Deliver, OnStarted, gui, rows, Active
  <2>3. CASE OnEnded(Head(signals)) /\ Head(signals).name # "started"
    <3>1. EndState(Head(signals)) \in Terminal
      BY <2>1, <2>3 DEF EndState, Signal, Terminal
    <3>2. CASE state \in Terminal
      BY <1>9, <2>1, <2>3, <3>2 DEF TypeOK, Deliver, OnEnded, gui, rows
    <3>3. CASE state \notin Terminal
      <4>1. \A s \in Statuses : [file EXCEPT !.status = s] \in ScheduleFile
        BY FileTyped, ScheduleAssumption DEF TypeOK
      <4>2. file' \in ScheduleFile /\ scheduled' \in BOOLEAN /\ stranded' \in BOOLEAN
        BY <2>3, <3>3, <4>1 DEF TypeOK, OnEnded, OnScheduleFinished, Statuses
      <4> QED BY <1>9, <2>1, <2>3, <3>1, <3>3, <4>2 DEF TypeOK, Deliver, OnEnded, rows
    <3> QED BY <3>2, <3>3
  <2> QED BY <1>9, <2>2, <2>3 DEF Deliver
<1>10. CASE CloseRequest
  BY <1>10, ActTyped DEF TypeOK, CloseRequest, rows, Active
<1>11. CASE CloseDone
  BY <1>11 DEF TypeOK, CloseDone, rows, Terminal
<1>12. CASE CloseTimeout
  BY <1>12 DEF TypeOK, CloseTimeout, rows, run
<1>13. CASE Quit
  BY <1>13 DEF TypeOK, Quit, rows, run
<1>14. CASE Crash
  <2>1. signals' \in Seq(Signal)
    BY <1>14 DEF Crash
  <2> QED BY <1>14, <2>1, ActTyped DEF TypeOK, Crash, rows, Terminal
<1>15. CASE Restart
  <2>1. signals' \in Seq(Signal)
    BY <1>15 DEF Restart
  <2> QED BY <1>15, <2>1 DEF TypeOK, Restart, rows
<1>16. CASE Tick
  <2>1. file' \in ScheduleFile
    <3>1. file.nextRun \in {Never} \union 0 .. Period
      BY DEF TypeOK, ScheduleFile
    <3>2. CountDown(file.nextRun) \in {Never} \union 0 .. Period
      BY <3>1, CountDownTyped, ScheduleAssumption
    <3>3. file' = [file EXCEPT !.nextRun = CountDown(file.nextRun)]
      BY <1>16 DEF Tick
    <3> QED BY <3>2, <3>3 DEF TypeOK, ScheduleFile
  <2>2. recheck' \in [Tenders -> {Never, Expired} \union 0 .. Recheck]
    BY <1>16, CountDownTyped, ScheduleAssumption DEF TypeOK, Tick
  <2>3. deadline' \in [Tenders -> 0 .. Lifetime]
    BY <1>16, CountDownTyped, ScheduleAssumption DEF TypeOK, Tick
  <2> QED BY <1>16, <2>1, <2>2, <2>3 DEF TypeOK, Tick, gui, run
<1>17. CASE UNCHANGED vars
  BY <1>17 DEF TypeOK, vars
<1> QED BY <1>1, <1>2, <1>3, <1>4, <1>5, <1>6, <1>7, <1>8, <1>9, <1>10, <1>11,
           <1>12, <1>13, <1>14, <1>15, <1>16, <1>17 DEF Next, Thread, Close

\* Every state of every behaviour is well-typed: the operations of the schedule
\* file, the controllers and the worker write nothing else.
THEOREM TypeCorrect == Spec => []TypeOK
<1>1. Init => TypeOK
  BY TypeInit
<1>2. TypeOK /\ [Next]_vars => TypeOK'
  BY TypeStep
<1> QED BY <1>1, <1>2, PTL DEF Spec

----------------------------------------------------------------------------
(* One run at a time.                                                      *)

\* A signal that is delivered leaves nothing behind when it is a terminal one,
\* and what it leaves keeps its order.
LEMMA DeliverOrder ==
  ASSUME TypeOK, Coupling, signals # <<>>
  PROVE  /\ Head(signals).name # "started" => Tail(signals) = <<>> /\ stage = "none"
         /\ \A i \in 1 .. Len(Tail(signals)) :
              Tail(signals)[i].name # "started" =>
                i = Len(Tail(signals)) /\ stage = "none"
<1> DEFINE rest == Tail(signals)
<1>1. Len(signals) \in Nat \ {0} /\ Head(signals) = signals[1]
  BY DEF TypeOK
<1>2. /\ rest \in Seq(Signal)
      /\ Len(rest) = Len(signals) - 1
      /\ \A i \in 1 .. Len(rest) : rest[i] = signals[i + 1]
  BY DEF TypeOK
<1>3. \A i \in 1 .. Len(signals) :
        signals[i].name # "started" => i = Len(signals) /\ stage = "none"
  BY DEF Coupling
<1> HIDE DEF rest
<1>4. ASSUME signals[1].name # "started"
      PROVE  rest = <<>> /\ stage = "none"
  <2>1. 1 \in 1 .. Len(signals)
    BY <1>1
  <2>2. 1 = Len(signals) /\ stage = "none"
    BY <1>3, <1>4, <2>1
  <2>3. Len(rest) \notin Nat \ {0}
    <3>1. Len(rest) = Len(signals) - 1
      BY <1>2, Zenon
    <3> QED BY <2>2, <3>1
  <2>4. rest = <<>>
    BY <1>2, <2>3, EmptySeq, Zenon
  <2> QED BY <2>2, <2>4
<1>5. ASSUME NEW i \in 1 .. Len(rest), rest[i].name # "started"
      PROVE  i = Len(rest) /\ stage = "none"
  <2>1. i + 1 \in 1 .. Len(signals) /\ signals[i + 1].name # "started"
    BY <1>1, <1>2, <1>5
  <2>2. i + 1 = Len(signals) /\ stage = "none"
    BY <1>3, <2>1
  <2> QED BY <1>1, <1>2, <2>2
<1> QED BY <1>1, <1>4, <1>5 DEF rest

LEMMA RunInit == ASSUME Init PROVE RunInv
<1>1. Len(signals) = 0 /\ 1 .. 0 = {}
  BY DEF Init
<1>2. TypeOK
  BY TypeInit
<1> QED BY <1>1, <1>2 DEF Init, RunInv, OneRun, Coupling, Active

\* A new run starts with nothing of the run before it in the pool or the queue.
LEMMA StartRun ==
  ASSUME RunInv, NEW budget \in {"scheduled", "interactive"}, Start(budget),
         process = "loop", UNCHANGED <<process, accepting>>
  PROVE  OneRun' /\ Coupling'
<1>1. signals = <<>> /\ state # "closed"
  BY DEF RunInv, OneRun, Coupling, Start
<1> QED BY <1>1 DEF RunInv, OneRun, Coupling, Start, Active

LEMMA StartScheduledOne ==
  ASSUME RunInv, NEW reason, StartScheduled(reason),
         process = "loop", UNCHANGED <<process, accepting>>
  PROVE  OneRun' /\ Coupling'
<1>1. CASE Start("scheduled")
  BY <1>1, StartRun
<1>2. CASE UNCHANGED run
  BY <1>2 DEF RunInv, OneRun, Coupling, run
<1> QED BY <1>1, <1>2 DEF StartScheduled

LEMMA RunStep == ASSUME RunInv, [Next]_vars PROVE RunInv'
<1> SUFFICES OneRun' /\ Coupling'
  BY TypeStep DEF RunInv
<1> USE DEF RunInv
<1>0. ASSUME UNCHANGED run, UNCHANGED <<process, accepting>>
      PROVE  OneRun' /\ Coupling'
  BY <1>0 DEF OneRun, Coupling, run
<1>1. CASE Poll
  <2>1. CASE NotDue \/ Defer
    BY <1>0, <2>1 DEF NotDue, Defer, gui
  <2>2. CASE \E reason \in DueReasons : StartScheduled(reason)
    <3>1. UNCHANGED <<process, accepting>> /\ process = "loop"
      BY <1>1, <2>2 DEF Poll, NotDue, Defer, gui
    <3> QED BY <2>2, <3>1, StartScheduledOne
  <2> QED BY <1>1, <2>1, <2>2 DEF Poll
<1>2. CASE StartupCheck
  BY <1>0, <1>2, StartScheduledOne DEF StartupCheck
<1>3. CASE RunNow
  BY <1>3, StartRun DEF RunNow, gui
<1>4. CASE SaveSettings
  BY <1>0, <1>4 DEF SaveSettings, gui
<1>5. CASE Stop
  BY <1>5 DEF Stop, OneRun, Coupling, Active, gui
<1>6. CASE Begin
  <2>1. signals = <<>> /\ worker # "none"
    BY <1>6 DEF Begin, OneRun
  <2>2. signals' = <<[name |-> "started", ends |-> "running"]>>
    BY <1>6, <2>1 DEF Begin, Emit
  <2>3. /\ Len(signals') = 1 /\ signals'[1].name = "started"
    BY <2>2
  <2> QED BY <1>6, <2>1, <2>3 DEF Begin, OneRun, Coupling, gui
<1>7. CASE StoreFreshness
  BY <1>7 DEF StoreFreshness, OneRun, Coupling, gui
<1>8. CASE EndRun
  <2>1. worker # "none" /\ stage # "none"
    BY <1>8 DEF EndRun, OneRun
  <2>2. PICK s : signals' = Append(signals, s)
    BY <1>8 DEF EndRun, Emit
  <2>3. /\ Len(signals') = Len(signals) + 1
        /\ \A i \in 1 .. Len(signals) : signals'[i] = signals[i]
    BY <2>2 DEF TypeOK
  <2>4. \A i \in 1 .. Len(signals) : signals[i].name = "started"
    BY <2>1 DEF Coupling
  <2>5. \A i \in 1 .. Len(signals') : signals'[i].name # "started" => i = Len(signals')
    <3> TAKE i \in 1 .. Len(signals')
    <3>1. i = Len(signals') \/ i \in 1 .. Len(signals)
      BY <2>3 DEF TypeOK
    <3> QED BY <2>3, <2>4, <3>1
  <2> QED BY <1>8, <2>1, <2>5 DEF EndRun, OneRun, Coupling, gui
<1>9. CASE Deliver
  <2> DEFINE signal == Head(signals)
  <2>1. /\ signals' = Tail(signals) /\ stage' = stage /\ process' = process
        /\ accepting' = accepting /\ process = "loop" /\ signals # <<>>
    BY <1>9 DEF Deliver, OnStarted, OnEnded, OnScheduleFinished, gui
  <2>2. \A i \in 1 .. Len(signals') :
          signals'[i].name # "started" => i = Len(signals') /\ stage' = "none"
    BY <2>1, DeliverOrder
  <2>3. CASE OnStarted
    BY <2>1, <2>2, <2>3 DEF OnStarted, OneRun, Coupling, Active, gui
  <2>4. CASE OnEnded(signal) /\ signal.name # "started"
    <3>1. signals' = <<>> /\ stage' = "none"
      BY <2>1, <2>4, DeliverOrder
    <3>2. CASE state \in Terminal
      BY <2>1, <2>2, <2>4, <3>1, <3>2 DEF OnEnded, OneRun, Coupling, gui
    <3>3. CASE state \notin Terminal
      <4>1. signal \in Signal
        BY <2>1 DEF TypeOK
      <4>2. state' \in Terminal \ {"closed"} /\ worker' = "none"
        BY <2>4, <3>3, <4>1 DEF OnEnded, EndState, Signal, Terminal
      <4>3. state' \notin Active
        BY <4>2 DEF Terminal, Active
      <4> QED BY <2>1, <2>2, <3>1, <3>3, <4>2, <4>3 DEF OneRun, Coupling
    <3> QED BY <3>2, <3>3
  <2> QED BY <1>9, <2>3, <2>4 DEF Deliver
<1>10. CASE CloseRequest
  BY <1>10 DEF CloseRequest, OneRun, Coupling, Active
<1>11. CASE CloseDone
  BY <1>11 DEF CloseDone, OneRun, Coupling, Active
<1>12. CASE CloseTimeout
  BY <1>12 DEF CloseTimeout, OneRun, Coupling, run
<1>13. CASE Quit
  BY <1>13 DEF Quit, OneRun, Coupling, run
<1>14. CASE Crash
  BY <1>14 DEF Crash, OneRun, Coupling, Active
<1>15. CASE Restart
  BY <1>15 DEF Restart, OneRun, Coupling, Active
<1>16. CASE Tick
  BY <1>0, <1>16 DEF Tick, gui
<1>17. CASE UNCHANGED vars
  BY <1>0, <1>17 DEF vars, run
<1> QED BY <1>1, <1>2, <1>3, <1>4, <1>5, <1>6, <1>7, <1>8, <1>9, <1>10, <1>11,
           <1>12, <1>13, <1>14, <1>15, <1>16, <1>17 DEF Next, Thread, Close

\* One run at a time, and no signal of an earlier run meets a later one: what
\* the admission by _collector_worker and the join of shutdown are for.
THEOREM OneRunAtATime == Spec => []OneRun
<1>1. Init => RunInv
  BY RunInit
<1>2. RunInv /\ [Next]_vars => RunInv'
  BY RunStep
<1>3. RunInv => OneRun
  BY DEF RunInv
<1> QED BY <1>1, <1>2, <1>3, PTL DEF Spec

----------------------------------------------------------------------------
(* The schedule's flag and the run it stands for.                          *)

\* The scheduler's shutdown clears the flag for good.
OwnerInv == ScheduleOwnsItsRun /\ (~accepting => ~scheduled)

LEMMA OwnerStep ==
  ASSUME RunInv, OwnerInv, [Next]_vars
  PROVE  OwnerInv'
<1> USE DEF OwnerInv, ScheduleOwnsItsRun
<1>0. ASSUME UNCHANGED <<worker, scheduled, stranded, accepting>>
      PROVE  OwnerInv'
  BY <1>0
<1>1. ASSUME NEW reason, StartScheduled(reason), accepting, UNCHANGED accepting
      PROVE  OwnerInv'
  BY <1>1 DEF StartScheduled, Start, run
<1>2. CASE Poll
  <2>1. CASE NotDue \/ Defer
    BY <1>0, <2>1 DEF NotDue, Defer, gui, run
  <2>2. CASE \E reason \in DueReasons : StartScheduled(reason)
    <3>1. accepting /\ UNCHANGED accepting
      BY <1>2 DEF Poll, NotDue, Defer, gui
    <3> QED BY <1>1, <2>2, <3>1
  <2> QED BY <1>2, <2>1, <2>2 DEF Poll
<1>3. CASE StartupCheck
  <2>1. CASE accepting /\ StartScheduled("startup")
    BY <1>1, <1>3, <2>1 DEF StartupCheck
  <2>2. CASE UNCHANGED <<file, run, scheduled, stranded>>
    BY <1>0, <1>3, <2>2 DEF StartupCheck, run
  <2> QED BY <1>3, <2>1, <2>2 DEF StartupCheck
<1>4. CASE RunNow
  BY <1>4 DEF RunNow, Start, gui
<1>5. CASE SaveSettings \/ Stop \/ Thread \/ Tick \/ UNCHANGED vars
  BY <1>0, <1>5 DEF SaveSettings, Stop, Thread, Begin, StoreFreshness, EndRun,
                    Tick, gui, run, vars
<1>6. CASE Deliver
  <2>1. CASE OnStarted
    BY <1>0, <2>1 DEF OnStarted, gui
  <2>2. CASE OnEnded(Head(signals))
    BY <2>2 DEF OnEnded, OnScheduleFinished, gui, RunInv, TypeOK
  <2> QED BY <1>6, <2>1, <2>2 DEF Deliver
<1>7. CASE CloseRequest \/ Close \/ Quit
  BY <1>7 DEF CloseRequest, Close, CloseDone, CloseTimeout, Quit, run, RunInv, Coupling
<1>8. CASE Crash
  BY <1>8 DEF Crash
<1>9. CASE Restart
  BY <1>9 DEF Restart, RunInv, OneRun, Coupling, Active
<1> QED BY <1>2, <1>3, <1>4, <1>5, <1>6, <1>7, <1>8, <1>9 DEF Next

\* The flag of the scheduler is set exactly for its own run, unless an exception
\* left it set: a manual run is otherwise not recorded as a scheduled one.
THEOREM FlagMatchesRun == Spec => []ScheduleOwnsItsRun
<1>1. Init => RunInv /\ OwnerInv
  BY RunInit DEF Init, OwnerInv, ScheduleOwnsItsRun
<1>2. RunInv /\ OwnerInv /\ [Next]_vars => RunInv' /\ OwnerInv'
  BY RunStep, OwnerStep
<1>3. OwnerInv => ScheduleOwnsItsRun
  BY DEF OwnerInv
<1> QED BY <1>1, <1>2, <1>3, PTL DEF Spec

----------------------------------------------------------------------------
(* A stop is final for its run.                                            *)

LEMMA StopStep ==
  ASSUME RunInv, [Next]_vars, state = "cancelling"
  PROVE  state' \in {"cancelling", "cancelled", "failed", "timed_out", "closed"}
<1>1. ASSUME UNCHANGED state PROVE state' = "cancelling"
  BY <1>1
<1>2. \A budget : ~Start(budget)
  BY DEF Start, Active
<1>3. ASSUME NEW reason, StartScheduled(reason) PROVE state' = "cancelling"
  BY <1>1, <1>2, <1>3 DEF StartScheduled, run
<1>4. CASE Poll
  BY <1>1, <1>3, <1>4 DEF Poll, NotDue, Defer, run
<1>5. CASE StartupCheck
  BY <1>1, <1>3, <1>5 DEF StartupCheck, run
<1>6. CASE Deliver
  <2>1. CASE OnStarted
    BY <2>1 DEF OnStarted
  <2>2. CASE OnEnded(Head(signals)) /\ Head(signals).name # "started"
    <3>1. Head(signals) \in Signal
      BY <1>6 DEF Deliver, RunInv, TypeOK
    <3>2. state' = EndState(Head(signals))
      BY <2>2 DEF OnEnded, Terminal
    <3> QED BY <2>2, <3>1, <3>2 DEF EndState, Signal
  <2> QED BY <1>6, <2>1, <2>2 DEF Deliver
<1>7. CASE RunNow
  BY <1>2, <1>7 DEF RunNow
<1>8. CASE SaveSettings \/ Stop \/ Thread \/ Tick \/ UNCHANGED vars
  BY <1>8 DEF SaveSettings, Stop, Thread, Begin, StoreFreshness, EndRun, Tick,
              run, vars
<1>9. CASE CloseRequest \/ Close \/ Quit \/ Crash
  BY <1>9 DEF CloseRequest, Close, CloseDone, CloseTimeout, Quit, Crash, run
<1>10. CASE Restart
  BY <1>10 DEF Restart, RunInv, Coupling
<1> QED BY <1>4, <1>5, <1>6, <1>7, <1>8, <1>9, <1>10 DEF Next

\* Once the user has stopped a run, no signal already on its way can make it
\* running or completed again.
THEOREM StopIsFinal == Spec => StopSticks
<1>1. Init => RunInv
  BY RunInit
<1>2. RunInv /\ [Next]_vars => RunInv'
  BY RunStep
<1>3. RunInv /\ [Next]_vars =>
        [state = "cancelling" =>
           state' \in {"cancelling", "cancelled", "failed", "timed_out", "closed"}]_vars
  BY StopStep
<1> QED BY <1>1, <1>2, <1>3, PTL DEF Spec, StopSticks

=============================================================================

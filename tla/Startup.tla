------------------------------ MODULE Startup ------------------------------
(***************************************************************************)
(* The start of the application (bootstrap): LaunchGuardService keeps the  *)
(* outcome of every launch and offers the safe mode after repeated         *)
(* crashes; the database is upgraded between the two.                      *)
(***************************************************************************)
EXTENDS DatabaseMaintenance, FiniteSets

CONSTANTS
  Threshold,   \* crash_threshold
  MaxRecords   \* max_records of the launch history

ASSUME StartupAssumption ==
  /\ Threshold \in Nat \ {0, 1}
  /\ MaxRecords \in Nat /\ MaxRecords >= Threshold

VARIABLES
  launches,  \* outcomes in the history file, newest launch first
  recent,    \* how many of them began within the window
  current,   \* the record of this launch, 0 when the history was reset
  safe,      \* this launch: SafeModeDecision.enabled
  screen,    \* what the user sees
  died       \* history: launches that died

guardVars == <<launches, recent, current, safe, screen, died>>
vars == <<db, backups, stage, job, faults, uses, launches, recent, current, safe, screen,
          died>>

Outcomes == {"running", "interrupted", "crashed", "clean", "safe_mode"}

TypeOK ==
  /\ DbTypeOK
  /\ launches \in Seq(Outcomes) /\ Len(launches) <= MaxRecords
  /\ recent \in 0 .. Len(launches)
  /\ current \in 0 .. 1 /\ current <= Len(launches)
  /\ safe \in BOOLEAN
  /\ screen \in {"none", "dialog", "accepted", "window"}
  /\ died \subseteq DOMAIN launches

Init ==
  /\ DbInit
  /\ launches = << >> /\ recent = 0 /\ current = 0
  /\ safe = FALSE /\ screen = "none"
  /\ died = {}

Shorter(m, n) == IF m < n THEN m ELSE n

----------------------------------------------------------------------------
(* LaunchGuardService.                                                     *)

\* evaluate: the launches of the window that are on record as failed.
RecentCrashes == {n \in 1 .. recent : launches[n] \in {"crashed", "interrupted"}}

\* Mutant: the launch before this one stays "running".
Interrupted_Never == launches

\* begin_launch marks what did not finish.
Interrupted ==
  [n \in DOMAIN launches |->
     IF launches[n] = "running" THEN "interrupted" ELSE launches[n]]

\* The newest max_records launches.
Newest(s) == SubSeq(s, 1, Shorter(Len(s), MaxRecords))
Aged(set) == {n + 1 : n \in set} \intersect (1 .. MaxRecords)

\* bootstrap up to the database: evaluate first, begin_launch afterwards.
Start ==
  /\ Launch
  /\ \E forced \in BOOLEAN : safe' = (forced \/ Cardinality(RecentCrashes) >= Threshold)
  /\ launches' = Newest(<<"running">> \o Interrupted)
  /\ recent' = Shorter(recent + 1, MaxRecords)
  /\ current' = 1
  /\ died' = Aged(died)
  /\ UNCHANGED screen

\* _finish_current.
Finish(outcome) ==
  launches' = IF current = 0 THEN launches ELSE [launches EXCEPT ![current] = outcome]

\* This launch has ended without a mark of its own.
Dies ==
  /\ screen' = "none" /\ current' = 0
  /\ died' = IF current = 0 THEN died ELSE died \union {current}
  /\ UNCHANGED <<launches, recent, safe>>

Ends(outcome) ==
  /\ Finish(outcome)
  /\ screen' = "none" /\ current' = 0
  /\ UNCHANGED <<recent, safe, died>>

----------------------------------------------------------------------------
(* bootstrap.                                                              *)

\* A step of the database that leaves the process alive, or ends it.
DatabaseStep ==
  /\ Upgrade \/ Maintain
  /\ IF stage' = "down" THEN Dies ELSE UNCHANGED guardVars

ShowDialog ==
  /\ stage = "ready" /\ screen = "none" /\ safe
  /\ screen' = "dialog"
  /\ UNCHANGED <<dbVars, launches, recent, current, safe, died>>

DialogNormal ==
  /\ screen = "dialog"
  /\ screen' = "accepted"
  /\ UNCHANGED <<dbVars, launches, recent, current, safe, died>>

DialogReset ==
  /\ screen = "dialog"
  /\ launches' = << >> /\ recent' = 0 /\ current' = 0
  /\ died' = {}
  /\ UNCHANGED <<dbVars, safe, screen>>

DialogClose == screen = "dialog" /\ Quit /\ Ends("safe_mode")

\* The database is ready and, in safe mode, the user has chosen to go on.
Cleared ==
  /\ stage = "ready"
  /\ \/ screen = "accepted"
     \/ screen = "none" /\ ~safe

ShowWindow ==
  /\ Cleared
  /\ screen' = "window"
  /\ UNCHANGED <<dbVars, launches, recent, current, safe, died>>

\* The main window cannot be built: a report, but no mark in the history.
WindowFails == Cleared /\ Fault /\ Down /\ Dies /\ UNCHANGED <<db, backups, uses>>

WindowUse == screen = "window" /\ Use /\ UNCHANGED guardVars

\* An uncaught exception of a slot or thread while an event loop runs, that of
\* the safe-mode dialog or that of the window: handle_crash, and the loop goes on.
Uncaught ==
  /\ screen \in {"dialog", "window"} /\ Fault
  /\ Finish("crashed")
  /\ UNCHANGED <<db, backups, stage, job, uses, recent, current, safe, screen, died>>

\* The window is closed: mark_clean_exit, whatever is on record.
Exit == screen = "window" /\ Quit /\ Ends("clean")

Killed == Die /\ Dies

\* A launch leaves the window of window_minutes.
TimePasses ==
  /\ recent > 0 /\ recent' = recent - 1
  /\ UNCHANGED <<dbVars, launches, current, safe, screen, died>>

Next ==
  \/ Start \/ DatabaseStep \/ ShowDialog \/ DialogNormal \/ DialogReset \/ DialogClose
  \/ ShowWindow \/ WindowFails \/ WindowUse \/ Uncaught \/ Exit \/ Killed \/ TimePasses

\* The user starts the program again, and a start goes on.
Spec == Init /\ [][Next]_vars /\ WF_vars(Start) /\ WF_vars(DatabaseStep)

----------------------------------------------------------------------------
(* Properties.                                                             *)

\* Launches that died are counted: when Threshold of them, the last one apart
\* (evaluate runs before begin_launch marks it), lie in the window, the safe mode
\* is offered.
CrashLoopSeen ==
  [][Start => (Cardinality(died \intersect (2 .. recent)) >= Threshold => safe')]_vars
=============================================================================

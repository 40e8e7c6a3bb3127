---------------------------- MODULE ManualProvider ----------------------------
(***************************************************************************)
(* A manually registered source: its settings, its connection test and the *)
(* evidence of the test that admits it to a run (CollectorProviderManager).*)
(*                                                                         *)
(*   settings   protocol, adapter and adapter history of the registration  *)
(*              and the persisted switch: collector_provider_settings.json *)
(*   health     latest diagnostics and the evidence of the last passed     *)
(*              test: collector_provider_health.json                       *)
(*   secret     the credential in the protected store                      *)
(*                                                                         *)
(* The Qt thread edits (a command writes its own store first and           *)
(* invalidates the evidence in a second step), one worker thread tests     *)
(* connections, the thread of a run reads a snapshot.  The repositories    *)
(* lock each of their own operations and replace their file atomically;    *)
(* nothing spans two of them, and the process may die between any two.     *)
(*                                                                         *)
(* updated_at is the number of the edit that wrote the value: the code     *)
(* makes it grow with every edit even when the clock does not              *)
(* (_next_manual_timestamp).  The dialogs of the editor are modal, so an   *)
(* edit is never stale when it is saved.                                   *)
(***************************************************************************)
EXTENDS Integers, Sequences, FiniteSets

CONSTANTS
  Contents,    \* adapter specifications, up to their fingerprint
  HistoryLen,  \* adapter specifications kept (5 in the code)
  TTL,         \* MANUAL_HEALTH_TTL, in units of ClockTick (15 minutes in the code)
  MaxEdits,    \* bound: edits of the registration and the credential
  MaxChecks,   \* bound: connection tests started
  MaxClock,    \* bound: ticks
  MaxCrashes,  \* bound: deaths of the process
  None         \* no adapter, no evidence

ASSUME ProviderAssumption ==
  /\ HistoryLen \in Nat \ {0} /\ TTL \in Nat \ {0}
  /\ MaxEdits \in Nat /\ MaxChecks \in Nat /\ MaxClock \in Nat /\ MaxCrashes \in Nat

VARIABLES
  reg,       \* the registration in the settings file
  enabled,   \* the persisted switch
  secret,    \* edit that wrote the credential, 0 when there is none
  health,    \* the health file: [diagnostics, evidence]
  ui,        \* the editor: idle, or an edit that has not invalidated yet
  check,     \* the check worker
  run,       \* the snapshot of a run
  clock,     \* wall clock
  edits, checks, crashes,  \* counters behind the bounds
  gone       \* ghost: the newest evidence an invalidation removed

disk   == <<reg, enabled, secret, health>>
counts == <<edits, checks, crashes>>
manualVars == <<disk, ui, check, run, clock, counts, gone>>

Auth     == {"none", "api_key"}
Adapter  == [rev : Nat \ {0}, content : Contents]
\* conf is a ghost: the last edit that changed the protocol or the adapter.
Unregistered == [protocol |-> 0, auth |-> "none", adapter |-> None,
                 history |-> <<>>, conf |-> 0]
Idle     == [pc |-> "idle"]

Configured(r) == r.protocol # 0 /\ r.adapter # None

\* The credential marker covers that a secret is stored, never its value; a
\* protocol without authentication asks for none.
Marker(r, s) == r.auth = "api_key" /\ s # 0

\* HealthCheckBinding: the protocol payload (with its updated_at), the revision
\* and fingerprint of the adapter, the credential marker.
Binding(r, s) == <<r.protocol, r.adapter.rev, r.adapter.content, Marker(r, s)>>

\* Mutant: any evidence of the provider will do while it is fresh.
Admits_Fresh(e, binding, now) == e # None /\ e.at <= now /\ now < e.at + TTL

\* evaluate_manual_provider_admission for a binding computed earlier.
Admits(e, binding, now) ==
  /\ e # None
  /\ e.at <= now /\ now < e.at + TTL
  /\ e.binding = binding

Ready == Configured(reg) /\ Admits(health.evidence, Binding(reg, secret), clock)

ManualInit ==
  /\ reg = Unregistered /\ enabled = FALSE /\ secret = 0
  /\ health = [diagnostics |-> 0, evidence |-> None]
  /\ ui = Idle /\ check = Idle /\ run = Idle
  /\ clock = 0 /\ edits = 0 /\ checks = 0 /\ crashes = 0 /\ gone = 0

-----------------------------------------------------------------------------
(* The editor.                                                             *)

Edit ==
  /\ ui.pc = "idle" /\ edits < MaxEdits
  /\ edits' = edits + 1 /\ ui' = [pc |-> "written"]
  /\ UNCHANGED <<enabled, health, check, run, clock, checks, crashes, gone>>

Configure(r) ==
  /\ Edit
  /\ reg' = [r EXCEPT !.conf = edits + 1]
  /\ UNCHANGED secret

\* A new name or address of the registration leaves protocol and adapter alone.
UpdateManualProvider == Edit /\ UNCHANGED <<reg, secret>>

\* A protocol is saved without the adapter and its history, even unchanged.
SaveProtocol ==
  \E a \in Auth :
    Configure([Unregistered EXCEPT !.protocol = edits + 1, !.auth = a])

ClearProtocol == Configure(Unregistered)

\* Mutant: the numbering looks at the current adapter only.
NextRevision_Current(r) == IF r.adapter = None THEN 1 ELSE r.adapter.rev + 1

\* The revisions of a protocol grow: one more than any that is kept.
NextRevision(r) ==
  LET kept == {r.history[i].rev : i \in DOMAIN r.history}
              \union (IF r.adapter = None THEN {} ELSE {r.adapter.rev})
  IN  IF kept = {} THEN 1 ELSE (CHOOSE n \in kept : \A m \in kept : m <= n) + 1

\* The replaced adapter becomes the newest entry of the history.
Retired(r) ==
  LET all == (IF r.adapter = None THEN <<>> ELSE <<r.adapter>>) \o r.history
  IN  SubSeq(all, 1, IF Len(all) < HistoryLen THEN Len(all) ELSE HistoryLen)

\* An adapter equal to the current one is not saved again.
SaveAdapterOf(content) ==
  /\ reg.protocol # 0
  /\ reg.adapter # None => reg.adapter.content # content
  /\ Configure([reg EXCEPT !.adapter = [rev |-> NextRevision(reg), content |-> content],
                           !.history = Retired(reg)])

SaveAdapter == \E c \in Contents : SaveAdapterOf(c)

ClearAdapter ==
  /\ reg.protocol # 0
  /\ Configure([reg EXCEPT !.adapter = None, !.history = Retired(reg)])

\* An old specification comes back as a new revision.
RollbackAdapter == \E i \in DOMAIN reg.history : SaveAdapterOf(reg.history[i].content)

SaveCredential == Edit /\ secret' = edits + 1 /\ UNCHANGED reg

DeleteCredential == Edit /\ secret # 0 /\ secret' = 0 /\ UNCHANGED reg

\* The second half of every edit, under the lock of the health file.
Invalidate ==
  /\ ui.pc = "written"
  /\ ui' = Idle
  /\ gone' = IF health.evidence = None THEN gone ELSE health.evidence.id
  /\ health' = [health EXCEPT !.evidence = None]
  /\ UNCHANGED <<reg, enabled, secret, check, run, clock, counts>>

\* The health file cannot be written: the command reports a failure, what it
\* wrote before stays.
InvalidateFails ==
  /\ ui.pc = "written" /\ health.evidence # None
  /\ ui' = Idle
  /\ UNCHANGED <<disk, check, run, clock, counts, gone>>

\* The switch can be moved while an adapter is saved, and turned on only with
\* valid evidence.  Nothing turns it off when the registration is edited.
SetEnabled ==
  /\ ui.pc = "idle" /\ Configured(reg)
  /\ \/ enabled' = FALSE
     \/ Ready /\ enabled' = TRUE
  /\ UNCHANGED <<reg, secret, health, ui, check, run, clock, counts, gone>>

-----------------------------------------------------------------------------
(* The check worker: at most one, started from the dialog and not while a   *)
(* run is active; a run may start while the worker is on its way.          *)

Checking(before, after) ==
  /\ check.pc = before
  /\ check' = after
  /\ UNCHANGED <<reg, enabled, secret, ui, run, clock, edits, crashes>>

StartChecks == run.pc = "idle" /\ checks < MaxChecks /\ checks' = checks + 1

\* test_manual_provider_connection and _prepare: the registration is read.
Prepare ==
  /\ StartChecks
  /\ Configured(reg)
  /\ Checking("idle", [pc |-> "bind", reg |-> reg])
  /\ UNCHANGED <<health, gone>>

\* _manual_health_binding asks the protected store whether there is a secret.
BindCheck ==
  /\ check.pc = "bind"
  /\ Checking("bind", [pc |-> "secret", reg |-> check.reg,
                       binding |-> Binding(check.reg, secret)])
  /\ UNCHANGED <<health, checks, gone>>

\* The secret itself is read afterwards; a missing one ends the test.
ReadSecret ==
  /\ check.pc = "secret"
  /\ Checking("secret",
       IF check.reg.auth = "api_key" /\ secret = 0 THEN Idle
       ELSE [pc |-> "probe", reg |-> check.reg, binding |-> check.binding,
             secret |-> secret])
  /\ UNCHANGED <<health, checks, gone>>

\* The network probe passes; its result carries the binding of the start.
ProbePasses ==
  /\ check.pc = "probe"
  /\ Checking("probe", [pc |-> "reread",
                        evidence |-> [id |-> checks, binding |-> check.binding,
                                      at |-> clock, conf |-> check.reg.conf,
                                      secret |-> check.secret]])
  /\ UNCHANGED <<health, checks, gone>>

\* Failed, degraded, blocked, cancelled: no evidence, the old one stays.
ProbeFails ==
  /\ Checking("probe", Idle)
  /\ UNCHANGED <<health, checks, gone>>

\* The current registration is read again; without an adapter it has no binding.
Reread ==
  /\ check.pc = "reread"
  /\ Checking("reread", IF Configured(reg)
                        THEN [pc |-> "compare", evidence |-> check.evidence, reg |-> reg]
                        ELSE Idle)
  /\ UNCHANGED <<health, checks, gone>>

Compare ==
  /\ check.pc = "compare"
  /\ Checking("compare", IF Binding(check.reg, secret) = check.evidence.binding
                         THEN [pc |-> "save", evidence |-> check.evidence]
                         ELSE Idle)
  /\ UNCHANGED <<health, checks, gone>>

\* save_manual_evidence reads the file and replaces it under the lock; no
\* expected_check_id is passed.
SaveEvidence ==
  /\ check.pc = "save"
  /\ Checking("save", Idle)
  /\ health' = [health EXCEPT !.evidence = check.evidence]
  /\ UNCHANGED <<checks, gone>>

\* Diagnostics of the built-in sources: update reads the records in one
\* locked step and saves them in another.
UpdateLoad ==
  /\ StartChecks
  /\ Checking("idle", [pc |-> "update", seen |-> health])
  /\ UNCHANGED <<health, gone>>

\* Mutant: what is written is the file as it was read.
UpdateSave_Seen ==
  /\ check.pc = "update"
  /\ Checking("update", Idle)
  /\ health' = [check.seen EXCEPT !.diagnostics = checks]
  /\ UNCHANGED <<checks, gone>>

\* save takes the evidence from the file again, under the lock it writes with.
UpdateSave ==
  /\ check.pc = "update"
  /\ Checking("update", Idle)
  /\ health' = [check.seen EXCEPT !.diagnostics = checks, !.evidence = health.evidence]
  /\ UNCHANGED <<checks, gone>>

-----------------------------------------------------------------------------
(* A run that names the provider reads settings_snapshot step by step;      *)
(* a provider that is not runnable ends the run before it has started.     *)

Running(before, after) ==
  /\ run.pc = before
  /\ run' = after
  /\ UNCHANGED <<disk, ui, check, clock, counts, gone>>

RunLoad ==
  Running("idle", IF Configured(reg) THEN [pc |-> "bind", reg |-> reg, now |-> clock]
                  ELSE Idle)

RunBind ==
  /\ run.pc = "bind"
  /\ Running("bind", [pc |-> "evidence", reg |-> run.reg, now |-> run.now,
                      binding |-> Binding(run.reg, secret)])

RunEvidence ==
  /\ run.pc = "evidence"
  /\ Running("evidence",
       IF Admits(health.evidence, run.binding, run.now)
       THEN [pc |-> "enabled", reg |-> run.reg, evidence |-> health.evidence]
       ELSE Idle)

\* The switch comes from a second read of the settings file.
RunAdmit ==
  /\ run.pc = "enabled"
  /\ Running("enabled", IF enabled THEN [run EXCEPT !.pc = "admitted"]
                        ELSE Idle)

RunEnds == Running("admitted", Idle)

-----------------------------------------------------------------------------
ClockTick ==
  /\ clock < MaxClock /\ clock' = clock + 1
  /\ UNCHANGED <<disk, ui, check, run, counts, gone>>

\* The process dies and is started again; the two files and the store remain.
Crash ==
  /\ crashes < MaxCrashes /\ crashes' = crashes + 1
  /\ ui' = Idle /\ check' = Idle /\ run' = Idle
  /\ UNCHANGED <<disk, clock, edits, checks, gone>>

ManualNext ==
  \/ UpdateManualProvider \/ SaveProtocol \/ ClearProtocol
  \/ SaveAdapter \/ ClearAdapter \/ RollbackAdapter
  \/ SaveCredential \/ DeleteCredential
  \/ Invalidate \/ InvalidateFails \/ SetEnabled
  \/ Prepare \/ BindCheck \/ ReadSecret \/ ProbePasses \/ ProbeFails
  \/ Reread \/ Compare \/ SaveEvidence \/ UpdateLoad \/ UpdateSave
  \/ RunLoad \/ RunBind \/ RunEvidence \/ RunAdmit \/ RunEnds
  \/ ClockTick \/ Crash

ManualSpec == ManualInit /\ [][ManualNext]_manualVars

-----------------------------------------------------------------------------
(* Properties.                                                             *)

Registration ==
  [protocol : 0 .. MaxEdits, auth : Auth, adapter : Adapter \union {None},
   history : Seq(Adapter), conf : 0 .. MaxEdits]

ManualTypeOK ==
  /\ reg \in Registration /\ Len(reg.history) <= HistoryLen
  /\ enabled \in BOOLEAN /\ secret \in 0 .. MaxEdits
  /\ DOMAIN health = {"diagnostics", "evidence"}
  /\ ui.pc \in {"idle", "written"}
  /\ check.pc \in {"idle", "bind", "secret", "probe", "reread", "compare", "save", "update"}
  /\ run.pc \in {"idle", "bind", "evidence", "enabled", "admitted"}
  /\ clock \in 0 .. MaxClock /\ gone \in 0 .. MaxChecks
  /\ edits \in 0 .. MaxEdits /\ checks \in 0 .. MaxChecks /\ crashes \in 0 .. MaxCrashes

\* A provider that is shown as verified was tested after the last change of its
\* protocol or adapter - also when the edit died, or failed, before it
\* invalidated the evidence, when it overtook a test on its way, and when an
\* old specification came back: its message asks for a new test
\* (settings_snapshot, evaluate_manual_provider_admission).
ReadySinceEdit == Ready => health.evidence.conf = reg.conf

\* Evidence that an edit invalidated never comes back, whatever the worker had
\* read before: neither from a slow test nor from the diagnostics of the
\* built-in sources, which share the file (ProviderCheckRepository).
NoResurrection ==
  health.evidence # None => health.evidence.id > gone

\* A run is admitted with a registration its evidence is about: the snapshot
\* reads settings, credential, evidence and the switch one after the other
\* while the user edits and the worker saves.
RunUsesTested ==
  run.pc = "admitted" => run.evidence.conf = run.reg.conf

\* A verified provider was tested with the credential that is stored now
\* (RM-136 audit, sections 8 and 12).  The marker covers the presence of a
\* secret only, so this does not hold: ManualProvider_secret.cfg.
SecretSinceCheck ==
  Ready /\ reg.auth = "api_key" => health.evidence.secret = secret
=============================================================================

----------------------- MODULE ProviderAdmission_proofs -----------------------
(***************************************************************************)
(* Proofs about what lets a run call a provider: the evidence of a manual  *)
(* registration (module ManualProvider) and the health of the provider     *)
(* (module ProviderHealth).  Nothing is assumed but the ASSUMEs of the two *)
(* modules.                                                                *)
(*                                                                         *)
(* ManualInv makes ReadySinceEdit, RunUsesTested and NoResurrection        *)
(* inductive.  Its core is Coherent: over everything that the settings     *)
(* file, the health file, a check and a run hold, a protocol and a         *)
(* revision were never used for two configurations, and the next revision  *)
(* of the protocol was never used at all - because retiring an adapter     *)
(* keeps the newest revision, however short the history is cut.  Equal     *)
(* bindings then mean equal configurations.                                *)
(*                                                                         *)
(* HealthInv makes the two action properties of ProviderHealth follow: the *)
(* monitor of a run counts on from the rows it was hydrated from, and its  *)
(* timers run down as the rows age (Due).                                  *)
(***************************************************************************)
EXTENDS ManualProvider, ProviderHealth, FiniteSetTheorems, FunctionTheorems,
        SequenceTheorems, WellFoundedInduction, TLAPS

----------------------------------------------------------------------------
(* Manual registrations: what is known of them.                            *)

\* The newest revision that is kept: 0 when none is.
Top(r) ==
  IF r.adapter # None THEN r.adapter.rev
  ELSE IF r.history # <<>> THEN r.history[1].rev ELSE 0

\* No kept revision is above it.
Ordered(r) == \A i \in DOMAIN r.history : r.history[i].rev <= Top(r)

\* What a configuration, or the evidence of a test, says: this protocol with
\* this revision is what that edit left behind.
Fact(r)   == <<r.protocol, r.adapter.rev, r.conf>>
Tested(e) == <<e.binding[1], e.binding[2], e.conf>>

\* Everything anybody holds: the settings file, the health file, the worker
\* and the run.
FileFact   == IF Configured(reg) THEN {Fact(reg)} ELSE {}
HealthFact == IF health.evidence # None THEN {Tested(health.evidence)} ELSE {}
CheckFact  == CASE check.pc \in {"bind", "secret", "probe"} -> {Fact(check.reg)}
                [] check.pc \in {"reread", "compare", "save"} -> {Tested(check.evidence)}
                [] check.pc \in {"idle", "update"} -> {}
RunFact    == IF run.pc \in {"bind", "evidence"} THEN {Fact(run.reg)} ELSE {}
Known      == FileFact \union HealthFact \union CheckFact \union RunFact

\* A protocol and a revision were never used for two configurations, and the
\* next revision of the protocol has not been used at all.
Coherent ==
  /\ \A x \in Known :
       /\ x[1] \in 1 .. edits /\ x[2] \in Nat
       /\ x[1] = reg.protocol => x[2] <= Top(reg)
  /\ \A x, y \in Known : x[1] = y[1] /\ x[2] = y[2] => x[3] = y[3]

Bound(b, r) == b[1] = r.protocol /\ b[2] = r.adapter.rev

Holding ==
  /\ check.pc \in {"secret", "probe"} => Bound(check.binding, check.reg)
  /\ run.pc = "evidence" => Bound(run.binding, run.reg)
  /\ run.pc = "enabled" => run = [pc |-> "enabled", reg |-> run.reg, evidence |-> run.evidence]
  /\ run.pc \in {"enabled", "admitted"} => run.evidence.conf = run.reg.conf

\* Tests are numbered, one at a time: what the worker is about to save is newer
\* than what was saved or invalidated before.
Numbered ==
  LET before == IF check.pc = "idle" THEN checks ELSE checks - 1 IN
  /\ gone <= before
  /\ health.evidence # None => health.evidence.id \in Nat /\ gone < health.evidence.id
                               /\ health.evidence.id <= before
  /\ check.pc # "idle" => checks > 0
  /\ check.pc \in {"reread", "compare", "save"} => check.evidence.id = checks

Shapes ==
  /\ ManualTypeOK
  /\ health = [diagnostics |-> health.diagnostics, evidence |-> health.evidence]
  /\ check.pc = "update" =>
       check.seen = [diagnostics |-> check.seen.diagnostics, evidence |-> check.seen.evidence]
  /\ Ordered(reg) /\ reg.protocol <= edits

ManualInv == Shapes /\ Coherent /\ Holding /\ Numbered

----------------------------------------------------------------------------
(* Revisions.                                                              *)

\* The parts of a registration have their types.
LEMMA RegistrationParts ==
  ASSUME NEW r \in Registration
  PROVE  /\ r.history \in Seq(Adapter)
         /\ r.adapter # None => r.adapter \in Adapter /\ r.adapter.rev \in Nat \ {0}
         /\ \A i \in DOMAIN r.history : r.history[i].rev \in Nat \ {0}
<1>1. r.history \in Seq(Adapter) /\ r.adapter \in Adapter \union {None}
  BY DEF Registration
<1>2. \A a \in Adapter : a.rev \in Nat \ {0}
  BY DEF Adapter
<1>3. \A i \in DOMAIN r.history : r.history[i] \in Adapter
  BY <1>1
<1> QED
  BY <1>1, <1>2, <1>3

\* The next revision is one more than the newest that is kept.
LEMMA RevisionIsNew ==
  ASSUME NEW r \in Registration, Ordered(r)
  PROVE  Top(r) \in Nat /\ NextRevision(r) = Top(r) + 1
<1> DEFINE kept == {r.history[i].rev : i \in DOMAIN r.history}
                   \union (IF r.adapter = None THEN {} ELSE {r.adapter.rev})
<1>1. /\ r.history \in Seq(Adapter)
      /\ r.adapter # None => r.adapter.rev \in Nat \ {0}
      /\ \A i \in DOMAIN r.history : r.history[i].rev \in Nat \ {0}
  BY RegistrationParts
<1>2. Top(r) \in Nat
  BY <1>1 DEF Top
<1>3. kept = {} => Top(r) = 0
  <2> SUFFICES ASSUME kept = {}  PROVE Top(r) = 0
    OBVIOUS
  <2>1. r.adapter = None
    OBVIOUS
  <2>2. r.history # <<>> => r.history[1].rev \in kept
    BY <1>1
  <2> QED
    BY <2>1, <2>2 DEF Top
<1>4. kept # {} => Top(r) \in kept
  <2>1. r.adapter # None => r.adapter.rev \in kept
    OBVIOUS
  <2>2. r.history # <<>> => r.history[1].rev \in kept
    BY <1>1
  <2>3. r.adapter = None /\ r.history = <<>> => kept = {}
    OBVIOUS
  <2> HIDE DEF kept
  <2> QED
    BY <2>1, <2>2, <2>3 DEF Top
<1>5. \A n \in kept : n \in Nat /\ n <= Top(r)
  <2>1. \A i \in DOMAIN r.history : r.history[i].rev <= Top(r)
    BY DEF Ordered
  <2>2. r.adapter # None => r.adapter.rev <= Top(r)
    BY <1>1 DEF Top
  <2> QED
    BY <1>1, <2>1, <2>2
<1>6. ASSUME kept # {}
      PROVE  (CHOOSE n \in kept : \A m \in kept : m <= n) = Top(r)
  <2> HIDE DEF kept
  <2>1. Top(r) \in kept /\ \A m \in kept : m <= Top(r)
    BY <1>4, <1>5, <1>6
  <2>2. \A n \in kept : (\A m \in kept : m <= n) => n = Top(r)
    BY <1>2, <1>5, <2>1
  <2> QED
    BY <2>1, <2>2
<1>7. NextRevision(r) =
        IF kept = {} THEN 1 ELSE (CHOOSE n \in kept : \A m \in kept : m <= n) + 1
  BY DEF NextRevision
<1> HIDE DEF kept
<1>8. CASE kept = {}
  <2>1. NextRevision(r) = 1
    BY <1>7, <1>8
  <2> QED
    BY <1>2, <1>3, <1>8, <2>1
<1>9. CASE kept # {}
  <2>1. (CHOOSE n \in kept : \A m \in kept : m <= n) = Top(r)
    BY <1>6, <1>9
  <2>2. NextRevision(r) = (CHOOSE n \in kept : \A m \in kept : m <= n) + 1
    BY <1>7, <1>9
  <2> QED
    BY <1>2, <2>1, <2>2
<1> QED
  BY <1>8, <1>9

\* However short the history, the newest revision stays in it.
LEMMA RetiredKeepsTop ==
  ASSUME NEW r \in Registration, Ordered(r)
  PROVE  /\ Retired(r) \in Seq(Adapter) /\ Len(Retired(r)) <= HistoryLen
         /\ \A i \in DOMAIN Retired(r) : Retired(r)[i].rev <= Top(r)
         /\ Top(r) = IF Retired(r) # <<>> THEN Retired(r)[1].rev ELSE 0
<1> DEFINE head == IF r.adapter = None THEN <<>> ELSE <<r.adapter>>
           all == head \o r.history
           len == IF Len(all) < HistoryLen THEN Len(all) ELSE HistoryLen
<1>1. /\ r.history \in Seq(Adapter)
      /\ r.adapter # None => r.adapter \in Adapter /\ r.adapter.rev \in Nat \ {0}
      /\ HistoryLen \in Nat \ {0}
  BY ProviderAssumption, RegistrationParts
<1>2. /\ head \in Seq(Adapter) /\ Len(head) = IF r.adapter = None THEN 0 ELSE 1
      /\ r.adapter # None => head[1] = r.adapter
  BY <1>1
<1>3. Retired(r) = SubSeq(all, 1, len)
  BY DEF Retired
<1> HIDE DEF head
<1>4. /\ all \in Seq(Adapter)
      /\ Len(all) = Len(head) + Len(r.history)
      /\ \A i \in 1 .. Len(all) :
           all[i] = IF i <= Len(head) THEN head[i] ELSE r.history[i - Len(head)]
  BY <1>1, <1>2, ConcatProperties
<1> HIDE DEF all
<1>5. \A i \in 1 .. Len(all) : all[i].rev <= Top(r)
  <2> SUFFICES ASSUME NEW i \in 1 .. Len(all)  PROVE all[i].rev <= Top(r)
    OBVIOUS
  <2>1. CASE i <= Len(head)
    <3>1. r.adapter # None /\ i = 1
      BY <1>2, <2>1
    <3>2. all[i] = r.adapter
      BY <1>2, <1>4, <2>1, <3>1
    <3> QED
      BY <1>1, <3>1, <3>2 DEF Top
  <2>2. CASE i > Len(head)
    <3>1. Len(head) \in Nat /\ i \in Nat /\ Len(r.history) \in Nat
      BY <1>1, <1>2
    <3>2. all[i] = r.history[i - Len(head)] /\ i - Len(head) \in 1 .. Len(r.history)
      BY <1>4, <2>2, <3>1
    <3>3. i - Len(head) \in DOMAIN r.history
      BY <1>1, <3>2
    <3> QED
      BY <3>2, <3>3 DEF Ordered
  <2> QED
    BY <1>2, <2>1, <2>2
<1>6. Top(r) = IF Len(all) # 0 THEN all[1].rev ELSE 0
  <2>1. CASE r.adapter # None
    BY <1>1, <1>2, <1>4, <2>1 DEF Top
  <2>2. CASE r.adapter = None
    <3>1. Len(all) = Len(r.history) /\ Len(head) = 0 /\ Len(r.history) \in Nat
      BY <1>1, <1>2, <1>4, <2>2
    <3>2. Len(all) # 0 => all[1] = r.history[1]
      BY <1>4, <3>1
    <3>3. r.history = <<>> <=> Len(r.history) = 0
      BY <1>1, EmptySeq
    <3> QED
      BY <2>2, <3>1, <3>2, <3>3 DEF Top
  <2> QED
    BY <2>1, <2>2
<1>7. /\ len \in 0 .. Len(all) /\ len <= HistoryLen
      /\ Len(all) # 0 => len >= 1
  <2>1. Len(all) \in Nat
    BY <1>4
  <2> QED
    BY <1>1, <2>1
<1> HIDE DEF len
<1>8. /\ Retired(r) \in Seq(Adapter) /\ Len(Retired(r)) = len
      /\ \A i \in 1 .. len : Retired(r)[i] = all[i]
  <2>1. 1 \in 1 .. Len(all) + 1 /\ len \in 1 - 1 .. Len(all)
    BY <1>4, <1>7
  <2> QED
    BY <1>3, <1>4, <1>7, <2>1, SubSeqProperties
<1>9. Retired(r) = <<>> <=> len = 0
  BY <1>8, EmptySeq
<1> QED
  <2>1. \A i \in 1 .. len : Retired(r)[i].rev <= Top(r)
    BY <1>5, <1>7, <1>8
  <2>2. DOMAIN Retired(r) = 1 .. len
    BY <1>8
  <2>3. Top(r) = IF len # 0 THEN Retired(r)[1].rev ELSE 0
    BY <1>6, <1>7, <1>8
  <2> QED
    BY <1>7, <1>8, <1>9, <2>1, <2>2, <2>3

----------------------------------------------------------------------------
(* The steps.                                                              *)

EditStep ==
  \/ UpdateManualProvider \/ SaveProtocol \/ ClearProtocol
  \/ SaveAdapter \/ ClearAdapter \/ RollbackAdapter
  \/ SaveCredential \/ DeleteCredential

\* What an edit can make of a registration: leave it alone, begin again without
\* an adapter, or go on under the same protocol with a number nobody has used.
Successor ==
  \/ reg' = reg
  \/ reg'.protocol \in {0, edits + 1} /\ reg'.adapter = None
  \/ /\ reg'.protocol = reg.protocol /\ reg.protocol # 0 /\ Top(reg') >= Top(reg)
     /\ reg'.adapter # None => reg'.adapter.rev = Top(reg) + 1

\* A saved adapter gets the next revision; the old one is retired.
LEMMA AdapterSaved ==
  ASSUME Shapes, NEW c \in Contents, SaveAdapterOf(c)
  PROVE  /\ Edit /\ secret' = secret
         /\ reg' \in Registration /\ Len(reg'.history) <= HistoryLen
         /\ Ordered(reg') /\ Successor
<1> DEFINE a == [rev |-> NextRevision(reg), content |-> c]
<1>1. reg \in Registration /\ Ordered(reg) /\ edits \in Nat /\ edits < MaxEdits /\ MaxEdits \in Nat
  BY ProviderAssumption DEF Shapes, ManualTypeOK, SaveAdapterOf, Configure, Edit
<1>2. Top(reg) \in Nat /\ a \in Adapter /\ a.rev = Top(reg) + 1
  BY <1>1, RevisionIsNew DEF Adapter
<1>3. reg' = [protocol |-> reg.protocol, auth |-> reg.auth, adapter |-> a,
              history |-> Retired(reg), conf |-> edits + 1]
  BY <1>1 DEF SaveAdapterOf, Configure, Registration
<1>4. /\ Retired(reg) \in Seq(Adapter) /\ Len(Retired(reg)) <= HistoryLen
      /\ \A i \in DOMAIN Retired(reg) : Retired(reg)[i].rev <= Top(reg)
      /\ Top(reg) = IF Retired(reg) # <<>> THEN Retired(reg)[1].rev ELSE 0
  BY <1>1, RetiredKeepsTop
<1> HIDE DEF a
<1>5. reg' \in Registration
  BY <1>1, <1>2, <1>3, <1>4 DEF Registration
<1>6. Top(reg') = IF a # None THEN Top(reg) + 1 ELSE Top(reg)
  BY <1>2, <1>3, <1>4 DEF Top
<1>7. Ordered(reg')
  <2>1. \A i \in DOMAIN Retired(reg) : Retired(reg)[i].rev \in Nat
    BY <1>5, <1>3, RegistrationParts
  <2> QED
    BY <1>2, <1>3, <1>4, <1>6, <2>1 DEF Ordered
<1>8. Edit /\ secret' = secret /\ reg.protocol # 0
  BY DEF SaveAdapterOf, Configure
<1>9. Successor
  <2>1. reg'.protocol = reg.protocol /\ reg'.adapter = a
    BY <1>3
  <2>2. Top(reg') >= Top(reg)
    BY <1>2, <1>6
  <2> QED
    BY <1>2, <1>8, <2>1, <2>2 DEF Successor
<1> QED
  BY <1>3, <1>4, <1>5, <1>7, <1>8, <1>9

\* Every edit leaves a registration that is well formed and a successor of the old.
LEMMA EditIs ==
  ASSUME Shapes, EditStep
  PROVE  /\ Edit
         /\ reg' \in Registration /\ Len(reg'.history) <= HistoryLen
         /\ secret' \in 0 .. MaxEdits
         /\ Ordered(reg') /\ Successor
<1>1. /\ reg \in Registration /\ Len(reg.history) <= HistoryLen /\ Ordered(reg)
      /\ edits \in Nat /\ MaxEdits \in Nat /\ secret \in 0 .. MaxEdits
      /\ HistoryLen \in Nat
  BY ProviderAssumption DEF Shapes, ManualTypeOK
<1>2. CASE UpdateManualProvider \/ SaveCredential \/ DeleteCredential
  BY <1>1, <1>2 DEF UpdateManualProvider, SaveCredential, DeleteCredential, Edit, Successor
<1>3. CASE SaveProtocol \/ ClearProtocol
  <2>1. PICK a \in Auth, n \in {0, edits + 1} :
          /\ Edit /\ secret' = secret
          /\ reg' = [protocol |-> n, auth |-> a, adapter |-> None, history |-> <<>>,
                     conf |-> edits + 1]
    BY <1>3 DEF SaveProtocol, ClearProtocol, Configure, Unregistered, Auth
  <2>2. edits + 1 \in 0 .. MaxEdits /\ n \in 0 .. MaxEdits
    BY <1>1, <2>1 DEF Edit
  <2>3. reg' \in Registration /\ Len(reg'.history) = 0
    BY <2>1, <2>2 DEF Registration
  <2>4. Ordered(reg')
    BY <2>1 DEF Ordered
  <2> QED
    BY <1>1, <2>1, <2>3, <2>4 DEF Successor
<1>4. CASE ClearAdapter
  <2>1. /\ Edit /\ secret' = secret /\ reg.protocol # 0
        /\ reg' = [protocol |-> reg.protocol, auth |-> reg.auth, adapter |-> None,
                   history |-> Retired(reg), conf |-> edits + 1]
    BY <1>1, <1>4 DEF ClearAdapter, Configure, Registration
  <2>2. /\ Retired(reg) \in Seq(Adapter) /\ Len(Retired(reg)) <= HistoryLen
        /\ \A i \in DOMAIN Retired(reg) : Retired(reg)[i].rev <= Top(reg)
        /\ Top(reg) = IF Retired(reg) # <<>> THEN Retired(reg)[1].rev ELSE 0
    BY <1>1, RetiredKeepsTop
  <2>3. edits + 1 \in 0 .. MaxEdits
    BY <1>1, <2>1 DEF Edit
  <2>4. reg' \in Registration
    BY <1>1, <2>1, <2>2, <2>3 DEF Registration
  <2>5. Top(reg') = Top(reg) /\ Top(reg) \in Nat
    BY <1>1, <2>1, <2>2, RevisionIsNew DEF Top
  <2> QED
    BY <1>1, <2>1, <2>2, <2>4, <2>5 DEF Successor, Ordered
<1>5. CASE SaveAdapter
  BY <1>1, <1>5, AdapterSaved DEF SaveAdapter
<1>6. CASE RollbackAdapter
  <2>1. \A i \in DOMAIN reg.history : reg.history[i].content \in Contents
    <3>1. reg.history \in Seq(Adapter)
      BY <1>1, RegistrationParts
    <3>2. \A i \in DOMAIN reg.history : reg.history[i] \in Adapter
      BY <3>1
    <3> QED
      BY <3>2 DEF Adapter
  <2> QED
    BY <1>1, <1>6, <2>1, AdapterSaved DEF RollbackAdapter
<1> QED
  BY <1>2, <1>3, <1>4, <1>5, <1>6 DEF EditStep

\* Edits: what anybody holds stays, and the new configuration is told apart
\* from all of it.
LEMMA EditCoherent ==
  ASSUME Shapes, Coherent, EditStep
  PROVE  Coherent'
<1>1. /\ Edit /\ Successor /\ reg' \in Registration /\ Ordered(reg')
      /\ reg \in Registration /\ edits \in Nat
      /\ Top(reg) \in Nat /\ Top(reg') \in Nat
  BY EditIs, RevisionIsNew DEF Shapes, ManualTypeOK
<1>2. UNCHANGED <<health, check, run>> /\ edits' = edits + 1
  BY <1>1 DEF Edit
<1>3. Known' \subseteq Known \union FileFact'
  BY <1>2 DEF Known, HealthFact, CheckFact, RunFact
<1>4. \A x \in Known :
        /\ x[1] \in 1 .. edits /\ x[2] \in Nat
        /\ x[1] = reg.protocol => x[2] <= Top(reg)
  BY DEF Coherent
<1>5. \A x, y \in Known : x[1] = y[1] /\ x[2] = y[2] => x[3] = y[3]
  BY DEF Coherent
<1>6. CASE reg' = reg
  <2>1. FileFact' = FileFact
    BY <1>6 DEF FileFact, Configured, Fact
  <2>2. Known' \subseteq Known
    BY <1>3, <2>1 DEF Known
  <2> QED
    BY <1>1, <1>2, <1>4, <1>5, <1>6, <2>2 DEF Coherent
<1>7. CASE reg'.protocol \in {0, edits + 1} /\ reg'.adapter = None
  <2>1. Known' \subseteq Known
    BY <1>3, <1>7 DEF FileFact, Configured
  <2>2. \A x \in Known : x[1] # reg'.protocol
    BY <1>1, <1>4, <1>7
  <2>3. \A x \in Known : x[1] \in 1 .. edits'
    BY <1>1, <1>2, <1>4
  <2> QED
    BY <1>4, <1>5, <2>1, <2>2, <2>3 DEF Coherent
<1>8. CASE /\ reg'.protocol = reg.protocol /\ reg.protocol # 0 /\ Top(reg') >= Top(reg)
           /\ reg'.adapter # None => reg'.adapter.rev = Top(reg) + 1
  <2> DEFINE new == Fact(reg')
  <2>1. /\ new[1] = reg.protocol
        /\ reg'.adapter # None => new[2] = Top(reg) + 1 /\ new[2] <= Top(reg')
    BY <1>1, <1>8 DEF Fact, Top
  <2>2. FileFact' \subseteq {new} /\ (reg'.adapter = None => FileFact' = {})
    BY DEF FileFact, Configured, Fact
  <2>3. reg.protocol \in 1 .. edits
    BY <1>1, <1>8 DEF Shapes, ManualTypeOK, Registration
  <2> HIDE DEF new
  <2>4. \A x \in Known' :
          /\ x[1] \in 1 .. edits' /\ x[2] \in Nat
          /\ x[1] = reg'.protocol => x[2] <= Top(reg')
    <3> SUFFICES ASSUME NEW x \in Known'
                 PROVE  /\ x[1] \in 1 .. edits' /\ x[2] \in Nat
                        /\ x[1] = reg'.protocol => x[2] <= Top(reg')
      OBVIOUS
    <3>1. CASE x \in Known
      BY <1>1, <1>2, <1>4, <1>8, <3>1
    <3>2. CASE x = new /\ reg'.adapter # None
      BY <1>1, <1>2, <2>1, <2>3, <3>2
    <3> QED
      BY <1>3, <2>2, <3>1, <3>2
  <2>5. reg'.adapter # None => \A x \in Known : ~(x[1] = new[1] /\ x[2] = new[2])
    BY <1>1, <1>4, <2>1
  <2>6. \A x, y \in Known' : x[1] = y[1] /\ x[2] = y[2] => x[3] = y[3]
    BY <1>3, <1>5, <2>2, <2>5
  <2> QED
    BY <2>4, <2>6 DEF Coherent
<1> QED
  BY <1>1, <1>6, <1>7, <1>8 DEF Successor

\* Edits keep the invariant: they hand nothing to the check or to the run.
LEMMA EditKeeps ==
  ASSUME ManualInv, EditStep
  PROVE  ManualInv'
<1> USE DEF ManualInv
<1>1. /\ Edit /\ reg' \in Registration /\ Len(reg'.history) <= HistoryLen
      /\ secret' \in 0 .. MaxEdits /\ Ordered(reg')
  BY EditIs
<1>2. Shapes'
  <2>1. reg'.protocol <= edits'
    BY <1>1, EditIs DEF Shapes, ManualTypeOK, Registration, Edit, Successor
  <2> QED
    BY <1>1, <2>1, ProviderAssumption DEF Shapes, ManualTypeOK, Edit
<1>3. Coherent'
  BY EditCoherent
<1>4. Holding' /\ Numbered'
  BY <1>1 DEF Holding, Numbered, Edit, Bound
<1> QED
  BY <1>2, <1>3, <1>4

\* Where no configuration is added, what was coherent stays so.
LEMMA StaysCoherent ==
  ASSUME Coherent, reg' = reg, edits' = edits, Known' \subseteq Known
  PROVE  Coherent'
BY DEF Coherent, Top

Worker ==
  \/ Prepare \/ BindCheck \/ ReadSecret \/ ProbePasses \/ ProbeFails
  \/ Reread \/ Compare \/ SaveEvidence \/ UpdateLoad \/ UpdateSave

\* The check worker only passes on what it read.
LEMMA WorkerKeeps ==
  ASSUME ManualInv, Worker
  PROVE  ManualInv'
<1> USE DEF ManualInv, Checking, Idle
<1>1. /\ UNCHANGED <<reg, enabled, secret, ui, run, clock, edits, crashes, gone>>
      /\ \/ /\ check.pc = "idle" /\ check'.pc \in {"bind", "update"}
            /\ checks < MaxChecks /\ checks' = checks + 1
         \/ check.pc # "idle" /\ checks' = checks
      /\ check'.pc \in {"idle", "bind", "secret", "probe", "reread", "compare", "save", "update"}
      /\ check'.pc = "update" => check'.seen = health
      /\ check'.pc \in {"reread", "compare", "save"} =>
           IF check.pc = "probe" THEN check'.evidence.id = checks
           ELSE check.pc \in {"reread", "compare"} /\ check'.evidence = check.evidence
      /\ \/ health' = health
         \/ /\ check.pc = "save" /\ check'.pc = "idle"
            /\ health' = [diagnostics |-> health.diagnostics, evidence |-> check.evidence]
         \/ /\ check.pc = "update" /\ check'.pc = "idle"
            /\ health' = [diagnostics |-> checks, evidence |-> health.evidence]
  <2>1. CASE Prepare \/ BindCheck \/ ReadSecret \/ ProbePasses
    BY <2>1 DEF Prepare, BindCheck, ReadSecret, ProbePasses, StartChecks
  <2>2. CASE ProbeFails \/ Reread \/ Compare \/ UpdateLoad
    BY <2>2 DEF ProbeFails, Reread, Compare, UpdateLoad, StartChecks
  <2>3. CASE SaveEvidence
    BY <2>3 DEF SaveEvidence, Shapes
  <2>4. CASE UpdateSave
    BY <2>4 DEF UpdateSave, Shapes
  <2> QED
    BY <2>1, <2>2, <2>3, <2>4 DEF Worker
<1>2. Shapes'
  <2>1. checks' \in 0 .. MaxChecks
    BY <1>1, ProviderAssumption DEF Shapes, ManualTypeOK
  <2>2. health' = [diagnostics |-> health'.diagnostics, evidence |-> health'.evidence]
    BY <1>1 DEF Shapes
  <2>3. DOMAIN health' = {"diagnostics", "evidence"}
    BY <2>2
  <2>4. check'.pc = "update" =>
          check'.seen = [diagnostics |-> check'.seen.diagnostics,
                         evidence |-> check'.seen.evidence]
    BY <1>1 DEF Shapes
  <2> QED
    BY <1>1, <2>1, <2>2, <2>3, <2>4 DEF Shapes, ManualTypeOK, Ordered, Top
<1>3. Known' \subseteq Known
  <2>1. FileFact' = FileFact /\ RunFact' = RunFact
    BY <1>1 DEF FileFact, RunFact, Configured, Fact
  <2>2. HealthFact' \union CheckFact' \subseteq FileFact \union HealthFact \union CheckFact
    <3> USE DEF HealthFact, CheckFact
    <3>1. CASE Prepare
      BY <3>1 DEF Prepare, FileFact, Fact
    <3>2. CASE BindCheck
      BY <3>2 DEF BindCheck, Fact
    <3>3. CASE ReadSecret
      BY <3>3 DEF ReadSecret, Fact
    <3>4. CASE ProbePasses
      BY <3>4 DEF ProbePasses, Fact, Tested, Holding, Bound
    <3>5. CASE ProbeFails
      BY <3>5 DEF ProbeFails, Tested
    <3>6. CASE Reread
      BY <3>6 DEF Reread, Tested
    <3>7. CASE Compare
      BY <3>7 DEF Compare, Tested
    <3>8. CASE SaveEvidence
      BY <3>8 DEF SaveEvidence, Tested
    <3>9. CASE UpdateLoad
      BY <3>9 DEF UpdateLoad
    <3>10. CASE UpdateSave
      BY <3>10 DEF UpdateSave, Tested
    <3> QED
      BY <3>1, <3>2, <3>3, <3>4, <3>5, <3>6, <3>7, <3>8, <3>9, <3>10 DEF Worker
  <2> QED
    BY <2>1, <2>2 DEF Known
<1>4. Holding'
  BY <1>1 DEF Holding, Bound, Binding, Worker, Prepare, BindCheck, ReadSecret,
     ProbePasses, ProbeFails, Reread, Compare, SaveEvidence, UpdateLoad, UpdateSave
<1>5. Numbered'
  <2>1. checks \in Nat /\ gone \in Nat
    BY DEF Shapes, ManualTypeOK
  <2>2. CASE check.pc = "idle"
    BY <1>1, <2>1, <2>2 DEF Numbered
  <2>3. CASE check.pc \notin {"idle", "save"}
    BY <1>1, <2>1, <2>3 DEF Numbered
  <2>4. CASE check.pc = "save"
    <3>1. check'.pc = "idle" /\ checks' = checks
      BY <1>1, <2>4 DEF Worker, Prepare, BindCheck, ReadSecret, ProbePasses, ProbeFails,
         Reread, Compare, SaveEvidence, UpdateLoad, UpdateSave
    <3>2. \/ health'.evidence = health.evidence
          \/ health'.evidence = check.evidence /\ check.evidence.id = checks
      BY <1>1, <2>4 DEF Numbered
    <3> QED
      BY <1>1, <2>1, <2>4, <3>1, <3>2 DEF Numbered
  <2> QED
    BY <2>2, <2>3, <2>4
<1> QED
  BY <1>1, <1>2, <1>3, <1>4, <1>5, StaysCoherent

Reader == RunLoad \/ RunBind \/ RunEvidence \/ RunAdmit \/ RunEnds

\* So does a run; the evidence that admits it is about what it loaded, because
\* nobody holds another configuration under the same number.
LEMMA RunKeeps ==
  ASSUME ManualInv, Reader
  PROVE  ManualInv'
<1> USE DEF ManualInv, Running, Idle
<1>1. UNCHANGED <<reg, enabled, secret, health, ui, check, clock, edits, checks, crashes, gone>>
  BY DEF Reader, RunLoad, RunBind, RunEvidence, RunAdmit, RunEnds, disk, counts
<1>2. Shapes'
  <2>1. run'.pc \in {"idle", "bind", "evidence", "enabled", "admitted"}
    BY DEF Reader, RunLoad, RunBind, RunEvidence, RunAdmit, RunEnds, Holding
  <2> QED
    BY <1>1, <2>1 DEF Shapes, ManualTypeOK, Ordered, Top
<1>3. Known' \subseteq Known
  <2>1. FileFact' = FileFact /\ HealthFact' = HealthFact /\ CheckFact' = CheckFact
    BY <1>1 DEF FileFact, HealthFact, CheckFact, Configured, Fact, Tested
  <2>2. RunFact' \subseteq FileFact \union RunFact
    BY DEF Reader, RunLoad, RunBind, RunEvidence, RunAdmit, RunEnds, RunFact, FileFact, Fact,
       Holding
  <2> QED
    BY <2>1, <2>2 DEF Known
<1>4. Holding'
  <2>1. CASE RunLoad \/ RunBind \/ RunAdmit \/ RunEnds
    BY <1>1, <2>1 DEF Holding, Bound, Binding, RunLoad, RunBind, RunAdmit, RunEnds
  <2>2. CASE RunEvidence /\ Admits(health.evidence, run.binding, run.now)
    <3>1. health.evidence # None /\ health.evidence.binding = run.binding
      BY <2>2 DEF Admits
    <3>2. Tested(health.evidence) \in Known /\ Fact(run.reg) \in Known
      BY <2>2, <3>1 DEF Known, HealthFact, RunFact, RunEvidence
    <3>3. health.evidence.conf = run.reg.conf
      BY <2>2, <3>1, <3>2 DEF Coherent, Tested, Fact, Holding, Bound, RunEvidence
    <3> QED
      BY <1>1, <2>2, <3>3 DEF Holding, Bound, RunEvidence
  <2>3. CASE RunEvidence /\ ~Admits(health.evidence, run.binding, run.now)
    BY <1>1, <2>3 DEF Holding, Bound, RunEvidence
  <2> QED
    BY <2>1, <2>2, <2>3 DEF Reader
<1>5. Numbered'
  BY <1>1 DEF Numbered
<1> QED
  BY <1>1, <1>2, <1>3, <1>4, <1>5, StaysCoherent

Other == Invalidate \/ InvalidateFails \/ SetEnabled \/ ClockTick \/ Crash

\* Evidence may go, the switch may turn, time may pass, the process may die.
LEMMA OtherKeeps ==
  ASSUME ManualInv, Other
  PROVE  ManualInv'
<1> USE DEF ManualInv, Idle, disk, counts
<1>1. /\ UNCHANGED <<reg, edits, secret>>
      /\ check' = check \/ check' = Idle
      /\ run' = run \/ run' = Idle
      /\ \/ health' = health
         \/ health' = [diagnostics |-> health.diagnostics, evidence |-> None]
  BY DEF Other, Invalidate, InvalidateFails, SetEnabled, ClockTick, Crash, Shapes
<1>2. Shapes'
  <2>1. DOMAIN health' = {"diagnostics", "evidence"}
    BY <1>1 DEF Shapes, ManualTypeOK
  <2>2. ManualTypeOK'
    <3>1. CASE Invalidate
      <4>1. gone' \in 0 .. MaxChecks
        BY <3>1, ProviderAssumption DEF Shapes, ManualTypeOK, Numbered, Invalidate
      <4> QED
        BY <1>1, <2>1, <3>1, <4>1 DEF Shapes, ManualTypeOK, Invalidate
    <3>2. CASE InvalidateFails
      BY <1>1, <2>1, <3>2 DEF Shapes, ManualTypeOK, InvalidateFails
    <3>3. CASE SetEnabled
      <4>1. enabled' \in BOOLEAN
        BY <3>3 DEF SetEnabled
      <4> QED
        BY <1>1, <2>1, <3>3, <4>1 DEF Shapes, ManualTypeOK, SetEnabled
    <3>4. CASE ClockTick
      BY <1>1, <2>1, <3>4, ProviderAssumption DEF Shapes, ManualTypeOK, ClockTick
    <3>5. CASE Crash
      BY <1>1, <2>1, <3>5, ProviderAssumption DEF Shapes, ManualTypeOK, Crash
    <3> QED
      BY <3>1, <3>2, <3>3, <3>4, <3>5 DEF Other
  <2> QED
    BY <1>1, <2>2 DEF Shapes, Ordered, Top
<1>3. Known' \subseteq Known
  <2>1. FileFact' = FileFact
    BY <1>1 DEF FileFact, Configured, Fact
  <2>2. HealthFact' \subseteq HealthFact
    BY <1>1 DEF HealthFact, Tested
  <2>3. CheckFact' \subseteq CheckFact
    <3>1. CASE check' = check
      BY <3>1 DEF CheckFact, Fact, Tested
    <3>2. CASE check' = Idle
      <4>1. check'.pc = "idle"
        BY <3>2
      <4> QED
        BY <4>1 DEF CheckFact
    <3> QED
      BY <1>1, <3>1, <3>2
  <2>4. RunFact' \subseteq RunFact
    BY <1>1 DEF RunFact, Fact
  <2> QED
    BY <2>1, <2>2, <2>3, <2>4 DEF Known
<1>4. Holding'
  BY <1>1 DEF Holding, Bound
<1>5. Numbered'
  BY <1>1 DEF Shapes, ManualTypeOK, Numbered, Other, Invalidate, InvalidateFails,
     SetEnabled, ClockTick, Crash
<1> QED
  BY <1>1, <1>2, <1>3, <1>4, <1>5, StaysCoherent

----------------------------------------------------------------------------
(* The theorems about manual registrations.                                *)

\* Nothing is registered at first, so nobody holds anything.
LEMMA ManualInitially == ManualInit => ManualInv
<1> SUFFICES ASSUME ManualInit  PROVE ManualInv
  OBVIOUS
<1>1. Shapes
  <2>1. Unregistered \in Registration /\ Len(Unregistered.history) = 0
    BY ProviderAssumption DEF Registration, Unregistered, Auth
  <2>2. Ordered(Unregistered)
    BY DEF Ordered, Unregistered
  <2>3. ManualTypeOK
    <3>1. DOMAIN health = {"diagnostics", "evidence"}
      BY DEF ManualInit
    <3>2. 0 \in 0 .. MaxEdits /\ 0 \in 0 .. MaxChecks /\ 0 \in 0 .. MaxClock /\ 0 \in 0 .. MaxCrashes
      BY ProviderAssumption
    <3>3. Len(Unregistered.history) <= HistoryLen
      BY <2>1, ProviderAssumption
    <3> QED
      BY <2>1, <3>1, <3>2, <3>3 DEF ManualInit, ManualTypeOK, Idle
  <2> QED
    BY <2>2, <2>3 DEF ManualInit, Shapes, Unregistered, Idle
<1>2. Known = {}
  BY DEF ManualInit, Known, FileFact, HealthFact, CheckFact, RunFact, Configured,
     Unregistered, Idle
<1>3. Holding /\ Numbered
  BY DEF ManualInit, Holding, Numbered, Idle
<1> QED
  BY <1>1, <1>2, <1>3 DEF ManualInv, Coherent

\* Every step keeps the invariant.
LEMMA ManualStep == ManualInv /\ [ManualNext]_manualVars => ManualInv'
<1> SUFFICES ASSUME ManualInv, [ManualNext]_manualVars  PROVE ManualInv'
  OBVIOUS
<1>1. CASE EditStep
  BY <1>1, EditKeeps
<1>2. CASE ManualNext /\ ~EditStep
  BY <1>2, WorkerKeeps, RunKeeps, OtherKeeps DEF ManualNext, EditStep, Worker, Reader, Other
<1>3. CASE UNCHANGED manualVars
  <2>1. Known' \subseteq Known
    BY <1>3 DEF manualVars, disk, counts, Known, FileFact, HealthFact, CheckFact, RunFact,
       Fact, Tested, Configured
  <2>2. Shapes' /\ Holding' /\ Numbered'
    BY <1>3 DEF manualVars, disk, counts, ManualInv, Shapes, ManualTypeOK, Ordered, Top,
       Holding, Bound, Numbered
  <2> QED
    BY <1>3, <2>1, <2>2, StaysCoherent DEF ManualInv, manualVars, disk, counts
<1> QED
  BY <1>1, <1>2, <1>3

\* The invariant holds in every state the system reaches.
LEMMA ManualInvariant == ManualSpec => []ManualInv
<1> QED
  BY ManualInitially, ManualStep, PTL DEF ManualSpec

\* Types of the registration, its files and its workers.
THEOREM ManualTypeCorrect == ManualSpec => []ManualTypeOK
<1>1. ManualInv => ManualTypeOK
  BY DEF ManualInv, Shapes
<1> QED
  BY <1>1, ManualInvariant, PTL

\* A source shown as verified was tested after the last change of its protocol
\* or adapter, whatever died, failed or overtook in between.
THEOREM VerifiedSinceEdit == ManualSpec => []ReadySinceEdit
<1>1. ManualInv => ReadySinceEdit
  <2> SUFFICES ASSUME ManualInv, Ready  PROVE health.evidence.conf = reg.conf
    BY DEF ReadySinceEdit
  <2>1. /\ Configured(reg) /\ health.evidence # None
        /\ health.evidence.binding = Binding(reg, secret)
    BY DEF Ready, Admits
  <2>2. Tested(health.evidence) \in Known /\ Fact(reg) \in Known
    BY <2>1 DEF Known, FileFact, HealthFact
  <2> QED
    BY <2>1, <2>2 DEF ManualInv, Coherent, Tested, Fact, Binding
<1> QED
  BY <1>1, ManualInvariant, PTL

\* Evidence that was invalidated never comes back.
THEOREM InvalidatedForGood == ManualSpec => []NoResurrection
<1>1. ManualInv => NoResurrection
  BY DEF ManualInv, Numbered, NoResurrection
<1> QED
  BY <1>1, ManualInvariant, PTL

\* A run uses a registration only with evidence about that registration.
THEOREM RunsUseWhatWasTested == ManualSpec => []RunUsesTested
<1>1. ManualInv => RunUsesTested
  BY DEF ManualInv, Holding, RunUsesTested
<1> QED
  BY <1>1, ManualInvariant, PTL

----------------------------------------------------------------------------
(* Health: places of rows.                                                 *)

\* A set of naturals that is not empty has a least element.
LEMMA LeastElement ==
  ASSUME NEW S \in SUBSET Nat, S # {}
  PROVE  \E i \in S : \A j \in S : i <= j
<1> DEFINE R == {x \in Nat \X Nat : x[1] < x[2]}
<1>1. \A i, j \in Nat : <<j, i>> \notin R => i <= j
  OBVIOUS
<1>2. R = OpToRel(<, Nat)
  BY DEF OpToRel
<1>3. IsWellFoundedOn(R, Nat)
  BY <1>2, NatLessThanWellFounded
<1> HIDE DEF R
<1>4. \E i \in S : \A j \in S : <<j, i>> \notin R
  BY <1>3, WFMin
<1> QED
  BY <1>1, <1>4

\* A bounded one has a greatest.
LEMMA GreatestElement ==
  ASSUME NEW n \in Nat, NEW S \in SUBSET (1 .. n), S # {}
  PROVE  \E i \in S : \A j \in S : j <= i
<1> DEFINE T == {k \in Nat : n - k \in S}
<1>1. T \in SUBSET Nat /\ T # {}
  <2>1. PICK i \in S : TRUE
    OBVIOUS
  <2>2. n - i \in Nat /\ n - (n - i) = i
    OBVIOUS
  <2>3. n - i \in T
    BY <2>1, <2>2
  <2> QED
    BY <2>3
<1>2. PICK k \in T : \A l \in T : k <= l
  <2> HIDE DEF T
  <2> QED
    BY <1>1, LeastElement
<1>3. n - k \in S
  BY <1>2
<1>4. ASSUME NEW j \in S  PROVE j <= n - k
  <2>1. n - j \in Nat /\ n - (n - j) = j
    OBVIOUS
  <2>2. n - j \in T
    BY <2>1
  <2>3. k <= n - j
    BY <1>2, <2>2
  <2> QED
    BY <1>2, <2>3
<1> QED
  BY <1>3, <1>4

\* Rows are counted, and there are finitely many.
LEMMA FailingCounts ==
  ASSUME NEW p \in Providers, history \in Seq(Row)
  PROVE  /\ Meaningful(p) \subseteq 1 .. Len(history) /\ Len(history) \in Nat
         /\ IsFiniteSet(Meaningful(p)) /\ IsFiniteSet(Failing(p))
         /\ Failing(p) \subseteq Meaningful(p)
         /\ Consecutive(p) \in Nat
         /\ Consecutive(p) = 0 <=> Failing(p) = {}
<1>1. Meaningful(p) \subseteq 1 .. Len(history) /\ Len(history) \in Nat
  BY DEF Meaningful
<1>2. IsFiniteSet(Meaningful(p))
  <2>1. IsFiniteSet(1 .. Len(history))
    BY <1>1, FS_Interval
  <2> QED
    BY <1>1, <2>1, FS_Subset
<1>3. Failing(p) \subseteq Meaningful(p)
  BY DEF Failing
<1>4. IsFiniteSet(Failing(p))
  BY <1>2, <1>3, FS_Subset
<1> QED
  BY <1>1, <1>2, <1>3, <1>4, FS_CardinalityType, FS_EmptySet DEF Consecutive

\* The newest row that says something is a row of the provider; when no failure
\* is counted it is a success or "not configured".
LEMMA LatestIsRow ==
  ASSUME NEW p \in Providers, history \in Seq(Row), Meaningful(p) # {}
  PROVE  /\ Latest(p) \in Row
         /\ Consecutive(p) = 0 => Latest(p).status \in Success \union {"not_configured"}
<1> DEFINE least == CHOOSE i \in Meaningful(p) : \A j \in Meaningful(p) : i <= j
<1>1. Meaningful(p) \subseteq 1 .. Len(history) /\ Len(history) \in Nat
  BY FailingCounts
<1>2. \E i \in Meaningful(p) : \A j \in Meaningful(p) : i <= j
  <2>1. Meaningful(p) \in SUBSET Nat
    BY <1>1
  <2> QED
    BY <2>1, LeastElement
<1>3. least \in Meaningful(p) /\ \A j \in Meaningful(p) : least <= j
  BY <1>2
<1>4. Latest(p) = history[least]
  BY DEF Latest
<1> HIDE DEF least
<1>5. history[least] \in Row /\ history[least].status \notin Neutral
  BY <1>1, <1>3 DEF Meaningful
<1>6. history[least].status \in RemoteFailure => least \in Failing(p)
  <2> SUFFICES ASSUME history[least].status \in RemoteFailure,
                      NEW j \in Meaningful(p), j <= least
               PROVE  history[j].status \in RemoteFailure
    BY <1>3 DEF Failing
  <2>1. j = least
    BY <1>1, <1>3
  <2> QED
    BY <2>1
<1>7. history[least].status \in Status
  BY <1>5 DEF Row
<1> QED
  BY <1>4, <1>5, <1>6, <1>7, FailingCounts DEF Status

\* The circuit is open by the rows exactly when the number of failures and the
\* age of the newest say so.
LEMMA OpenMeans ==
  ASSUME NEW p \in Providers, history \in Seq(Row)
  PROVE  OpenByRows(p) <=>
           /\ Meaningful(p) # {}
           /\ Consecutive(p) >= Threshold
           /\ Latest(p).age < CooldownLength(Consecutive(p))
<1>1. /\ Meaningful(p) \subseteq 1 .. Len(history) /\ Len(history) \in Nat
      /\ IsFiniteSet(Meaningful(p)) /\ IsFiniteSet(Failing(p))
      /\ Failing(p) \subseteq Meaningful(p)
      /\ Consecutive(p) \in Nat
      /\ Consecutive(p) = 0 <=> Failing(p) = {}
  BY FailingCounts
<1>2. /\ Threshold \in Nat \ {0} /\ Unavailable \in Nat /\ Unavailable >= Threshold
      /\ Cooldown \in Nat
  BY HealthAssumption
<1>3. Meaningful(p) # {} => Latest(p).age \in Nat
  <2>1. Meaningful(p) # {} => Latest(p).age \in 0 .. MaxAge
    BY LatestIsRow DEF Row
  <2>2. MaxAge \in Nat
    BY <1>2 DEF MaxAge
  <2> QED
    BY <2>1, <2>2
<1>4. ASSUME OpenByRows(p)
      PROVE  /\ Meaningful(p) # {}
             /\ Consecutive(p) >= Threshold
             /\ Latest(p).age < CooldownLength(Consecutive(p))
  <2> DEFINE newest(i) == {j \in Meaningful(p) : j <= i}
  <2>1. PICK n \in {Threshold, Unavailable}, i \in Meaningful(p) :
          /\ Cardinality(newest(i)) >= n
          /\ \A j \in newest(i) : history[j].status \in RemoteFailure
          /\ Latest(p).age < IF n = Unavailable THEN 3 * Cooldown ELSE Cooldown
    BY <1>4 DEF OpenByRows
  <2>2. newest(i) \subseteq Failing(p)
    BY <1>1, <2>1 DEF Failing
  <2>3. Cardinality(newest(i)) <= Consecutive(p) /\ Cardinality(newest(i)) \in Nat
    <3> HIDE DEF newest
    <3> QED
      BY <1>1, <2>2, FS_Subset, FS_CardinalityType DEF Consecutive
  <2>4. Consecutive(p) >= n
    BY <1>1, <1>2, <2>1, <2>3
  <2> QED
    BY <1>1, <1>2, <1>3, <2>1, <2>4 DEF CooldownLength
<1>5. ASSUME Meaningful(p) # {}, Consecutive(p) >= Threshold,
             Latest(p).age < CooldownLength(Consecutive(p))
      PROVE  OpenByRows(p)
  <2>1. Failing(p) # {} /\ Failing(p) \in SUBSET (1 .. Len(history))
    BY <1>1, <1>2, <1>5
  <2>2. PICK i \in Failing(p) : \A j \in Failing(p) : j <= i
    BY <1>1, <2>1, GreatestElement
  <2>3. {j \in Meaningful(p) : j <= i} = Failing(p)
    BY <1>1, <2>2 DEF Failing
  <2>4. \A j \in Failing(p) : history[j].status \in RemoteFailure
    BY <1>1 DEF Failing
  <2> DEFINE n == IF Consecutive(p) >= Unavailable THEN Unavailable ELSE Threshold
  <2>5. /\ n \in {Threshold, Unavailable} /\ Consecutive(p) >= n
        /\ Latest(p).age < IF n = Unavailable THEN 3 * Cooldown ELSE Cooldown
    BY <1>1, <1>2, <1>3, <1>5 DEF CooldownLength
  <2> HIDE DEF n
  <2>6. i \in Meaningful(p) /\ Cardinality({j \in Meaningful(p) : j <= i}) >= n
    BY <1>1, <2>2, <2>3, <2>5 DEF Consecutive
  <2> QED
    BY <2>3, <2>4, <2>5, <2>6 DEF OpenByRows
<1> QED
  BY <1>4, <1>5

----------------------------------------------------------------------------
(* The monitor of a run and the rows.                                      *)

\* A health state that says of p what the rows say, at their present age.
AsRows(h, p) ==
  LET n == Consecutive(p)
      left == CooldownLength(n) - Latest(p).age
  IN  /\ h.status \in Circuit =>
           /\ Meaningful(p) # {} /\ n >= Threshold
           /\ h.left = IF left > 0 THEN left ELSE 0
      /\ Meaningful(p) # {} /\ n >= Threshold /\ left > 0 => h.status \in Circuit
      /\ h.status = "not_configured" =>
           Meaningful(p) # {} /\ Latest(p).status = "not_configured"

\* A hydrated monitor says what the rows say.
LEMMA HydratedAsRows ==
  ASSUME NEW p \in Providers, history \in Seq(Row)
  PROVE  /\ Hydrated(p) \in Health
         /\ Hydrated(p).failures = Consecutive(p)
         /\ AsRows(Hydrated(p), p)
<1> DEFINE n == Consecutive(p)
           left == CooldownLength(n) - Latest(p).age
<1>1. n \in Nat /\ (Meaningful(p) = {} => n = 0)
  BY FailingCounts
<1>2. /\ Threshold \in Nat \ {0} /\ Unavailable \in Nat /\ Unavailable >= Threshold
      /\ Cooldown \in Nat /\ MaxAge \in Nat /\ MaxAge = 3 * Cooldown
  BY HealthAssumption DEF MaxAge
<1>3. CASE Meaningful(p) = {}
  <2>1. Hydrated(p) = Unknown
    BY <1>3 DEF Hydrated
  <2> QED
    BY <1>1, <1>3, <2>1 DEF Unknown, Health, AsRows, Circuit
<1>4. CASE Meaningful(p) # {} /\ n = 0
  <2>1. Hydrated(p) = [status |-> IF Latest(p).status \in Success THEN "available"
                                  ELSE "not_configured",
                       failures |-> 0, left |-> NoTimer]
    BY <1>4 DEF Hydrated
  <2>2. Latest(p).status \notin Success => Latest(p).status = "not_configured"
    BY <1>4, LatestIsRow
  <2>3. Hydrated(p) \in Health
    BY <2>1 DEF Health
  <2> QED
    BY <1>2, <1>4, <2>1, <2>2, <2>3 DEF AsRows, Circuit
<1>5. CASE Meaningful(p) # {} /\ n > 0
  <2>1. Latest(p).age \in 0 .. MaxAge
    BY <1>5, LatestIsRow DEF Row
  <2>2. CooldownLength(n) \in 0 .. MaxAge /\ (n < Threshold => CooldownLength(n) = 0)
    BY <1>1, <1>2 DEF CooldownLength
  <2>3. left \in Int /\ left <= MaxAge
    BY <1>2, <2>1, <2>2
  <2>4. Remaining(Latest(p), CooldownLength(n)) = left
    BY DEF Remaining
  <2> HIDE DEF left
  <2>5. CASE left <= 0
    <3>1. Hydrated(p) = [status |-> "degraded", failures |-> n, left |-> NoTimer]
      BY <1>1, <1>5, <2>4, <2>5 DEF Hydrated
    <3>2. Hydrated(p) \in Health
      BY <1>1, <3>1 DEF Health
    <3> QED
      BY <2>3, <2>5, <3>1, <3>2 DEF AsRows, Circuit, left
  <2>6. CASE left > 0
    <3>1. Hydrated(p) = [status |-> IF n >= Unavailable THEN "unavailable" ELSE "cooldown",
                         failures |-> n, left |-> left]
      BY <1>1, <1>5, <2>3, <2>4, <2>6 DEF Hydrated
    <3>2. Hydrated(p) \in Health
      BY <1>1, <2>3, <2>6, <3>1 DEF Health
    <3>3. n >= Threshold
      BY <1>1, <1>2, <2>1, <2>2, <2>6 DEF left
    <3> QED
      BY <1>5, <2>6, <3>1, <3>2, <3>3 DEF AsRows, Circuit, left
  <2> QED
    BY <2>3, <2>5, <2>6
<1> QED
  BY <1>1, <1>3, <1>4, <1>5

\* As long as providers and statuses of the rows are the same, so is the count.
LEMMA SameRows ==
  ASSUME NEW p \in Providers, DOMAIN history' = DOMAIN history,
         \A i \in DOMAIN history :
           /\ history'[i].provider = history[i].provider
           /\ history'[i].status = history[i].status
  PROVE  Meaningful(p)' = Meaningful(p) /\ Consecutive(p)' = Consecutive(p)
<1>1. Meaningful(p)' = Meaningful(p)
  BY DEF Meaningful
<1>2. Failing(p)' = Failing(p)
  BY <1>1 DEF Failing, Meaningful
<1> QED
  BY <1>1, <1>2 DEF Consecutive

\* The rows age together.
LEMMA TickRows ==
  ASSUME NEW p \in Providers, history \in Seq(Row), Tick
  PROVE  /\ history' \in Seq(Row) /\ Len(history') = Len(history)
         /\ Meaningful(p)' = Meaningful(p) /\ Consecutive(p)' = Consecutive(p)
         /\ Meaningful(p) # {} =>
              /\ Latest(p)'.status = Latest(p).status
              /\ Latest(p)'.age = IF Latest(p).age < MaxAge THEN Latest(p).age + 1
                                  ELSE Latest(p).age
<1>1. /\ DOMAIN history' = DOMAIN history
      /\ \A i \in DOMAIN history :
           history'[i] = [provider |-> history[i].provider, status |-> history[i].status,
                          age |-> IF history[i].age < MaxAge THEN history[i].age + 1
                                  ELSE history[i].age]
  <2>1. \A i \in DOMAIN history : history[i] \in Row
    OBVIOUS
  <2> QED
    BY <2>1 DEF Tick, Older, Row
<1>2. Meaningful(p)' = Meaningful(p) /\ Consecutive(p)' = Consecutive(p)
  BY <1>1, SameRows
<1>3. history' \in Seq(Row) /\ Len(history') = Len(history)
  <2>1. MaxAge \in Nat
    BY HealthAssumption DEF MaxAge
  <2>2. DOMAIN history = 1 .. Len(history) /\ Len(history) \in Nat
    OBVIOUS
  <2>3. \A i \in 1 .. Len(history) : history'[i] \in Row
    <3>1. \A i \in 1 .. Len(history) : history[i] \in Row
      OBVIOUS
    <3> QED
      BY <1>1, <2>1, <2>2, <3>1 DEF Row
  <2>4. history' = [i \in 1 .. Len(history) |-> history'[i]]
    BY <2>2 DEF Tick
  <2> DEFINE g == [i \in 1 .. Len(history) |-> history'[i]]
  <2>5. g \in Seq(Row) /\ Len(g) = Len(history)
    BY <2>2, <2>3
  <2> QED
    BY <2>4, <2>5
<1>4. ASSUME Meaningful(p) # {}
      PROVE  /\ Latest(p)'.status = Latest(p).status
             /\ Latest(p)'.age = IF Latest(p).age < MaxAge THEN Latest(p).age + 1
                                 ELSE Latest(p).age
  <2> DEFINE least == CHOOSE i \in Meaningful(p) : \A j \in Meaningful(p) : i <= j
  <2>1. Meaningful(p) \in SUBSET Nat /\ Meaningful(p) \subseteq DOMAIN history
    BY FailingCounts DEF Meaningful
  <2>2. least \in DOMAIN history
    <3>1. \E i \in Meaningful(p) : \A j \in Meaningful(p) : i <= j
      BY <1>4, <2>1, LeastElement
    <3> QED
      BY <2>1, <3>1
  <2>3. Latest(p) = history[least] /\ Latest(p)' = history'[least]
    BY <1>2 DEF Latest
  <2> HIDE DEF least
  <2> QED
    BY <1>1, <2>2, <2>3
<1> QED
  BY <1>2, <1>3, <1>4

\* What a registered status does to the failure count.
LEMMA RegisterCounts ==
  ASSUME NEW h \in Health, NEW status \in Status \ Neutral
  PROVE  /\ Register(h, status) \in Health
         /\ status \in Success => Register(h, status).failures = 0
         /\ status \in RemoteFailure => Register(h, status).failures = h.failures + 1
<1>1. /\ Threshold \in Nat /\ Unavailable \in Nat /\ Cooldown \in Nat
      /\ MaxAge \in Nat /\ MaxAge = 3 * Cooldown /\ Cooldown <= MaxAge
  BY HealthAssumption DEF MaxAge
<1>2. /\ h = [status |-> h.status, failures |-> h.failures, left |-> h.left]
      /\ h.failures \in Nat
  BY DEF Health
<1>3. CASE status \in Success
  <2>1. Register(h, status) = [status |-> "available", failures |-> 0, left |-> NoTimer]
    BY <1>3 DEF Register, RegisterSuccess, Success, RemoteFailure
  <2> QED
    BY <1>3, <2>1 DEF Health, Success, RemoteFailure
<1>4. CASE status \in RemoteFailure
  <2> DEFINE n == h.failures + 1
  <2>1. Register(h, status) = RegisterFailure(h)
    BY <1>4 DEF Register, Success, RemoteFailure
  <2>2. CASE n >= Unavailable
    <3>1. RegisterFailure(h) = [status |-> "unavailable", failures |-> n, left |-> 3 * Cooldown]
      BY <1>1, <1>2, <2>2 DEF RegisterFailure
    <3>2. RegisterFailure(h) \in Health
      BY <1>1, <1>2, <3>1 DEF Health
    <3> QED
      BY <1>4, <2>1, <3>1, <3>2 DEF Success, RemoteFailure
  <2>3. CASE n < Unavailable /\ n >= Threshold
    <3>1. RegisterFailure(h) = [status |-> "cooldown", failures |-> n, left |-> Cooldown]
      BY <1>1, <1>2, <2>3 DEF RegisterFailure
    <3>2. RegisterFailure(h) \in Health
      BY <1>1, <1>2, <3>1 DEF Health
    <3> QED
      BY <1>4, <2>1, <3>1, <3>2 DEF Success, RemoteFailure
  <2>4. CASE n < Unavailable /\ n < Threshold
    <3>1. RegisterFailure(h) = [status |-> "degraded", failures |-> n, left |-> h.left]
      <4>1. RegisterFailure(h) = [h EXCEPT !.status = "degraded", !.failures = n]
        BY <1>1, <1>2, <2>4 DEF RegisterFailure
      <4> QED
        BY <1>2, <4>1
    <3>2. RegisterFailure(h) \in Health
      BY <1>2, <3>1 DEF Health
    <3> QED
      BY <1>4, <2>1, <3>1, <3>2 DEF Success, RemoteFailure
  <2> QED
    BY <1>1, <1>2, <2>2, <2>3, <2>4
<1>5. CASE status = "not_configured"
  <2>1. Register(h, status) = [status |-> "not_configured", failures |-> h.failures,
                               left |-> h.left]
    BY <1>2, <1>5 DEF Register, RegisterNotConfigured, Success, RemoteFailure
  <2> QED
    BY <1>2, <1>5, <2>1 DEF Health, Success, RemoteFailure
<1> QED
  BY <1>3, <1>4, <1>5 DEF Status, Success, RemoteFailure, Neutral

\* The rows of a run: one for every selected provider.
LEMMA SelectedInOrder ==
  ASSUME Selected \subseteq Providers
  PROVE  /\ Cardinality(Selected) \in Nat
         /\ SetToSeq(Selected) \in [1 .. Cardinality(Selected) -> Selected]
         /\ \A i, j \in 1 .. Cardinality(Selected) :
              SetToSeq(Selected)[i] = SetToSeq(Selected)[j] => i = j
         /\ \A p \in Selected : \E i \in 1 .. Cardinality(Selected) :
              SetToSeq(Selected)[i] = p
<1> DEFINE k == Cardinality(Selected)
           f == SetToSeq(Selected)
<1>1. IsFiniteSet(Selected) /\ k \in Nat /\ ExistsBijection(1 .. k, Selected)
  BY HealthAssumption, FS_Subset, FS_CardinalityType
<1>2. \E g \in [1 .. k -> Selected] : IsInjective(g)
  BY <1>1 DEF ExistsBijection, Bijection, Injection
<1>3. f = CHOOSE g \in [1 .. k -> Selected] : IsInjective(g)
  BY DEF SetToSeq
<1> HIDE DEF f
<1>4. f \in [1 .. k -> Selected] /\ IsInjective(f)
  BY <1>2, <1>3
<1> HIDE DEF k
<1>5. f \in Injection(1 .. k, Selected)
  BY <1>4 DEF Injection
<1>6. Cardinality(1 .. k) = k
  BY <1>1, FS_Interval
<1>7. f \in Surjection(1 .. k, Selected)
  BY <1>1, <1>5, <1>6, FS_Injection DEF k
<1> QED
  BY <1>1, <1>4, <1>7 DEF f, k, IsInjective, Surjection

----------------------------------------------------------------------------
(* The invariant.                                                          *)

\* A provider nobody works at any more has an outcome; when the search has
\* ended nobody is at work.
Concluded ==
  /\ phase # "idle" =>
       \A p \in Providers :
         stage[p] \in {"answered", "refused", "cut"} => outcome[p] # "none"
  /\ phase = "ended" =>
       \A p \in Providers : stage[p] \notin {"new", "waiting", "called"}

\* The monitor of a run counts on from the rows.
Counted ==
  phase # "idle" =>
    \A p \in Providers :
      /\ stage[p] # "answered" => monitor[p].failures = Consecutive(p)
      /\ stage[p] = "answered" =>
           /\ outcome[p] \in Success \union RemoteFailure \union {"not_configured"}
           /\ outcome[p] \in Success => monitor[p].failures = 0
           /\ outcome[p] \in RemoteFailure => monitor[p].failures = Consecutive(p) + 1

\* Until it is decided about, the monitor says of a provider what its rows say,
\* however much time has passed since they were read.
Due ==
  phase = "searching" =>
    \A p \in Providers : stage[p] = "new" => AsRows(monitor[p], p)

HealthInv == TypeOK /\ Concluded /\ Counted /\ Due

\* The failure count of a hydrated monitor, in this state and in the next.
LEMMA HydratedCount ==
  \A p \in Providers : history \in Seq(Row) => Hydrated(p).failures = Consecutive(p)
BY HydratedAsRows

\* The same in the next state.
LEMMA HydratedCountNext ==
  (\A p \in Providers : history \in Seq(Row) => Hydrated(p).failures = Consecutive(p))'
BY HydratedCount, PTL

\* Refreshing an expired timer opens nothing and counts nothing.
LEMMA RefreshTyped ==
  ASSUME NEW h \in Health
  PROVE  Refresh(h) \in Health /\ Refresh(h).failures = h.failures
<1>1. h = [status |-> h.status, failures |-> h.failures, left |-> h.left]
  BY DEF Health
<1>2. \/ Refresh(h) = h
      \/ Refresh(h) = [status |-> "degraded", failures |-> h.failures, left |-> NoTimer]
  BY <1>1 DEF Refresh
<1> QED
  BY <1>2 DEF Health

\* The steps of a provider.
LEMMA ProviderKeeps ==
  ASSUME HealthInv, NEW p \in Providers, Step(p)
  PROVE  HealthInv'
<1> USE DEF HealthInv
<1>1. /\ phase = "searching" /\ phase' = phase /\ history' = history
      /\ stage[p] \in {"new", "waiting", "called"}
      /\ \E s \in {"waiting", "called", "answered", "refused"} : stage' = [stage EXCEPT ![p] = s]
      /\ \A q \in Providers : q # p => monitor'[q] = monitor[q] /\ outcome'[q] = outcome[q]
  BY DEF Step, Refuse, Admit, Call, Answer, TypeOK
<1>2. /\ monitor' \in [Providers -> Health]
      /\ outcome' \in [Providers -> Status \union {"none"}]
      /\ errors' \in [Providers -> 0 .. Threshold]
      /\ stage'[p] \in {"answered", "refused"} => outcome'[p] # "none"
      /\ stage'[p] # "answered" => monitor'[p].failures = monitor[p].failures
      /\ stage'[p] = "answered" =>
           /\ outcome'[p] \in Success \union RemoteFailure \union {"not_configured"}
           /\ outcome'[p] \in Success => monitor'[p].failures = 0
           /\ outcome'[p] \in RemoteFailure => monitor'[p].failures = monitor[p].failures + 1
  <2>1. CASE Refuse(p) \/ Admit(p) \/ Call(p)
    <3>1. monitor[p] \in Health
      BY DEF TypeOK
    <3>2. Refresh(monitor[p]) \in Health /\ Refresh(monitor[p]).failures = monitor[p].failures
      BY <3>1, RefreshTyped
    <3> QED
      BY <2>1, <3>2 DEF Refuse, Admit, Call, TypeOK, Status, Neutral
  <2>2. ASSUME NEW s \in Status \ Neutral, Answer(p, s)
        PROVE  /\ monitor' \in [Providers -> Health]
               /\ outcome' \in [Providers -> Status \union {"none"}]
               /\ errors' \in [Providers -> 0 .. Threshold]
               /\ stage'[p] = "answered" /\ outcome'[p] = s /\ s # "none"
               /\ s \in Success \union RemoteFailure \union {"not_configured"}
               /\ s \in Success => monitor'[p].failures = 0
               /\ s \in RemoteFailure => monitor'[p].failures = monitor[p].failures + 1
    <3>1. monitor[p] \in Health
      BY DEF TypeOK
    <3>2. /\ Register(monitor[p], s) \in Health
          /\ s \in Success => Register(monitor[p], s).failures = 0
          /\ s \in RemoteFailure => Register(monitor[p], s).failures = monitor[p].failures + 1
      BY <3>1, RegisterCounts
    <3>3. errors' \in [Providers -> 0 .. Threshold]
      BY <2>2, HealthAssumption DEF Answer, CountError, TypeOK
    <3>4. s # "none" /\ s \in Success \union RemoteFailure \union {"not_configured"}
      BY DEF Status, Success, RemoteFailure, Neutral
    <3> QED
      BY <2>2, <3>2, <3>3, <3>4 DEF Answer, TypeOK
  <2> QED
    BY <2>1, <2>2 DEF Step
<1>3. TypeOK'
  BY <1>1, <1>2 DEF TypeOK, Stages
<1>4. \A q \in Providers : q # p => stage'[q] = stage[q]
  BY <1>1 DEF TypeOK
<1>5. \A q \in Providers :
        /\ Meaningful(q)' = Meaningful(q) /\ Consecutive(q)' = Consecutive(q)
        /\ Latest(q)' = Latest(q)
  BY <1>1 DEF Meaningful, Failing, Consecutive, Latest
<1>6. Concluded'
  BY <1>1, <1>2, <1>4 DEF Concluded, TypeOK
<1>7. Counted'
  BY <1>1, <1>2, <1>4, <1>5 DEF Counted
<1>8. Due'
  <2>1. stage'[p] # "new"
    BY <1>1 DEF TypeOK
  <2> QED
    BY <1>1, <1>4, <1>5, <2>1 DEF Due, AsRows
<1> QED
  BY <1>3, <1>6, <1>7, <1>8

\* The start of a run: every monitor is hydrated.
LEMMA StartRunKeeps ==
  ASSUME HealthInv, NEW selected \in SUBSET Providers, StartRun(selected)
  PROVE  HealthInv'
<1> USE DEF HealthInv
<1>1. /\ phase' = "searching" /\ history' = history /\ errors' = errors
      /\ \A p \in Providers : monitor'[p] = Hydrated(p) /\ stage'[p] \in {"new", "out"}
      /\ outcome' = [p \in Providers |-> "none"]
  BY DEF StartRun
<1>2. \A p \in Providers :
        /\ Hydrated(p) \in Health
        /\ Hydrated(p).failures = Consecutive(p)
        /\ AsRows(Hydrated(p), p)
  BY HydratedAsRows DEF TypeOK
<1>3. \A p \in Providers :
        /\ Meaningful(p)' = Meaningful(p) /\ Consecutive(p)' = Consecutive(p)
        /\ Latest(p)' = Latest(p)
  BY <1>1 DEF Meaningful, Failing, Consecutive, Latest
<1>4. TypeOK'
  BY <1>1, <1>2 DEF TypeOK, StartRun, Stages
<1>5. Concluded' /\ Counted'
  BY <1>1, <1>2, <1>3 DEF Concluded, Counted
<1>6. Due'
  BY <1>1, <1>2, <1>3 DEF Due, AsRows
<1> QED
  BY <1>4, <1>5, <1>6

\* The search ends.
LEMMA EndKeeps ==
  ASSUME HealthInv, Deadline \/ CancelRun \/ Gathered
  PROVE  HealthInv'
<1> USE DEF HealthInv
<1>1. /\ phase # "idle" /\ phase' = "ended" /\ history' = history /\ monitor' = monitor
      /\ errors' \in [Providers -> 0 .. Threshold]
      /\ stage' \in [Providers -> Stages]
      /\ outcome' \in [Providers -> Status \union {"none"}]
      /\ \A p \in Providers :
           \/ /\ stage'[p] = stage[p] /\ outcome'[p] = outcome[p]
              /\ stage[p] \notin {"new", "waiting", "called"}
           \/ /\ stage'[p] = "cut" /\ outcome'[p] # "none"
              /\ stage[p] # "answered"
  <2>1. CASE Gathered
    BY <2>1 DEF Gathered, Open, TypeOK
  <2>2. ASSUME NEW status \in {"cancelled", "timed_out"}, phase = "searching", CutShort(status)
        PROVE  /\ phase' = "ended" /\ history' = history /\ monitor' = monitor
               /\ errors' \in [Providers -> 0 .. Threshold]
               /\ stage' \in [Providers -> Stages]
               /\ outcome' \in [Providers -> Status \union {"none"}]
               /\ \A p \in Providers :
                    \/ /\ stage'[p] = stage[p] /\ outcome'[p] = outcome[p]
                       /\ stage[p] \notin {"new", "waiting", "called"}
                    \/ /\ stage'[p] = "cut" /\ outcome'[p] # "none"
                       /\ stage[p] # "answered"
    <3>1. errors' \in [Providers -> 0 .. Threshold]
      BY <2>2, HealthAssumption DEF CutShort, CountError, TypeOK
    <3>2. status \in Status /\ status # "none"
      BY DEF Status, RemoteFailure, Neutral
    <3>3. /\ stage' = [p \in Providers |-> IF p \in Open THEN "cut" ELSE stage[p]]
          /\ outcome' = [p \in Providers |-> IF p \in Open THEN status ELSE outcome[p]]
      BY <2>2 DEF CutShort
    <3>4. stage' \in [Providers -> Stages] /\ outcome' \in [Providers -> Status \union {"none"}]
      BY <3>2, <3>3 DEF TypeOK, Stages
    <3>5. \A p \in Providers :
            p \in Open <=> stage[p] \in {"new", "waiting", "called"}
      BY DEF Open
    <3> QED
      BY <2>2, <3>1, <3>2, <3>3, <3>4, <3>5 DEF CutShort
  <2> QED
    BY <2>1, <2>2 DEF Deadline, CancelRun
<1>2. \A p \in Providers : Consecutive(p)' = Consecutive(p)
  BY <1>1 DEF Meaningful, Failing, Consecutive
<1>3. TypeOK'
  BY <1>1 DEF TypeOK
<1>4. Concluded' /\ Counted'
  BY <1>1, <1>2 DEF Concluded, Counted
<1>5. Due'
  BY <1>1 DEF Due
<1> QED
  BY <1>3, <1>4, <1>5

\* A tick ages the rows and runs down the timers together.
LEMMA TickKeeps ==
  ASSUME HealthInv, Tick
  PROVE  HealthInv'
<1> USE DEF HealthInv
<1>1. UNCHANGED <<phase, stage, outcome, errors>>
  BY DEF Tick
<1>2. /\ history' \in Seq(Row) /\ Len(history') = Len(history)
      /\ \A p \in Providers :
           /\ Meaningful(p)' = Meaningful(p) /\ Consecutive(p)' = Consecutive(p)
           /\ Meaningful(p) # {} =>
                /\ Latest(p)'.status = Latest(p).status
                /\ Latest(p)'.age = IF Latest(p).age < MaxAge THEN Latest(p).age + 1
                                    ELSE Latest(p).age
  <2>1. history \in Seq(Row)
    BY DEF TypeOK
  <2>2. CASE Providers = {}
    <3>1. Row = {}
      BY <2>2 DEF Row
    <3>2. history = <<>>
      BY <2>1, <3>1
    <3>3. history' = <<>>
      BY <3>2 DEF Tick
    <3> QED
      BY <2>1, <2>2, <3>2, <3>3
  <2> QED
    BY <2>1, <2>2, TickRows
<1>3. MaxAge \in Nat /\ MaxAge = 3 * Cooldown /\ Cooldown \in Nat
  BY HealthAssumption DEF MaxAge
<1>4. ASSUME NEW p \in Providers
      PROVE  /\ monitor'[p] \in Health
             /\ monitor'[p].status = monitor[p].status
             /\ monitor'[p].failures = monitor[p].failures
             /\ monitor'[p].left = IF monitor[p].left > 0 THEN monitor[p].left - 1
                                   ELSE monitor[p].left
  <2> DEFINE h == monitor[p]
             left == IF h.left > 0 THEN h.left - 1 ELSE h.left
  <2>1. /\ h \in Health /\ h.left \in {NoTimer} \union 0 .. MaxAge
        /\ h = [status |-> h.status, failures |-> h.failures, left |-> h.left]
    BY DEF TypeOK, Health
  <2>2. left \in {NoTimer} \union 0 .. MaxAge
    BY <1>3, <2>1 DEF NoTimer
  <2>3. monitor'[p] = [h EXCEPT !.left = left]
    BY DEF Tick
  <2> HIDE DEF left
  <2>4. monitor'[p] = [status |-> h.status, failures |-> h.failures, left |-> left]
    BY <2>1, <2>3
  <2>5. monitor'[p] \in Health
    BY <2>1, <2>2, <2>4 DEF Health
  <2> QED
    BY <2>4, <2>5 DEF left
<1>5. monitor' \in [Providers -> Health]
  <2>1. monitor' = [p \in Providers |-> monitor'[p]]
    BY DEF Tick
  <2> QED
    BY <1>4, <2>1
<1>6. TypeOK'
  BY <1>1, <1>2, <1>5 DEF TypeOK
<1>7. Concluded' /\ Counted'
  BY <1>1, <1>2, <1>4 DEF Concluded, Counted
<1>8. Due'
  <2> SUFFICES ASSUME phase = "searching", NEW p \in Providers, stage[p] = "new"
               PROVE  AsRows(monitor[p], p)'
    BY <1>1 DEF Due
  <2>1. AsRows(monitor[p], p)
    BY DEF Due
  <2>2. CASE Meaningful(p) = {}
    BY <1>2, <1>4, <2>1, <2>2 DEF AsRows
  <2>3. CASE Meaningful(p) # {}
    <3> DEFINE n == Consecutive(p)
               age == Latest(p).age
               length == CooldownLength(n)
    <3>1. age \in 0 .. MaxAge /\ n \in Nat
      BY <2>3, LatestIsRow, FailingCounts DEF Row, TypeOK
    <3>2. length \in 0 .. MaxAge
      BY <1>3, <3>1 DEF CooldownLength
    <3>3. (Latest(p)').age = (IF age < MaxAge THEN age + 1 ELSE age)
          /\ (Latest(p)').status = Latest(p).status
      BY <1>2, <2>3
    <3>4. CooldownLength(Consecutive(p))' = length
      BY <1>2 DEF CooldownLength
    <3>5. /\ monitor'[p].status = monitor[p].status
          /\ monitor'[p].left = IF monitor[p].left > 0 THEN monitor[p].left - 1
                                ELSE monitor[p].left
      BY <1>4
    <3> HIDE DEF age, length
    <3>6. /\ monitor[p].status \in Circuit =>
               n >= Threshold /\ monitor[p].left = IF length - age > 0 THEN length - age ELSE 0
          /\ n >= Threshold /\ length - age > 0 => monitor[p].status \in Circuit
          /\ monitor[p].status = "not_configured" => Latest(p).status = "not_configured"
      BY <2>1, <2>3 DEF AsRows, age, length
    <3> QED
      BY <1>2, <1>3, <2>3, <3>1, <3>2, <3>3, <3>4, <3>5, <3>6 DEF AsRows
  <2> QED
    BY <2>2, <2>3
<1> QED
  BY <1>6, <1>7, <1>8

Smaller(m, n) == IF m < n THEN m ELSE n

\* What complete_run writes: the rows of the run, then the older ones, as many as
\* the window shows.
LEMMA RecordRows ==
  ASSUME HealthInv, Record
  PROVE  /\ history' \in Seq(Row)
         /\ Cardinality(Selected) \in Nat
         /\ Len(history') = Smaller(Cardinality(Selected) + Len(history), Window)
         /\ \A i \in 1 .. Len(history') :
              history'[i] =
                IF i <= Cardinality(Selected)
                THEN [provider |-> SetToSeq(Selected)[i],
                      status |-> outcome[SetToSeq(Selected)[i]], age |-> 0]
                ELSE history[i - Cardinality(Selected)]
<1> DEFINE k == Cardinality(Selected)
           f == SetToSeq(Selected)
           rows == [i \in 1 .. k |-> [provider |-> f[i], status |-> outcome[f[i]], age |-> 0]]
           all == rows \o history
           len == Smaller(Len(all), Window)
<1>1. k \in Nat /\ f \in [1 .. k -> Selected] /\ Selected \subseteq Providers
  BY SelectedInOrder DEF Selected
<1>2. history' = SubSeq(all, 1, len)
  BY DEF Record, Smaller
<1> HIDE DEF k, f
<1>3. \A p \in Selected : outcome[p] \in Status
  <2> SUFFICES ASSUME NEW p \in Selected  PROVE outcome[p] # "none"
    BY <1>1 DEF HealthInv, TypeOK
  <2>1. stage[p] \in {"answered", "refused", "cut"}
    BY DEF HealthInv, TypeOK, Concluded, Record, Selected, Stages
  <2> QED
    BY <2>1 DEF HealthInv, Concluded, Record, Selected
<1>4. rows \in Seq(Row) /\ Len(rows) = k
  <2>1. 0 \in 0 .. MaxAge
    BY HealthAssumption DEF MaxAge
  <2>2. \A i \in 1 .. k : [provider |-> f[i], status |-> outcome[f[i]], age |-> 0] \in Row
    BY <1>1, <1>3, <2>1 DEF Row
  <2> QED
    BY <1>1, <2>2
<1>5. history \in Seq(Row)
  BY DEF HealthInv, TypeOK
<1>6. \A i \in 1 .. k :
        rows[i] = [provider |-> f[i], status |-> outcome[f[i]], age |-> 0]
  OBVIOUS
<1> HIDE DEF rows
<1>7. /\ all \in Seq(Row) /\ Len(all) = k + Len(history)
      /\ \A i \in 1 .. Len(all) : all[i] = IF i <= k THEN rows[i] ELSE history[i - k]
  BY <1>4, <1>5, ConcatProperties
<1> HIDE DEF all
<1>8. len \in 0 .. Len(all)
  <2>1. Len(all) \in Nat /\ Window \in Nat
    BY <1>7, HealthAssumption
  <2> QED
    BY <2>1 DEF Smaller
<1> HIDE DEF len
<1>9. /\ history' \in Seq(Row) /\ Len(history') = len
      /\ \A i \in 1 .. len : history'[i] = all[i]
  <2>1. 1 \in 1 .. Len(all) + 1 /\ len \in 1 - 1 .. Len(all)
    BY <1>7, <1>8
  <2> QED
    BY <1>2, <1>7, <1>8, <2>1, SubSeqProperties
<1>10. len = Smaller(k + Len(history), Window)
  BY <1>7 DEF len
<1>11. ASSUME NEW i \in 1 .. Len(history')
       PROVE  history'[i] = IF i <= k
                            THEN [provider |-> f[i], status |-> outcome[f[i]], age |-> 0]
                            ELSE history[i - k]
  <2>1. i \in 1 .. Len(all) /\ i \in Nat \ {0}
    BY <1>7, <1>8, <1>9
  <2>2. i <= k => i \in 1 .. k
    BY <1>1, <2>1
  <2> QED
    BY <1>6, <1>7, <1>9, <2>1, <2>2
<1> QED
  BY <1>1, <1>9, <1>10, <1>11 DEF k, f

\* Hydrating from the rows counts on from where the monitor of the run began:
\* none after an answer that is no failure, one more after a failure, fewer only
\* where old rows have left the window.
LEMMA RestoredCount ==
  ASSUME HealthInv, Record, NEW p \in Providers, stage[p] = "answered"
  PROVE  /\ Consecutive(p)' \in Nat
         /\ outcome[p] \notin RemoteFailure => Consecutive(p)' = 0
         /\ outcome[p] \in RemoteFailure =>
              /\ Consecutive(p)' <= Consecutive(p) + 1
              /\ Len(history) + Cardinality(Selected) <= Window =>
                   Consecutive(p)' = Consecutive(p) + 1
<1> DEFINE k == Cardinality(Selected)
           f == SetToSeq(Selected)
           len == Len(history')
<1>1. /\ Selected \subseteq Providers /\ p \in Selected
      /\ f \in [1 .. k -> Selected]
      /\ \A i, j \in 1 .. k : f[i] = f[j] => i = j
      /\ \E i \in 1 .. k : f[i] = p
  BY SelectedInOrder DEF Selected
<1>2. /\ history' \in Seq(Row) /\ history \in Seq(Row) /\ k \in Nat
      /\ len = Smaller(k + Len(history), Window)
      /\ \A i \in 1 .. len :
           history'[i] =
             IF i <= k THEN [provider |-> f[i], status |-> outcome[f[i]], age |-> 0]
             ELSE history[i - k]
  BY RecordRows DEF HealthInv, TypeOK
<1>3. /\ len \in Nat /\ Len(history) \in Nat /\ DOMAIN history' = 1 .. len
      /\ DOMAIN history = 1 .. Len(history)
      /\ Window \in Nat /\ len <= k + Len(history)
      /\ Len(history) + k <= Window => len = k + Len(history)
  BY <1>2, HealthAssumption DEF Smaller
<1> HIDE DEF k, f, len
<1>4. PICK m \in 1 .. k : f[m] = p
  BY <1>1
<1>5. outcome[p] \in Success \union RemoteFailure \union {"not_configured"}
  BY DEF HealthInv, Counted, Record
<1>6. outcome[p] \notin Neutral
  BY <1>5 DEF Success, RemoteFailure, Neutral
<1> DEFINE places == {i \in 1 .. len : i > k /\ i - k \in Meaningful(p)}
<1>7. Meaningful(p)' = (IF m <= len THEN {m} ELSE {}) \union places
  <2>1. ASSUME NEW i \in 1 .. len, i <= k
        PROVE  i \in Meaningful(p)' <=> i = m
    <3>1. i \in 1 .. k
      BY <1>2, <1>3, <2>1
    <3>2. history'[i] = [provider |-> f[i], status |-> outcome[f[i]], age |-> 0]
      BY <1>2, <2>1
    <3> QED
      BY <1>1, <1>3, <1>4, <1>6, <3>1, <3>2 DEF Meaningful
  <2>2. ASSUME NEW i \in 1 .. len, i > k
        PROVE  i \in Meaningful(p)' <=> i \in places
    <3>1. history'[i] = history[i - k]
      BY <1>2, <1>3, <2>2
    <3>2. i - k \in 1 .. Len(history)
      BY <1>2, <1>3, <2>2
    <3> QED
      BY <1>3, <2>2, <3>1, <3>2 DEF Meaningful
  <2>3. Meaningful(p)' \subseteq 1 .. len
    BY <1>3 DEF Meaningful
  <2>4. \A i \in 1 .. len : i <= k \/ i > k
    BY <1>2, <1>3
  <2>5. m \in Nat /\ m >= 1 /\ m <= k
    BY <1>2, <1>4
  <2> QED
    BY <1>2, <1>3, <2>1, <2>2, <2>3, <2>4, <2>5
<1>8. \A i \in places : m < i
  BY <1>2, <1>3, <1>4
<1>9. m > len => Meaningful(p)' = {}
  BY <1>2, <1>3, <1>4, <1>7
<1>10. m <= len => m \in Meaningful(p)' /\ history'[m].status = outcome[p]
  BY <1>2, <1>3, <1>4, <1>7
<1>11. ASSUME outcome[p] \notin RemoteFailure \/ m > len
       PROVE  Consecutive(p)' = 0
  <2>1. Failing(p)' = {}
    <3>1. CASE m > len
      BY <1>9, <3>1 DEF Failing
    <3>2. CASE m <= len /\ outcome[p] \notin RemoteFailure
      <4>1. \A i \in Meaningful(p)' : m <= i
        BY <1>2, <1>3, <1>4, <1>7, <1>8
      <4> QED
        BY <1>10, <3>2, <4>1 DEF Failing
    <3> QED
      BY <1>2, <1>3, <1>4, <1>11, <3>1, <3>2
  <2> QED
    BY <2>1, FS_EmptySet DEF Consecutive
<1>12. ASSUME outcome[p] \in RemoteFailure, m <= len
       PROVE  /\ Consecutive(p)' \in Nat
              /\ Consecutive(p)' <= Consecutive(p) + 1
              /\ len = k + Len(history) => Consecutive(p)' = Consecutive(p) + 1
  <2> DEFINE older == {i \in places : i - k \in Failing(p)}
  <2>1. \A i \in places : history'[i] = history[i - k] /\ i - k \in Meaningful(p)
    BY <1>2, <1>3
  <2>2. Failing(p)' = older \union {m}
    <3>1. m \in Failing(p)'
      BY <1>2, <1>3, <1>4, <1>7, <1>8, <1>10, <1>12 DEF Failing
    <3>2. ASSUME NEW i \in places
          PROVE  i \in Failing(p)' <=> i - k \in Failing(p)
      <4>1. ASSUME i \in Failing(p)', NEW j \in Meaningful(p), j <= i - k
            PROVE  history[j].status \in RemoteFailure
        <5>1. j \in 1 .. Len(history)
          BY <1>3 DEF Meaningful
        <5>2. j + k \in 1 .. len /\ j + k > k /\ (j + k) - k = j /\ j + k <= i
          BY <1>2, <1>3, <4>1, <5>1
        <5>3. j + k \in places
          BY <5>2
        <5>4. history'[j + k].status \in RemoteFailure
          BY <1>7, <4>1, <5>2, <5>3 DEF Failing
        <5> QED
          BY <2>1, <5>2, <5>3, <5>4
      <4>2. ASSUME i - k \in Failing(p), NEW j \in Meaningful(p)', j <= i
            PROVE  history'[j].status \in RemoteFailure
        <5>1. CASE j = m
          BY <1>10, <1>12, <5>1
        <5>2. CASE j \in places
          <6>1. history'[j] = history[j - k] /\ j - k \in Meaningful(p) /\ j - k <= i - k
            BY <1>2, <1>3, <2>1, <4>2, <5>2
          <6> QED
            BY <4>2, <6>1 DEF Failing
        <5> QED
          BY <1>7, <1>12, <5>1, <5>2
      <4>3. i \in Meaningful(p)' /\ i - k \in Meaningful(p)
        BY <1>7, <2>1
      <4>4. ASSUME i \in Failing(p)'  PROVE i - k \in Failing(p)
        BY <4>1, <4>3, <4>4 DEF Failing
      <4>5. ASSUME i - k \in Failing(p)  PROVE i \in Failing(p)'
        BY <4>2, <4>3, <4>5 DEF Failing
      <4> QED
        BY <4>4, <4>5
    <3>3. Failing(p)' \subseteq {m} \union places
      BY <1>7, <1>12 DEF Failing
    <3> QED
      BY <3>1, <3>2, <3>3
  <2>3. m \notin older
    BY <1>2, <1>3, <1>4
  <2>4. IsFiniteSet(Failing(p)) /\ Failing(p) \subseteq 1 .. Len(history)
        /\ Consecutive(p) = Cardinality(Failing(p)) /\ Consecutive(p) \in Nat
    BY <1>2, FailingCounts DEF Consecutive
  <2> DEFINE g == [i \in older |-> i - k]
  <2>5. g \in Injection(older, Failing(p))
    <3>1. g \in [older -> Failing(p)]
      OBVIOUS
    <3>2. \A i, j \in older : g[i] = g[j] => i = j
      BY <1>2, <1>3
    <3> QED
      BY <3>1, <3>2 DEF Injection, IsInjective
  <2>6. ASSUME len = k + Len(history)  PROVE g \in Surjection(older, Failing(p))
    <3>1. ASSUME NEW j \in Failing(p)  PROVE \E i \in older : g[i] = j
      <4>1. j \in 1 .. Len(history) /\ j \in Meaningful(p)
        BY <2>4 DEF Failing
      <4>2. j + k \in 1 .. len /\ j + k > k /\ (j + k) - k = j
        BY <1>2, <1>3, <2>6, <4>1
      <4>3. j + k \in older
        BY <4>1, <4>2
      <4> QED
        BY <4>2, <4>3
    <3>2. g \in [older -> Failing(p)]
      OBVIOUS
    <3> QED
      BY <3>1, <3>2 DEF Surjection
  <2> HIDE DEF g, older
  <2>7. /\ IsFiniteSet(older) /\ Cardinality(older) <= Cardinality(Failing(p))
        /\ len = k + Len(history) => Cardinality(older) = Cardinality(Failing(p))
    BY <2>4, <2>5, <2>6, FS_Injection
  <2>8. Cardinality(older) \in Nat
    BY <2>7, FS_CardinalityType
  <2>9. Consecutive(p)' = Cardinality(older \union {m})
    BY <2>2 DEF Consecutive
  <2>10. Cardinality(older \union {m}) = Cardinality(older) + 1
    BY <2>3, <2>7, FS_AddElement
  <2> QED
    BY <2>4, <2>7, <2>8, <2>9, <2>10
<1>13. Consecutive(p) \in Nat
  BY <1>2, FailingCounts
<1>14. m > len => ~(len = k + Len(history))
  BY <1>2, <1>3, <1>4
<1> QED
  BY <1>2, <1>3, <1>4, <1>11, <1>12, <1>13, <1>14 DEF k

\* Between runs nothing is claimed of the monitor.
LEMMA IdleKeeps ==
  ASSUME HealthInv, Record \/ Lose
  PROVE  HealthInv'
<1> USE DEF HealthInv
<1>1. UNCHANGED <<monitor, stage, outcome, errors>> /\ phase' = "idle"
  BY DEF Record, Lose
<1>2. history' \in Seq(Row) /\ Len(history') <= Window
  <2>1. CASE Record
    <3>1. /\ history' \in Seq(Row) /\ Cardinality(Selected) \in Nat
          /\ Len(history') = Smaller(Cardinality(Selected) + Len(history), Window)
      BY <2>1, RecordRows
    <3>2. Len(history) \in Nat /\ Window \in Nat
      BY HealthAssumption DEF TypeOK
    <3> QED
      BY <3>1, <3>2 DEF Smaller
  <2>2. CASE Lose
    BY <2>2 DEF Lose, TypeOK
  <2> QED
    BY <2>1, <2>2
<1> QED
  BY <1>1, <1>2 DEF TypeOK, Concluded, Counted, Due

\* Every step keeps the invariant.
LEMMA HealthStep == HealthInv /\ [Next]_vars => HealthInv'
<1> SUFFICES ASSUME HealthInv, [Next]_vars  PROVE HealthInv'
  OBVIOUS
<1>1. CASE UNCHANGED vars
  <2>1. UNCHANGED <<history, monitor, phase, stage, outcome, errors>>
    BY <1>1 DEF vars
  <2>2. \A p \in Providers :
          /\ Meaningful(p)' = Meaningful(p) /\ Consecutive(p)' = Consecutive(p)
          /\ Latest(p)' = Latest(p)
    BY <2>1 DEF Meaningful, Failing, Consecutive, Latest
  <2>3. TypeOK'
    BY <2>1 DEF HealthInv, TypeOK
  <2>4. Concluded' /\ Counted' /\ Due'
    BY <2>1, <2>2 DEF HealthInv, Concluded, Counted, Due, AsRows
  <2> QED
    BY <2>3, <2>4 DEF HealthInv
<1>2. CASE Next
  BY <1>2, StartRunKeeps, ProviderKeeps, EndKeeps, IdleKeeps, TickKeeps DEF Next
<1> QED
  BY <1>1, <1>2

\* The invariant holds in every state the system reaches.
LEMMA HealthInvariant == Spec => []HealthInv
<1>1. Init => HealthInv
  <2> SUFFICES ASSUME Init  PROVE HealthInv
    OBVIOUS
  <2>1. Unknown \in Health
    BY DEF Unknown, Health
  <2>2. history \in Seq(Row) /\ Len(history) = 0
    BY DEF Init
  <2> QED
    BY <2>1, <2>2, HealthAssumption
       DEF Init, HealthInv, TypeOK, Stages, Concluded, Counted, Due
<1> QED
  BY <1>1, HealthStep, PTL DEF Spec

\* Types: above all a cooldown is never longer than the longest one, and a
\* failure count never negative.
THEOREM HealthTypeCorrect == Spec => []TypeOK
<1>1. HealthInv => TypeOK
  BY DEF HealthInv
<1> QED
  BY <1>1, HealthInvariant, PTL

\* The engine refuses a provider exactly when its recorded outcomes call for it,
\* however much time has passed since the monitor was hydrated from them.
THEOREM AdmissionFollowsRows == Spec => AdmissionMatchesRows
<1> DEFINE Decision ==
      \A p \in Providers : stage[p] = "new" =>
        /\ stage'[p] = "waiting" => ~OpenByRows(p)
        /\ stage'[p] = "refused" =>
             \/ OpenByRows(p)
             \/ Meaningful(p) # {} /\ Latest(p).status = "not_configured"
<1>1. HealthInv /\ [Next]_vars => [Decision]_vars
  <2> SUFFICES ASSUME HealthInv, Next, NEW p \in Providers, stage[p] = "new",
                      stage'[p] \in {"waiting", "refused"}
               PROVE  /\ stage'[p] = "waiting" => ~OpenByRows(p)
                      /\ stage'[p] = "refused" =>
                           \/ OpenByRows(p)
                           \/ Meaningful(p) # {} /\ Latest(p).status = "not_configured"
    BY DEF vars
  <2> USE DEF HealthInv
  <2>1. phase = "searching" /\ (stage'[p] = "waiting" <=> CanExecute(p))
    <3>1. ASSUME NEW q \in Providers, Step(q)
          PROVE  phase = "searching" /\ (stage'[p] = "waiting" <=> CanExecute(p))
      BY <3>1 DEF Step, Refuse, Admit, Call, Answer, TypeOK
    <3>2. ~(\E selected \in SUBSET Providers \ {{}} : StartRun(selected))
      BY DEF StartRun
    <3>3. ~(Deadline \/ CancelRun \/ Gathered \/ Record \/ Lose \/ Tick)
      BY DEF Deadline, CancelRun, CutShort, Gathered, Record, Lose, Tick
    <3> QED
      BY <3>1, <3>2, <3>3 DEF Next
  <2> DEFINE n == Consecutive(p)
             left == CooldownLength(n) - Latest(p).age
             h == monitor[p]
  <2>2. /\ h.status \in Circuit =>
             /\ Meaningful(p) # {} /\ n >= Threshold
             /\ h.left = IF left > 0 THEN left ELSE 0
        /\ Meaningful(p) # {} /\ n >= Threshold /\ left > 0 => h.status \in Circuit
        /\ h.status = "not_configured" =>
             Meaningful(p) # {} /\ Latest(p).status = "not_configured"
    BY <2>1 DEF Due, AsRows
  <2>3. h \in Health /\ history \in Seq(Row)
    BY DEF TypeOK
  <2>4. OpenByRows(p) <=> Meaningful(p) # {} /\ n >= Threshold /\ left > 0
    <3>1. OpenByRows(p) <=>
            /\ Meaningful(p) # {}
            /\ n >= Threshold
            /\ Latest(p).age < CooldownLength(n)
      BY <2>3, OpenMeans
    <3>2. Meaningful(p) # {} => Latest(p).age \in 0 .. MaxAge
      BY <2>3, LatestIsRow DEF Row
    <3>3. CooldownLength(n) \in Nat /\ MaxAge \in Nat
      BY HealthAssumption DEF CooldownLength, MaxAge
    <3> QED
      BY <3>1, <3>2, <3>3
  <2>5. CanExecute(p) <=> /\ h.status # "not_configured"
                          /\ h.status \in Circuit => h.left = 0
    <3>1. h.status # "degraded" \/ h.status \notin Circuit
      BY DEF Circuit
    <3>2. h.status \in Circuit /\ h.left = 0 => Refresh(h).status = "degraded"
      BY <2>3 DEF Refresh, Health
    <3>3. ~(h.status \in Circuit /\ h.left = 0) => Refresh(h) = h
      BY DEF Refresh
    <3> QED
      BY <3>2, <3>3 DEF CanExecute, Circuit
  <2> HIDE DEF n, left, h
  <2> QED
    BY <2>1, <2>2, <2>4, <2>5
<1> QED
  BY <1>1, HealthInvariant, PTL DEF Spec, AdmissionMatchesRows

\* The failure count the monitor of a run ended with is the one the next run is
\* hydrated with; where old rows have left the window, or the call found the
\* provider unconfigured, it is never a larger one.
THEOREM RestoreKeepsCount == Spec => RestoreAgrees
<1> DEFINE Restored ==
      phase = "ended" /\ phase' = "idle" /\ history' # history =>
        \A p \in Providers : stage[p] = "answered" =>
          LET restored == Hydrated(p)' IN
          /\ restored.failures <= monitor[p].failures
          /\ outcome[p] # "not_configured" /\ Len(history) + Cardinality(Selected) <= Window
               => restored.failures = monitor[p].failures
<1>1. HealthInv /\ [Next]_vars => [Restored]_vars
  <2> SUFFICES ASSUME HealthInv, Next, phase = "ended", phase' = "idle", history' # history,
                      NEW p \in Providers, stage[p] = "answered"
               PROVE  /\ (Hydrated(p)').failures <= monitor[p].failures
                      /\ outcome[p] # "not_configured"
                         /\ Len(history) + Cardinality(Selected) <= Window
                           => (Hydrated(p)').failures = monitor[p].failures
    BY DEF vars
  <2>1. Record
    BY DEF Next, Step, StartRun, Refuse, Admit, Call, Answer, Deadline, CancelRun, CutShort,
       Gathered, Lose, Tick
  <2>2. (Hydrated(p)').failures = Consecutive(p)'
    <3>1. history' \in Seq(Row)
      BY <2>1, RecordRows
    <3> QED
      BY <3>1, HydratedCountNext
  <2>3. /\ Consecutive(p)' \in Nat
        /\ outcome[p] \notin RemoteFailure => Consecutive(p)' = 0
        /\ outcome[p] \in RemoteFailure =>
             /\ Consecutive(p)' <= Consecutive(p) + 1
             /\ Len(history) + Cardinality(Selected) <= Window =>
                  Consecutive(p)' = Consecutive(p) + 1
    BY <2>1, RestoredCount
  <2>4. /\ outcome[p] \in Success \union RemoteFailure \union {"not_configured"}
        /\ outcome[p] \in Success => monitor[p].failures = 0
        /\ outcome[p] \in RemoteFailure => monitor[p].failures = Consecutive(p) + 1
    BY DEF HealthInv, Counted
  <2>5. monitor[p].failures \in Nat
    BY DEF HealthInv, TypeOK, Health
  <2>6. Success \cap RemoteFailure = {} /\ "not_configured" \notin Success \union RemoteFailure
    BY DEF Success, RemoteFailure
  <2> QED
    BY <2>2, <2>3, <2>4, <2>5, <2>6
<1> QED
  BY <1>1, HealthInvariant, PTL DEF Spec, RestoreAgrees
=============================================================================

--------------------------- MODULE Startup_proofs ---------------------------
(***************************************************************************)
(* Proofs about DatabaseMaintenance and Startup.                           *)
(*                                                                         *)
(* DbSound says what the steps of an upgrade have established at each      *)
(* stage, that the backup an operation falls back on is the newest one and *)
(* has the records of the database, and that a table of another structure  *)
(* stays one: in the database and in all its backups.  GuardSound says     *)
(* what the launch history records of a launch that died.                  *)
(***************************************************************************)
EXTENDS Startup, TLAPS, SequenceTheorems, FiniteSetTheorems

DbSound ==
  /\ job.source <= Len(backups)
  /\ job.source # 0 => job.task = "restore"
  /\ stage \in Upgrading \union {"undo"} => job.task \in {"check", "upgrade"}
  /\ stage = "replace" => job.task = "restore"
  /\ stage \in {"metadata", "rotate", "replace"} =>
       Len(backups) >= 1 /\ backups[1].db = db
  /\ stage \in {"rotate", "replace"} => backups[1].meta
  /\ stage \in Upgrading \union {"undo"} /\ job.task = "upgrade" =>
       Len(backups) >= 1 /\ backups[1].meta /\ db.rows \subseteq backups[1].db.rows
  /\ stage = "change" /\ job.task = "check" => db.ids = "uuid"
  /\ stage = "copy" => job.task = "upgrade"
  /\ stage \in {"create", "stamp"} => db.ids = "uuid" /\ db.audit
  /\ stage = "stamp" => db.tables # "missing"
  /\ stage \in Backing \union {"replace"} /\ job.task # "upgrade" => db.tables # "odd"
  /\ \A n \in DOMAIN backups : (backups[n].db.tables = "odd") <=> (db.tables = "odd")
  /\ VersionTruthful

DbInv == DbTypeOK /\ DbSound

\* A record is still in the database, or a backup that restore accepts has it.
RowsStep == \A r \in db.rows : r \in db'.rows \/ Restorable(r)'

Counted == faults' \in 0 .. MaxFaults /\ uses' \in 0 .. MaxUses

\* The process ends, or the launch guard alone moves.
Stop == Down /\ UNCHANGED <<db, backups>> /\ Counted
Idle == UNCHANGED <<db, backups, stage, job>> /\ Counted

DbMove == Launch \/ Upgrade \/ Maintain \/ Use \/ Stop \/ Idle

----------------------------------------------------------------------------
(* The database.                                                           *)

LEMMA FaultCounts == DbTypeOK /\ Fault => faults' \in 0 .. MaxFaults
BY MaintenanceAssumption DEF DbTypeOK, Fault

LEMMA AskedCounts == DbTypeOK /\ Asked => uses' \in 0 .. MaxUses
BY MaintenanceAssumption DEF DbTypeOK, Asked

LEMMA DbFields ==
  ASSUME NEW d \in Database
  PROVE  /\ [d EXCEPT !.audit = TRUE] \in Database
         /\ [d EXCEPT !.leftover = TRUE] \in Database
         /\ [d EXCEPT !.ids = "uuid", !.audit = TRUE, !.leftover = FALSE,
                      !.rows = @ \ Orphans] \in Database
         /\ \A t \in {"missing", "present", "odd"} : [d EXCEPT !.tables = t] \in Database
         /\ [d EXCEPT !.version = Current] \in Database
         /\ \A r \in Rows : [d EXCEPT !.rows = @ \union {r}] \in Database
<1>1. /\ d.ids \in {"int", "uuid"} /\ d.audit \in BOOLEAN 
      /\ d.tables \in {"missing", "present", "odd"}
      /\ d.version \in 0 .. 2 /\ d.leftover \in BOOLEAN /\ d.rows \in SUBSET Rows
  BY DEF Database
<1>2. [d EXCEPT !.audit = TRUE] \in Database
  BY <1>1 DEF Database
<1>3. [d EXCEPT !.leftover = TRUE] \in Database
  BY <1>1 DEF Database
<1>4. [d EXCEPT !.ids = "uuid", !.audit = TRUE, !.leftover = FALSE, !.rows = @ \ Orphans]
        \in Database
  <2>1. d.rows \ Orphans \in SUBSET Rows
    BY <1>1
  <2>. QED
    BY <1>1, <2>1 DEF Database
<1>5. ASSUME NEW t \in {"missing", "present", "odd"}  PROVE [d EXCEPT !.tables = t] \in Database
  BY <1>1 DEF Database
<1>6. [d EXCEPT !.version = Current] \in Database
  BY <1>1 DEF Database, Current
<1>7. ASSUME NEW r \in Rows  PROVE [d EXCEPT !.rows = @ \union {r}] \in Database
  <2>1. d.rows \union {r} \in SUBSET Rows
    BY <1>1
  <2>. QED
    BY <1>1, <2>1 DEF Database
<1>. QED
  BY <1>2, <1>3, <1>4, <1>5, <1>6, <1>7

\* A new backup in front of the others.
LEMMA Prepended ==
  ASSUME NEW s \in Seq(Backup), NEW b \in Backup
  PROVE  LET t == <<b>> \o s IN
         /\ t \in Seq(Backup) /\ Len(t) = Len(s) + 1 /\ t[1] = b
         /\ \A n \in 2 .. Len(t) : t[n] = s[n - 1]
<1>1. <<b>> \in Seq(Backup) /\ Len(<<b>>) = 1 /\ <<b>>[1] = b
  OBVIOUS
<1>. QED
  BY <1>1, ConcatProperties, LenProperties

\* What a rotation leaves.
LEMMA KeptProperties ==
  ASSUME DbTypeOK
  PROVE  /\ Kept \in Seq(Backup)
         /\ Len(Kept) = IF Len(backups) <= KeepLast THEN Len(backups) ELSE KeepLast
         /\ \A n \in 1 .. Len(Kept) : Kept[n] = backups[n]
<1>1. backups \in Seq(Backup) /\ Len(backups) \in Nat /\ KeepLast \in Nat /\ KeepLast >= 1
  BY MaintenanceAssumption, LenProperties DEF DbTypeOK
<1>2. CASE Len(backups) <= KeepLast
  BY <1>1, <1>2 DEF Kept
<1>3. CASE ~(Len(backups) <= KeepLast)
  <2>1. \A n \in 1 .. KeepLast : backups[n] \in Backup
    BY <1>1, <1>3, ElementOfSeq
  <2>. QED
    BY <1>1, <1>3, <2>1, SubSeqProperties DEF Kept
<1>. QED
  BY <1>2, <1>3

LEMMA DbInitial == DbInit => DbInv
<1>. SUFFICES ASSUME DbInit  PROVE DbInv
  OBVIOUS
<1>1. db \in Database /\ Truthful(db)
  <2>1. ASSUME NEW rows \in SUBSET Rows
        PROVE  /\ Fresh(rows) \in Database /\ Truthful(Fresh(rows))
               /\ Legacy(rows) \in Database /\ Truthful(Legacy(rows))
               /\ NoAudit(rows) \in Database /\ Truthful(NoAudit(rows))
               /\ Present(rows) \in Database /\ Truthful(Present(rows))
               /\ Newer(rows) \in Database /\ Truthful(Newer(rows))
               /\ Odd(Legacy(rows)) \in Database /\ Truthful(Odd(Legacy(rows)))
               /\ Odd(NoAudit(rows)) \in Database /\ Truthful(Odd(NoAudit(rows)))
    <3>1. /\ Fresh(rows) \in Database /\ Fresh(rows).version = 0
          /\ Fresh(rows).ids = "uuid" /\ Fresh(rows).audit
      BY DEF Fresh, Database
    <3>2. Legacy(rows) \in Database /\ Legacy(rows).version = 0
      <4>1. Legacy(rows) = [Fresh(rows) EXCEPT !.ids = "int", !.audit = FALSE]
        BY DEF Legacy
      <4>. QED
        BY <3>1, <4>1 DEF Database
    <3>3. NoAudit(rows) \in Database /\ NoAudit(rows).version = 0
      <4>1. NoAudit(rows) = [Fresh(rows) EXCEPT !.audit = FALSE]
        BY DEF NoAudit
      <4>. QED
        BY <3>1, <4>1 DEF Database
    <3>4. /\ Present(rows) \in Database /\ Present(rows).ids = "uuid"
          /\ Present(rows).audit /\ Present(rows).tables = "present"
      <4>1. Present(rows) = [Fresh(rows) EXCEPT !.tables = "present", !.version = 1]
        BY DEF Present, Current
      <4>2. Present(rows) \in Database
        <5>1. [Fresh(rows) EXCEPT !.tables = "present"] \in Database
          BY <3>1, DbFields
        <5>2. Present(rows) = [[Fresh(rows) EXCEPT !.tables = "present"] EXCEPT !.version = Current]
          BY DEF Present
        <5>. QED
          BY <5>1, <5>2, DbFields
      <4>3. /\ Present(rows).ids = "uuid" /\ Present(rows).tables = "present"
            /\ Present(rows).audit = Fresh(rows).audit
        BY <3>1, <4>1 DEF Database
      <4>. QED
        BY <3>1, <4>2, <4>3
    <3>5. Newer(rows) \in Database /\ Newer(rows).version = 2
      <4>1. Newer(rows) = [Present(rows) EXCEPT !.version = 2]
        BY DEF Newer
      <4>. QED
        BY <3>4, <4>1 DEF Database
    <3>6. ASSUME NEW d \in Database, d.version = 0
          PROVE  Odd(d) \in Database /\ Odd(d).version = 0
      <4>1. Odd(d) = [d EXCEPT !.tables = "odd"] /\ Odd(d) \in Database
        BY DbFields DEF Odd
      <4>. QED
        BY <3>6, <4>1 DEF Database
    <3>7. /\ Odd(Legacy(rows)) \in Database /\ Odd(Legacy(rows)).version = 0
          /\ Odd(NoAudit(rows)) \in Database /\ Odd(NoAudit(rows)).version = 0
      BY <3>2, <3>3, <3>6
    <3>. QED
      BY <3>1, <3>2, <3>3, <3>4, <3>5, <3>7 DEF Truthful, Current
  <2>. QED
    BY <2>1 DEF DbInit
<1>2. backups \in Seq(Backup) /\ Len(backups) = 0 /\ DOMAIN backups = {}
  BY DEF DbInit
<1>. QED
  BY <1>1, <1>2, MaintenanceAssumption
     DEF DbInit, DbInv, DbTypeOK, DbSound, NoJob, Stages, Upgrading, Backing, VersionTruthful

LEMMA DbStep ==
  ASSUME DbInv, DbMove
  PROVE  DbInv' /\ RowsStep
<1>. USE DEF Enter
<1>t. DbTypeOK /\ DbSound /\ Len(backups) \in Nat /\ DOMAIN backups = 1 .. Len(backups)
      /\ db \in Database /\ db.rows \subseteq Rows
      /\ \A n \in 1 .. Len(backups) : backups[n] \in Backup /\ backups[n].db \in Database
  <2>1. DbTypeOK /\ DbSound /\ backups \in Seq(Backup)
    BY DEF DbInv, DbTypeOK
  <2>2. Len(backups) \in Nat /\ DOMAIN backups = 1 .. Len(backups)
        /\ \A n \in 1 .. Len(backups) : backups[n] \in Backup
    BY <2>1, LenProperties, ElementOfSeq
  <2>. QED
    BY <2>1, <2>2 DEF DbTypeOK, Backup, Database
\* Steps that leave database and backups alone.
<1>a. ASSUME UNCHANGED <<db, backups>>, DbTypeOK',
             stage' \in {"down", "open", "snapshot", "undo", "health", "ready", "change"},
             job'.source <= Len(backups),
             job'.source # 0 => job'.task = "restore",
             stage' \in Upgrading \union {"undo"} => job'.task \in {"check", "upgrade"},
             stage' \in {"health", "ready"} => db.tables # "odd",
             stage' = "snapshot" /\ job'.task # "upgrade" => db.tables # "odd",
             stage' = "change" /\ job'.task = "check" => db.ids = "uuid",
             stage' \in Upgrading \union {"undo"} /\ job'.task = "upgrade" =>
               job' = job /\ stage \in Upgrading \union {"undo"}
      PROVE  DbInv' /\ RowsStep
  BY <1>a, <1>t DEF DbInv, DbSound, RowsStep, VersionTruthful, Upgrading, Backing
<1>1. CASE Launch
  BY <1>1, <1>t, <1>a DEF Launch, DbTypeOK, DbSound, Stages, Upgrading
<1>2. CASE Open
  BY <1>2, <1>t, <1>a DEF Open, Down, NoJob, DbTypeOK, DbSound, Stages, Upgrading,
     Backing, Changed, Database
<1>3. CASE AddAuditColumns
  <2>1. db' = [db EXCEPT !.audit = TRUE] /\ db' \in Database
    BY <1>3, <1>t, DbFields DEF AddAuditColumns
  <2>2. DbTypeOK'
    BY <1>3, <1>t, <2>1 DEF AddAuditColumns, DbTypeOK, Stages, Upgrading
  <2>3. db'.rows = db.rows /\ Truthful(db') /\ db'.tables = db.tables
    BY <1>3, <1>t, <2>1 DEF AddAuditColumns, DbSound, VersionTruthful, Truthful, Database
  <2>4. db'.ids = "uuid" /\ db'.audit
    BY <1>3, <1>t, <2>1 DEF AddAuditColumns, Database
  <2>5. DbSound'
    BY <1>3, <1>t, <2>3, <2>4 DEF AddAuditColumns, DbSound, VersionTruthful, Upgrading, Backing
  <2>. QED
    BY <2>2, <2>3, <2>5 DEF DbInv, RowsStep
<1>4. CASE CreateV2
  <2>1. db' = [db EXCEPT !.leftover = TRUE] /\ db' \in Database
    BY <1>4, <1>t, DbFields DEF CreateV2
  <2>2. DbTypeOK'
    BY <1>4, <1>t, <2>1 DEF CreateV2, DbTypeOK, Stages, Upgrading
  <2>3. db'.rows = db.rows /\ Truthful(db') /\ db'.tables = db.tables /\ db'.ids = db.ids
    BY <1>4, <1>t, <2>1 DEF CreateV2, DbSound, VersionTruthful, Truthful, Database
  <2>5. DbSound'
    BY <1>4, <1>t, <2>3 DEF CreateV2, DbSound, VersionTruthful, Upgrading, Backing
  <2>. QED
    BY <2>2, <2>3, <2>5 DEF DbInv, RowsStep
<1>5. CASE CopyRows
  <2>1. /\ db' = [db EXCEPT !.ids = "uuid", !.audit = TRUE, !.leftover = FALSE,
                            !.rows = @ \ Orphans]
        /\ db' \in Database
    BY <1>5, <1>t, DbFields DEF CopyRows
  <2>2. DbTypeOK'
    BY <1>5, <1>t, <2>1 DEF CopyRows, DbTypeOK, Stages, Upgrading
  <2>3. db'.rows = db.rows \ Orphans /\ Truthful(db') /\ db'.ids = "uuid" /\ db'.audit
        /\ db'.tables = db.tables
    BY <1>5, <1>t, <2>1 DEF CopyRows, DbSound, VersionTruthful, Truthful, Database
  <2>4. /\ stage' = "create" /\ job' = job /\ backups' = backups
        /\ stage \in Upgrading
    BY <1>5 DEF CopyRows, Upgrading
  <2>5. DbSound'
    BY <1>t, <2>3, <2>4 DEF DbSound, VersionTruthful, Upgrading, Backing
  <2>6. Len(backups) >= 1 /\ backups[1].meta /\ db.rows \subseteq backups[1].db.rows
    BY <1>5, <1>t DEF CopyRows, DbSound, Upgrading, DbTypeOK
  <2>. QED
    BY <1>t, <2>2, <2>4, <2>5, <2>6 DEF DbInv, RowsStep, Restorable
<1>6. CASE CreateTables
  <2>. DEFINE t == IF db.tables = "odd" THEN "odd" ELSE "present"
  <2>1. db' = [db EXCEPT !.tables = t] /\ db' \in Database
    BY <1>6, <1>t, DbFields DEF CreateTables
  <2>2. DbTypeOK'
    BY <1>6, <1>t, <2>1 DEF CreateTables, DbTypeOK, Stages, Upgrading
  <2>3. /\ db'.rows = db.rows /\ db'.ids = "uuid" /\ db'.audit /\ db'.tables = t
    BY <1>6, <1>t, <2>1 DEF CreateTables, DbSound, Database
  <2>5. DbSound'
    BY <1>6, <1>t, <2>3 DEF CreateTables, DbSound, VersionTruthful, Truthful, Upgrading, Backing
  <2>. QED
    BY <2>2, <2>3, <2>5 DEF DbInv, RowsStep
<1>7. CASE SetVersion
  <2>1. db' = [db EXCEPT !.version = Current] /\ db' \in Database
    BY <1>7, <1>t, DbFields DEF SetVersion
  <2>2. DbTypeOK'
    BY <1>7, <1>t, <2>1 DEF SetVersion, DbTypeOK, Stages, Upgrading
  <2>3. db'.rows = db.rows /\ db'.ids = "uuid" /\ db'.audit
        /\ db'.tables = db.tables /\ db.tables # "missing"
    BY <1>7, <1>t, <2>1 DEF SetVersion, DbSound, Database
  <2>5. DbSound'
    BY <1>7, <1>t, <2>3 DEF SetVersion, DbSound, VersionTruthful, Truthful, Upgrading, Backing
  <2>. QED
    BY <2>2, <2>3, <2>5 DEF DbInv, RowsStep
<1>8. CASE Verified
  BY <1>8, <1>t, <1>a DEF Verified, NoJob, DbTypeOK, DbSound, Stages, Upgrading
<1>22. CASE VerifyRejects
  BY <1>22, <1>t, <1>a DEF VerifyRejects, DbTypeOK, DbSound, Stages, Upgrading
<1>9. CASE UpgradeFails
  BY <1>9, <1>t, <1>a, FaultCounts DEF UpgradeFails, DbTypeOK, DbSound, Stages, Upgrading
<1>10. CASE Undo
  <2>1. db' = db \/ (job.task = "upgrade" /\ db' = backups[1].db)
    BY <1>10 DEF Undo
  <2>2. /\ db' \in Database /\ db.rows \subseteq db'.rows /\ Truthful(db')
        /\ db'.tables = "odd" <=> db.tables = "odd"
    BY <1>10, <1>t, <2>1 DEF Undo, DbSound, VersionTruthful, Upgrading
  <2>3. DbTypeOK'
    BY <1>10, <1>t, <2>2, FaultCounts DEF Undo, Down, DbTypeOK, Stages, NoJob
  <2>4. DbSound'
    BY <1>10, <1>t, <2>2 DEF Undo, Down, DbSound, VersionTruthful, NoJob, Upgrading,
       Backing
  <2>. QED
    BY <2>2, <2>3, <2>4 DEF DbInv, RowsStep
<1>11. CASE HealthCheck
  BY <1>11, <1>t, <1>a, FaultCounts
     DEF HealthCheck, Down, NoJob, DbTypeOK, DbSound, Stages, Upgrading, VersionTruthful
<1>12. CASE Snapshot
  <2>. DEFINE b == [db |-> db, meta |-> FALSE]
  <2>1. b \in Backup /\ b.db = db
    BY <1>t DEF Backup
  <2>2. backups' = <<b>> \o backups
    BY <1>12 DEF Snapshot
  <2>. HIDE DEF b
  <2>3. /\ backups' \in Seq(Backup) /\ Len(backups') = Len(backups) + 1 /\ backups'[1] = b
        /\ \A n \in 2 .. Len(backups') : backups'[n] = backups[n - 1]
        /\ DOMAIN backups' = 1 .. Len(backups')
    BY <1>t, <2>1, <2>2, Prepended, LenProperties DEF DbTypeOK
  <2>4. job'.task = job.task /\ job'.source = (IF job.source = 0 THEN 0 ELSE job.source + 1)
        /\ job' \in [task : {"none", "check", "upgrade", "backup", "restore"}, source : Nat]
    BY <1>12, <1>t DEF Snapshot, DbTypeOK
  <2>5. DbTypeOK'
    BY <1>12, <1>t, <2>3, <2>4 DEF Snapshot, DbTypeOK, Stages, Backing
  <2>6. VersionTruthful'
    <3>1. Truthful(db') /\ Truthful(backups'[1].db)
      BY <1>12, <1>t, <2>1, <2>3 DEF Snapshot, DbSound, VersionTruthful
    <3>2. ASSUME NEW n \in 2 .. Len(backups')  PROVE Truthful(backups'[n].db)
      <4>1. n - 1 \in 1 .. Len(backups) /\ backups'[n] = backups[n - 1]
        BY <1>t, <2>3
      <4>. QED
        BY <1>t, <4>1 DEF DbSound, VersionTruthful
    <3>. QED
      BY <1>12, <1>t, <2>3, <3>1, <3>2 DEF Snapshot, VersionTruthful
  <2>7. DbSound'
    BY <1>12, <1>t, <2>1, <2>3, <2>4, <2>6
       DEF Snapshot, DbSound, DbTypeOK, Upgrading, Backing
  <2>. QED
    BY <1>12, <2>5, <2>7 DEF DbInv, RowsStep, Snapshot
<1>13. CASE WriteMetadata
  <2>. DEFINE b == [backups[1] EXCEPT !.meta = TRUE]
  <2>1. Len(backups) >= 1 /\ backups[1] \in Backup /\ backups[1].db = db
    BY <1>13, <1>t DEF WriteMetadata, DbSound
  <2>2. b \in Backup /\ b.db = backups[1].db /\ b.meta
    BY <2>1 DEF Backup
  <2>3. backups' = [backups EXCEPT ![1] = b]
    BY <1>13 DEF WriteMetadata
  <2>. HIDE DEF b
  <2>4. /\ backups' \in Seq(Backup) /\ Len(backups') = Len(backups)
        /\ \A n \in 1 .. Len(backups) : backups'[n] = IF n = 1 THEN b ELSE backups[n]
    BY <1>t, <2>1, <2>2, <2>3, ExceptSeq DEF DbTypeOK
  <2>5. DOMAIN backups' = 1 .. Len(backups)
    BY <2>4, LenProperties
  <2>6. DbTypeOK'
    BY <1>13, <1>t, <2>4 DEF WriteMetadata, DbTypeOK, Stages, Backing
  <2>7. VersionTruthful'
    BY <1>13, <1>t, <2>2, <2>4, <2>5 DEF WriteMetadata, DbSound, VersionTruthful
  <2>8. backups'[1] = b /\ b.db = db
    BY <1>t, <2>1, <2>2, <2>4
  <2>9. DbSound'
    BY <1>13, <1>t, <2>1, <2>2, <2>4, <2>7, <2>8 DEF WriteMetadata, DbSound, Upgrading, Backing
  <2>. QED
    BY <1>13, <2>6, <2>9 DEF DbInv, RowsStep, WriteMetadata
<1>14. CASE Rotate
  <2>1. backups' = Kept
    BY <1>14 DEF Rotate
  <2>2. /\ backups' \in Seq(Backup) /\ Len(backups') \in Nat
        /\ Len(backups') = IF Len(backups) <= KeepLast THEN Len(backups) ELSE KeepLast
        /\ \A n \in 1 .. Len(backups') : backups'[n] = backups[n]
        /\ DOMAIN backups' = 1 .. Len(backups')
    BY <1>t, <2>1, KeptProperties, LenProperties
  <2>3. Len(backups') >= 1 /\ backups'[1] = backups[1] /\ Len(backups') <= Len(backups)
    BY <1>14, <1>t, <2>2, MaintenanceAssumption DEF Rotate, DbSound
  <2>4. backups'[1].db = db /\ backups'[1].meta
    BY <1>14, <1>t, <2>3 DEF Rotate, DbSound
  <2>5. /\ job' \in [task : {"none", "check", "upgrade", "backup", "restore"}, source : Nat]
        /\ job'.source # 0 => job'.task = "restore"
        /\ job'.source <= Len(backups')
        /\ stage' = "change" => job'.task = "upgrade"
        /\ stage' = "replace" => job'.task = "restore"
    <3>1. CASE job.task = "upgrade" /\ stage' = "change" /\ UNCHANGED job
      BY <1>t, <2>2, <3>1 DEF DbTypeOK, DbSound
    <3>2. CASE job.task = "backup" /\ stage' = "ready" /\ job' = NoJob
      BY <1>t, <2>2, <3>2 DEF DbTypeOK, DbSound, NoJob
    <3>3. CASE /\ job.task = "restore" /\ stage' = "replace"
               /\ job' = [job EXCEPT !.source = IF @ > KeepLast THEN 0 ELSE @]
      <4>1. /\ job'.task = "restore" /\ job.source \in Nat
            /\ job'.source = IF job.source > KeepLast THEN 0 ELSE job.source
            /\ job' \in [task : {"none", "check", "upgrade", "backup", "restore"}, source : Nat]
        BY <1>t, <3>3 DEF DbTypeOK
      <4>2. job.source <= Len(backups)
        BY <1>t DEF DbSound
      <4>. QED
        BY <1>t, <2>2, <3>3, <4>1, <4>2, MaintenanceAssumption
    <3>. QED
      BY <1>14, <3>1, <3>2, <3>3 DEF Rotate
  <2>6. stage' \in {"change", "ready", "replace"}
    BY <1>14 DEF Rotate
  <2>7. DbTypeOK'
    BY <1>14, <1>t, <2>2, <2>5, <2>6 DEF Rotate, DbTypeOK, Stages, Upgrading
  <2>8. VersionTruthful'
    BY <1>14, <1>t, <2>2, <2>3 DEF Rotate, DbSound, VersionTruthful, Backing
  <2>9. DbSound'
    <3>1. db' = db /\ \A n \in DOMAIN backups' : n \in DOMAIN backups /\ backups'[n] = backups[n]
      BY <1>14, <1>t, <2>2, <2>3 DEF Rotate
    <3>2. \A n \in DOMAIN backups' : (backups'[n].db.tables = "odd") <=> (db'.tables = "odd")
      BY <1>t, <3>1 DEF DbSound
    <3>3. stage' = "replace" /\ job'.task # "upgrade" => db'.tables # "odd"
      BY <1>14, <1>t, <3>1 DEF Rotate, DbSound, Backing
    <3>. QED
      BY <2>3, <2>4, <2>5, <2>6, <2>8, <3>1, <3>2, <3>3 DEF DbSound, Upgrading, Backing
  <2>. QED
    BY <1>14, <2>7, <2>9 DEF DbInv, RowsStep, Rotate
<1>15. CASE CreateFails
  BY <1>15, <1>t, <1>a, FaultCounts
     DEF CreateFails, Down, NoJob, DbTypeOK, DbSound, Stages, Upgrading
<1>16. CASE Replace
  <2>1. stage' = "ready" /\ job' = NoJob /\ UNCHANGED <<backups, uses>>
        /\ faults' \in 0 .. MaxFaults
    BY <1>16, <1>t, FaultCounts DEF Replace, DbTypeOK
  <2>2. /\ Len(backups) >= 1 /\ backups[1].db = db /\ backups[1].meta
    BY <1>16, <1>t DEF Replace, DbSound
  <2>3. db' \in {db, backups[1].db}
        \/ (job.source # 0 /\ job.source \in 1 .. Len(backups)
              /\ db' = backups[job.source].db)
    <3>1. job.source \in Nat /\ job.source <= Len(backups)
      BY <1>t DEF DbTypeOK, DbSound
    <3>. QED
      BY <1>16, <1>t, <3>1 DEF Replace
  <2>4. db' \in Database /\ Truthful(db')
    BY <1>t, <2>2, <2>3 DEF DbSound, VersionTruthful
  <2>8. db.tables # "odd" /\ db'.tables # "odd"
    BY <1>16, <1>t, <2>2, <2>3 DEF Replace, DbSound, Backing
  <2>5. DbTypeOK'
    BY <1>t, <2>1, <2>4 DEF DbTypeOK, NoJob, Stages
  <2>6. DbSound'
    BY <1>t, <2>1, <2>4, <2>8 DEF DbSound, VersionTruthful, NoJob, Upgrading, Backing
  <2>7. RowsStep
    BY <1>t, <2>1, <2>2 DEF RowsStep, Restorable
  <2>. QED
    BY <2>5, <2>6, <2>7 DEF DbInv
<1>17. CASE BackUp
  BY <1>17, <1>t, <1>a, AskedCounts DEF BackUp, NoJob, DbTypeOK, DbSound, Stages, Upgrading,
     Backing, VersionTruthful
<1>18. CASE Restore
  BY <1>18, <1>t, <1>a, AskedCounts DEF Restore, DbTypeOK, DbSound, Stages, Upgrading,
     Backing, VersionTruthful
<1>19. CASE Write
  <2>1. PICK r \in Rows : db' = [db EXCEPT !.rows = @ \union {r}]
    BY <1>19 DEF Write
  <2>2. db' \in Database
    BY <1>t, <2>1, DbFields
  <2>3. /\ db'.rows = db.rows \union {r} /\ db'.ids = db.ids /\ db'.audit = db.audit
        /\ db'.tables = db.tables /\ db'.version = db.version
    BY <1>t, <2>1 DEF Database
  <2>4. DbTypeOK'
    BY <1>19, <1>t, <2>2, AskedCounts DEF Write, DbTypeOK
  <2>5. DbSound'
    BY <1>19, <1>t, <2>3 DEF Write, DbSound, VersionTruthful, Truthful, Upgrading, Backing
  <2>. QED
    BY <2>3, <2>4, <2>5 DEF DbInv, RowsStep
<1>20. CASE Stop
  BY <1>20, <1>t, <1>a DEF Stop, Down, Counted, NoJob, DbTypeOK, DbSound, Stages, Upgrading
<1>21. CASE Idle
  BY <1>21, <1>t DEF Idle, Counted, DbInv, DbTypeOK, DbSound, RowsStep, VersionTruthful
<1>. QED
  BY <1>1, <1>2, <1>3, <1>4, <1>5, <1>6, <1>7, <1>8, <1>9, <1>10, <1>11, <1>12, <1>13,
     <1>14, <1>15, <1>16, <1>17, <1>18, <1>19, <1>20, <1>21, <1>22
     DEF DbMove, Upgrade, Maintain, Use

----------------------------------------------------------------------------
(* The launch guard.                                                       *)

GuardTypeOK ==
  /\ launches \in Seq(Outcomes) /\ Len(launches) <= MaxRecords
  /\ recent \in 0 .. Len(launches)
  /\ current \in 0 .. 1 /\ current <= Len(launches)
  /\ safe \in BOOLEAN
  /\ screen \in {"none", "dialog", "accepted", "window"}
  /\ died \subseteq 1 .. Len(launches)

\* A launch that died is, or will at the next start be, on record as failed.
GuardSound ==
  /\ \A n \in died : n >= 2 => launches[n] \in {"crashed", "interrupted"}
  /\ 1 \in died => current = 0 /\ launches[1] \in {"running", "crashed", "interrupted"}
  /\ current = 1 => launches[1] \in {"running", "crashed"}

GuardInv == GuardTypeOK /\ GuardSound

\* Marking the current launch, its end, and the rest.
MarkMove ==
  \/ UNCHANGED <<launches, recent, current, safe, died>>
  \/ launches' = << >> /\ recent' = 0 /\ current' = 0 /\ died' = {} /\ safe' = safe
  \/ Finish("crashed") /\ UNCHANGED <<recent, current, safe, died>>
  \/ recent > 0 /\ recent' = recent - 1 /\ UNCHANGED <<launches, current, safe, died>>

GuardBegin ==
  /\ safe' \in BOOLEAN
  /\ launches' = Newest(<<"running">> \o Interrupted)
  /\ recent' = Shorter(recent + 1, MaxRecords)
  /\ current' = 1
  /\ died' = Aged(died)
  /\ UNCHANGED screen

GuardMove ==
  \/ GuardBegin \/ Dies \/ Ends("clean") \/ Ends("safe_mode")
  \/ MarkMove /\ screen' \in {"none", "dialog", "accepted", "window"}

\* The history that a start writes.
LEMMA BegunProperties ==
  ASSUME GuardTypeOK
  PROVE  LET s == Newest(<<"running">> \o Interrupted) IN
         /\ s \in Seq(Outcomes)
         /\ Len(s) = Shorter(Len(launches) + 1, MaxRecords)
         /\ s[1] = "running"
         /\ \A n \in 2 .. Len(s) :
              n - 1 \in 1 .. Len(launches)
              /\ s[n] = IF launches[n - 1] = "running" THEN "interrupted" ELSE launches[n - 1]
<1>. DEFINE i == Interrupted
            t == <<"running">> \o i
<1>1. /\ Len(launches) \in Nat /\ DOMAIN launches = 1 .. Len(launches)
      /\ launches \in [1 .. Len(launches) -> Outcomes]
      /\ MaxRecords \in Nat /\ MaxRecords >= 1
  BY LenProperties, StartupAssumption DEF GuardTypeOK
<1>2. /\ i \in [1 .. Len(launches) -> Outcomes]
      /\ \A n \in 1 .. Len(launches) :
           i[n] = IF launches[n] = "running" THEN "interrupted" ELSE launches[n]
  BY <1>1 DEF Interrupted, Outcomes
<1>3. i \in Seq(Outcomes) /\ Len(i) = Len(launches)
  <2>1. i \in Seq(Outcomes)
    BY <1>1, <1>2, SeqDef
  <2>2. DOMAIN i = 1 .. Len(i) /\ Len(i) \in Nat
    BY <2>1, LenProperties
  <2>. HIDE DEF i
  <2>3. 1 .. Len(i) = 1 .. Len(launches)
    BY <1>2, <2>2
  <2>. DEFINE a == Len(i)
              b == Len(launches)
  <2>4. a \in Nat /\ b \in Nat /\ 1 .. a = 1 .. b
    BY <1>1, <2>2, <2>3
  <2>. HIDE DEF a, b
  <2>5. (a \in 1 .. a \/ a = 0) /\ (b \in 1 .. b \/ b = 0)
    BY <2>4
  <2>6. (a \in 1 .. b \/ a = 0) /\ (b \in 1 .. a \/ b = 0)
    BY <2>4, <2>5
  <2>7. a = b
    BY <2>4, <2>6
  <2>. QED
    BY <2>1, <2>7 DEF a, b
<1>. HIDE DEF i
<1>4. /\ <<"running">> \in Seq(Outcomes) /\ Len(<<"running">>) = 1
      /\ <<"running">>[1] = "running"
  BY DEF Outcomes
<1>5. /\ t \in Seq(Outcomes) /\ Len(t) = Len(launches) + 1 /\ t[1] = "running"
      /\ \A n \in 2 .. Len(t) : t[n] = i[n - 1]
  BY <1>1, <1>3, <1>4, ConcatProperties
<1>. DEFINE m == Shorter(Len(t), MaxRecords)
            s == SubSeq(t, 1, m)
<1>. HIDE DEF t
<1>6. m \in Nat /\ m >= 1 /\ m <= Len(t) /\ m = Shorter(Len(launches) + 1, MaxRecords)
  BY <1>1, <1>5 DEF Shorter
<1>. HIDE DEF m
<1>7. s \in Seq(Outcomes) /\ Len(s) = m /\ \A n \in 1 .. m : s[n] = t[n]
  <2>1. \A n \in 1 .. m : t[n] \in Outcomes
    BY <1>5, <1>6, ElementOfSeq
  <2>. QED
    BY <1>6, <2>1, SubSeqProperties
<1>8. Newest(<<"running">> \o Interrupted) = s
  BY DEF Newest, s, m, t, i
<1>. HIDE DEF s
<1>9. \A n \in 2 .. Len(s) :
        /\ n - 1 \in 1 .. Len(launches)
        /\ s[n] = IF launches[n - 1] = "running" THEN "interrupted" ELSE launches[n - 1]
  BY <1>1, <1>2, <1>5, <1>6, <1>7
<1>. QED
  BY <1>5, <1>6, <1>7, <1>8, <1>9

LEMMA GuardStep ==
  ASSUME GuardInv, GuardMove
  PROVE  GuardInv'
<1>t. /\ GuardTypeOK /\ GuardSound
      /\ Len(launches) \in Nat /\ DOMAIN launches = 1 .. Len(launches)
      /\ MaxRecords \in Nat /\ MaxRecords >= 2
  BY LenProperties, StartupAssumption DEF GuardInv, GuardTypeOK
<1>1. CASE GuardBegin
  <2>1. /\ launches' \in Seq(Outcomes)
        /\ Len(launches') = Shorter(Len(launches) + 1, MaxRecords)
        /\ launches'[1] = "running"
        /\ \A n \in 2 .. Len(launches') :
             n - 1 \in 1 .. Len(launches)
             /\ launches'[n] = IF launches[n - 1] = "running" THEN "interrupted"
                               ELSE launches[n - 1]
    BY <1>1, <1>t, BegunProperties DEF GuardBegin
  <2>2. \A n \in died' : n \in 2 .. Len(launches') /\ n - 1 \in died
    BY <1>1, <1>t, <2>1 DEF GuardBegin, GuardTypeOK, Aged, Shorter
  <2>3. GuardTypeOK'
    BY <1>1, <1>t, <2>1, <2>2 DEF GuardBegin, GuardTypeOK, Shorter
  <2>4. \A n \in died' : launches'[n] \in {"crashed", "interrupted"}
    <3>1. SUFFICES ASSUME NEW n \in died'
                   PROVE  launches'[n] \in {"crashed", "interrupted"}
      OBVIOUS
    <3>2. n - 1 \in died /\ n \in 2 .. Len(launches') /\ n - 1 \in 1 .. Len(launches)
      BY <2>2, <1>t DEF GuardTypeOK
    <3>3. launches[n - 1] \in {"running", "crashed", "interrupted"}
      BY <1>t, <3>2 DEF GuardSound
    <3>. QED
      BY <2>1, <3>2, <3>3
  <2>5. GuardSound'
    BY <1>1, <2>1, <2>2, <2>4 DEF GuardBegin, GuardSound
  <2>. QED
    BY <2>3, <2>5 DEF GuardInv
<1>f. ASSUME NEW outcome \in Outcomes, Finish(outcome)
      PROVE  /\ launches' \in Seq(Outcomes) /\ Len(launches') = Len(launches)
             /\ \A n \in 1 .. Len(launches) :
                  launches'[n] = IF current = n THEN outcome ELSE launches[n]
  <2>1. CASE current = 0
    BY <1>f, <1>t, <2>1 DEF Finish, GuardTypeOK
  <2>2. CASE current = 1
    BY <1>f, <1>t, <2>2, ExceptSeq DEF Finish, GuardTypeOK
  <2>. QED
    BY <1>t, <2>1, <2>2 DEF GuardTypeOK
<1>2. CASE Dies
  BY <1>2, <1>t DEF Dies, GuardInv, GuardTypeOK, GuardSound
<1>3. ASSUME NEW outcome \in Outcomes, Ends(outcome)  PROVE GuardInv'
  <2>1. Finish(outcome)
    BY <1>3 DEF Ends
  <2>2. /\ launches' \in Seq(Outcomes) /\ Len(launches') = Len(launches)
        /\ \A n \in 1 .. Len(launches) :
             launches'[n] = IF current = n THEN outcome ELSE launches[n]
    BY <1>f, <2>1
  <2>. QED
    BY <1>3, <1>t, <2>2 DEF Ends, GuardInv, GuardTypeOK, GuardSound
<1>4. CASE MarkMove /\ screen' \in {"none", "dialog", "accepted", "window"}
  <2>1. CASE UNCHANGED <<launches, recent, current, safe, died>>
    BY <1>4, <1>t, <2>1 DEF GuardInv, GuardTypeOK, GuardSound
  <2>2. CASE launches' = << >> /\ recent' = 0 /\ current' = 0 /\ died' = {} /\ safe' = safe
    <3>1. launches' \in Seq(Outcomes) /\ Len(launches') = 0
      BY <2>2, EmptySeq
    <3>. QED
      BY <1>4, <1>t, <2>2, <3>1 DEF GuardInv, GuardTypeOK, GuardSound
  <2>3. CASE Finish("crashed") /\ UNCHANGED <<recent, current, safe, died>>
    <3>1. /\ launches' \in Seq(Outcomes) /\ Len(launches') = Len(launches)
          /\ \A n \in 1 .. Len(launches) :
               launches'[n] = IF current = n THEN "crashed" ELSE launches[n]
      BY <2>3, <1>f DEF Outcomes
    <3>. QED
      BY <1>4, <1>t, <2>3, <3>1 DEF GuardInv, GuardTypeOK, GuardSound
  <2>4. CASE recent > 0 /\ recent' = recent - 1 /\ UNCHANGED <<launches, current, safe, died>>
    BY <1>4, <1>t, <2>4 DEF GuardInv, GuardTypeOK, GuardSound
  <2>. QED
    BY <1>4, <2>1, <2>2, <2>3, <2>4 DEF MarkMove
<1>. QED
  BY <1>1, <1>2, <1>3, <1>4 DEF GuardMove, Outcomes

----------------------------------------------------------------------------
(* The start as a whole.                                                   *)

Inv == DbInv /\ GuardInv

LEMMA InitInv == Init => Inv
<1>. SUFFICES ASSUME Init  PROVE Inv
  OBVIOUS
<1>1. DbInv
  BY DbInitial DEF Init
<1>2. launches \in Seq(Outcomes) /\ Len(launches) = 0
  BY EmptySeq DEF Init
<1>0. recent = 0 /\ current = 0 /\ safe = FALSE /\ screen = "none" /\ died = {}
  BY DEF Init
<1>3. GuardTypeOK
  <2>1. Len(launches) <= MaxRecords
    BY <1>2, StartupAssumption
  <2>2. recent \in 0 .. Len(launches) /\ current \in 0 .. 1 /\ current <= Len(launches)
    BY <1>0, <1>2
  <2>3. safe \in BOOLEAN /\ screen \in {"none", "dialog", "accepted", "window"}
    BY <1>0
  <2>4. died \subseteq 1 .. Len(launches)
    BY <1>0
  <2>. QED
    BY <1>2, <2>1, <2>2, <2>3, <2>4 DEF GuardTypeOK
<1>4. GuardSound
  BY DEF Init, GuardSound
<1>. QED
  BY <1>1, <1>3, <1>4 DEF Inv, GuardInv

LEMMA InvTypeOK == Inv => TypeOK
<1>. SUFFICES ASSUME Inv  PROVE TypeOK
  OBVIOUS
<1>1. DOMAIN launches = 1 .. Len(launches)
  BY LenProperties DEF Inv, GuardInv, GuardTypeOK
<1>. QED
  BY <1>1 DEF Inv, DbInv, GuardInv, GuardTypeOK, TypeOK

\* Every step is a move of the database and a move of the guard.
LEMMA Moves ==
  ASSUME Inv, [Next]_vars
  PROVE  DbMove /\ (GuardMove \/ UNCHANGED guardVars)
<1>t. DbTypeOK /\ screen \in {"none", "dialog", "accepted", "window"}
  BY DEF Inv, DbInv, GuardInv, GuardTypeOK
<1>c. faults \in 0 .. MaxFaults /\ uses \in 0 .. MaxUses
  BY <1>t DEF DbTypeOK
<1>1. CASE Start
  BY <1>1 DEF Start, DbMove, GuardMove, GuardBegin
<1>2. CASE DatabaseStep
  BY <1>2 DEF DatabaseStep, DbMove, GuardMove
<1>3. CASE ShowDialog \/ DialogNormal \/ ShowWindow
  BY <1>3, <1>c DEF ShowDialog, DialogNormal, ShowWindow, dbVars, DbMove, Idle, Counted,
     GuardMove, MarkMove
<1>4. CASE DialogReset
  BY <1>4, <1>c, <1>t DEF DialogReset, dbVars, DbMove, Idle, Counted, GuardMove, MarkMove
<1>5. CASE DialogClose
  BY <1>5, <1>c DEF DialogClose, Quit, DbMove, Stop, Counted, GuardMove
<1>6. CASE WindowFails
  BY <1>6, <1>c, <1>t, FaultCounts DEF WindowFails, DbMove, Stop, Counted, GuardMove
<1>7. CASE WindowUse
  BY <1>7 DEF WindowUse, DbMove
<1>8. CASE Uncaught
  BY <1>8, <1>c, <1>t, FaultCounts DEF Uncaught, DbMove, Idle, Counted, GuardMove, MarkMove
<1>9. CASE Exit
  BY <1>9, <1>c DEF Exit, Quit, DbMove, Stop, Counted, GuardMove
<1>10. CASE Killed
  BY <1>10, <1>c, <1>t, FaultCounts DEF Killed, Die, DbMove, Stop, Counted, GuardMove
<1>11. CASE TimePasses
  BY <1>11, <1>c, <1>t DEF TimePasses, dbVars, DbMove, Idle, Counted, GuardMove, MarkMove
<1>12. CASE UNCHANGED vars
  BY <1>12, <1>c DEF vars, guardVars, DbMove, Idle, Counted
<1>. QED
  BY <1>1, <1>2, <1>3, <1>4, <1>5, <1>6, <1>7, <1>8, <1>9, <1>10, <1>11, <1>12 DEF Next

LEMMA InvStep == Inv /\ [Next]_vars => Inv'
<1>. SUFFICES ASSUME Inv, [Next]_vars  PROVE Inv'
  OBVIOUS
<1>1. DbInv'
  BY Moves, DbStep DEF Inv
<1>2. CASE GuardMove
  BY <1>1, <1>2, GuardStep DEF Inv
<1>3. CASE UNCHANGED guardVars
  BY <1>1, <1>3 DEF Inv, GuardInv, GuardTypeOK, GuardSound, guardVars
<1>. QED
  BY <1>1, <1>2, <1>3, Moves DEF Inv

LEMMA Invariance == Spec => []Inv
BY InitInv, InvStep, PTL DEF Spec

\* Database, backups and launch history keep the shape the code gives them.
THEOREM TypeCorrect == Spec => []TypeOK
BY Invariance, InvTypeOK, PTL

\* A database, and a backup of any age, that claims the present version has the
\* present schema.
THEOREM VersionIsTruthful == Spec => []VersionTruthful
<1>1. Inv => VersionTruthful
  BY DEF Inv, DbInv, DbSound
<1>. QED
  BY Invariance, <1>1, PTL

\* No step removes a record that no restorable backup has, for any number of
\* records, kept backups, faults and requests.
THEOREM RecordsKept == Spec => RowsKept
<1>1. Inv /\ [Next]_vars => [\A r \in db.rows : r \in db'.rows \/ Restorable(r)']_dbVars
  BY Moves, DbStep DEF Inv, RowsStep
<1>. QED
  BY Invariance, <1>1, PTL DEF Spec, RowsKept

\* Repeated deaths are seen, for any threshold and any length of the history.
THEOREM CrashLoopsSeen == Spec => CrashLoopSeen
<1>1. ASSUME Inv, Start, Cardinality(died \intersect (2 .. recent)) >= Threshold
      PROVE  safe'
  <2>. DEFINE D == died \intersect (2 .. recent)
              R == RecentCrashes
  <2>1. recent \in Nat
    BY <1>1, LenProperties DEF Inv, GuardInv, GuardTypeOK
  <2>2. D \subseteq R
    BY <1>1, <2>1 DEF Inv, GuardInv, GuardSound, RecentCrashes
  <2>3. IsFiniteSet(R)
    <3>1. IsFiniteSet(1 .. recent)
      BY <2>1, FS_Interval
    <3>2. R \in SUBSET (1 .. recent)
      BY DEF RecentCrashes
    <3>. QED
      BY <3>1, <3>2, FS_Subset
  <2>4. Cardinality(D) <= Cardinality(R) /\ IsFiniteSet(D)
    BY <2>2, <2>3, FS_Subset
  <2>5. Cardinality(R) \in Nat /\ Cardinality(D) \in Nat
    BY <2>3, <2>4, FS_CardinalityType
  <2>. HIDE DEF D, R
  <2>6. Cardinality(D) >= Threshold
    BY <1>1 DEF D
  <2>7. Cardinality(R) >= Threshold
    BY <2>4, <2>5, <2>6, StartupAssumption
  <2>. QED
    BY <1>1, <2>7 DEF Start, R
<1>2. Inv /\ [Next]_vars =>
        [Start => (Cardinality(died \intersect (2 .. recent)) >= Threshold => safe')]_vars
  BY <1>1
<1>. QED
  BY Invariance, <1>2, PTL DEF Spec, CrashLoopSeen
=============================================================================

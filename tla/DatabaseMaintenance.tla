------------------------- MODULE DatabaseMaintenance -------------------------
(***************************************************************************)
(* The main SQLite database of the application: the upgrade of its schema  *)
(* at every start (MigrationManager.upgrade inside                         *)
(* initialize_database_pipeline) and its backups (BackupManager: create,   *)
(* rotate, verify, restore), with the process dying between any two        *)
(* durable steps.                                                          *)
(*                                                                         *)
(* A SQLite transaction and a backup-API copy are atomic: rolled back when *)
(* the process dies inside them.  One process uses the database.           *)
(***************************************************************************)
EXTENDS Integers, Sequences

CONSTANTS
  Rows,      \* records: tenders, their documents and analyses
  Orphans,   \* those of them whose tender is gone
  KeepLast,  \* keep_last: backups a rotation keeps
  MaxFaults, \* bound: failed steps and deaths of the process
  MaxUses    \* bound: backups, restores and writes the user asks for

ASSUME MaintenanceAssumption ==
  /\ Orphans \subseteq Rows
  /\ KeepLast \in Nat \ {0}
  /\ MaxFaults \in Nat /\ MaxUses \in Nat

Current == 1   \* CURRENT_SCHEMA_VERSION; 0 is any older, 2 any newer version

\* The database as far as an upgrade looks at it: integer or UUID keys, audit
\* columns complete, tables and indexes (missing, present, or a table of another
\* structure under a name of the schema), version, leftover _v2 tables of an
\* interrupted rebuild, and the user's records.
Database == [ids : {"int", "uuid"}, audit : BOOLEAN,
             tables : {"missing", "present", "odd"},
             version : 0 .. 2, leftover : BOOLEAN, rows : SUBSET Rows]

Backup == [db : Database, meta : BOOLEAN]   \* meta: its JSON file exists

VARIABLES
  db,       \* the database file
  backups,  \* backup files, newest first
  stage,    \* where the process is
  job,      \* what it is doing, and the backup being restored (0: deleted)
  faults,   \* faults so far (bounds the run)
  uses      \* what the user asked for so far (bounds the run)

dbVars == <<db, backups, stage, job, faults, uses>>

Upgrading == {"change", "copy", "create", "stamp", "verify"}
Backing   == {"snapshot", "metadata", "rotate"}
Stages    == {"down", "open", "undo", "health", "ready", "replace"}
               \union Upgrading \union Backing

NoJob == [task |-> "none", source |-> 0]

DbTypeOK ==
  /\ db \in Database
  /\ backups \in Seq(Backup)
  /\ stage \in Stages
  /\ job \in [task : {"none", "check", "upgrade", "backup", "restore"}, source : Nat]
  /\ faults \in 0 .. MaxFaults
  /\ uses \in 0 .. MaxUses

Fresh(rows)   == [ids |-> "uuid", audit |-> TRUE, tables |-> "missing", version |-> 0,
                  leftover |-> FALSE, rows |-> rows]
Legacy(rows)  == [Fresh(rows) EXCEPT !.ids = "int", !.audit = FALSE]
NoAudit(rows) == [Fresh(rows) EXCEPT !.audit = FALSE]
Present(rows) == [Fresh(rows) EXCEPT !.tables = "present", !.version = Current]
Newer(rows)   == [Present(rows) EXCEPT !.version = 2]
Odd(d)        == [d EXCEPT !.tables = "odd"]

DbInit ==
  /\ \/ db = Fresh({})
     \/ \E rows \in SUBSET Rows :
          db \in {Legacy(rows), NoAudit(rows), Present(rows), Newer(rows),
                  Odd(Legacy(rows)), Odd(NoAudit(rows))}
  /\ backups = << >>
  /\ stage = "down"
  /\ job = NoJob
  /\ faults = 0 /\ uses = 0

Enter(place) == stage' = place

\* An exception that ends the process, or its end.
Down == stage' = "down" /\ job' = NoJob

Fault == faults < MaxFaults /\ faults' = faults + 1

----------------------------------------------------------------------------
(* upgrade.                                                                *)

\* upgrade looks at the schema as well as at the version.
Changed == db.version < Current \/ db.ids = "int" \/ ~db.audit

Launch ==
  /\ stage = "down"
  /\ Enter("open")
  /\ UNCHANGED <<db, backups, job, faults, uses>>

\* A newer database is refused; one that must change is backed up first; all
\* the steps below are repeated on a database that needs no change too.
Open ==
  /\ stage = "open"
  /\ IF db.version > Current THEN Down
     ELSE IF Changed THEN Enter("snapshot") /\ job' = [NoJob EXCEPT !.task = "upgrade"]
     ELSE Enter("change") /\ job' = [NoJob EXCEPT !.task = "check"]
  /\ UNCHANGED <<db, backups, faults, uses>>

\* _add_missing_audit_columns.
AddAuditColumns ==
  /\ stage = "change" /\ db.ids # "int"
  /\ db' = [db EXCEPT !.audit = TRUE]
  /\ Enter("create")
  /\ UNCHANGED <<backups, job, faults, uses>>

\* Mutant: the tables of an interrupted rebuild are not dropped first, and
\* CREATE TABLE fails on them.
CreateV2_NoDrop ==
  /\ stage = "change" /\ db.ids = "int"
  /\ IF db.leftover
     THEN Enter("undo") /\ UNCHANGED db
     ELSE Enter("copy") /\ db' = [db EXCEPT !.leftover = TRUE]
  /\ UNCHANGED <<backups, job, faults, uses>>

\* _rebuild_legacy_tables up to _create_v2_tables: executescript commits what is
\* open, so the empty _v2 tables survive when the process dies here.
CreateV2 ==
  /\ stage = "change" /\ db.ids = "int"
  /\ db' = [db EXCEPT !.leftover = TRUE]
  /\ Enter("copy")
  /\ UNCHANGED <<backups, job, faults, uses>>

\* The rest of it, one transaction from the first INSERT on: copy under UUID
\* keys all but the documents and analyses without a tender, drop, rename.
\* (Without records each statement commits by itself; a repeated start completes
\* what is then missing.)
CopyRows ==
  /\ stage = "copy"
  /\ db' = [db EXCEPT !.ids = "uuid", !.audit = TRUE, !.leftover = FALSE,
                      !.rows = @ \ Orphans]
  /\ Enter("create")
  /\ UNCHANGED <<backups, job, faults, uses>>

\* create_all and _create_indexes add what is missing; a table that is there,
\* whatever its columns, they leave as it is.
CreateTables ==
  /\ stage = "create"
  /\ db' = [db EXCEPT !.tables = IF @ = "odd" THEN "odd" ELSE "present"]
  /\ Enter("stamp")
  /\ UNCHANGED <<backups, job, faults, uses>>

SetVersion ==
  /\ stage = "stamp"
  /\ db' = [db EXCEPT !.version = Current]
  /\ Enter("verify")
  /\ UNCHANGED <<backups, job, faults, uses>>

\* Mutant: the columns are not looked at.
Verified_Blind ==
  /\ stage = "verify"
  /\ Enter("health") /\ job' = NoJob
  /\ UNCHANGED <<db, backups, faults, uses>>

\* _verify passes, the history row is written.
Verified ==
  /\ stage = "verify" /\ db.tables = "present"
  /\ Enter("health") /\ job' = NoJob
  /\ UNCHANGED <<db, backups, faults, uses>>

\* _verify finds a table of another structure; the version is stamped by now.
VerifyRejects ==
  /\ stage = "verify" /\ db.tables # "present"
  /\ Enter("undo")
  /\ UNCHANGED <<db, backups, job, faults, uses>>

\* Any of the steps raises.
UpgradeFails ==
  /\ stage \in Upgrading
  /\ Fault
  /\ Enter("undo")
  /\ UNCHANGED <<db, backups, job, uses>>

\* The except clause puts the backup back, when one was made and that works;
\* MigrationError ends the program.
Undo ==
  /\ stage = "undo"
  /\ Down
  /\ \/ /\ db' = IF job.task = "upgrade" THEN backups[1].db ELSE db
        /\ UNCHANGED faults
     \/ job.task = "upgrade" /\ Fault /\ UNCHANGED db
  /\ UNCHANGED <<backups, uses>>

\* Health check and seed after the upgrade.
HealthCheck ==
  /\ stage = "health"
  /\ \/ Enter("ready") /\ UNCHANGED <<job, faults>>
     \/ Fault /\ Down
  /\ UNCHANGED <<db, backups, uses>>

----------------------------------------------------------------------------
(* BackupManager.                                                          *)

\* _snapshot: a complete file under its final name, not yet with metadata.
Snapshot ==
  /\ stage = "snapshot"
  /\ backups' = <<[db |-> db, meta |-> FALSE]>> \o backups
  /\ job' = [job EXCEPT !.source = IF @ = 0 THEN 0 ELSE @ + 1]
  /\ Enter("metadata")
  /\ UNCHANGED <<db, faults, uses>>

\* Without its JSON file a backup counts for the rotation but fails verify.
WriteMetadata ==
  /\ stage = "metadata"
  /\ backups' = [backups EXCEPT ![1].meta = TRUE]
  /\ Enter("rotate")
  /\ UNCHANGED <<db, job, faults, uses>>

\* Mutant: the list is taken from the wrong end.
Kept_Oldest ==
  IF Len(backups) <= KeepLast THEN backups
  ELSE SubSeq(backups, Len(backups) - KeepLast + 1, Len(backups))

\* The newest keep_last files, of whatever reason.
Kept == IF Len(backups) <= KeepLast THEN backups ELSE SubSeq(backups, 1, KeepLast)

\* _rotate, the end of create; the backup being restored may be the one deleted.
Rotate ==
  /\ stage = "rotate"
  /\ backups' = Kept
  /\ \/ job.task = "upgrade" /\ Enter("change") /\ UNCHANGED job
     \/ job.task = "backup" /\ Enter("ready") /\ job' = NoJob
     \/ /\ job.task = "restore" /\ Enter("replace")
        /\ job' = [job EXCEPT !.source = IF @ > KeepLast THEN 0 ELSE @]
  /\ UNCHANGED <<db, faults, uses>>

\* create raises: the upgrade has not begun and the program ends, or the user
\* is told.
CreateFails ==
  /\ stage \in Backing
  /\ Fault
  /\ IF job.task = "upgrade" THEN Down ELSE Enter("ready") /\ job' = NoJob
  /\ UNCHANGED <<db, backups, uses>>

Asked == uses < MaxUses /\ uses' = uses + 1

BackUp ==
  /\ stage = "ready" /\ Asked
  /\ Enter("snapshot") /\ job' = [NoJob EXCEPT !.task = "backup"]
  /\ UNCHANGED <<db, backups, faults>>

\* restore accepts a file that verify accepts, and makes a safety copy first.
Restore ==
  /\ stage = "ready" /\ Asked
  /\ \E n \in DOMAIN backups :
       backups[n].meta /\ job' = [task |-> "restore", source |-> n]
  /\ Enter("snapshot")
  /\ UNCHANGED <<db, backups, faults>>

\* _restore_sqlite, and the safety copy when it fails (its source is gone, or
\* any other reason).
Replace ==
  /\ stage = "replace"
  /\ \/ /\ job.source # 0
        /\ db' = backups[job.source].db
        /\ UNCHANGED faults
     \/ /\ job.source = 0
        /\ db' = backups[1].db
        /\ UNCHANGED faults
     \/ /\ Fault
        /\ db' \in {db, backups[1].db}
  /\ Enter("ready") /\ job' = NoJob
  /\ UNCHANGED <<backups, uses>>

----------------------------------------------------------------------------
(* The running program.                                                    *)

Write ==
  /\ stage = "ready" /\ Asked
  /\ \E r \in Rows \ (db.rows \union Orphans) : db' = [db EXCEPT !.rows = @ \union {r}]
  /\ UNCHANGED <<backups, stage, job, faults>>

Quit ==
  /\ stage = "ready"
  /\ Down
  /\ UNCHANGED <<db, backups, faults, uses>>

Die ==
  /\ stage # "down"
  /\ Fault
  /\ Down
  /\ UNCHANGED <<db, backups, uses>>

Upgrade ==
  \/ Open \/ AddAuditColumns \/ CreateV2 \/ CopyRows \/ CreateTables \/ SetVersion
  \/ Verified \/ VerifyRejects \/ UpgradeFails \/ Undo \/ HealthCheck
Maintain == Snapshot \/ WriteMetadata \/ Rotate \/ CreateFails \/ Replace
Use      == BackUp \/ Restore \/ Write

----------------------------------------------------------------------------
(* Properties.                                                             *)

Restorable(r) ==
  \E n \in DOMAIN backups : backups[n].meta /\ r \in backups[n].db.rows

\* No step of an upgrade, a rotation or a restore removes a record from the
\* database unless a backup that restore accepts has it: "without loss of user
\* data".  (The rebuild of a legacy database leaves documents and analyses
\* without a tender behind.)
RowsKept == [][\A r \in db.rows : r \in db'.rows \/ Restorable(r)']_dbVars

Truthful(d) ==
  d.version = Current => d.ids = "uuid" /\ d.audit /\ d.tables # "missing"

\* A database that claims the present version has been through every step of the
\* upgrade, also one that was interrupted, put back or restored from a backup of
\* any age; and since the claim is stamped before _verify, a database with a
\* table of another structure may carry it, but the program never uses one.
VersionTruthful ==
  /\ Truthful(db)
  /\ \A n \in DOMAIN backups : Truthful(backups[n].db)
  /\ stage \in {"health", "ready"} => db.tables # "odd"

\* A start that is repeated completes, wherever an earlier one was interrupted,
\* unless the database is of a newer version or _verify has to reject it.
StartCompletes ==
  (stage = "open")
    ~> (stage = "ready" \/ db.version > Current \/ db.tables = "odd")

\* BackupManager "safely restores": the backup that is being restored exists.
RestoreKeepsItsSource == stage = "replace" => job.source # 0
=============================================================================

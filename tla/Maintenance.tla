---------------------------- MODULE Maintenance -----------------------------
(***************************************************************************)
(* Backups of batches (batch_backup.py, backup_utils.py) and of a database *)
(* (database.py), and the script that brings one to version 2.3.0.         *)
(***************************************************************************)
EXTENDS Naturals, Sequences, FiniteSets, FiniteSetsExt

(***************************************************************************)
(* Backup files, and what is made of them: chains of operations of the     *)
(* batch manager (batch_backup.py), the manager that removes old files     *)
(* (backup_utils.py), and the restoring of a database, statement by        *)
(* statement, over the engine's one current database (restore_commands.py).*)
(***************************************************************************)

CONSTANTS
  BKFiles,
  BKDatabases,
  BKSource,  \* the database of the files that were made elsewhere, with tables and rows in them
  BKRows,    \* the rows such a file has of its table
  BKKeep,    \* keep_count
  BKChains,  \* the chains: sequences of [type, file, compress, verify, goOn]
  BKTime,    \* bound: files written
  BKRuns     \* bound: databases restored

ASSUME BKAssumption == BKSource \in BKDatabases /\ {BKRows, BKKeep, BKTime, BKRuns} \subseteq Nat /\ BKRows > 0

VARIABLES
  bkFiles,    \* of each file: its form, the time of its last change, and whether the manager made it
  bkTime,
  bkChain,    \* the chain that runs: its step, operations and results, and history: the files that
              \* it wrote and nobody replaced
  bkCleaner,  \* the files cleanup_old_backups has still to remove
  bkRenewed,  \* history: the files written since those were listed
  bkEngine,   \* the database in use, whether a transaction is open, and what each database has:
              \* its table or not, and how many rows
  bkPending,  \* the rows of the open transaction
  bkRestore   \* a restore: its step, the rows done, the rows the database had before, how many
              \* there were, and history: whether a client of the engine came between its steps

bkVars == <<bkFiles, bkTime, bkChain, bkCleaner, bkRenewed, bkEngine, bkPending, bkRestore>>

BKNone == [form |-> "none", time |-> 0]
BKNoChain == [at |-> "idle", ops |-> <<>>, results |-> <<>>, own |-> {}]
BKNoRestore == [at |-> "idle", done |-> 0, before |-> 0, runs |-> 0, mixed |-> FALSE]

BKInit ==
  /\ bkFiles = [f \in BKFiles |-> BKNone] /\ bkTime = 0
  /\ bkChain = BKNoChain /\ bkCleaner = {} /\ bkRenewed = {}
  /\ bkEngine \in [current : BKDatabases, open : {FALSE}, rows : [BKDatabases -> {0}]]
  /\ bkPending = 0 /\ bkRestore = BKNoRestore

\* Mutant of BKWritten: the file keeps its time.
BKWrittenOld(f, form) == bkFiles' = [bkFiles EXCEPT ![f].form = form]

\* A file is written: only its beginning is there, "torn", or all of it.
BKWritten(f, form) == bkFiles' = [bkFiles EXCEPT ![f] = [form |-> form, time |-> bkTime + 1]]

BKReadable(f) == bkFiles[f].form \in {"batch", "full"}

\* A whole file with tables is put in the directory by someone else.
BKArrive(f) ==
  /\ bkTime < BKTime /\ bkTime' = bkTime + 1 /\ BKWritten(f, "full")
  /\ bkRenewed' = bkRenewed \cup {f} /\ bkChain' = [bkChain EXCEPT !.own = @ \ {f}]
  /\ UNCHANGED <<bkCleaner, bkEngine, bkPending, bkRestore>>

-----------------------------------------------------------------------------
(* The batch manager's chains. *)

\* verify_backup_integrity, which looks for the schema and the rows of each table: what the batch
\* manager writes lists the names of the tables there, and no file that is not compressed is read.
BKSound(f) == bkFiles[f].form = "full"

\* Mutant of BKForm: the tables are written as they are expected.
BKFormFull(compress) == IF compress THEN "full" ELSE "plain"

BKForm(compress) == IF compress THEN "batch" ELSE "plain"

BKBegin(ops) ==
  /\ bkChain.at = "idle" /\ bkChain' = [at |-> "runs", ops |-> ops, results |-> <<>>, own |-> {}]
  /\ UNCHANGED <<bkFiles, bkTime, bkCleaner, bkRenewed, bkEngine, bkPending, bkRestore>>

BKOp == bkChain.ops[Len(bkChain.results) + 1]

\* Mutant of BKStops: the next operation follows a failed one.
BKStopsNot(op, ok) == FALSE

BKStops(op, ok) == ~ok /\ ~op.goOn

\* An operation returns, which may be the last one of the chain.
BKReturns(ok, written) ==
  LET results == Append(bkChain.results, ok)
  IN  bkChain' = [bkChain EXCEPT !.results = results, !.own = @ \cup written,
                    !.at = IF BKStops(BKOp, ok) \/ Len(results) = Len(bkChain.ops) THEN "ended" ELSE "runs"]

BKOpen ==
  /\ bkChain.at = "runs" /\ BKOp.type = "backup" /\ bkTime < BKTime
  /\ bkTime' = bkTime + 1 /\ BKWritten(BKOp.file, "torn")
  /\ bkChain' = [bkChain EXCEPT !.at = "writes"]
  /\ bkRenewed' = bkRenewed \cup {BKOp.file}
  /\ UNCHANGED <<bkCleaner, bkEngine, bkPending, bkRestore>>

\* The rest is written, or fails, which leaves the torn file; it fails if the file was removed.
BKClose ==
  /\ bkChain.at = "writes"
  /\ \/ bkFiles[BKOp.file].form # "none" /\ BKReturns(TRUE, {BKOp.file})
        /\ bkFiles' = [bkFiles EXCEPT ![BKOp.file].form = BKForm(BKOp.compress)]
        /\ bkRenewed' = bkRenewed \cup {BKOp.file}
     \/ BKReturns(FALSE, {}) /\ UNCHANGED <<bkFiles, bkRenewed>>
  /\ UNCHANGED <<bkTime, bkCleaner, bkEngine, bkPending, bkRestore>>

\* execute_verify, and execute_restore, which reads the file and restores nothing.
BKRead ==
  /\ bkChain.at = "runs" /\ BKOp.type # "backup"
  /\ BKReturns(BKReadable(BKOp.file) /\ ((BKOp.type = "verify" \/ BKOp.verify) => BKSound(BKOp.file)), {})
  /\ UNCHANGED <<bkFiles, bkTime, bkCleaner, bkRenewed, bkEngine, bkPending, bkRestore>>

BKDone ==
  /\ bkChain.at = "ended" /\ bkChain' = BKNoChain
  /\ UNCHANGED <<bkFiles, bkTime, bkCleaner, bkRenewed, bkEngine, bkPending, bkRestore>>

-----------------------------------------------------------------------------
(* cleanup_old_backups. *)

\* list_backups: only files of which get_backup_info can count the rows, so none that the batch manager
\* wrote, whose tables are a list of names.
BKListed == {f \in BKFiles : bkFiles[f].form = "full"}

\* Mutant of BKOld: the newest come first.
BKOldReversed(f) == Cardinality({g \in BKListed : bkFiles[g].time < bkFiles[f].time}) >= BKKeep

\* BKKeep of those that are listed are newer, or more.
BKOld(f) == Cardinality({g \in BKListed : bkFiles[g].time > bkFiles[f].time}) >= BKKeep

BKClean ==
  /\ bkCleaner = {} /\ bkCleaner' = {f \in BKListed : BKOld(f)} /\ bkRenewed' = {}
  /\ UNCHANGED <<bkFiles, bkTime, bkChain, bkEngine, bkPending, bkRestore>>

BKRemove ==
  \E f \in bkCleaner :
    /\ bkFiles' = [bkFiles EXCEPT ![f] = BKNone] /\ bkCleaner' = bkCleaner \ {f}
    /\ UNCHANGED <<bkTime, bkChain, bkRenewed, bkEngine, bkPending, bkRestore>>

-----------------------------------------------------------------------------
(* restore_database, beside a client of the same engine. *)

\* The client: BEGIN, COMMIT, ROLLBACK, or USE outside a transaction.
BKClient ==
  /\ \/ ~bkEngine.open /\ bkEngine' = [bkEngine EXCEPT !.open = TRUE]
     \/ bkEngine.open /\ bkEngine' = [bkEngine EXCEPT !.open = FALSE, !.rows[bkEngine.current] = @ + bkPending]
     \/ bkEngine.open /\ bkEngine' = [bkEngine EXCEPT !.open = FALSE]
     \/ ~bkEngine.open /\ \E d \in BKDatabases : bkEngine' = [bkEngine EXCEPT !.current = d]
  /\ bkPending' = 0
  /\ bkRestore' = [bkRestore EXCEPT !.mixed = @ \/ bkRestore.at # "idle"]
  /\ UNCHANGED <<bkFiles, bkTime, bkChain, bkCleaner, bkRenewed>>

\* The file is read, and is one of this database.
BKStart(f) ==
  /\ bkRestore.at = "idle" /\ bkFiles[f].form = "full" /\ bkRestore.runs < BKRuns
  /\ bkRestore' = [at |-> "use", done |-> 0, before |-> bkEngine.rows[BKSource], runs |-> bkRestore.runs + 1,
                   mixed |-> bkEngine.open]
  /\ UNCHANGED <<bkFiles, bkTime, bkChain, bkCleaner, bkRenewed, bkEngine, bkPending>>

\* Mutant of BKUsed: the database in use stays.
BKUsedNot == bkEngine.current

\* use_database, whose refusal during a transaction is not looked at.
BKUsed == IF bkEngine.open THEN bkEngine.current ELSE BKSource

BKUse ==
  /\ bkRestore.at = "use"
  /\ bkEngine' = [bkEngine EXCEPT !.current = BKUsed]
  /\ bkRestore' = [bkRestore EXCEPT !.at = "rows"]
  /\ UNCHANGED <<bkFiles, bkTime, bkChain, bkCleaner, bkRenewed, bkPending>>

\* A row is inserted in the table, which has no key of its own: it was made of columns' names, or
\* was there before.
BKRow ==
  /\ bkRestore.at = "rows" /\ bkRestore.done < BKRows
  /\ IF bkEngine.open THEN bkPending' = bkPending + 1 /\ UNCHANGED bkEngine
     ELSE bkEngine' = [bkEngine EXCEPT !.rows[bkEngine.current] = @ + 1] /\ UNCHANGED bkPending
  /\ bkRestore' = [bkRestore EXCEPT !.done = @ + 1]
  /\ UNCHANGED <<bkFiles, bkTime, bkChain, bkCleaner, bkRenewed>>

BKRestored ==
  /\ bkRestore.at = "rows" /\ bkRestore.done = BKRows
  /\ bkRestore' = [BKNoRestore EXCEPT !.runs = bkRestore.runs]
  /\ UNCHANGED <<bkFiles, bkTime, bkChain, bkCleaner, bkRenewed, bkEngine, bkPending>>

BKNext ==
  \/ \E f \in BKFiles : BKArrive(f) \/ BKStart(f)
  \/ (\E ops \in BKChains : BKBegin(ops)) \/ BKOpen \/ BKClose \/ BKRead \/ BKDone
  \/ BKClean \/ BKRemove
  \/ BKClient \/ BKUse \/ BKRow \/ BKRestored

-----------------------------------------------------------------------------
(* Properties. *)

\* Every variable has its type, and every file the time it was written at.
BKTypeOK ==
  /\ \A f \in BKFiles : /\ bkFiles[f].form \in {"none", "torn", "batch", "plain", "full"}
                        /\ bkFiles[f].form # "none" => bkFiles[f].time \in 1..bkTime
  /\ bkTime \in 0..BKTime /\ bkCleaner \subseteq BKFiles /\ bkRestore.done \in 0..BKRows
  /\ bkChain.at \in {"idle", "runs", "writes", "ended"} /\ bkEngine.current \in BKDatabases

\* Only the last operation of a chain failed, but for those that let it go on; and what a chain
\* has written is never found sound.
BKResults ==
  /\ \A i \in 1..Len(bkChain.results) - 1 : bkChain.results[i] \/ bkChain.ops[i].goOn
  /\ \A f \in bkChain.own : ~BKSound(f)

\* As long as nothing is written, what is to be removed is older than as many files as are kept.
BKNewest ==
  bkRenewed = {} => \A f \in bkCleaner :
    Cardinality({g \in BKListed \ bkCleaner : bkFiles[g].time > bkFiles[f].time}) >= BKKeep

\* A restore adds the rows of its file to those of the database, and to no other, if no client of
\* the same engine comes between.
BKIntoItsOwn == bkRestore.at # "idle" /\ ~bkRestore.mixed => bkEngine.rows[BKSource] = bkRestore.before + bkRestore.done

-----------------------------------------------------------------------------
(***************************************************************************)
(* backup_with_snapshot of database.py copies the keys of a snapshot to    *)
(* files while the database is written.  A key is its place in key order.  *)
(***************************************************************************)

CONSTANTS
  SNKeys,      \* numbers
  SNInternal,  \* those that begin with "_": schemas, index entries
  SNMaxWrites  \* bound

VARIABLES
  snData,      \* key |-> the number of the write that put it
  snWrites,    \* writes so far
  snFiles,     \* the backup directory: key |-> value
  snBackup,    \* the backup: its snapshot, the keys that it has copied, how it ended
  snEmpty      \* history: the directory was empty when the backup began

snVars == <<snData, snWrites, snFiles, snBackup, snEmpty>>

SNIdle == [snapshot |-> <<>>, copied |-> {}, status |-> "none"]

SNInit ==
  /\ snData = <<>> /\ snWrites = 0 /\ snFiles = <<>> /\ snBackup = SNIdle /\ snEmpty = TRUE

\* A put, or the write batch of a transaction, which puts and deletes several keys at once.
SNWrite ==
  /\ snWrites < SNMaxWrites
  /\ \E puts \in SUBSET SNKeys, deletes \in SUBSET SNKeys :
       /\ puts \cap deletes = {} /\ puts \cup deletes # {}
       /\ snData' = [k \in (DOMAIN snData \cup puts) \ deletes |-> IF k \in puts THEN snWrites + 1 ELSE snData[k]]
  /\ snWrites' = snWrites + 1
  /\ UNCHANGED <<snFiles, snBackup, snEmpty>>

\* create_snapshot of a backup; the directory keeps the files it has.
SNBegin ==
  /\ snBackup.status # "copying"
  /\ snBackup' = [snapshot |-> snData, copied |-> {}, status |-> "copying"]
  /\ snEmpty' = (snFiles = <<>>)
  /\ UNCHANGED <<snData, snWrites, snFiles>>

\* Mutant of SNSource: the keys come from the database.
SNSourceLive == snData

SNSource == snBackup.snapshot

\* Mutant of SNLeft: internal keys are copied too.
SNLeftAll == {k \in DOMAIN SNSource : \A c \in snBackup.copied : c < k}

SNLeft == {k \in DOMAIN SNSource \ SNInternal : \A c \in snBackup.copied : c < k}

\* The next file; making or writing it may fail, and then the backup is over.
SNCopy ==
  /\ snBackup.status = "copying" /\ SNLeft # {}
  /\ LET k == Min(SNLeft) IN
     \/ /\ snFiles' = [f \in DOMAIN snFiles \cup {k} |-> IF f = k THEN SNSource[k] ELSE snFiles[f]]
        /\ snBackup' = [snBackup EXCEPT !.copied = @ \cup {k}]
     \/ snBackup' = [snBackup EXCEPT !.status = "failed"] /\ UNCHANGED snFiles
  /\ UNCHANGED <<snData, snWrites, snEmpty>>

SNFinish ==
  /\ snBackup.status = "copying" /\ SNLeft = {}
  /\ snBackup' = [snBackup EXCEPT !.status = "ok"]
  /\ UNCHANGED <<snData, snWrites, snFiles, snEmpty>>

SNNext == SNWrite \/ SNBegin \/ SNCopy \/ SNFinish

-----------------------------------------------------------------------------
(* Properties. *)

\* The variables have their types; a backup copies no internal key.
SNTypeOK ==
  /\ DOMAIN snData \subseteq SNKeys /\ \A k \in DOMAIN snData : snData[k] \in 1..snWrites
  /\ DOMAIN snFiles \subseteq SNKeys \ SNInternal /\ snBackup.copied \subseteq DOMAIN snFiles
  /\ snBackup.status \in {"none", "copying", "ok", "failed"} /\ snEmpty \in BOOLEAN

\* A backup that reports success has in its directory, if that was empty, the rows of one moment,
\* no transaction in part, whatever was written while it copied; in any directory it has at least those.
SNOneMoment ==
  snBackup.status = "ok" =>
    LET rows == DOMAIN snBackup.snapshot \ SNInternal IN
    /\ rows \subseteq DOMAIN snFiles /\ \A k \in rows : snFiles[k] = snBackup.snapshot[k]
    /\ snEmpty => DOMAIN snFiles = rows

-----------------------------------------------------------------------------
(***************************************************************************)
(* The script migrations/v2_3_0_batch_commands.py, which brings a database *)
(* to version 2.3.0 and back, one text of SQL and commit at a time.  Every *)
(* text and query may fail and the script may end anywhere, and is run     *)
(* again.  A connection may refuse texts of several statements: sqlite3,   *)
(* which the script opens, does; one that is handed to it may not.         *)
(***************************************************************************)

CONSTANTS VUMaxFaults, VUMaxRuns \* bounds: texts and queries that fail, runs of the script

VARIABLES
  vuSingle,   \* the connection takes one statement at a time
  vuTables,   \* the tables there are
  vuMarker,   \* the version_marker row of schema_migrations, 0 if there is none
  vuVersions, \* the rows of db_version
  vuColumns,  \* the columns for batches that audit_log has, which are added in one order
  vuRun,      \* the script that runs: what it does, its step, and whether it could not read the version
  vuResult,   \* what the last one returned
  vuFaults, vuRuns, \* so far
  vuRolled    \* history: a rollback has been begun

vuVars == <<vuSingle, vuTables, vuMarker, vuVersions, vuColumns, vuRun, vuResult, vuFaults, vuRuns, vuRolled>>

VUTarget == 230

VUBefore == 220

VURequired == {"schema_migrations", "batch_audit_log", "batch_metrics"}

VUNotRunning == [does |-> "nothing", step |-> 0, blind |-> FALSE]

VUInit ==
  /\ vuSingle \in BOOLEAN /\ vuTables \in {{}, {"audit_log"}}
  /\ vuMarker = 0 /\ vuVersions = {} /\ vuColumns = 0
  /\ vuRun = VUNotRunning /\ vuResult = "none" /\ vuFaults = 0 /\ vuRuns = 0 /\ vuRolled = FALSE

VUFault(n) == vuFaults + n <= VUMaxFaults /\ vuFaults' = vuFaults + n

\* _get_current_version: db_version is not asked while there is no schema_migrations; any of its rows may come.
VUCurrent ==
  IF "schema_migrations" \notin vuTables THEN {0}
  ELSE IF vuMarker # 0 THEN {vuMarker} ELSE IF vuVersions # {} THEN vuVersions ELSE {0}

VUReturn(result) == vuRun' = VUNotRunning /\ vuResult' = result

VUGoTo(step) == vuRun' = [vuRun EXCEPT !.step = step] /\ vuResult' = vuResult

VUDatabaseStays == UNCHANGED <<vuSingle, vuTables, vuMarker, vuVersions, vuColumns>>

-----------------------------------------------------------------------------
(* Starting the script. *)

\* Mutant of VUApplicable: the version itself too.
VUApplicableSame(version) == version <= VUTarget

\* is_applicable; no version is 0.
VUApplicable(version) == version < VUTarget

\* run_migration: what is in place is left alone.  A query that fails gives no table, or no version.
VUMigrate ==
  /\ vuRun = VUNotRunning /\ vuRuns < VUMaxRuns
  /\ \E version \in VUCurrent, failed \in SUBSET {"is_idempotent", "is_applicable"} :
       /\ VUFault(Cardinality(failed))
       /\ IF version = VUTarget /\ VURequired \subseteq vuTables /\ "is_idempotent" \notin failed THEN VUReturn("true")
          ELSE IF "is_applicable" \notin failed /\ ~VUApplicable(version) THEN VUReturn("false")
          ELSE /\ vuRun' = [does |-> "migrate", step |-> 1, blind |-> "is_applicable" \in failed]
               /\ vuResult' = "none"
  /\ vuRuns' = vuRuns + 1
  /\ VUDatabaseStays /\ UNCHANGED vuRolled

\* run_rollback does not ask for the version.
VURollback ==
  /\ vuRun = VUNotRunning /\ vuRuns < VUMaxRuns
  /\ vuRun' = [does |-> "rollback", step |-> 1, blind |-> FALSE]
  /\ vuResult' = "none" /\ vuRolled' = TRUE /\ vuRuns' = vuRuns + 1
  /\ VUDatabaseStays /\ UNCHANGED vuFaults

\* The script ends without having finished.
VUCrash ==
  /\ vuRun # VUNotRunning
  /\ VUReturn("none")
  /\ VUDatabaseStays /\ UNCHANGED <<vuFaults, vuRuns, vuRolled>>

-----------------------------------------------------------------------------
(* Steps forward. *)

\* Mutant of VUAccepts: the connection takes several statements.
VUAcceptsAll(statements) == TRUE

\* The connection executes a text of so many statements.
VUAccepts(statements) == vuSingle => statements = 1

\* Mutant of VUFailed: the next step is taken all the same.
VUFailedOn == VUGoTo(vuRun.step + 1)

\* A step that could not be taken ends the script.
VUFailed == VUReturn("false")

VUAt(does, step) == vuRun.does = does /\ vuRun.step = step

\* The first three steps create a table each, the second and the third with its indexes in the same text.
VUCreate(step, table, statements) ==
  /\ VUAt("migrate", step)
  /\ \/ VUAccepts(statements) /\ vuTables' = vuTables \cup {table} /\ VUGoTo(step + 1) /\ UNCHANGED vuFaults
     \/ ~VUAccepts(statements) /\ vuTables' = vuTables /\ VUFailed /\ UNCHANGED vuFaults
     \/ vuTables' = vuTables /\ VUFailed /\ VUFault(1)
  /\ UNCHANGED <<vuSingle, vuMarker, vuVersions, vuColumns, vuRuns, vuRolled>>

\* Mutant of VULookForAudit: a table that is not there gets the columns too.
VULookForAuditNot ==
  /\ VUAt("migrate", 4)
  /\ VUGoTo(5)
  /\ VUDatabaseStays /\ UNCHANGED <<vuFaults, vuRuns, vuRolled>>

\* _step_update_audit_log, up to the columns: a table that is not seen needs none.
VULookForAudit ==
  /\ VUAt("migrate", 4)
  /\ \/ VUGoTo(IF "audit_log" \in vuTables THEN 5 ELSE 6) /\ UNCHANGED vuFaults
     \/ VUGoTo(6) /\ VUFault(1)
  /\ VUDatabaseStays /\ UNCHANGED <<vuRuns, vuRolled>>

\* The columns that are missing, one at a time.  (Those that could not be read make the first ALTER fail.)
VUAddColumn ==
  /\ VUAt("migrate", 5)
  /\ \/ vuColumns < 3 /\ vuColumns' = vuColumns + 1 /\ VUGoTo(5) /\ UNCHANGED vuFaults
     \/ vuColumns = 3 /\ vuColumns' = vuColumns /\ VUGoTo(6) /\ UNCHANGED vuFaults
     \/ vuColumns' = vuColumns /\ VUFailed /\ VUFault(1)
  /\ UNCHANGED <<vuSingle, vuTables, vuMarker, vuVersions, vuRuns, vuRolled>>

\* _step_update_version, by the marker.
VUMark ==
  /\ VUAt("migrate", 6)
  /\ vuMarker' = VUTarget
  /\ VUGoTo(7)
  /\ UNCHANGED <<vuSingle, vuTables, vuVersions, vuColumns, vuFaults, vuRuns, vuRolled>>

\* Or, if that fails, by a table of its own, made in the same text.
VUMarkBeside ==
  /\ VUAt("migrate", 6)
  /\ \/ /\ VUAccepts(2) /\ VUFault(1)
        /\ vuTables' = vuTables \cup {"db_version"} /\ vuVersions' = vuVersions \cup {VUTarget}
        /\ VUGoTo(7)
     \/ VUFailed /\ VUFault(IF VUAccepts(2) THEN 2 ELSE 1) /\ UNCHANGED <<vuTables, vuVersions>>
  /\ UNCHANGED <<vuSingle, vuMarker, vuColumns, vuRuns, vuRolled>>

\* _step_record_migration: that it fails does not matter.
VURecord ==
  /\ VUAt("migrate", 7)
  /\ VUReturn("true")
  /\ VUDatabaseStays /\ UNCHANGED <<vuFaults, vuRuns, vuRolled>>

-----------------------------------------------------------------------------
(* Steps back. *)

VUDrop(step, table) ==
  /\ VUAt("rollback", step)
  /\ \/ vuTables' = vuTables \ {table} /\ VUGoTo(step + 1) /\ UNCHANGED vuFaults
     \/ vuTables' = vuTables /\ VUFailed /\ VUFault(1)
  /\ UNCHANGED <<vuSingle, vuMarker, vuVersions, vuColumns, vuRuns, vuRolled>>

\* _step_rollback_version: the version before, in db_version, which may not be there; the marker stays.
VUUnmark ==
  /\ VUAt("rollback", 3)
  /\ \/ /\ "db_version" \in vuTables
        /\ vuVersions' = vuVersions \cup {VUBefore} /\ VUReturn("true") /\ UNCHANGED vuFaults
     \/ "db_version" \notin vuTables /\ VUFailed /\ UNCHANGED <<vuVersions, vuFaults>>
     \/ VUFailed /\ VUFault(1) /\ UNCHANGED vuVersions
  /\ UNCHANGED <<vuSingle, vuTables, vuMarker, vuColumns, vuRuns, vuRolled>>

VUNext ==
  \/ VUMigrate \/ VURollback \/ VUCrash
  \/ VUCreate(1, "schema_migrations", 1) \/ VUCreate(2, "batch_audit_log", 4) \/ VUCreate(3, "batch_metrics", 3)
  \/ VULookForAudit \/ VUAddColumn \/ VUMark \/ VUMarkBeside \/ VURecord
  \/ VUDrop(1, "batch_metrics") \/ VUDrop(2, "batch_audit_log") \/ VUUnmark

-----------------------------------------------------------------------------
(* Properties. *)

\* The variables have their types, and audit_log has columns for batches only if it is there.
VUTypeOK ==
  /\ vuTables \subseteq VURequired \cup {"audit_log", "db_version"}
  /\ vuMarker \in {0, VUTarget} /\ vuVersions \subseteq {VUBefore, VUTarget} /\ vuColumns \in 0..3
  /\ vuRun.does \in {"nothing", "migrate", "rollback"} /\ vuRun.step \in 0..7
  /\ vuResult \in {"none", "true", "false"} /\ vuFaults <= VUMaxFaults /\ vuRuns <= VUMaxRuns
  /\ vuColumns > 0 => "audit_log" \in vuTables

\* However often the script failed or ended half way and was run again: a database that says it has the
\* version has the version's tables, until a rollback is begun.
VUMarkedWhole ==
  ~vuRolled /\ (vuMarker = VUTarget \/ VUTarget \in vuVersions) => VURequired \subseteq vuTables

\* On a connection that takes one statement at a time, as the script's own, no run gets beyond the first table.
VUFirstTableOnly ==
  vuSingle => vuTables \subseteq {"audit_log", "schema_migrations"} /\ vuMarker = 0 /\ vuResult # "true"

\* A rollback leaves the marker: what it dropped no later migration creates again, unless it could not
\* read the version.
VUOneWay ==
  [][\A table \in VURequired :
       vuMarker # 0 /\ vuRolled /\ table \notin vuTables /\ table \in vuTables' => vuRun.blind]_vuVars
=============================================================================

--------------------------- MODULE HistoryMigration ---------------------------
(****************************************************************************)
(* fu_history_load(): opening pending.db, creating its tables, migrating a  *)
(* database that an older daemon wrote, and starting again with an empty    *)
(* one when the migration fails.                                            *)
(*                                                                          *)
(* An action is one SQL statement that commits by itself, or one            *)
(* transaction: between two of them the daemon may die and find the result  *)
(* of the first at its next start.  A statement fails because of what the   *)
(* database holds (a column or a table that is already there, a table that  *)
(* is not), or because the disk fails.  A column or a table is its name; a  *)
(* row is the device it records.                                            *)
(****************************************************************************)
EXTENDS Naturals, FiniteSets

CONSTANT Row           \* the devices whose updates are recorded

VARIABLES
  db,      \* pending.db: its tables, the columns added to history, its rows
  step,    \* what fu_history_load() does next; "down" without a connection
  at,      \* the case of fu_history_create_or_migrate() that runs next
  origin,  \* the schema version that the database had at first (auxiliary)
  saved,   \* the rows that were written and not removed (auxiliary)
  stopped, \* the rows at the last orderly end, {} after a fault (auxiliary)
  faults   \* "crash" and "io": what has gone wrong so far (auxiliary)

migrationVars == <<db, step, at, origin, saved, stopped, faults>>

\* FU_HISTORY_CURRENT_SCHEMA_VERSION
Current == 14

\* The columns of history that the initial schema did not have, each with the
\* case of fu_history_create_or_migrate() that adds it.
ColumnOf == [k \in {2, 3, 7, 8, 9, 11, 12} |->
  CASE k = 2 -> "checksum_device" [] k = 3 -> "protocol" [] k = 7 -> "release_id"
    [] k = 8 -> "appstream_id" [] k = 9 -> "version_format"
    [] k = 11 -> "install_duration" [] k = 12 -> "release_flags"]

\* The tables that were added later, each with its case.
TableOf == [k \in {4, 5, 6, 13} |->
  CASE k = 4 -> "approved_firmware" [] k = 5 -> "blocked_firmware"
    [] k = 6 -> "hsi_history" [] k = 13 -> "emulation_tag"]

Columns == {ColumnOf[k] : k \in DOMAIN ColumnOf}
NewTables == {TableOf[k] : k \in DOMAIN TableOf}
Tables == NewTables \cup {"schema", "history", "history_old"}

\* A database without a table that a migration has renamed.
Database(tables, version, columns, rows) ==
  [tables |-> tables, version |-> version, columns |-> columns, rows |-> rows, old |-> {}]

NoFile == Database({}, 0, {}, {})

\* What the statements of fu-history.c use.
Complete(b) ==
  /\ NewTables \cup {"schema", "history"} \subseteq b.tables
  /\ b.columns = Columns

\* A database of each released schema.  Version 1 has no schema table; some
\* databases of version 10 lack version_format, which version 11 repairs.
Released(v) ==
  CASE v = 0 -> {NoFile}
    [] v = 1 -> {Database({"history"}, 0, {}, r) : r \in SUBSET Row}
    [] OTHER ->
       UNION {{Database({"schema", "history"} \cup {TableOf[k] : k \in {j \in DOMAIN TableOf : j < v}}, v,
                        {ColumnOf[k] : k \in {j \in DOMAIN ColumnOf : j < v}} \ bungled, r) : r \in SUBSET Row} :
                bungled \in {{}} \cup (IF v = 10 THEN {{"version_format"}} ELSE {})}

MigrationTypeOK ==
  /\ db \in [tables : SUBSET Tables, version : 0..(Current + 1), columns : SUBSET Columns,
             rows : SUBSET Row, old : SUBSET Row]
  /\ step \in {"down", "create", "rename", "recreate", "copy", "drop", "alter", "version",
             "unlink", "empty", "loaded"}
  /\ at \in 0..Current /\ origin \in 0..(Current + 1)
  /\ saved \subseteq Row /\ stopped \subseteq Row /\ faults \subseteq {"crash", "io"}
  /\ "history_old" \notin db.tables => db.old = {}
  /\ "history" \notin db.tables => db.rows = {} /\ db.columns = {}

MigrationInit ==
  /\ origin \in 0..(Current + 1)
  /\ db \in Released(origin)
  /\ step = "down" /\ at = 0
  /\ saved = db.rows /\ stopped = db.rows /\ faults = {}

-----------------------------------------------------------------------------
(* One statement: when it works the next one is good; when the database or  *)
(* the disk refuses it nothing is stored and the next one is bad.           *)

Statement(works, stored, good, bad) ==
  \/ works /\ db' = stored /\ step' = good /\ UNCHANGED <<faults, stopped>>
  \/ ~works /\ db' = db /\ step' = bad /\ UNCHANGED <<faults, stopped>>
  \/ db' = db /\ step' = bad /\ faults' = faults \cup {"io"} /\ stopped' = {}

\* fu_history_create_database(): one transaction.  Only emulation_tag is
\* created without IF NOT EXISTS.  The version that it stores is 0, in a row
\* of its own; what is read is the first row.
CreateWorks == "emulation_tag" \notin db.tables
Created ==
  [db EXCEPT !.tables = @ \cup NewTables \cup {"schema", "history"},
             !.version = IF "schema" \in db.tables THEN @ ELSE 0,
             !.columns = IF "history" \in db.tables THEN @ ELSE Columns]

-----------------------------------------------------------------------------
(* fu_history_load()                                                        *)

\* fu_history_get_schema_version(), and the look for a history table.
SchemaVersion ==
  IF "schema" \in db.tables /\ db.version # 0 THEN db.version
  ELSE IF "history" \in db.tables THEN 1 ELSE 0

\* The case label that the switch of fu_history_create_or_migrate() jumps to.
FirstCaseBungled(v) == IF v = 10 THEN 11 ELSE v
FirstCase(v) == IF v = 10 THEN 9 ELSE v

\* The switch, for the version that was read.  An unknown version is accepted
\* as it is.
LoadAs(v) ==
  /\ step = "down"
  /\ step' = CASE v >= Current -> "loaded"
               [] v = 0 -> "create"
               [] v = 1 -> "rename"
               [] OTHER -> "alter"
  /\ at' = IF v \in 2..(Current - 1) THEN FirstCase(v) ELSE 0
  /\ UNCHANGED <<db, origin, saved>>

\* The connection is opened and the version read.
Load == LoadAs(SchemaVersion) /\ UNCHANGED <<stopped, faults>>

\* A version that cannot be read counts as 0, and then a history that can be
\* read makes it 1.
LoadMisread ==
  /\ LoadAs(0) \/ ("history" \in db.tables /\ LoadAs(1))
  /\ faults' = faults \cup {"io"} /\ stopped' = {}

\* case 0
Create ==
  /\ step = "create"
  /\ Statement(CreateWorks, Created, "version", "unlink")
  /\ UNCHANGED <<at, origin, saved>>

\* case 1, fu_history_migrate_database_v1(): a history that cannot be renamed
\* is taken for one that has been migrated.
Rename ==
  /\ step = "rename"
  /\ Statement("history" \in db.tables /\ "history_old" \notin db.tables,
               [db EXCEPT !.tables = (@ \ {"history"}) \cup {"history_old"},
                          !.old = db.rows, !.rows = {}, !.columns = {}],
               "recreate", "version")
  /\ UNCHANGED <<at, origin, saved>>

Recreate ==
  /\ step = "recreate"
  /\ Statement(CreateWorks, Created, "copy", "unlink")
  /\ UNCHANGED <<at, origin, saved>>

Copy ==
  /\ step = "copy"
  /\ Statement("history_old" \in db.tables, [db EXCEPT !.rows = @ \cup db.old], "drop", "version")
  /\ UNCHANGED <<at, origin, saved>>

Drop ==
  /\ step = "drop"
  /\ Statement("history_old" \in db.tables, [db EXCEPT !.tables = @ \ {"history_old"}, !.old = {}],
               "version", "version")
  /\ UNCHANGED <<at, origin, saved>>

\* Falling through: 10 is a label of case 9, and 13 is the last case.
NextCase(k) == IF k = 9 THEN 11 ELSE k + 1
AfterCase(k) == IF k = Current - 1 THEN "version" ELSE "alter"

\* The error of any of these migrations fails the load, as that of v2 does.
AddColumnStrict(k) ==
  Statement("history" \in db.tables /\ ColumnOf[k] \notin db.columns,
            [db EXCEPT !.columns = @ \cup {ColumnOf[k]}],
            AfterCase(k), "unlink")

\* ALTER TABLE history ADD COLUMN: only fu_history_migrate_database_v2()
\* returns the error.
AddColumn(k) ==
  Statement("history" \in db.tables /\ ColumnOf[k] \notin db.columns,
            [db EXCEPT !.columns = @ \cup {ColumnOf[k]}],
            AfterCase(k), IF k = 2 THEN "unlink" ELSE AfterCase(k))

\* CREATE TABLE IF NOT EXISTS: an error fails the load.
AddTable(k) == Statement(TRUE, [db EXCEPT !.tables = @ \cup {TableOf[k]}], AfterCase(k), "unlink")

\* cases 2 to 13, one at a time
Alter ==
  /\ step = "alter"
  /\ \/ at \in DOMAIN ColumnOf /\ AddColumn(at)
     \/ at \in DOMAIN TableOf /\ AddTable(at)
  /\ at' = IF step' = "alter" THEN NextCase(at) ELSE 0
  /\ UNCHANGED <<origin, saved>>

\* UPDATE schema SET version
SetVersion ==
  /\ step = "version"
  /\ Statement("schema" \in db.tables, [db EXCEPT !.version = Current], "loaded", "unlink")
  /\ UNCHANGED <<at, origin, saved>>

\* The migration failed: the file is deleted.  When that fails too there is no
\* connection, and the next call of the history loads again.
Unlink ==
  /\ step = "unlink"
  /\ Statement(TRUE, NoFile, "empty", "down")
  /\ UNCHANGED <<at, origin, saved>>

\* The empty database is created.  The connection exists whether or not this
\* works, so that the next call of the history uses it as it is.
CreateEmpty ==
  /\ step = "empty"
  /\ Statement(CreateWorks, Created, "loaded", "loaded")
  /\ UNCHANGED <<at, origin, saved>>

-----------------------------------------------------------------------------
(* The loaded database, and the end of the daemon.                          *)

\* fu_history_add_device() names every column; with one missing it fails.
AddRow(r) ==
  /\ step = "loaded" /\ Complete(db)
  /\ db' = [db EXCEPT !.rows = @ \cup {r}]
  /\ saved' = saved \cup {r}
  /\ UNCHANGED <<step, at, origin, stopped, faults>>

\* fu_history_remove_device() and fu_history_remove_all()
RemoveRows(gone) ==
  /\ step = "loaded" /\ "history" \in db.tables
  /\ db' = [db EXCEPT !.rows = @ \ gone]
  /\ saved' = saved \ gone /\ stopped' = stopped \ gone
  /\ UNCHANGED <<step, at, origin, faults>>

\* fu_history_finalize(): the daemon ends with no statement under way.
Stop ==
  /\ step = "loaded"
  /\ step' = "down" /\ stopped' = db.rows
  /\ UNCHANGED <<db, at, origin, saved, faults>>

Crash ==
  /\ step \notin {"down", "loaded"}
  /\ step' = "down" /\ at' = 0
  /\ faults' = faults \cup {"crash"} /\ stopped' = {}
  /\ UNCHANGED <<db, origin, saved>>

MigrationNext ==
  \/ Load \/ LoadMisread \/ Create \/ Rename \/ Recreate \/ Copy \/ Drop \/ Alter \/ SetVersion
  \/ Unlink \/ CreateEmpty \/ Stop \/ Crash
  \/ \E r \in Row : AddRow(r)
  \/ \E gone \in {{r} : r \in Row} \cup {Row} : RemoveRows(gone)

MigrationSpec == MigrationInit /\ [][MigrationNext]_migrationVars

-----------------------------------------------------------------------------
(* Properties.                                                              *)

\* From every released schema, and however often the daemon died on the way,
\* a database that has been loaded has every table and every column that the
\* statements of fu-history.c name.
LoadedIsComplete == step = "loaded" /\ "io" \notin faults => Complete(db)

\* The migration loses no row.  Without a crash this holds for every schema;
\* from version 3 on it also holds when the daemon dies at any point of the
\* migration and starts it again, because those cases can be repeated.
RowsKept ==
  step = "loaded" /\ "io" \notin faults /\ ("crash" \in faults => origin >= 3)
    => saved \subseteq db.rows

\* What "create initial up-to-date database, or migrate" leads one to expect
\* of fu_history_load(): a database that was loaded, and then closed in good
\* order, is not thrown away at the next start.
RestartKeepsRows == step = "loaded" => stopped \subseteq db.rows
=============================================================================

------------------------------ MODULE Migration ------------------------------
(***************************************************************************)
(* init_db of infra/db/session.py on a SQLite file: what each start of the *)
(* Hub does to the tables before it serves.  The sqlite3 driver opens a    *)
(* transaction at the first INSERT only, so that every ALTER and CREATE    *)
(* before it is committed by itself, and what follows, up to the commit,   *)
(* is one step.  A start may be killed between any two steps, and two may  *)
(* overlap.                                                                *)
(*                                                                         *)
(* Left out: columns that never change, indexes, the PRAGMAs (foreign keys *)
(* are off from the start, and inside a transaction they stay as they are) *)
(* and _migrate_sqlite_alerts, which finds the table that create_all has   *)
(* made just before.                                                       *)
(***************************************************************************)
EXTENDS Integers

CONSTANTS
  Procs,      \* Hub processes
  RunColumns, \* what _migrate_sqlite_runs_for_retry_and_worker adds
  OldRuns,    \* ids of the runs in the file before the first start
  MaxStarts, MaxNewRuns \* bounds

ASSUME MigrationAssumption ==
  /\ OldRuns \subseteq Nat \ {0}
  /\ MaxStarts \in Nat /\ MaxNewRuns \in Nat

VARIABLES
  tables,    \* names of the tables that exist
  rows,      \* table -> its rows
  cols,      \* "runs", "schedules" -> the columns added later that it has
  cancelled, \* the CHECK of runs accepts CANCELLED
  pc,        \* process -> statement of init_db it is about to run
  todo,      \* process -> what its last query found missing
  starts, born, \* numbers of starts and of runs created since
  cut,       \* history: a start ended between its first rename and its commit
  overlapped,\* history: two starts were in progress at once
  refused    \* history: a statement of a start has failed

vars == <<tables, rows, cols, cancelled, pc, todo, starts, born, cut, overlapped, refused>>

Details == {"run_steps", "artifacts"}
Live    == {"runs"} \cup Details
Old     == [runs |-> "runs_old", run_steps |-> "run_steps_old", artifacts |-> "artifacts_old"]
Models  == Live \cup {"schedules"} \* the tables of models.py that matter here
Tables  == Models \cup {Old[t] : t \in Live}

\* A row of runs, or what run_steps and artifacts hold about that run.
Row == [id : Nat \ {0}, old : BOOLEAN]
OldRows == [id : OldRuns, old : {TRUE}]

Wanted == [t \in {"runs", "schedules"} |-> IF t = "runs" THEN RunColumns ELSE {"max_retries"}]

(***************************************************************************)
(* Statements.                                                             *)
(***************************************************************************)
Migrating == {"rename_artifacts", "rename_runs", "create_runs", "copy"}
Starting(p) == pc[p] \notin {"off", "serving"}

\* The two migrations that add columns, as places.
Query == [runs |-> "query_runs", schedules |-> "query_schedules"]
Alter == [runs |-> "alter_runs", schedules |-> "alter_schedules"]

At(p, l)  == pc[p] = l
Goto(p, l) == pc' = [pc EXCEPT ![p] = l]

\* The exception ends the process: FastAPI does not start.
Fails(p) ==
  /\ Goto(p, "off") /\ refused' = TRUE
  /\ cut' = (cut \/ pc[p] \in Migrating)
  /\ UNCHANGED <<tables, rows, cols, cancelled, todo, starts, born, overlapped>>

\* The process is killed, or a statement waits too long for another's lock.
Killed(p) ==
  /\ ~At(p, "off") /\ Goto(p, "off")
  /\ cut' = (cut \/ pc[p] \in Migrating)
  /\ UNCHANGED <<tables, rows, cols, cancelled, todo, starts, born, overlapped, refused>>

Start(p) ==
  /\ At(p, "off") /\ starts < MaxStarts
  /\ Goto(p, "create_all") /\ starts' = starts + 1
  /\ overlapped' = (overlapped \/ \E q \in Procs : Starting(q))
  /\ UNCHANGED <<tables, rows, cols, cancelled, todo, born, cut, refused>>

\* create_all, before the migrations and after them, looks for all tables
\* first.
QueryTables(p) ==
  \E l \in {"create_all", "create_again"} :
    /\ At(p, l)
    /\ todo' = [todo EXCEPT ![p] = Models \ tables]
    /\ Goto(p, IF l = "create_all" THEN "creating" ELSE "creating_again")
    /\ UNCHANGED <<tables, rows, cols, cancelled, starts, born, cut, overlapped, refused>>

CreateTable(p) ==
  /\ pc[p] \in {"creating", "creating_again"}
  /\ \E t \in todo[p] :
       /\ t \in Details => "runs" \notin todo[p]
       /\ \/ t \in tables /\ Fails(p)
          \/ /\ t \notin tables
             /\ tables' = tables \cup {t}
             /\ cols' = IF t \in DOMAIN cols THEN [cols EXCEPT ![t] = Wanted[t]] ELSE cols
             /\ cancelled' = (cancelled \/ t = "runs")
             /\ todo' = [todo EXCEPT ![p] = @ \ {t}]
             /\ UNCHANGED <<rows, pc, starts, born, cut, overlapped, refused>>

NothingLeft(p) == todo[p] = {}

TablesCreated(p) ==
  /\ pc[p] \in {"creating", "creating_again"} /\ NothingLeft(p)
  /\ Goto(p, IF At(p, "creating") THEN "query_sql" ELSE "serving")
  /\ UNCHANGED <<tables, rows, cols, cancelled, todo, starts, born, cut, overlapped, refused>>

\* Mutant: the columns of runs are not looked for.
SkipColumns == "query_schedules"
AfterQueue == "query_runs"

\* _migrate_sqlite_runs_for_queue: the text of CREATE TABLE runs decides.
QuerySql(p) ==
  /\ At(p, "query_sql")
  /\ Goto(p, IF cancelled \/ "runs" \notin tables THEN AfterQueue ELSE "rename_steps")
  /\ UNCHANGED <<tables, rows, cols, cancelled, todo, starts, born, cut, overlapped, refused>>

\* ALTER TABLE t RENAME TO t_old
Rename(p, l, t, next) ==
  /\ At(p, l)
  /\ \/ (t \notin tables \/ Old[t] \in tables) /\ Fails(p)
     \/ /\ t \in tables /\ Old[t] \notin tables
        /\ tables' = (tables \ {t}) \cup {Old[t]}
        /\ rows' = [rows EXCEPT ![Old[t]] = rows[t], ![t] = {}]
        /\ cols' = IF t = "runs" THEN [cols EXCEPT !["runs"] = {}] ELSE cols
        /\ cancelled' = (cancelled /\ t # "runs")
        /\ Goto(p, next)
        /\ UNCHANGED <<todo, starts, born, cut, overlapped, refused>>

\* CREATE TABLE runs, with the CHECK and without the columns of later releases
CreateRuns(p) ==
  /\ At(p, "create_runs")
  /\ \/ "runs" \in tables /\ Fails(p)
     \/ /\ "runs" \notin tables
        /\ tables' = tables \cup {"runs"} /\ cancelled' = TRUE
        /\ Goto(p, "copy")
        /\ UNCHANGED <<rows, cols, todo, starts, born, cut, overlapped, refused>>

CopyFits ==
  /\ "runs" \in tables /\ Details \cap tables = {}
  /\ \A t \in Live : Old[t] \in tables
  /\ \A x \in rows["runs"], y \in rows["runs_old"] : x.id # y.id

Dropped == {Old[t] : t \in Live}

\* Mutant: the rows of artifacts are not copied.
CopiedInPart == [t \in Tables |->
  IF t \in Live \ {"artifacts"} THEN rows[t] \cup rows[Old[t]]
  ELSE IF t \in Dropped THEN {} ELSE rows[t]]
Copied == [t \in Tables |->
  IF t \in Live THEN rows[t] \cup rows[Old[t]]
  ELSE IF t \in Dropped THEN {} ELSE rows[t]]

\* From INSERT INTO runs to the commit: the details are created again, all rows
\* are copied and the old tables dropped.
Copy(p) ==
  /\ At(p, "copy")
  /\ \/ ~CopyFits /\ Fails(p)
     \/ /\ CopyFits
        /\ tables' = (tables \cup Live) \ Dropped
        /\ rows' = Copied
        /\ Goto(p, AfterQueue)
        /\ UNCHANGED <<cols, cancelled, todo, starts, born, cut, overlapped, refused>>

\* Mutant: without the test for a column that is there.
AllColumns(t) == IF t \in tables THEN Wanted[t] ELSE {}
MissingColumns(t) == IF t \in tables THEN Wanted[t] \ cols[t] ELSE {}

\* PRAGMA table_info, by _migrate_sqlite_runs_for_retry_and_worker and
\* _migrate_sqlite_schedules_for_retry.
QueryColumns(p, t) ==
  /\ At(p, Query[t])
  /\ todo' = [todo EXCEPT ![p] = MissingColumns(t)]
  /\ Goto(p, Alter[t])
  /\ UNCHANGED <<tables, rows, cols, cancelled, starts, born, cut, overlapped, refused>>

\* ALTER TABLE t ADD COLUMN c
AddColumn(p, t) ==
  /\ At(p, Alter[t])
  /\ \E c \in todo[p] :
       \/ (t \notin tables \/ c \in cols[t]) /\ Fails(p)
       \/ /\ t \in tables /\ c \notin cols[t]
          /\ cols' = [cols EXCEPT ![t] = @ \cup {c}]
          /\ todo' = [todo EXCEPT ![p] = @ \ {c}]
          /\ UNCHANGED <<tables, rows, cancelled, pc, starts, born, cut, overlapped, refused>>

ColumnsAdded(p, t, next) ==
  /\ At(p, Alter[t]) /\ todo[p] = {}
  /\ Goto(p, next)
  /\ UNCHANGED <<tables, rows, cols, cancelled, todo, starts, born, cut, overlapped, refused>>

Complete == /\ Models \subseteq tables /\ cancelled
            /\ \A t \in DOMAIN cols : cols[t] = Wanted[t]

\* A Hub that serves runs a robot: a run with its steps and artifacts, under
\* the id after the largest one.
NewRun(p) ==
  LET ids == {x.id : x \in rows["runs"]}
  IN /\ At(p, "serving") /\ Complete /\ born < MaxNewRuns
     /\ \E id \in {1} \cup {i + 1 : i \in ids} :
          LET new == [id |-> id, old |-> FALSE]
          IN /\ \A i \in ids : i < id
             /\ rows' = [t \in Tables |-> IF t \in Live THEN rows[t] \cup {new} ELSE rows[t]]
     /\ born' = born + 1
     /\ UNCHANGED <<tables, cols, cancelled, pc, todo, starts, cut, overlapped, refused>>

(***************************************************************************)
(* A file that does not exist yet, one of a release without the queue, and *)
(* one of a release with the queue and without retries.                    *)
(***************************************************************************)
Init ==
  /\ tables \in {{}, Models}
  /\ rows = [t \in Tables |-> IF t \in Live \cap tables THEN OldRows ELSE {}]
  /\ cols = [t \in {"runs", "schedules"} |-> {}]
  /\ cancelled \in {FALSE, tables # {}}
  /\ pc = [p \in Procs |-> "off"] /\ todo = [p \in Procs |-> {}]
  /\ starts = 0 /\ born = 0
  /\ cut = FALSE /\ overlapped = FALSE /\ refused = FALSE

InitDb(p) ==
  \/ QueryTables(p) \/ CreateTable(p) \/ TablesCreated(p) \/ QuerySql(p)
  \/ Rename(p, "rename_steps", "run_steps", "rename_artifacts")
  \/ Rename(p, "rename_artifacts", "artifacts", "rename_runs")
  \/ Rename(p, "rename_runs", "runs", "create_runs")
  \/ CreateRuns(p) \/ Copy(p)
  \/ \E t \in {"runs", "schedules"} : QueryColumns(p, t) \/ AddColumn(p, t)
  \/ ColumnsAdded(p, "runs", "query_schedules")
  \/ ColumnsAdded(p, "schedules", "create_again")

Next == \E p \in Procs : Start(p) \/ InitDb(p) \/ Killed(p) \/ NewRun(p)

Spec == Init /\ [][Next]_vars

(***************************************************************************)
(* Properties.                                                             *)
(***************************************************************************)
\* Type invariant; a table that does not exist has no rows and no columns, and
\* a Hub that serves has nothing left to do.
TypeOK ==
  /\ tables \subseteq Tables
  /\ rows \in [Tables -> SUBSET Row] /\ \A t \in Tables \ tables : rows[t] = {}
  /\ \A t \in DOMAIN cols : cols[t] \subseteq Wanted[t] /\ (t \notin tables => cols[t] = {})
  /\ cancelled => "runs" \in tables
  /\ \A p \in Procs : /\ todo[p] \subseteq Models \cup RunColumns \cup {"max_retries"}
                      /\ At(p, "serving") => todo[p] = {}
  /\ starts \in 0..MaxStarts /\ born \in 0..MaxNewRuns

\* No row is ever lost, wherever a start is killed and however starts overlap:
\* each stays in its table or in the renamed one, since the copy and the DROPs
\* are one transaction.
NoRowLost ==
  [][\A t \in Live : rows[t] \cup rows[Old[t]] \subseteq rows'[t] \cup rows'[Old[t]]]_vars

\* A Hub that serves finds every table and column its models name, even if the
\* start before it was killed between two statements of the migration, unless
\* two starts overlapped.
ServingIsComplete ==
  ~overlapped => \A p \in Procs : At(p, "serving") => Complete

\* The migrated history is there when the Hub serves: no rows are left behind in
\* a renamed table, unless a start ended between its renames and its commit or
\* overlapped another.
NothingLeftBehind ==
  ~(cut \/ overlapped) => \A p \in Procs : At(p, "serving") => \A t \in Live : rows[Old[t]] = {}

\* The steps and artifacts shown for a run are its own: not those of an older
\* run that had its id.
DetailsBelong ==
  ~overlapped => \A p \in Procs : At(p, "serving") =>
    \A t \in Details : rows[t] \subseteq rows["runs"]

\* What a Hub serves from is whole: the schema, the history and the references.
ServesWholeFile == TypeOK /\ ServingIsComplete /\ NothingLeftBehind /\ DetailsBelong

\* A start fails only on what an earlier one left half renamed or another does
\* at the same time.
StartsUnlessCut == refused => cut \/ overlapped
=============================================================================

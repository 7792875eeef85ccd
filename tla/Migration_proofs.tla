--------------------------- MODULE Migration_proofs ---------------------------
(***************************************************************************)
(* What a migration may never lose, what a Hub serves from after it, and   *)
(* why a start may fail, for every number of Hubs, starts, old runs and    *)
(* new columns.                                                            *)
(***************************************************************************)
EXTENDS Migration, TLAPS

\* A table that does not exist has no rows: a rename, which overwrites the rows
\* recorded for its new name, would otherwise lose some.
RowsInv ==
  /\ rows = [t \in Tables |-> rows[t]]
  /\ \A t \in Tables \ tables : rows[t] = {}

Kept == \A t \in Live : rows[t] \cup rows[Old[t]] \subseteq rows'[t] \cup rows'[Old[t]]

\* The names: live and renamed tables are all different.
LEMMA Names ==
  /\ Live \subseteq Models /\ Models \subseteq Tables
  /\ \A t \in Live : Old[t] \in Tables \ Models
  /\ \A t, u \in Live : Old[t] = Old[u] => t = u
BY DEF Live, Details, Models, Tables, Old

LEMMA InitRows == Init => RowsInv
BY Names DEF Init, RowsInv

\* A statement that leaves rows and tables alone loses nothing.
LEMMA SameRows ==
  ASSUME RowsInv, UNCHANGED <<tables, rows>>
  PROVE  RowsInv' /\ Kept
BY Names DEF RowsInv, Kept

LEMMA FailsRows ==
  ASSUME RowsInv, NEW p \in Procs, Fails(p)
  PROVE  RowsInv' /\ Kept
BY SameRows DEF Fails

LEMMA CreateTableRows ==
  ASSUME RowsInv, NEW p \in Procs, CreateTable(p)
  PROVE  RowsInv' /\ Kept
<1>1. CASE Fails(p)
  BY <1>1, FailsRows
<1>2. ASSUME NEW t \in todo[p], tables' = tables \cup {t}, UNCHANGED rows
      PROVE  RowsInv' /\ Kept
  BY <1>2 DEF RowsInv, Kept
<1> QED BY <1>1, <1>2 DEF CreateTable

\* ALTER TABLE ... RENAME moves the rows to a name that had none.
LEMMA RenameRows ==
  ASSUME RowsInv, NEW p \in Procs, NEW l, NEW t \in Live, NEW next, Rename(p, l, t, next)
  PROVE  RowsInv' /\ Kept
<1>1. CASE Fails(p)
  BY <1>1, FailsRows
<1>2. CASE /\ t \in tables /\ Old[t] \notin tables
           /\ tables' = (tables \ {t}) \cup {Old[t]}
           /\ rows' = [rows EXCEPT ![Old[t]] = rows[t], ![t] = {}]
  <2>1. t \in Tables /\ Old[t] \in Tables /\ t # Old[t]
    BY Names
  <2>2. rows[Old[t]] = {}
    BY <1>2, <2>1 DEF RowsInv
  <2>3. rows'[t] = {} /\ rows'[Old[t]] = rows[t]
    BY <1>2, <2>1 DEF RowsInv
  <2>4. \A u \in Tables \ {t, Old[t]} : rows'[u] = rows[u]
    BY <1>2 DEF RowsInv
  <2>5. RowsInv'
    BY <1>2, <2>1, <2>3, <2>4 DEF RowsInv
  <2>6. \A u \in Live \ {t} : u \in Tables \ {t, Old[t]} /\ Old[u] \in Tables \ {t, Old[t]}
    BY Names
  <2>7. Kept
    BY <2>2, <2>3, <2>4, <2>6 DEF Kept
  <2> QED BY <2>5, <2>7
<1> QED BY <1>1, <1>2 DEF Rename

LEMMA CreateRunsRows ==
  ASSUME RowsInv, NEW p \in Procs, CreateRuns(p)
  PROVE  RowsInv' /\ Kept
<1>1. CASE Fails(p)
  BY <1>1, FailsRows
<1>2. CASE tables' = tables \cup {"runs"} /\ UNCHANGED rows
  BY <1>2 DEF RowsInv, Kept
<1> QED BY <1>1, <1>2 DEF CreateRuns

\* The copy and the DROPs: a table that is dropped has been copied.
LEMMA CopyRows ==
  ASSUME RowsInv, NEW p \in Procs, Copy(p)
  PROVE  RowsInv' /\ Kept
<1>1. CASE Fails(p)
  BY <1>1, FailsRows
<1>2. CASE tables' = (tables \cup Live) \ Dropped /\ rows' = Copied
  <2>1. \A t \in Live : rows'[t] = rows[t] \cup rows[Old[t]]
    BY <1>2, Names DEF Copied
  <2>2. \A t \in Dropped : t \in Tables /\ rows'[t] = {}
    BY <1>2, Names DEF Copied, Dropped
  <2>3. \A t \in Tables \ (Live \cup Dropped) : rows'[t] = rows[t]
    BY <1>2 DEF Copied
  <2>4. RowsInv'
    <3>1. rows' = [t \in Tables |-> rows'[t]]
      BY <1>2 DEF Copied
    <3>2. \A t \in Tables \ tables' : rows'[t] = {}
      BY <1>2, <2>2, <2>3 DEF RowsInv
    <3> QED BY <3>1, <3>2 DEF RowsInv
  <2>5. Kept
    BY <2>1 DEF Kept
  <2> QED BY <2>4, <2>5
<1> QED BY <1>1, <1>2 DEF Copy

\* A Hub that serves has all tables and only adds rows.
LEMMA NewRunRows ==
  ASSUME RowsInv, NEW p \in Procs, NewRun(p)
  PROVE  RowsInv' /\ Kept
<1>1. PICK new : rows' = [t \in Tables |-> IF t \in Live THEN rows[t] \cup {new} ELSE rows[t]]
  BY DEF NewRun
<1>2. Live \subseteq tables /\ tables' = tables
  BY Names DEF NewRun, Complete
<1>3. \A t \in Tables : rows[t] \subseteq rows'[t]
  BY <1>1
<1>4. RowsInv'
  BY <1>1, <1>2 DEF RowsInv
<1>5. Kept
  BY <1>3, Names DEF Kept
<1> QED BY <1>4, <1>5

\* One step of a start.
LEMMA InitDbRows ==
  ASSUME RowsInv, NEW p \in Procs, InitDb(p)
  PROVE  RowsInv' /\ Kept
<1>1. CASE QueryTables(p) \/ TablesCreated(p) \/ QuerySql(p)
  BY <1>1, SameRows DEF QueryTables, TablesCreated, QuerySql
<1>2. CASE CreateTable(p)
  BY <1>2, CreateTableRows
<1>3. CASE \/ Rename(p, "rename_steps", "run_steps", "rename_artifacts")
           \/ Rename(p, "rename_artifacts", "artifacts", "rename_runs")
           \/ Rename(p, "rename_runs", "runs", "create_runs")
  BY <1>3, RenameRows DEF Live, Details
<1>4. CASE CreateRuns(p)
  BY <1>4, CreateRunsRows
<1>5. CASE Copy(p)
  BY <1>5, CopyRows
<1>6. ASSUME NEW t, QueryColumns(p, t)
      PROVE  RowsInv' /\ Kept
  BY <1>6, SameRows DEF QueryColumns
<1>7. ASSUME NEW t, AddColumn(p, t)
      PROVE  RowsInv' /\ Kept
  <2>1. Fails(p) \/ UNCHANGED <<tables, rows>>
    BY <1>7 DEF AddColumn
  <2> QED BY <2>1, FailsRows, SameRows
<1>8. ASSUME NEW t, NEW next, ColumnsAdded(p, t, next)
      PROVE  RowsInv' /\ Kept
  BY <1>8, SameRows DEF ColumnsAdded
<1> QED BY <1>1, <1>2, <1>3, <1>4, <1>5, <1>6, <1>7, <1>8 DEF InitDb

LEMMA NextRows == RowsInv /\ [Next]_vars => RowsInv' /\ Kept
<1> SUFFICES ASSUME RowsInv, [Next]_vars
             PROVE  RowsInv' /\ Kept
  OBVIOUS
<1>1. ASSUME NEW p \in Procs, Start(p) \/ Killed(p)
      PROVE  RowsInv' /\ Kept
  BY <1>1, SameRows DEF Start, Killed
<1>2. CASE UNCHANGED vars
  BY <1>2, SameRows DEF vars
<1> QED BY <1>1, <1>2, InitDbRows, NewRunRows DEF Next

\* No row of runs, run_steps or artifacts is lost by an upgrade, whatever the
\* number of Hubs that start at once, are killed and start again: the statements
\* of _migrate_sqlite_runs_for_queue keep every row in its table or in the
\* renamed one.
THEOREM RowsAreKept == Spec => NoRowLost
<1>1. Init => RowsInv
  BY InitRows
<1>2. RowsInv /\ [Next]_vars => RowsInv'
  BY NextRows
<1>3. RowsInv /\ [Next]_vars =>
        [\A t \in Live : rows[t] \cup rows[Old[t]] \subseteq rows'[t] \cup rows'[Old[t]]]_vars
  BY NextRows DEF Kept
<1> QED BY <1>1, <1>2, <1>3, PTL DEF Spec, NoRowLost

(***************************************************************************)
(* The places of a start, and what the file looks like at each.            *)
(***************************************************************************)
\* The places after the migration of the queue, after the columns of runs and
\* after those of schedules.
Queued   == {"query_runs", "alter_runs", "query_schedules", "alter_schedules", "create_again",
             "creating_again", "serving"}
RunsDone == Queued \ {"query_runs", "alter_runs"}
AllDone  == RunsDone \ {"query_schedules", "alter_schedules"}
Creating == {"creating", "creating_again"}
Places   == {"off", "create_all", "query_sql", "rename_steps"} \cup Creating \cup Migrating \cup Queued
Columns  == RunColumns \cup {"max_retries"}

FileFits ==
  /\ tables \subseteq Tables
  /\ rows \in [Tables -> SUBSET Row] /\ \A t \in Tables \ tables : rows[t] = {}
  /\ cols \in [{"runs", "schedules"} -> SUBSET Columns]
  /\ \A t \in {"runs", "schedules"} :
       cols[t] \subseteq Wanted[t] /\ (t \notin tables => cols[t] = {})
  /\ cancelled \in BOOLEAN /\ (cancelled => "runs" \in tables)

PlaceFits(l, d) ==
  /\ l \in Places /\ d \subseteq Models \cup Columns
  /\ l = "serving" => d = {}
  /\ l \in Creating => d \subseteq Models
  /\ l = "alter_runs" => d \subseteq Wanted["runs"]
  /\ l = "alter_schedules" => d \subseteq Wanted["schedules"]

ProcsFit ==
  /\ pc = [p \in Procs |-> pc[p]] /\ todo = [p \in Procs |-> todo[p]]
  /\ \A p \in Procs : PlaceFits(pc[p], todo[p])

CountsFit == /\ starts \in 0..MaxStarts /\ born \in 0..MaxNewRuns
             /\ cut \in BOOLEAN /\ overlapped \in BOOLEAN /\ refused \in BOOLEAN

Shape == FileFits /\ ProcsFit /\ CountsFit

OldDetails == {"run_steps_old", "artifacts_old"}

\* What a start at place l, with d missing, may rely on if no other one is in
\* progress: the file it sees is the one it has left.
Stage(l, d, T, R, C, ok) ==
  /\ l = "creating" => d = Models \ T
  /\ l \in {"query_sql", "rename_steps"} \cup Queued => Models \subseteq T
  /\ l = "rename_steps" => ~ok
  /\ l \in Migrating => "schedules" \in T /\ "run_steps" \notin T /\ "run_steps_old" \in T
  /\ l = "rename_artifacts" =>
       "artifacts" \in T /\ "runs" \in T /\ R["run_steps_old"] \subseteq R["runs"]
  /\ l \in Migrating \ {"rename_artifacts"} => "artifacts" \notin T /\ "artifacts_old" \in T
  /\ l = "rename_runs" => "runs" \in T /\ \A t \in OldDetails : R[t] \subseteq R["runs"]
  /\ l \in {"create_runs", "copy"} =>
       "runs_old" \in T /\ \A t \in OldDetails : R[t] \subseteq R["runs_old"]
  /\ l = "create_runs" => "runs" \notin T
  /\ l = "copy" => "runs" \in T /\ R["runs"] = {}
  /\ l \in Queued \cup {"copy"} => ok
  /\ l = "alter_runs" => d = Wanted["runs"] \ C["runs"]
  /\ l \in RunsDone => C["runs"] = Wanted["runs"]
  /\ l = "alter_schedules" => d = Wanted["schedules"] \ C["schedules"]
  /\ l \in AllDone => C["schedules"] = Wanted["schedules"]
  /\ l = "creating_again" => d = {}

OneStart == ~overlapped => \A p, q \in Procs : Starting(p) /\ Starting(q) => p = q
Stages   == ~overlapped => \A p \in Procs : Stage(pc[p], todo[p], tables, rows, cols, cancelled)
OwnDetails  == ~overlapped => \A t \in Details : rows[t] \subseteq rows["runs"]
NoOldTables == ~(cut \/ overlapped) => \/ tables \cap Dropped = {}
                                       \/ \E p \in Procs : pc[p] \in Migrating

Good == Shape /\ OneStart /\ Stages /\ OwnDetails /\ NoOldTables /\ StartsUnlessCut

LEMMA TableNames ==
  /\ Models = {"runs", "schedules", "run_steps", "artifacts"} /\ Details = {"run_steps", "artifacts"}
  /\ Live = {"runs", "run_steps", "artifacts"}
  /\ Dropped = {"runs_old", "run_steps_old", "artifacts_old"}
  /\ Tables = Models \cup Dropped
  /\ Old["runs"] = "runs_old" /\ Old["run_steps"] = "run_steps_old" /\ Old["artifacts"] = "artifacts_old"
BY DEF Models, Details, Live, Dropped, Tables, Old

LEMMA Words ==
  /\ Alter["runs"] = "alter_runs" /\ Alter["schedules"] = "alter_schedules"
  /\ Query["runs"] = "query_runs" /\ Query["schedules"] = "query_schedules"
  /\ Wanted["runs"] = RunColumns /\ Wanted["schedules"] = {"max_retries"}
  /\ Migrating = {"rename_artifacts", "rename_runs", "create_runs", "copy"}
BY DEF Alter, Query, Wanted, Migrating

LEMMA ServingStage ==
  ASSUME FileFits, NEW d
  PROVE  Stage("serving", d, tables, rows, cols, cancelled) <=> Complete
<1>1. DOMAIN cols = {"runs", "schedules"}
  BY DEF FileFits
<1>. QED  BY <1>1 DEF Stage, Complete, Queued, RunsDone, AllDone, Migrating

LEMMA ShapeTyped == Shape => TypeOK
<1>. SUFFICES ASSUME Shape PROVE TypeOK
  OBVIOUS
<1>1. DOMAIN cols = {"runs", "schedules"}
  BY DEF Shape, FileFits
<1>2. \A p \in Procs : /\ todo[p] \subseteq Models \cup RunColumns \cup {"max_retries"}
                       /\ At(p, "serving") => todo[p] = {}
  BY DEF Shape, ProcsFit, PlaceFits, Columns, At
<1>. QED  BY <1>1, <1>2 DEF Shape, FileFits, CountsFit, TypeOK

LEMMA GoodInit == Init => Good
<1>. SUFFICES ASSUME Init PROVE Good
  OBVIOUS
<1>1. FileFits
  <2>1. OldRows \subseteq Row
    BY MigrationAssumption DEF OldRows, Row
  <2>2. tables \subseteq Tables /\ (tables = {} \/ tables = Models)
    BY Names DEF Init
  <2>3. rows \in [Tables -> SUBSET Row] /\ \A t \in Tables \ tables : rows[t] = {}
    BY <2>1 DEF Init
  <2>4. /\ cols \in [{"runs", "schedules"} -> SUBSET Columns]
        /\ \A t \in {"runs", "schedules"} : cols[t] = {}
    BY DEF Init
  <2>5. cancelled \in BOOLEAN /\ (cancelled => "runs" \in tables)
    BY <2>2, TableNames DEF Init
  <2>. QED  BY <2>2, <2>3, <2>4, <2>5 DEF FileFits
<1>2. ProcsFit
  BY DEF Init, ProcsFit, PlaceFits, Places, Creating
<1>3. CountsFit
  <2>1. starts = 0 /\ born = 0
    BY DEF Init
  <2>2. cut = FALSE /\ overlapped = FALSE /\ refused = FALSE
    BY DEF Init
  <2>3. starts \in 0..MaxStarts /\ born \in 0..MaxNewRuns
    BY <2>1, MigrationAssumption
  <2>. QED  BY <2>2, <2>3 DEF CountsFit
<1>4. \A p \in Procs : pc[p] = "off"
  BY DEF Init
<1>5. OneStart
  BY <1>4 DEF OneStart, Starting
<1>6. Stages
  BY <1>4 DEF Stages, Stage, Queued, RunsDone, AllDone, Migrating
<1>7. OwnDetails
  BY TableNames DEF Init, OwnDetails
<1>8. NoOldTables /\ StartsUnlessCut
  BY TableNames DEF Init, NoOldTables, StartsUnlessCut
<1>. QED  BY <1>1, <1>2, <1>3, <1>5, <1>6, <1>7, <1>8 DEF Good, Shape

(***************************************************************************)
(* A start ends, begins or goes on, seen from the other Hubs.              *)
(***************************************************************************)
LEMMA MovesTo ==
  ASSUME ProcsFit, NEW p \in Procs, NEW l, NEW d, PlaceFits(l, d),
         pc' = [pc EXCEPT ![p] = l], todo' = [todo EXCEPT ![p] = d]
  PROVE  /\ ProcsFit'
         /\ pc'[p] = l /\ todo'[p] = d
         /\ \A q \in Procs \ {p} : pc'[q] = pc[q] /\ todo'[q] = todo[q]
<1>1. /\ pc' = [q \in Procs |-> IF q = p THEN l ELSE pc[q]]
      /\ todo' = [q \in Procs |-> IF q = p THEN d ELSE todo[q]]
  BY DEF ProcsFit
<1>. QED  BY <1>1 DEF ProcsFit

LEMMA StaysSame ==
  ASSUME ProcsFit, NEW p \in Procs
  PROVE  todo = [todo EXCEPT ![p] = todo[p]] /\ pc = [pc EXCEPT ![p] = pc[p]]
BY DEF ProcsFit

\* The process ends; a start that ends while it migrates cuts the file.
LEMMA Ends ==
  ASSUME Good, NEW p \in Procs, Goto(p, "off"), cut' = (cut \/ pc[p] \in Migrating),
         UNCHANGED <<tables, rows, cols, cancelled, todo, starts, born, overlapped>>,
         refused' \in BOOLEAN, refused' => cut' \/ overlapped
  PROVE  Good'
<1>. USE DEF Good, Shape
<1>1. PlaceFits("off", todo[p])
  BY DEF ProcsFit, PlaceFits, Places, Creating
<1>2. todo' = [todo EXCEPT ![p] = todo[p]]
  BY StaysSame
<1>3. /\ ProcsFit' /\ pc'[p] = "off" /\ todo'[p] = todo[p]
      /\ \A q \in Procs \ {p} : pc'[q] = pc[q] /\ todo'[q] = todo[q]
  BY <1>1, <1>2, MovesTo DEF Goto
<1>4. FileFits'
  BY DEF FileFits
<1>5. CountsFit'
  BY DEF CountsFit
<1>6. OneStart'
  BY <1>3 DEF OneStart, Starting
<1>7. Stages'
  <2>. SUFFICES ASSUME ~overlapped, NEW q \in Procs
                PROVE  Stage(pc'[q], todo'[q], tables, rows, cols, cancelled)
    BY DEF Stages
  <2>1. CASE q = p
    BY <1>3, <2>1 DEF Stage, Queued, RunsDone, AllDone, Migrating
  <2>2. CASE q # p
    BY <1>3, <2>2 DEF Stages
  <2>. QED  BY <2>1, <2>2
<1>8. OwnDetails'
  BY DEF OwnDetails
<1>9. NoOldTables'
  BY <1>3 DEF NoOldTables
<1>10. StartsUnlessCut'
  BY DEF StartsUnlessCut
<1>. QED  BY <1>3, <1>4, <1>5, <1>6, <1>7, <1>8, <1>9, <1>10

\* A start goes on at place l with d missing.
LEMMA GoesOn ==
  ASSUME Good, NEW p \in Procs, Starting(p), NEW l, NEW d, PlaceFits(l, d),
         pc' = [pc EXCEPT ![p] = l], todo' = [todo EXCEPT ![p] = d],
         UNCHANGED <<starts, born, cut, overlapped, refused>>, FileFits',
         ~overlapped => /\ Stage(l, d, tables', rows', cols', cancelled')
                        /\ Complete => Complete'
                        /\ \A t \in Details : rows'[t] \subseteq rows'["runs"],
         tables' \cap Dropped = {} \/ l \in Migrating
           \/ (tables' \cap Dropped = tables \cap Dropped /\ pc[p] \notin Migrating)
  PROVE  Good'
<1>0. ProcsFit
  BY DEF Good, Shape
<1>1. /\ ProcsFit' /\ pc'[p] = l /\ todo'[p] = d
      /\ \A q \in Procs \ {p} : pc'[q] = pc[q] /\ todo'[q] = todo[q]
  <2>1. PlaceFits(l, d) /\ pc' = [pc EXCEPT ![p] = l] /\ todo' = [todo EXCEPT ![p] = d]
    OBVIOUS
  <2>. QED  BY <1>0, <2>1, MovesTo, Zenon
<1>. USE DEF Good, Shape
<1>2. CountsFit'
  BY DEF CountsFit
<1>3. OneStart'
  BY <1>1 DEF OneStart, Starting
<1>4. Stages'
  <2>. SUFFICES ASSUME ~overlapped, NEW q \in Procs
                PROVE  Stage(pc'[q], todo'[q], tables', rows', cols', cancelled')
    BY DEF Stages
  <2>1. CASE q = p
    BY <1>1, <2>1
  <2>2. CASE q # p /\ pc[q] = "off"
    BY <1>1, <2>2 DEF Stage, Queued, RunsDone, AllDone, Migrating
  <2>3. CASE q # p /\ pc[q] = "serving"
    <3>1. Complete'
      <4>1. Stage("serving", todo[q], tables, rows, cols, cancelled)
        BY <2>3 DEF Stages
      <4>. QED  BY <4>1, ServingStage
    <3>2. DOMAIN cols' = {"runs", "schedules"}
      BY DEF FileFits
    <3>. QED  BY <1>1, <2>3, <3>1, <3>2 DEF Stage, Complete, Queued, RunsDone, AllDone, Migrating
  <2>. QED  BY <2>1, <2>2, <2>3 DEF OneStart, Starting
<1>5. OwnDetails'
  BY DEF OwnDetails
<1>6. NoOldTables'
  BY <1>1 DEF NoOldTables
<1>7. StartsUnlessCut'
  BY DEF StartsUnlessCut
<1>. QED  BY <1>1, <1>2, <1>3, <1>4, <1>5, <1>6, <1>7

\* A statement that reads only.
LEMMA Reads ==
  ASSUME Good, NEW p \in Procs, Starting(p), pc[p] \notin Migrating,
         NEW l, NEW d, PlaceFits(l, d),
         pc' = [pc EXCEPT ![p] = l], todo' = [todo EXCEPT ![p] = d],
         UNCHANGED <<tables, rows, cols, cancelled, starts, born, cut, overlapped, refused>>,
         ~overlapped => Stage(l, d, tables, rows, cols, cancelled)
  PROVE  Good'
<1>1. FileFits'
  BY DEF Good, Shape, FileFits
<1>2. Complete => Complete'
  BY DEF Complete
<1>3. ~overlapped => \A t \in Details : rows'[t] \subseteq rows'["runs"]
  BY DEF Good, OwnDetails
<1>. QED  BY <1>1, <1>2, <1>3, GoesOn

(***************************************************************************)
(* The statements.                                                         *)
(***************************************************************************)
\* What the place of p tells.
LEMMA AtPlace ==
  ASSUME Good, NEW p \in Procs
  PROVE  /\ FileFits /\ ProcsFit /\ PlaceFits(pc[p], todo[p])
         /\ ~overlapped => Stage(pc[p], todo[p], tables, rows, cols, cancelled)
         /\ ~overlapped => \A t \in Details : rows[t] \subseteq rows["runs"]
BY DEF Good, Shape, ProcsFit, Stages, OwnDetails

LEMMA QueryTablesGood ==
  ASSUME Good, NEW p \in Procs, QueryTables(p)
  PROVE  Good'
<1>. DEFINE d == Models \ tables
<1>0. /\ UNCHANGED <<tables, rows, cols, cancelled, starts, born, cut, overlapped, refused>>
      /\ todo' = [todo EXCEPT ![p] = d]
  BY DEF QueryTables
<1>1. CASE At(p, "create_all")
  <2>1. pc' = [pc EXCEPT ![p] = "creating"]
    BY <1>1 DEF QueryTables, At, Goto
  <2>2. PlaceFits("creating", d)
    BY DEF PlaceFits, Places, Creating
  <2>3. Stage("creating", d, tables, rows, cols, cancelled)
    BY DEF Stage, Queued, RunsDone, AllDone, Migrating
  <2>4. Starting(p) /\ pc[p] \notin Migrating
    BY <1>1 DEF At, Starting, Migrating
  <2>. QED  BY <1>0, <2>1, <2>2, <2>3, <2>4, Reads
<1>2. CASE At(p, "create_again")
  <2>1. pc' = [pc EXCEPT ![p] = "creating_again"]
    BY <1>2 DEF QueryTables, At, Goto
  <2>2. PlaceFits("creating_again", d)
    BY DEF PlaceFits, Places, Creating
  <2>3. ~overlapped => Stage("creating_again", d, tables, rows, cols, cancelled)
    BY <1>2, AtPlace DEF At, Stage, Queued, RunsDone, AllDone, Migrating
  <2>4. Starting(p) /\ pc[p] \notin Migrating
    BY <1>2 DEF At, Starting, Migrating
  <2>. QED  BY <1>0, <2>1, <2>2, <2>3, <2>4, Reads
<1>. QED  BY <1>1, <1>2 DEF QueryTables

LEMMA CreateTableGood ==
  ASSUME Good, NEW p \in Procs, CreateTable(p)
  PROVE  Good'
<1>0. Starting(p) /\ pc[p] \notin Migrating /\ pc[p] \in Creating
  BY DEF CreateTable, Starting, Migrating, Creating
<1>1. PICK t \in todo[p] :
        \/ t \in tables /\ Fails(p)
        \/ /\ t \notin tables
           /\ tables' = tables \cup {t}
           /\ cols' = IF t \in DOMAIN cols THEN [cols EXCEPT ![t] = Wanted[t]] ELSE cols
           /\ cancelled' = (cancelled \/ t = "runs")
           /\ todo' = [todo EXCEPT ![p] = @ \ {t}]
           /\ UNCHANGED <<rows, pc, starts, born, cut, overlapped, refused>>
  BY DEF CreateTable
<1>2. t \in Models
  BY <1>0, AtPlace DEF PlaceFits
<1>3. CASE t \in tables /\ Fails(p)
  <2>1. ~overlapped => t \notin tables
    BY <1>0, AtPlace DEF Stage, Creating
  <2>. QED  BY <1>3, <2>1, Ends DEF Fails
<1>4. CASE /\ t \notin tables
           /\ tables' = tables \cup {t}
           /\ cols' = IF t \in DOMAIN cols THEN [cols EXCEPT ![t] = Wanted[t]] ELSE cols
           /\ cancelled' = (cancelled \/ t = "runs")
           /\ todo' = [todo EXCEPT ![p] = @ \ {t}]
           /\ UNCHANGED <<rows, pc, starts, born, cut, overlapped, refused>>
  <2>. DEFINE d == todo[p] \ {t}
  <2>1. FileFits'
    <3>1. FileFits
      BY AtPlace
    <3>2. DOMAIN cols = {"runs", "schedules"}
      BY <3>1 DEF FileFits
    <3>3. /\ cols' \in [{"runs", "schedules"} -> SUBSET Columns]
          /\ \A u \in {"runs", "schedules"} : cols'[u] = IF u = t THEN Wanted[u] ELSE cols[u]
      BY <1>4, <3>1, <3>2 DEF FileFits, Wanted, Columns
    <3>4. tables' \subseteq Tables
      BY <1>2, <1>4, <3>1 DEF FileFits, Tables
    <3>5. \A u \in {"runs", "schedules"} :
            cols'[u] \subseteq Wanted[u] /\ (u \notin tables' => cols'[u] = {})
      BY <1>4, <3>1, <3>3 DEF FileFits
    <3>6. cancelled' \in BOOLEAN /\ (cancelled' => "runs" \in tables')
      BY <1>4, <3>1 DEF FileFits
    <3>. QED  BY <1>4, <3>1, <3>3, <3>4, <3>5, <3>6 DEF FileFits
  <2>2. PlaceFits(pc[p], d)
    BY <1>0, AtPlace DEF PlaceFits, Creating
  <2>3. pc' = [pc EXCEPT ![p] = pc[p]] /\ todo' = [todo EXCEPT ![p] = d]
    BY <1>4, AtPlace, StaysSame
  <2>4. ~overlapped => Stage(pc[p], d, tables', rows', cols', cancelled')
    BY <1>0, <1>1, <1>4, AtPlace DEF Stage, Creating, Queued, RunsDone, AllDone, Migrating
  <2>5. ~Complete
    BY <1>2, <1>4 DEF Complete
  <2>6. tables' \cap Dropped = tables \cap Dropped
    BY <1>2, <1>4, TableNames
  <2>. QED  BY <1>0, <1>4, <2>1, <2>2, <2>3, <2>4, <2>5, <2>6, AtPlace, GoesOn
<1>. QED  BY <1>1, <1>3, <1>4

LEMMA TablesCreatedGood ==
  ASSUME Good, NEW p \in Procs, TablesCreated(p)
  PROVE  Good'
<1>. DEFINE l == IF pc[p] = "creating" THEN "query_sql" ELSE "serving"
<1>0. /\ UNCHANGED <<tables, rows, cols, cancelled, starts, born, cut, overlapped, refused>>
      /\ todo' = todo /\ pc' = [pc EXCEPT ![p] = l] /\ todo[p] = {}
      /\ pc[p] \in Creating
  BY DEF TablesCreated, At, Goto, NothingLeft, Creating
<1>1. todo' = [todo EXCEPT ![p] = {}]
  BY <1>0, AtPlace, StaysSame
<1>2. PlaceFits(l, {})
  BY DEF PlaceFits, Places, Creating, Queued
<1>3. ~overlapped => Stage(l, {}, tables, rows, cols, cancelled)
  BY <1>0, AtPlace DEF Stage, Creating, Queued, RunsDone, AllDone, Migrating
<1>4. Starting(p) /\ pc[p] \notin Migrating
  BY <1>0 DEF Starting, Migrating, Creating
<1>. QED  BY <1>0, <1>1, <1>2, <1>3, <1>4, Reads

LEMMA QuerySqlGood ==
  ASSUME Good, NEW p \in Procs, QuerySql(p)
  PROVE  Good'
<1>. DEFINE l == IF cancelled \/ "runs" \notin tables THEN "query_runs" ELSE "rename_steps"
<1>0. /\ UNCHANGED <<tables, rows, cols, cancelled, starts, born, cut, overlapped, refused>>
      /\ todo' = todo /\ pc' = [pc EXCEPT ![p] = l] /\ pc[p] = "query_sql"
  BY DEF QuerySql, At, Goto, AfterQueue
<1>1. todo' = [todo EXCEPT ![p] = todo[p]]
  BY <1>0, AtPlace, StaysSame
<1>2. PlaceFits(l, todo[p])
  BY AtPlace DEF PlaceFits, Places, Creating, Queued
<1>3. ~overlapped => Stage(l, todo[p], tables, rows, cols, cancelled)
  BY <1>0, AtPlace, TableNames DEF Stage, Queued, RunsDone, AllDone, Migrating
<1>4. Starting(p) /\ pc[p] \notin Migrating
  BY <1>0 DEF Starting, Migrating
<1>. QED  BY <1>0, <1>1, <1>2, <1>3, <1>4, Reads

LEMMA QueryColumnsGood ==
  ASSUME Good, NEW p \in Procs, NEW t \in {"runs", "schedules"}, QueryColumns(p, t)
  PROVE  Good'
<1>. DEFINE d == MissingColumns(t)
<1>0. /\ UNCHANGED <<tables, rows, cols, cancelled, starts, born, cut, overlapped, refused>>
      /\ todo' = [todo EXCEPT ![p] = d] /\ pc' = [pc EXCEPT ![p] = Alter[t]] /\ pc[p] = Query[t]
  BY DEF QueryColumns, At, Goto
<1>1. d \subseteq Wanted[t]
  BY DEF MissingColumns
<1>2. PlaceFits(Alter[t], d)
  BY <1>1, Words DEF PlaceFits, Places, Creating, Queued, Columns
<1>3. ~overlapped => Stage(Alter[t], d, tables, rows, cols, cancelled)
  BY <1>0, AtPlace, TableNames, Words DEF MissingColumns, Stage, Queued, RunsDone, AllDone
<1>4. Starting(p) /\ pc[p] \notin Migrating
  BY <1>0, Words DEF Starting
<1>. QED  BY <1>0, <1>2, <1>3, <1>4, Reads

LEMMA ColumnsAddedGood ==
  ASSUME Good, NEW p \in Procs, NEW t \in {"runs", "schedules"}, NEW next,
         ColumnsAdded(p, t, next),
         \/ t = "runs" /\ next = "query_schedules"
         \/ t = "schedules" /\ next = "create_again"
  PROVE  Good'
<1>0. /\ UNCHANGED <<tables, rows, cols, cancelled, starts, born, cut, overlapped, refused>>
      /\ todo' = todo /\ pc' = [pc EXCEPT ![p] = next] /\ pc[p] = Alter[t] /\ todo[p] = {}
  BY DEF ColumnsAdded, At, Goto
<1>1. todo' = [todo EXCEPT ![p] = {}]
  BY <1>0, AtPlace, StaysSame
<1>2. PlaceFits(next, {})
  BY DEF PlaceFits, Places, Creating, Queued
<1>3. ~overlapped => Stage(next, {}, tables, rows, cols, cancelled)
  <2>1. cols[t] \subseteq Wanted[t]
    BY AtPlace DEF FileFits
  <2>2. CASE t = "runs"
    BY <1>0, <2>1, <2>2, AtPlace, Words DEF Stage, Queued, RunsDone, AllDone
  <2>3. CASE t = "schedules"
    BY <1>0, <2>1, <2>3, AtPlace, Words DEF Stage, Queued, RunsDone, AllDone
  <2>. QED  BY <2>2, <2>3
<1>4. Starting(p) /\ pc[p] \notin Migrating
  BY <1>0, Words DEF Starting
<1>. QED  BY <1>0, <1>1, <1>2, <1>3, <1>4, Reads

LEMMA AddColumnGood ==
  ASSUME Good, NEW p \in Procs, NEW t \in {"runs", "schedules"}, AddColumn(p, t)
  PROVE  Good'
<1>0. pc[p] = Alter[t] /\ Starting(p) /\ pc[p] \notin Migrating /\ pc[p] \in Queued
  BY Words DEF AddColumn, At, Starting, Queued
<1>1. PICK c \in todo[p] :
       \/ (t \notin tables \/ c \in cols[t]) /\ Fails(p)
       \/ /\ t \in tables /\ c \notin cols[t]
          /\ cols' = [cols EXCEPT ![t] = @ \cup {c}]
          /\ todo' = [todo EXCEPT ![p] = @ \ {c}]
          /\ UNCHANGED <<tables, rows, cancelled, pc, starts, born, cut, overlapped, refused>>
  BY DEF AddColumn
<1>2. c \in Wanted[t]
  BY <1>0, AtPlace, Words DEF PlaceFits
<1>3. CASE (t \notin tables \/ c \in cols[t]) /\ Fails(p)
  <2>1. ~overlapped => t \in tables /\ c \notin cols[t]
    BY <1>0, AtPlace, Words, TableNames DEF Stage, Queued
  <2>. QED  BY <1>3, <2>1, Ends DEF Fails
<1>4. CASE /\ t \in tables /\ c \notin cols[t]
           /\ cols' = [cols EXCEPT ![t] = @ \cup {c}]
           /\ todo' = [todo EXCEPT ![p] = @ \ {c}]
           /\ UNCHANGED <<tables, rows, cancelled, pc, starts, born, cut, overlapped, refused>>
  <2>. DEFINE d == todo[p] \ {c}
  <2>1. /\ cols \in [{"runs", "schedules"} -> SUBSET Columns] /\ FileFits
        /\ cols'[t] = cols[t] \cup {c}
        /\ \A u \in {"runs", "schedules"} \ {t} : cols'[u] = cols[u]
    BY <1>4, AtPlace DEF FileFits
  <2>2. FileFits'
    <3>1. c \in Columns
      BY <1>2, Words DEF Columns
    <3>2. cols' \in [{"runs", "schedules"} -> SUBSET Columns]
      BY <1>4, <2>1, <3>1
    <3>3. \A u \in {"runs", "schedules"} :
            cols'[u] \subseteq Wanted[u] /\ (u \notin tables' => cols'[u] = {})
      BY <1>2, <1>4, <2>1 DEF FileFits
    <3>. QED  BY <1>4, <2>1, <3>2, <3>3 DEF FileFits
  <2>3. PlaceFits(pc[p], d)
    BY AtPlace DEF PlaceFits
  <2>4. pc' = [pc EXCEPT ![p] = pc[p]] /\ todo' = [todo EXCEPT ![p] = d]
    BY <1>4, AtPlace, StaysSame
  <2>5. ~overlapped => Stage(pc[p], d, tables', rows', cols', cancelled')
    BY <1>0, <1>2, <1>4, <2>1, AtPlace, Words DEF Stage, Queued, RunsDone, AllDone
  <2>6. ~Complete
    <3>1. DOMAIN cols = {"runs", "schedules"}
      BY <2>1
    <3>. QED  BY <1>2, <1>4, <3>1 DEF Complete
  <2>7. tables' \cap Dropped = tables \cap Dropped
    BY <1>4
  <2>. QED  BY <1>0, <1>4, <2>2, <2>3, <2>4, <2>5, <2>6, <2>7, AtPlace, GoesOn
<1>. QED  BY <1>1, <1>3, <1>4

\* A statement that fails while the file is migrated ends the start there.
LEMMA MigratingFails ==
  ASSUME Good, NEW p \in Procs, Fails(p), pc[p] \in Migrating
  PROVE  Good'
BY Ends DEF Fails

\* What ALTER TABLE t RENAME does to the file.
LEMMA Renamed ==
  ASSUME FileFits, NEW t \in Live, t \in tables, Old[t] \notin tables,
         tables' = (tables \ {t}) \cup {Old[t]},
         rows' = [rows EXCEPT ![Old[t]] = rows[t], ![t] = {}],
         cols' = IF t = "runs" THEN [cols EXCEPT !["runs"] = {}] ELSE cols,
         cancelled' = (cancelled /\ t # "runs")
  PROVE  /\ FileFits'
         /\ rows'[t] = {} /\ rows'[Old[t]] = rows[t]
         /\ \A u \in Tables \ {t, Old[t]} : rows'[u] = rows[u]
<1>1. t \in Tables /\ Old[t] \in Tables /\ t # Old[t]
  BY Names
<1>2. rows'[t] = {} /\ rows'[Old[t]] = rows[t]
  BY <1>1 DEF FileFits
<1>3. \A u \in Tables \ {t, Old[t]} : rows'[u] = rows[u]
  BY <1>1 DEF FileFits
<1>4. rows' \in [Tables -> SUBSET Row]
  BY <1>1 DEF FileFits
<1>5. \A u \in Tables \ tables' : rows'[u] = {}
  BY <1>2, <1>3 DEF FileFits
<1>6. tables' \subseteq Tables
  BY <1>1 DEF FileFits
<1>7. /\ cols' \in [{"runs", "schedules"} -> SUBSET Columns]
      /\ \A u \in {"runs", "schedules"} : cols'[u] = IF t = "runs" /\ u = t THEN {} ELSE cols[u]
  BY DEF FileFits
<1>8. \A u \in {"runs", "schedules"} : u \notin tables' => u \notin tables \/ u = t
  OBVIOUS
<1>9. t # "schedules"
  BY TableNames
<1>10. \A u \in {"runs", "schedules"} :
         cols'[u] \subseteq Wanted[u] /\ (u \notin tables' => cols'[u] = {})
  BY <1>7, <1>8, <1>9 DEF FileFits
<1>11. cancelled' \in BOOLEAN /\ (cancelled' => "runs" \in tables')
  BY DEF FileFits
<1>. QED  BY <1>2, <1>3, <1>4, <1>5, <1>6, <1>7, <1>10, <1>11 DEF FileFits

\* A rename that goes on at the next place of the migration.
LEMMA RenameGood ==
  ASSUME Good, NEW p \in Procs, NEW l, NEW t \in Live, NEW next, Rename(p, l, t, next),
         \/ l = "rename_steps" /\ t = "run_steps" /\ next = "rename_artifacts"
         \/ l = "rename_artifacts" /\ t = "artifacts" /\ next = "rename_runs"
         \/ l = "rename_runs" /\ t = "runs" /\ next = "create_runs"
  PROVE  Good'
<1>0. pc[p] = l /\ Starting(p)
  BY DEF Rename, At, Starting
<1>1. CASE (t \notin tables \/ Old[t] \in tables) /\ Fails(p)
  <2>1. CASE pc[p] \in Migrating
    BY <1>1, <2>1, MigratingFails
  <2>2. CASE pc[p] \notin Migrating
    <3>1. l = "rename_steps" /\ t = "run_steps"
      BY <1>0, <2>2, Words
    <3>2. ~overlapped => t \in tables
      BY <1>0, <3>1, AtPlace, TableNames DEF Stage
    <3>3. ~overlapped => \A q \in Procs : pc[q] \notin Migrating
      <4>1. \A q \in Procs : pc[q] \in Migrating => Starting(q)
        BY Words DEF Starting
      <4>. QED  BY <1>0, <2>2, <4>1 DEF Good, OneStart
    <3>4. ~overlapped => cut \/ Old[t] \notin tables
      BY <3>1, <3>3, TableNames DEF Good, NoOldTables
    <3>. QED  BY <1>1, <3>2, <3>4, Ends DEF Fails
  <2>. QED  BY <2>1, <2>2
<1>2. CASE /\ t \in tables /\ Old[t] \notin tables
           /\ tables' = (tables \ {t}) \cup {Old[t]}
           /\ rows' = [rows EXCEPT ![Old[t]] = rows[t], ![t] = {}]
           /\ cols' = IF t = "runs" THEN [cols EXCEPT !["runs"] = {}] ELSE cols
           /\ cancelled' = (cancelled /\ t # "runs")
           /\ Goto(p, next)
           /\ UNCHANGED <<todo, starts, born, cut, overlapped, refused>>
  <2>1. FileFits
    BY AtPlace
  <2>2. /\ FileFits'
        /\ rows'[t] = {} /\ rows'[Old[t]] = rows[t]
        /\ \A u \in Tables \ {t, Old[t]} : rows'[u] = rows[u]
    BY <1>2, <2>1, Renamed
  <2>3. PlaceFits(next, todo[p])
    BY AtPlace, Words DEF PlaceFits, Places, Creating
  <2>4. pc' = [pc EXCEPT ![p] = next] /\ todo' = [todo EXCEPT ![p] = todo[p]]
    BY <1>2, AtPlace, StaysSame DEF Goto
  <2>5. next \in Migrating
    BY Words
  <2>6. ~overlapped => \A u \in Tables \ tables : rows[u] = {}
    BY <2>1 DEF FileFits
  <2>7. ~overlapped => /\ Stage(next, todo[p], tables', rows', cols', cancelled')
                       /\ ~Complete
                       /\ \A u \in Details : rows'[u] \subseteq rows'["runs"]
    <3>1. CASE l = "rename_steps"
      <4>1. t = "run_steps" /\ Old[t] = "run_steps_old" /\ next = "rename_artifacts"
        BY <3>1, TableNames
      <4>2. ~overlapped => Models \subseteq tables /\ ~cancelled
        BY <1>0, <3>1, AtPlace DEF Stage
      <4>3. /\ rows'["run_steps_old"] = rows["run_steps"] /\ rows'["run_steps"] = {}
            /\ rows'["artifacts"] = rows["artifacts"] /\ rows'["runs"] = rows["runs"]
        BY <2>2, <4>1, TableNames
      <4>4. ~overlapped => \A u \in Details : rows'[u] \subseteq rows'["runs"]
        BY <4>3, AtPlace, TableNames
      <4>5. ~overlapped => rows["run_steps"] \subseteq rows["runs"]
        BY AtPlace, TableNames
      <4>6. ~overlapped => Stage(next, todo[p], tables', rows', cols', cancelled')
        BY <1>2, <4>1, <4>2, <4>3, <4>5, TableNames
        DEF Stage, Queued, RunsDone, AllDone, Migrating
      <4>. QED  BY <4>2, <4>4, <4>6 DEF Complete
    <3>2. CASE l = "rename_artifacts"
      <4>1. t = "artifacts" /\ Old[t] = "artifacts_old" /\ next = "rename_runs"
        BY <3>2, TableNames
      <4>2. ~overlapped => /\ "schedules" \in tables /\ "run_steps" \notin tables
                           /\ "run_steps_old" \in tables /\ "runs" \in tables
                           /\ rows["run_steps_old"] \subseteq rows["runs"]
        BY <1>0, <3>2, AtPlace, Words DEF Stage
      <4>3. /\ rows'["artifacts_old"] = rows["artifacts"] /\ rows'["artifacts"] = {}
            /\ rows'["run_steps"] = rows["run_steps"] /\ rows'["runs"] = rows["runs"]
            /\ rows'["run_steps_old"] = rows["run_steps_old"]
        BY <2>2, <4>1, TableNames
      <4>4. ~overlapped => \A u \in Details : rows'[u] \subseteq rows'["runs"]
        BY <4>3, AtPlace, TableNames
      <4>5. ~overlapped => rows["artifacts"] \subseteq rows["runs"]
        BY AtPlace, TableNames
      <4>6. ~overlapped => Stage(next, todo[p], tables', rows', cols', cancelled')
        BY <1>2, <4>1, <4>2, <4>3, <4>5, TableNames
        DEF Stage, Queued, RunsDone, AllDone, Migrating, OldDetails
      <4>. QED  BY <4>2, <4>4, <4>6, TableNames DEF Complete
    <3>3. CASE l = "rename_runs"
      <4>1. t = "runs" /\ Old[t] = "runs_old" /\ next = "create_runs"
        BY <3>3, TableNames
      <4>2. ~overlapped => /\ "schedules" \in tables /\ "run_steps" \notin tables
                           /\ "run_steps_old" \in tables /\ "artifacts" \notin tables
                           /\ "artifacts_old" \in tables
                           /\ \A u \in OldDetails : rows[u] \subseteq rows["runs"]
        BY <1>0, <3>3, AtPlace, Words DEF Stage
      <4>3. /\ rows'["runs_old"] = rows["runs"] /\ rows'["runs"] = {}
            /\ rows'["run_steps"] = rows["run_steps"] /\ rows'["artifacts"] = rows["artifacts"]
            /\ \A u \in OldDetails : rows'[u] = rows[u]
        BY <2>2, <4>1, TableNames DEF OldDetails
      <4>4. ~overlapped => \A u \in Details : rows'[u] \subseteq rows'["runs"]
        BY <2>6, <4>2, <4>3, TableNames
      <4>5. ~overlapped => Stage(next, todo[p], tables', rows', cols', cancelled')
        BY <1>2, <4>1, <4>2, <4>3, TableNames
        DEF Stage, Queued, RunsDone, AllDone, Migrating
      <4>. QED  BY <4>2, <4>4, <4>5, TableNames DEF Complete
    <3>. QED  BY <3>1, <3>2, <3>3
  <2>. QED  BY <1>0, <1>2, <2>2, <2>3, <2>4, <2>5, <2>7, GoesOn
<1>. QED  BY <1>1, <1>2 DEF Rename

LEMMA CreateRunsGood ==
  ASSUME Good, NEW p \in Procs, CreateRuns(p)
  PROVE  Good'
<1>0. pc[p] = "create_runs" /\ Starting(p) /\ pc[p] \in Migrating
  BY Words DEF CreateRuns, At, Starting
<1>1. CASE Fails(p)
  BY <1>0, <1>1, MigratingFails
<1>2. CASE /\ "runs" \notin tables
           /\ tables' = tables \cup {"runs"} /\ cancelled' = TRUE
           /\ Goto(p, "copy")
           /\ UNCHANGED <<rows, cols, todo, starts, born, cut, overlapped, refused>>
  <2>1. FileFits /\ rows["runs"] = {}
    BY <1>2, AtPlace, TableNames DEF FileFits
  <2>2. FileFits'
    BY <1>2, <2>1, TableNames DEF FileFits
  <2>3. PlaceFits("copy", todo[p])
    BY AtPlace, Words DEF PlaceFits, Places, Creating
  <2>4. pc' = [pc EXCEPT ![p] = "copy"] /\ todo' = [todo EXCEPT ![p] = todo[p]]
    BY <1>2, AtPlace, StaysSame DEF Goto
  <2>5. "copy" \in Migrating
    BY Words
  <2>6. ~overlapped => Stage("copy", todo[p], tables', rows', cols', cancelled')
    BY <1>0, <1>2, <2>1, AtPlace DEF Stage, Queued, RunsDone, AllDone, Migrating
  <2>7. ~Complete
    BY <1>2, TableNames DEF Complete
  <2>8. ~overlapped => \A t \in Details : rows'[t] \subseteq rows'["runs"]
    BY <1>2, AtPlace
  <2>. QED  BY <1>0, <1>2, <2>2, <2>3, <2>4, <2>5, <2>6, <2>7, <2>8, GoesOn
<1>. QED  BY <1>1, <1>2 DEF CreateRuns

LEMMA CopyGood ==
  ASSUME Good, NEW p \in Procs, Copy(p)
  PROVE  Good'
<1>0. pc[p] = "copy" /\ Starting(p) /\ pc[p] \in Migrating
  BY Words DEF Copy, At, Starting
<1>1. CASE Fails(p)
  BY <1>0, <1>1, MigratingFails
<1>2. CASE /\ CopyFits
           /\ tables' = (tables \cup Live) \ Dropped
           /\ rows' = Copied
           /\ Goto(p, "query_runs")
           /\ UNCHANGED <<cols, cancelled, todo, starts, born, cut, overlapped, refused>>
  <2>1. FileFits /\ "runs" \in tables /\ Details \cap tables = {}
    BY <1>2, AtPlace DEF CopyFits
  <2>2. \A t \in Live : rows'[t] = rows[t] \cup rows[Old[t]]
    BY <1>2, Names DEF Copied
  <2>3. \A t \in Tables \ Live : rows'[t] = IF t \in Dropped THEN {} ELSE rows[t]
    BY <1>2, TableNames DEF Copied
  <2>4. FileFits'
    <3>1. rows' \in [Tables -> SUBSET Row]
      <4>1. \A t \in Tables : rows[t] \subseteq Row
        BY <2>1 DEF FileFits
      <4>2. \A t \in Live : rows[t] \subseteq Row /\ rows[Old[t]] \subseteq Row
        BY <4>1, Names
      <4>3. \A t \in Tables : rows'[t] \subseteq Row
        BY <2>2, <2>3, <4>1, <4>2
      <4>4. rows' = [t \in Tables |-> rows'[t]]
        BY <1>2 DEF Copied
      <4>. QED  BY <4>3, <4>4
    <3>2. tables' \subseteq Tables
      BY <1>2, <2>1, TableNames DEF FileFits
    <3>3. \A t \in Tables \ tables' : rows'[t] = {}
      BY <1>2, <2>1, <2>3, TableNames DEF FileFits
    <3>4. \A t \in {"runs", "schedules"} : t \in tables => t \in tables'
      BY <1>2, TableNames
    <3>. QED  BY <1>2, <2>1, <3>1, <3>2, <3>3, <3>4 DEF FileFits
  <2>5. PlaceFits("query_runs", todo[p])
    BY AtPlace DEF PlaceFits, Places, Creating, Queued
  <2>6. pc' = [pc EXCEPT ![p] = "query_runs"] /\ todo' = [todo EXCEPT ![p] = todo[p]]
    BY <1>2, AtPlace, StaysSame DEF Goto
  <2>7. tables' \cap Dropped = {}
    BY <1>2
  <2>8. ~overlapped => Stage("query_runs", todo[p], tables', rows', cols', cancelled')
    <3>1. ~overlapped => "schedules" \in tables /\ cancelled
      BY <1>0, AtPlace DEF Stage, Migrating
    <3>2. ~overlapped => Models \subseteq tables'
      BY <1>2, <3>1, TableNames
    <3>. QED  BY <1>2, <3>1, <3>2 DEF Stage, Queued, RunsDone, AllDone, Migrating
  <2>9. ~Complete
    BY <2>1, TableNames DEF Complete
  <2>10. ~overlapped => \A t \in Details : rows'[t] \subseteq rows'["runs"]
    <3>1. ~overlapped => \A t \in OldDetails : rows[t] \subseteq rows["runs_old"]
      BY <1>0, AtPlace DEF Stage
    <3>2. \A t \in Details : rows[t] = {}
      BY <2>1, TableNames DEF FileFits
    <3>. QED  BY <2>2, <3>1, <3>2, TableNames DEF OldDetails
  <2>. QED  BY <1>0, <1>2, <2>4, <2>5, <2>6, <2>7, <2>8, <2>9, <2>10, GoesOn
<1>. QED  BY <1>1, <1>2 DEF Copy, AfterQueue

\* A run that a serving Hub inserts while another one starts changes nothing
\* the start relies on, as the file is complete.
LEMMA NewRunGood ==
  ASSUME Good, NEW p \in Procs, NewRun(p)
  PROVE  Good'
<1>. DEFINE ids == {x.id : x \in rows["runs"]}
<1>0. FileFits /\ ProcsFit /\ CountsFit
  BY AtPlace DEF Good, Shape
<1>1. /\ Complete /\ born < MaxNewRuns /\ born' = born + 1
      /\ UNCHANGED <<tables, cols, cancelled, pc, todo, starts, cut, overlapped, refused>>
  BY DEF NewRun
<1>2. PICK id \in {1} \cup {i + 1 : i \in ids} :
        rows' = [t \in Tables |-> IF t \in Live THEN rows[t] \cup {[id |-> id, old |-> FALSE]}
                                  ELSE rows[t]]
  BY DEF NewRun
<1>. DEFINE new == [id |-> id, old |-> FALSE]
<1>3. new \in Row
  <2>1. rows["runs"] \subseteq Row
    BY <1>0, TableNames DEF FileFits
  <2>2. ids \subseteq Nat \ {0}
    BY <2>1 DEF Row
  <2>3. id = 1 \/ \E i \in ids : id = i + 1
    OBVIOUS
  <2>. HIDE DEF ids
  <2>4. id \in Nat \ {0}
    BY <2>2, <2>3
  <2>. QED  BY <2>4 DEF Row
<1>. HIDE DEF new
<1>4. \A t \in Live : rows'[t] = rows[t] \cup {new}
  BY <1>2, TableNames DEF new
<1>5. FileFits'
  <2>1. rows' \in [Tables -> SUBSET Row]
    BY <1>0, <1>2, <1>3 DEF FileFits, new
  <2>2. Live \subseteq tables
    BY <1>1, Names DEF Complete
  <2>3. \A t \in Tables \ tables' : rows'[t] = {}
    BY <1>0, <1>1, <1>2, <2>2 DEF FileFits
  <2>. QED  BY <1>0, <1>1, <2>1, <2>3 DEF FileFits
<1>6. ProcsFit' /\ CountsFit'
  BY <1>0, <1>1, MigrationAssumption DEF ProcsFit, CountsFit
<1>7. OneStart'
  BY <1>1 DEF Good, OneStart, Starting
<1>8. Stages'
  <2>. SUFFICES ASSUME ~overlapped, NEW q \in Procs
                PROVE  Stage(pc[q], todo[q], tables, rows', cols, cancelled)
    BY <1>1 DEF Stages
  <2>1. Stage(pc[q], todo[q], tables, rows, cols, cancelled)
    BY DEF Good, Stages
  <2>2. pc[q] \notin Migrating
    BY <1>1, <2>1, TableNames DEF Complete, Stage
  <2>. QED  BY <2>1, <2>2, Words DEF Stage, Queued, RunsDone, AllDone
<1>9. OwnDetails'
  BY <1>1, <1>4, TableNames DEF Good, OwnDetails
<1>10. NoOldTables' /\ StartsUnlessCut'
  BY <1>1 DEF Good, NoOldTables, StartsUnlessCut
<1>. QED  BY <1>5, <1>6, <1>7, <1>8, <1>9, <1>10 DEF Good, Shape

LEMMA StartGood ==
  ASSUME Good, NEW p \in Procs, Start(p)
  PROVE  Good'
<1>0. FileFits /\ ProcsFit /\ CountsFit
  BY AtPlace DEF Good, Shape
<1>1. /\ pc[p] = "off" /\ pc' = [pc EXCEPT ![p] = "create_all"] /\ todo' = todo
      /\ starts < MaxStarts /\ starts' = starts + 1
      /\ overlapped' = (overlapped \/ \E q \in Procs : Starting(q))
      /\ UNCHANGED <<tables, rows, cols, cancelled, born, cut, refused>>
  BY DEF Start, At, Goto
<1>2. PlaceFits("create_all", todo[p])
  BY AtPlace DEF PlaceFits, Places, Creating
<1>3. todo' = [todo EXCEPT ![p] = todo[p]]
  BY <1>0, <1>1, StaysSame
<1>4. /\ ProcsFit' /\ pc'[p] = "create_all" /\ todo'[p] = todo[p]
      /\ \A q \in Procs \ {p} : pc'[q] = pc[q] /\ todo'[q] = todo[q]
  BY <1>0, <1>1, <1>2, <1>3, MovesTo
<1>5. FileFits'
  BY <1>0, <1>1 DEF FileFits
<1>6. CountsFit'
  <2>1. starts' \in 0..MaxStarts /\ born' \in 0..MaxNewRuns
    BY <1>0, <1>1, MigrationAssumption DEF CountsFit
  <2>2. cut' \in BOOLEAN /\ overlapped' \in BOOLEAN /\ refused' \in BOOLEAN
    BY <1>0, <1>1 DEF CountsFit
  <2>. QED  BY <2>1, <2>2 DEF CountsFit
<1>7. OneStart'
  BY <1>1, <1>4 DEF OneStart, Starting
<1>8. Stages'
  <2>. SUFFICES ASSUME ~overlapped, NEW q \in Procs
                PROVE  Stage(pc'[q], todo'[q], tables, rows, cols, cancelled)
    BY <1>1 DEF Stages
  <2>1. CASE q = p
    BY <1>4, <2>1 DEF Stage, Queued, RunsDone, AllDone, Migrating
  <2>2. CASE q # p
    BY <1>4, <2>2 DEF Good, Stages
  <2>. QED  BY <2>1, <2>2
<1>9. OwnDetails'
  BY <1>1 DEF Good, OwnDetails
<1>10. NoOldTables'
  <2>1. pc[p] \notin Migrating
    BY <1>1, Words
  <2>. QED  BY <1>1, <1>4, <2>1 DEF Good, NoOldTables
<1>11. StartsUnlessCut'
  BY <1>1 DEF Good, StartsUnlessCut
<1>. QED  BY <1>4, <1>5, <1>6, <1>7, <1>8, <1>9, <1>10, <1>11 DEF Good, Shape

LEMMA KilledGood ==
  ASSUME Good, NEW p \in Procs, Killed(p)
  PROVE  Good'
<1>1. refused' \in BOOLEAN /\ (refused' => cut' \/ overlapped)
  BY DEF Killed, Good, Shape, CountsFit, StartsUnlessCut
<1>. QED  BY <1>1, Ends DEF Killed

LEMMA NextGood == Good /\ [Next]_vars => Good'
<1>. SUFFICES ASSUME Good, [Next]_vars PROVE Good'
  OBVIOUS
<1>1. CASE UNCHANGED vars
  BY <1>1 DEF vars, Good, Shape, FileFits, ProcsFit, CountsFit, OneStart, Starting, Stages,
              OwnDetails, NoOldTables, StartsUnlessCut
<1>2. ASSUME NEW p \in Procs, InitDb(p)
      PROVE  Good'
  <2>1. \/ QueryTables(p) \/ CreateTable(p) \/ TablesCreated(p) \/ QuerySql(p)
        \/ \E l, t, next : /\ Rename(p, l, t, next) /\ t \in Live
                           /\ \/ l = "rename_steps" /\ t = "run_steps" /\ next = "rename_artifacts"
                              \/ l = "rename_artifacts" /\ t = "artifacts" /\ next = "rename_runs"
                              \/ l = "rename_runs" /\ t = "runs" /\ next = "create_runs"
        \/ CreateRuns(p) \/ Copy(p)
        \/ \E t \in {"runs", "schedules"} : QueryColumns(p, t) \/ AddColumn(p, t)
        \/ \E t \in {"runs", "schedules"}, next \in {"query_schedules", "create_again"} :
             /\ ColumnsAdded(p, t, next)
             /\ \/ t = "runs" /\ next = "query_schedules"
                \/ t = "schedules" /\ next = "create_again"
    BY <1>2, TableNames DEF InitDb
  <2>2. ASSUME NEW l, NEW t, NEW next, Rename(p, l, t, next), t \in Live,
               \/ l = "rename_steps" /\ t = "run_steps" /\ next = "rename_artifacts"
               \/ l = "rename_artifacts" /\ t = "artifacts" /\ next = "rename_runs"
               \/ l = "rename_runs" /\ t = "runs" /\ next = "create_runs"
        PROVE  Good'
    BY <2>2, RenameGood
  <2>3. ASSUME NEW t \in {"runs", "schedules"}, NEW next, ColumnsAdded(p, t, next),
               \/ t = "runs" /\ next = "query_schedules"
               \/ t = "schedules" /\ next = "create_again"
        PROVE  Good'
    BY <2>3, ColumnsAddedGood
  <2>. QED  BY <2>1, <2>2, <2>3, QueryTablesGood, CreateTableGood, TablesCreatedGood,
               QuerySqlGood, CreateRunsGood, CopyGood, QueryColumnsGood, AddColumnGood
<1>. QED  BY <1>1, <1>2, StartGood, KilledGood, NewRunGood DEF Next

LEMMA GoodServes == Good => ServesWholeFile
<1>. SUFFICES ASSUME Good PROVE ServesWholeFile
  OBVIOUS
<1>0. TypeOK /\ FileFits
  BY ShapeTyped DEF Good, Shape
<1>1. ASSUME ~overlapped, NEW p \in Procs, At(p, "serving")
      PROVE  Complete
  <2>1. Stage("serving", todo[p], tables, rows, cols, cancelled)
    BY <1>1 DEF At, Good, Stages
  <2>. QED  BY <1>0, <2>1, ServingStage
<1>2. ASSUME ~overlapped, ~cut, NEW p \in Procs, At(p, "serving")
      PROVE  \A t \in Live : rows[Old[t]] = {}
  <2>1. \A q \in Procs : pc[q] \notin Migrating
    <3>1. Complete
      BY <1>1, <1>2
    <3>2. \A q \in Procs : Stage(pc[q], todo[q], tables, rows, cols, cancelled)
      BY <1>2 DEF Good, Stages
    <3>. QED  BY <3>1, <3>2, TableNames DEF Complete, Stage
  <2>2. tables \cap Dropped = {}
    BY <1>2, <2>1 DEF Good, NoOldTables
  <2>. QED  BY <1>0, <2>2, TableNames DEF FileFits
<1>3. ~overlapped => \A t \in Details : rows[t] \subseteq rows["runs"]
  BY DEF Good, OwnDetails
<1>. QED  BY <1>0, <1>1, <1>2, <1>3
          DEF ServesWholeFile, ServingIsComplete, NothingLeftBehind, DetailsBelong

\* A Hub serves from a whole file: every table and column its models name, the
\* steps and artifacts of its runs and no others, and nothing left in a renamed
\* table, for any number of Hubs, starts, kills, old runs and added columns,
\* with the cuts and overlaps of init_db that break it named.
THEOREM ServedFileIsWhole == Spec => []ServesWholeFile
<1>. QED  BY GoodInit, NextGood, GoodServes, PTL DEF Spec

\* A start of the Hub fails only on what an interrupted migration left renamed
\* or another start does at the same time (init_db stops at the first
\* exception, and FastAPI does not start).
THEOREM StartsSucceed == Spec => []StartsUnlessCut
<1>1. Good => StartsUnlessCut
  BY DEF Good
<1>. QED  BY <1>1, GoodInit, NextGood, PTL DEF Spec
=============================================================================

----------------------------- MODULE HubSchedule -----------------------------
(***************************************************************************)
(* Schedules of robots: rows of the database, jobs of APScheduler kept in  *)
(* memory, and the reload that makes the jobs from the rows, which every   *)
(* creating or toggling request calls in its own thread after its commit.  *)
(* APScheduler (external) adds, removes and fires single jobs atomically.  *)
(***************************************************************************)
EXTENDS Integers, FiniteSets, FiniteSetsExt

CONSTANTS
  Callers,      \* requests in progress at once; one of them also stands for
                \* the start-up of the Hub
  ScheduleIds, RobotIds, \* 1..n: ids the tables may reach
  MaxToggles, MaxDeletions, MaxBoots \* bounds

ASSUME ScheduleAssumption ==
  /\ ScheduleIds \cup RobotIds \subseteq Nat \ {0}
  /\ {MaxToggles, MaxDeletions, MaxBoots} \subseteq Nat

VARIABLES
  robots,   \* ids in table robots
  row,      \* table schedules: id -> row, or NoRow
  jobs,     \* jobs of the running scheduler: id of its schedule -> the robot
            \* it runs, or 0
  hub,      \* "down", "starting" (lifespan), "up"
  pc,       \* caller -> where its request is
  arg,      \* caller -> robot it has looked up
  todo,     \* caller -> rows that its reload has read and not added yet
  toggles, deletions, boots, \* counters
  stale,    \* history: since the last reload that ran alone, two reloads
            \* have overlapped or a deleted robot has left jobs behind
  orphaned, \* history: a robot was deleted while a schedule of it was made
  misfired  \* history: with no reload in progress and no reason for it in
            \* stale or orphaned, a robot without enabled schedule was run

vars == <<robots, row, jobs, hub, pc, arg, todo, toggles, deletions, boots,
          stale, orphaned, misfired>>

Row   == [robot : RobotIds, enabled : BOOLEAN]
NoRow == [robot |-> 0, enabled |-> FALSE]
Rows  == {s \in ScheduleIds : row[s] # NoRow}
Enabled == {s \in Rows : row[s].enabled}
Jobs    == {s \in ScheduleIds : jobs[s] # 0}

NewId(used) == IF used = {} THEN 1 ELSE Max(used) + 1

Reloading == {c \in Callers : pc[c] \in {"clear", "read", "add"}}

Init ==
  /\ robots = {} /\ row = [s \in ScheduleIds |-> NoRow]
  /\ jobs = [s \in ScheduleIds |-> 0] /\ hub = "down"
  /\ pc = [c \in Callers |-> "idle"] /\ arg = [c \in Callers |-> 0]
  /\ todo = [c \in Callers |-> {}]
  /\ toggles = 0 /\ deletions = 0 /\ boots = 0
  /\ stale = FALSE /\ orphaned = FALSE /\ misfired = FALSE

\* The caller goes on to scheduler.reload().
CallsReload(c) == /\ pc' = [pc EXCEPT ![c] = "clear"]
                  /\ stale' = (Reloading \ {c} # {})

(***************************************************************************)
(* The process.                                                            *)
(***************************************************************************)
\* start: an empty scheduler, then reload, before any request is served.
StartHub(c) ==
  /\ hub = "down" /\ boots < MaxBoots
  /\ hub' = "starting" /\ boots' = boots + 1
  /\ CallsReload(c)
  /\ UNCHANGED <<robots, row, jobs, arg, todo, toggles, deletions, orphaned, misfired>>

\* Shutdown or crash: jobs and requests are gone.
StopHub ==
  /\ hub # "down"
  /\ hub' = "down" /\ jobs' = [s \in ScheduleIds |-> 0]
  /\ pc' = [c \in Callers |-> "idle"] /\ arg' = [c \in Callers |-> 0]
  /\ todo' = [c \in Callers |-> {}]
  /\ UNCHANGED <<robots, row, toggles, deletions, boots, stale, orphaned, misfired>>

Idle(c) == hub = "up" /\ pc[c] = "idle"

(***************************************************************************)
(* Requests on robots, as far as schedules feel them.                      *)
(***************************************************************************)
CreateRobot ==
  LET b == NewId(robots)
  IN /\ hub = "up" /\ b \in RobotIds
     /\ robots' = robots \cup {b}
     /\ UNCHANGED <<row, jobs, hub, pc, arg, todo, toggles, deletions, boots,
                    stale, orphaned, misfired>>

\* delete_robot removes the rows of the robot and does not reload.
DeleteRobot ==
  /\ hub = "up" /\ deletions < MaxDeletions
  /\ \E b \in robots :
       /\ robots' = robots \ {b}
       /\ row' = [s \in ScheduleIds |-> IF row[s].robot = b THEN NoRow ELSE row[s]]
       /\ orphaned' = (orphaned \/ \E c \in Callers : arg[c] = b)
       /\ stale' = \/ stale
                   \/ \E s \in Jobs : jobs[s] = b
                   \/ \E c \in Callers : \E t \in todo[c] : t.robot = b
  /\ deletions' = deletions + 1
  /\ UNCHANGED <<jobs, hub, pc, arg, todo, toggles, boots, misfired>>

(***************************************************************************)
(* Requests on schedules.                                                  *)
(***************************************************************************)
\* create_schedule: the robot is looked up, then the row is inserted.
LookUp(c) ==
  /\ Idle(c)
  /\ \E b \in robots : arg' = [arg EXCEPT ![c] = b]
  /\ pc' = [pc EXCEPT ![c] = "insert"]
  /\ UNCHANGED <<robots, row, jobs, hub, todo, toggles, deletions, boots,
                 stale, orphaned, misfired>>

InsertSchedule(c) ==
  LET s == NewId(Rows)
  IN /\ pc[c] = "insert" /\ s \in ScheduleIds
     /\ \E enabled \in BOOLEAN :
          row' = [row EXCEPT ![s] = [robot |-> arg[c], enabled |-> enabled]]
     /\ arg' = [arg EXCEPT ![c] = 0]
     /\ CallsReload(c)
     /\ UNCHANGED <<robots, jobs, hub, todo, toggles, deletions, boots, orphaned, misfired>>

\* toggle_schedule: set_enabled and its commit.
Toggle(c) ==
  /\ Idle(c) /\ toggles < MaxToggles
  /\ \E s \in Rows : row' = [row EXCEPT ![s].enabled = ~@]
  /\ toggles' = toggles + 1
  /\ CallsReload(c)
  /\ UNCHANGED <<robots, jobs, hub, arg, todo, deletions, boots, orphaned, misfired>>

(***************************************************************************)
(* reload.                                                                 *)
(***************************************************************************)
RemoveAll(c) ==
  /\ pc[c] = "clear"
  /\ jobs' = [s \in ScheduleIds |-> 0]
  /\ pc' = [pc EXCEPT ![c] = "read"]
  /\ UNCHANGED <<robots, row, hub, arg, todo, toggles, deletions, boots,
                 stale, orphaned, misfired>>

\* Mutant: the rows of paused schedules are read as well.
ReadAll(c) ==
  /\ pc[c] = "read"
  /\ todo' = [todo EXCEPT ![c] = {[id |-> s, robot |-> row[s].robot] : s \in Rows}]
  /\ pc' = [pc EXCEPT ![c] = "add"]
  /\ UNCHANGED <<robots, row, jobs, hub, arg, toggles, deletions, boots,
                 stale, orphaned, misfired>>

\* select ... where enabled: all rows at once.
ReadEnabled(c) ==
  /\ pc[c] = "read"
  /\ todo' = [todo EXCEPT ![c] = {[id |-> s, robot |-> row[s].robot] : s \in Enabled}]
  /\ pc' = [pc EXCEPT ![c] = "add"]
  /\ UNCHANGED <<robots, row, jobs, hub, arg, toggles, deletions, boots,
                 stale, orphaned, misfired>>

\* Mutant: the loop ends with its first row.
AddFirstJob(c) ==
  /\ pc[c] = "add"
  /\ \E t \in todo[c] : jobs' = [jobs EXCEPT ![t.id] = t.robot]
  /\ todo' = [todo EXCEPT ![c] = {}]
  /\ UNCHANGED <<robots, row, hub, pc, arg, toggles, deletions, boots,
                 stale, orphaned, misfired>>

\* add_job with replace_existing, one row after the other.
AddJob(c) ==
  /\ pc[c] = "add"
  /\ \E t \in todo[c] :
       /\ jobs' = [jobs EXCEPT ![t.id] = t.robot]
       /\ todo' = [todo EXCEPT ![c] = @ \ {t}]
  /\ UNCHANGED <<robots, row, hub, pc, arg, toggles, deletions, boots,
                 stale, orphaned, misfired>>

ReloadEnds(c) ==
  /\ pc[c] = "add" /\ todo[c] = {}
  /\ pc' = [pc EXCEPT ![c] = "idle"]
  /\ hub' = "up" \* the lifespan yields, or the request returns
  /\ UNCHANGED <<robots, row, jobs, arg, todo, toggles, deletions, boots,
                 stale, orphaned, misfired>>

\* _run_robot: queues a run if the robot has a published version; without
\* one create_run raises and nothing changes.
Fire ==
  /\ hub # "down"
  /\ \E s \in Jobs :
       misfired' = (misfired \/ /\ Reloading = {} /\ ~stale /\ ~orphaned
                                /\ jobs[s] \in robots
                                /\ ~\E e \in Enabled : row[e].robot = jobs[s])
  /\ UNCHANGED <<robots, row, jobs, hub, pc, arg, todo, toggles, deletions, boots,
                 stale, orphaned>>

Reload(c) == RemoveAll(c) \/ ReadEnabled(c) \/ AddJob(c) \/ ReloadEnds(c)

Next == \/ StopHub \/ CreateRobot \/ DeleteRobot \/ Fire
        \/ \E c \in Callers : \/ StartHub(c) \/ LookUp(c) \/ InsertSchedule(c)
                              \/ Toggle(c) \/ Reload(c)

Spec == Init /\ [][Next]_vars

\* A request that has committed runs to its end.
FairSpec == Spec /\ \A c \in Callers : WF_vars(InsertSchedule(c) \/ Reload(c))

(***************************************************************************)
(* Properties.                                                             *)
(***************************************************************************)
\* Type invariant; what a request carries, it carries only where it needs it.
TypeOK ==
  /\ robots \subseteq RobotIds /\ row \in [ScheduleIds -> Row \cup {NoRow}]
  /\ jobs \in [ScheduleIds -> RobotIds \cup {0}] /\ hub \in {"down", "starting", "up"}
  /\ pc \in [Callers -> {"idle", "insert", "clear", "read", "add"}]
  /\ arg \in [Callers -> RobotIds \cup {0}]
  /\ todo \in [Callers -> SUBSET [id : ScheduleIds, robot : RobotIds]]
  /\ \A c \in Callers : /\ arg[c] # 0 <=> pc[c] = "insert"
                        /\ todo[c] # {} => pc[c] = "add"
  /\ {stale, orphaned, misfired} \subseteq BOOLEAN

\* Between reloads every enabled schedule has a job, however the reloads of
\* several requests interleave: the last one to remove the jobs reads the rows
\* afterwards.
NoScheduleForgotten ==
  hub = "up" /\ Reloading = {} => Enabled \subseteq Jobs

\* Jobs are exactly the enabled schedules, each with its robot, again after
\* every reload that ran alone, and until then only overlapping reloads and
\* deleted robots can make it otherwise.
JobsAreSchedules ==
  hub = "up" /\ Reloading = {} /\ ~stale =>
    jobs = [s \in ScheduleIds |-> IF s \in Enabled THEN row[s].robot ELSE 0]

\* So no robot is run that no schedule asked for.
NoMisfire == ~misfired

\* The jobs in memory do what the rows ask for.
JobsFollowRows == TypeOK /\ JobsAreSchedules /\ NoMisfire

\* An enabled schedule gets its job, unless it is paused or removed or the Hub
\* stops before.
EnabledGetsJob ==
  \A s \in ScheduleIds :
    (hub = "up" /\ s \in Enabled) ~> (s \in Jobs \/ s \notin Enabled \/ hub = "down")
=============================================================================

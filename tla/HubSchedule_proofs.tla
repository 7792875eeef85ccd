-------------------------- MODULE HubSchedule_proofs --------------------------
(***************************************************************************)
(* Proofs about HubSchedule: for any number of requests in progress, of    *)
(* schedules, robots, restarts, toggles and deletions.                     *)
(***************************************************************************)
EXTENDS HubSchedule, TLAPS

\* A Hub that is down has no requests, and one that starts is reloading.
HubInv == /\ hub = "down" => \A c \in Callers : pc[c] = "idle"
          /\ hub = "starting" => Reloading # {}

(***************************************************************************)
(* Types.                                                                  *)
(***************************************************************************)
LEMMA Nothing ==
  /\ 0 \notin RobotIds /\ 0 \notin ScheduleIds
  /\ NoRow.robot = 0 /\ NoRow.enabled = FALSE
BY ScheduleAssumption DEF NoRow

LEMMA RowsTyped ==
  ASSUME TypeOK
  PROVE  /\ \A s \in Rows : s \in ScheduleIds /\ row[s] \in Row /\ row[s].robot \in RobotIds
         /\ Enabled \subseteq Rows
BY DEF TypeOK, Rows, Row, Enabled

\* What reload reads are the enabled schedules, each with its robot.
LEMMA ReadTyped ==
  ASSUME TypeOK
  PROVE  {[id |-> s, robot |-> row[s].robot] : s \in Enabled} \subseteq [id : ScheduleIds, robot : RobotIds]
BY RowsTyped

LEMMA InitType == Init => TypeOK
BY DEF Init, TypeOK

LEMMA StepType == TypeOK /\ HubInv /\ [Next]_vars => TypeOK'
<1>. SUFFICES ASSUME TypeOK, HubInv, [Next]_vars PROVE TypeOK'
  OBVIOUS
<1>1. CASE UNCHANGED vars
  BY <1>1 DEF vars, TypeOK
<1>2. CASE StopHub
  BY <1>2 DEF StopHub, TypeOK
<1>3. CASE CreateRobot
  BY <1>3 DEF CreateRobot, TypeOK
<1>4. CASE DeleteRobot
  <2>1. row' \in [ScheduleIds -> Row \cup {NoRow}]
    BY <1>4 DEF DeleteRobot, TypeOK
  <2>2. robots' \subseteq RobotIds /\ {stale', orphaned', misfired'} \subseteq BOOLEAN
    BY <1>4 DEF DeleteRobot, TypeOK
  <2>. QED  BY <1>4, <2>1, <2>2 DEF DeleteRobot, TypeOK
<1>5. CASE Fire
  BY <1>5 DEF Fire, TypeOK
<1>6. ASSUME NEW c \in Callers, StartHub(c) PROVE TypeOK'
  <2>1. CallsReload(c) /\ UNCHANGED <<robots, row, jobs, arg, todo, orphaned, misfired>>
    BY <1>6 DEF StartHub
  <2>2. stale' \in BOOLEAN
    <3>. DEFINE overlap == Reloading \ {c} # {}
    <3>1. stale' = overlap /\ overlap \in BOOLEAN
      BY <2>1 DEF CallsReload
    <3>. QED  BY <3>1
  <2>3. pc[c] = "idle"
    BY <1>6 DEF StartHub, HubInv
  <2>4. pc' \in [Callers -> {"idle", "insert", "clear", "read", "add"}]
    BY <2>1 DEF CallsReload, TypeOK
  <2>. QED  BY <1>6, <2>1, <2>2, <2>3, <2>4 DEF StartHub, CallsReload, TypeOK
<1>7. ASSUME NEW c \in Callers, LookUp(c) PROVE TypeOK'
  BY <1>7, Nothing DEF LookUp, Idle, TypeOK
<1>8. ASSUME NEW c \in Callers, InsertSchedule(c) PROVE TypeOK'
  <2>1. arg[c] \in RobotIds
    BY <1>8 DEF InsertSchedule, TypeOK
  <2>2. row' \in [ScheduleIds -> Row \cup {NoRow}]
    BY <1>8, <2>1 DEF InsertSchedule, TypeOK, Row
  <2>. QED  BY <1>8, <2>2 DEF InsertSchedule, CallsReload, TypeOK
<1>9. ASSUME NEW c \in Callers, Toggle(c) PROVE TypeOK'
  <2>1. PICK s \in Rows : row' = [row EXCEPT ![s].enabled = ~@]
    BY <1>9 DEF Toggle
  <2>2. s \in ScheduleIds /\ row[s] \in Row
    BY RowsTyped
  <2>3. row' \in [ScheduleIds -> Row \cup {NoRow}]
    BY <2>1, <2>2 DEF TypeOK, Row
  <2>. QED  BY <1>9, <2>3 DEF Toggle, Idle, CallsReload, TypeOK
<1>10. ASSUME NEW c \in Callers, RemoveAll(c) PROVE TypeOK'
  BY <1>10 DEF RemoveAll, TypeOK
<1>11. ASSUME NEW c \in Callers, ReadEnabled(c) PROVE TypeOK'
  <2>1. todo' \in [Callers -> SUBSET [id : ScheduleIds, robot : RobotIds]]
    BY <1>11, ReadTyped DEF ReadEnabled, TypeOK
  <2>. QED  BY <1>11, <2>1 DEF ReadEnabled, TypeOK
<1>12. ASSUME NEW c \in Callers, AddJob(c) PROVE TypeOK'
  BY <1>12 DEF AddJob, TypeOK
<1>13. ASSUME NEW c \in Callers, ReloadEnds(c) PROVE TypeOK'
  BY <1>13 DEF ReloadEnds, TypeOK
<1>. QED
  BY <1>1, <1>2, <1>3, <1>4, <1>5, <1>6, <1>7, <1>8, <1>9, <1>10, <1>11, <1>12, <1>13
     DEF Next, Reload

(***************************************************************************)
(* The Hub and its requests.                                               *)
(***************************************************************************)
LEMMA InitHub == Init => HubInv
BY DEF Init, HubInv

LEMMA CallsHub ==
  ASSUME TypeOK, NEW c \in Callers, CallsReload(c), hub' # "down"
  PROVE  HubInv'
<1>1. c \in Reloading'
  BY DEF CallsReload, Reloading, TypeOK
<1>. QED  BY <1>1 DEF HubInv

LEMMA StepHub == TypeOK /\ HubInv /\ [Next]_vars => HubInv'
<1>. SUFFICES ASSUME TypeOK, HubInv, [Next]_vars PROVE HubInv'
  OBVIOUS
<1>1. CASE UNCHANGED <<hub, pc>>
  BY <1>1 DEF HubInv, Reloading
<1>2. CASE UNCHANGED vars \/ CreateRobot \/ DeleteRobot \/ Fire
  BY <1>1, <1>2 DEF vars, CreateRobot, DeleteRobot, Fire
<1>3. CASE StopHub
  BY <1>3 DEF StopHub, HubInv
<1>4. ASSUME NEW c \in Callers, StartHub(c) \/ InsertSchedule(c) \/ Toggle(c) PROVE HubInv'
  <2>1. CallsReload(c)
    BY <1>4 DEF StartHub, InsertSchedule, Toggle
  <2>2. hub' # "down"
    BY <1>4 DEF StartHub, InsertSchedule, Toggle, Idle, HubInv
  <2>. QED  BY <2>1, <2>2, CallsHub
<1>5. ASSUME NEW c \in Callers, LookUp(c) PROVE HubInv'
  BY <1>5 DEF LookUp, Idle, HubInv
<1>6. ASSUME NEW c \in Callers, RemoveAll(c) \/ ReadEnabled(c) \/ AddJob(c) PROVE HubInv'
  <2>1. hub' # "down" /\ c \in Reloading'
    BY <1>6 DEF RemoveAll, ReadEnabled, AddJob, HubInv, Reloading, TypeOK
  <2>. QED  BY <2>1 DEF HubInv
<1>7. ASSUME NEW c \in Callers, ReloadEnds(c) PROVE HubInv'
  BY <1>7 DEF ReloadEnds, HubInv
<1>. QED  BY <1>2, <1>3, <1>4, <1>5, <1>6, <1>7 DEF Next, Reload

(***************************************************************************)
(* No schedule is forgotten.                                               *)
(***************************************************************************)
\* An enabled schedule has its job, or some reload will still read it, or some
\* reload has read it and not added it yet.
Remembered(s) ==
  \/ s \in Jobs
  \/ \E c \in Callers : pc[c] \in {"clear", "read"}
  \/ \E c \in Callers : pc[c] = "add" /\ \E t \in todo[c] : t.id = s

Memory == hub # "down" => \A s \in Enabled : Remembered(s)

LEMMA InitMemory == Init => Memory
BY DEF Init, Memory

\* Whoever changes a row goes on to reload, which remembers everything.
LEMMA ReloadRemembers ==
  ASSUME TypeOK, NEW c \in Callers, pc'[c] \in {"clear", "read"}
  PROVE  Memory'
BY DEF Memory, Remembered

LEMMA CallRemembers ==
  ASSUME TypeOK, NEW c \in Callers, CallsReload(c)
  PROVE  Memory'
<1>1. pc'[c] = "clear"
  BY DEF CallsReload, TypeOK
<1>. QED  BY <1>1, ReloadRemembers

LEMMA StepMemory == TypeOK /\ HubInv /\ Memory /\ [Next]_vars => Memory'
<1>. SUFFICES ASSUME TypeOK, HubInv, Memory, [Next]_vars PROVE Memory'
  OBVIOUS
<1>1. CASE UNCHANGED <<row, jobs, hub, pc, todo>>
  BY <1>1 DEF Memory, Enabled, Rows, Remembered, Jobs
<1>2. CASE UNCHANGED vars \/ CreateRobot \/ Fire
  BY <1>1, <1>2 DEF vars, CreateRobot, Fire
<1>3. CASE StopHub
  BY <1>3 DEF StopHub, Memory
<1>4. CASE DeleteRobot
  <2>1. Enabled' \subseteq Enabled
    BY <1>4, Nothing DEF DeleteRobot, Enabled, Rows, TypeOK
  <2>2. \A s : Remembered(s) => Remembered(s)'
    BY <1>4 DEF DeleteRobot, Remembered, Jobs
  <2>. QED  BY <1>4, <2>1, <2>2 DEF DeleteRobot, Memory
<1>5. ASSUME NEW c \in Callers, StartHub(c) \/ InsertSchedule(c) \/ Toggle(c) PROVE Memory'
  BY <1>5, CallRemembers DEF StartHub, InsertSchedule, Toggle
<1>6. ASSUME NEW c \in Callers, LookUp(c) PROVE Memory'
  <2>1. \A d \in Callers : pc[d] \in {"clear", "read", "add"} => pc'[d] = pc[d]
    BY <1>6 DEF LookUp, Idle, TypeOK
  <2>2. \A s : Remembered(s) => Remembered(s)'
    BY <1>6, <2>1 DEF LookUp, Remembered, Jobs
  <2>. QED  BY <1>6, <2>2 DEF LookUp, Memory, Enabled, Rows
<1>7. ASSUME NEW c \in Callers, RemoveAll(c) PROVE Memory'
  <2>1. pc'[c] = "read"
    BY <1>7 DEF RemoveAll, TypeOK
  <2>. QED  BY <2>1, ReloadRemembers
<1>8. ASSUME NEW c \in Callers, ReadEnabled(c) PROVE Memory'
  <2>1. pc'[c] = "add" /\ todo'[c] = {[id |-> s, robot |-> row[s].robot] : s \in Enabled}
    BY <1>8 DEF ReadEnabled, TypeOK
  <2>2. \A s \in Enabled : \E t \in todo'[c] : t.id = s
    <3>. TAKE s \in Enabled
    <3>1. [id |-> s, robot |-> row[s].robot] \in todo'[c]
      BY <2>1
    <3>. QED  BY <3>1
  <2>3. Enabled' = Enabled
    BY <1>8 DEF ReadEnabled, Enabled, Rows
  <2>. QED  BY <2>1, <2>2, <2>3 DEF Memory, Remembered
<1>9. ASSUME NEW c \in Callers, AddJob(c) PROVE Memory'
  <2>1. PICK t \in todo[c] : /\ jobs' = [jobs EXCEPT ![t.id] = t.robot]
                             /\ todo' = [todo EXCEPT ![c] = @ \ {t}]
    BY <1>9 DEF AddJob
  <2>2. t.id \in ScheduleIds /\ t.robot \in RobotIds
    BY DEF TypeOK
  <2>3. t.id \in Jobs' /\ Jobs \subseteq Jobs'
    BY <2>1, <2>2, Nothing DEF Jobs, TypeOK
  <2>4. \A d \in Callers : \A u \in todo[d] : u # t => u \in todo'[d]
    BY <2>1 DEF TypeOK
  <2>5. \A s : Remembered(s) => Remembered(s)'
    BY <1>9, <2>3, <2>4 DEF AddJob, Remembered
  <2>. QED  BY <1>9, <2>5 DEF AddJob, Memory, Enabled, Rows
<1>10. ASSUME NEW c \in Callers, ReloadEnds(c) PROVE Memory'
  <2>1. hub # "down"
    BY <1>10 DEF ReloadEnds, HubInv
  <2>2. \A s \in Enabled : Remembered(s)
    BY <2>1 DEF Memory
  <2>3. \A d \in Callers \ {c} : pc'[d] = pc[d]
    BY <1>10 DEF ReloadEnds, TypeOK
  <2>4. \A s \in Enabled : Remembered(s)'
    BY <1>10, <2>2, <2>3 DEF ReloadEnds, Remembered, Jobs
  <2>5. Enabled' = Enabled
    BY <1>10 DEF ReloadEnds, Enabled, Rows
  <2>. QED  BY <2>4, <2>5 DEF Memory
<1>. QED
  BY <1>2, <1>3, <1>4, <1>5, <1>6, <1>7, <1>8, <1>9, <1>10 DEF Next, Reload

\* Between reloads every enabled schedule has a job, whatever reloads,
\* toggles and deletions interleave, for any number of requests.
THEOREM NothingForgotten == Spec => []NoScheduleForgotten
<1>1. TypeOK /\ Memory => NoScheduleForgotten
  <2>. SUFFICES ASSUME Memory, hub = "up", Reloading = {}, NEW s \in Enabled PROVE s \in Jobs
    BY DEF NoScheduleForgotten
  <2>. QED  BY DEF Memory, Remembered, Reloading
<1>2. Spec => [](TypeOK /\ HubInv /\ Memory)
  BY InitType, InitHub, InitMemory, StepType, StepHub, StepMemory, PTL DEF Spec
<1>. QED  BY <1>1, <1>2, PTL

(***************************************************************************)
(* Jobs are the enabled schedules.                                         *)
(***************************************************************************)
\* The job the rows ask for.
Wanted(s) == IF s \in Enabled THEN row[s].robot ELSE 0

\* Of a reload that has been alone since it began: the jobs it has removed, and
\* those it has still to add.
Alone == \A c, d \in Reloading : c = d
AfterRemoving == \A c \in Callers : pc[c] = "read" => \A s \in ScheduleIds : jobs[s] = 0
ToAdd(c) == \A t \in todo[c] : t.id \in Enabled /\ t.robot = row[t.id].robot
Added(c, s) == jobs[s] = Wanted(s) \/ (jobs[s] = 0 /\ \E t \in todo[c] : t.id = s)
WhileAdding ==
  \A c \in Callers : pc[c] = "add" => ToAdd(c) /\ \A s \in ScheduleIds : Added(c, s)
AfterReload == Reloading = {} => \A s \in ScheduleIds : jobs[s] = Wanted(s)

Exact == hub # "down" /\ ~stale => Alone /\ AfterRemoving /\ WhileAdding /\ AfterReload

LEMMA InitExact == Init => Exact
BY DEF Init, Exact

\* A reload that begins alone has everything to do.
LEMMA CallExact ==
  ASSUME TypeOK, NEW c \in Callers, CallsReload(c)
  PROVE  Exact'
<1>. SUFFICES ASSUME ~stale' PROVE (Alone /\ AfterRemoving /\ WhileAdding /\ AfterReload)'
  BY DEF Exact
<1>1. Reloading \subseteq {c}
  BY DEF CallsReload
<1>2. pc'[c] = "clear" /\ \A d \in Callers \ {c} : pc'[d] = pc[d]
  BY DEF CallsReload, TypeOK
<1>3. Reloading' = {c} /\ \A d \in Callers : pc'[d] \notin {"read", "add"}
  BY <1>1, <1>2 DEF Reloading
<1>. QED  BY <1>3 DEF Alone, AfterRemoving, WhileAdding, AfterReload

LEMMA StepExact == TypeOK /\ HubInv /\ Exact /\ [Next]_vars => Exact'
<1>. SUFFICES ASSUME TypeOK, HubInv, Exact, [Next]_vars PROVE Exact'
  OBVIOUS
<1>1. CASE UNCHANGED <<row, jobs, hub, pc, todo, stale>>
  BY <1>1 DEF Exact, Alone, AfterRemoving, WhileAdding, AfterReload, Reloading, ToAdd, Added,
              Wanted, Enabled, Rows
<1>2. CASE UNCHANGED vars \/ CreateRobot \/ Fire
  BY <1>1, <1>2 DEF vars, CreateRobot, Fire
<1>3. CASE StopHub
  BY <1>3 DEF StopHub, Exact
<1>4. CASE DeleteRobot
  <2>. SUFFICES ASSUME ~stale'
                PROVE  (Alone /\ AfterRemoving /\ WhileAdding /\ AfterReload)'
    BY DEF Exact
  <2>1. PICK b \in robots :
          /\ row' = [s \in ScheduleIds |-> IF row[s].robot = b THEN NoRow ELSE row[s]]
          /\ stale' = \/ stale \/ \E s \in Jobs : jobs[s] = b
                      \/ \E c \in Callers : \E t \in todo[c] : t.robot = b
    BY <1>4 DEF DeleteRobot
  <2>2. b # 0 /\ UNCHANGED <<jobs, hub, pc, todo>>
    BY <1>4, Nothing DEF DeleteRobot, TypeOK
  <2>3. Alone /\ AfterRemoving /\ WhileAdding /\ AfterReload
    BY <1>4, <2>1, <2>2 DEF Exact, DeleteRobot
  <2>4. \A s \in ScheduleIds : row[s].robot # b => row'[s] = row[s]
    BY <2>1
  <2>5. \A s \in Enabled : row[s].robot # b => s \in Enabled' /\ row'[s].robot = row[s].robot
    BY <2>4 DEF Enabled, Rows
  <2>6. ASSUME NEW s \in ScheduleIds, jobs[s] = Wanted(s) PROVE jobs'[s] = Wanted(s)'
    <3>1. CASE s \in Enabled
      <4>1. row[s].robot # b
        BY <3>1, <2>1, <2>2, <2>6 DEF Wanted, Jobs
      <4>. QED  BY <3>1, <4>1, <2>2, <2>5, <2>6 DEF Wanted
    <3>2. CASE s \notin Enabled
      <4>1. s \notin Enabled'
        BY <3>2, <2>1, Nothing DEF Enabled, Rows
      <4>. QED  BY <3>2, <4>1, <2>2, <2>6 DEF Wanted
    <3>. QED  BY <3>1, <3>2
  <2>7. ASSUME NEW c \in Callers, ToAdd(c) PROVE ToAdd(c)'
    <3>1. \A t \in todo[c] : t.robot # b
      BY <2>1
    <3>. QED  BY <3>1, <2>2, <2>5, <2>7 DEF ToAdd
  <2>8. \A c \in Callers, s \in ScheduleIds : Added(c, s) => Added(c, s)'
    BY <2>2, <2>6 DEF Added
  <2>. QED
    BY <2>2, <2>3, <2>6, <2>7, <2>8
       DEF Alone, AfterRemoving, WhileAdding, AfterReload, Reloading
<1>5. ASSUME NEW c \in Callers, StartHub(c) \/ InsertSchedule(c) \/ Toggle(c) PROVE Exact'
  BY <1>5, CallExact DEF StartHub, InsertSchedule, Toggle
<1>6. ASSUME NEW c \in Callers, LookUp(c) PROVE Exact'
  <2>1. \A d \in Callers : pc'[d] = pc[d] \/ (d = c /\ pc[d] = "idle" /\ pc'[d] = "insert")
    BY <1>6 DEF LookUp, Idle, TypeOK
  <2>2. Reloading' = Reloading
    BY <2>1 DEF Reloading
  <2>. QED
    BY <1>6, <2>1, <2>2 DEF LookUp, Exact, Alone, AfterRemoving, WhileAdding, AfterReload,
                            ToAdd, Added, Wanted, Enabled, Rows
<1>7. ASSUME NEW c \in Callers, Reload(c) PROVE Exact'
  <2>. SUFFICES ASSUME ~stale' PROVE (Alone /\ AfterRemoving /\ WhileAdding /\ AfterReload)'
    BY DEF Exact
  <2>1. c \in Reloading /\ ~stale /\ hub # "down"
    BY <1>7 DEF Reload, RemoveAll, ReadEnabled, AddJob, ReloadEnds, Reloading, HubInv
  <2>2. Alone /\ AfterRemoving /\ WhileAdding
    BY <2>1 DEF Exact
  <2>3. Reloading = {c}
    BY <2>1, <2>2 DEF Alone
  <2>4. \A d \in Callers \ {c} : pc'[d] = pc[d] /\ pc[d] \notin {"clear", "read", "add"}
    BY <1>7, <2>3 DEF Reload, RemoveAll, ReadEnabled, AddJob, ReloadEnds, Reloading, TypeOK
  <2>5. Reloading' \subseteq {c}
    BY <2>4 DEF Reloading
  <2>6. Alone'
    BY <2>5 DEF Alone
  <2>7. row' = row /\ \A s : Wanted(s)' = Wanted(s)
    BY <1>7 DEF Reload, RemoveAll, ReadEnabled, AddJob, ReloadEnds, Wanted, Enabled, Rows
  <2>8. Enabled' = Enabled
    BY <2>7 DEF Enabled, Rows
  <2>9. CASE RemoveAll(c)
    <3>1. pc'[c] = "read" /\ \A s \in ScheduleIds : jobs'[s] = 0
      BY <2>9 DEF RemoveAll, TypeOK
    <3>. QED
      BY <3>1, <2>4, <2>5, <2>6 DEF AfterRemoving, WhileAdding, AfterReload, Reloading
  <2>10. CASE ReadEnabled(c)
    <3>1. /\ pc'[c] = "add" /\ jobs' = jobs
          /\ todo'[c] = {[id |-> s, robot |-> row[s].robot] : s \in Enabled}
      BY <2>10 DEF ReadEnabled, TypeOK
    <3>2. \A s \in ScheduleIds : jobs'[s] = 0
      BY <2>10, <2>2, <3>1 DEF ReadEnabled, AfterRemoving
    <3>3. ToAdd(c)'
      BY <3>1, <2>7, <2>8 DEF ToAdd
    <3>4. \A s \in ScheduleIds : Added(c, s)'
      <4>. TAKE s \in ScheduleIds
      <4>1. CASE s \in Enabled
        <5>1. [id |-> s, robot |-> row[s].robot] \in todo'[c]
          BY <4>1, <3>1
        <5>2. \E t \in todo'[c] : t.id = s
          BY <5>1
        <5>. QED  BY <5>2, <3>2 DEF Added
      <4>2. CASE s \notin Enabled
        BY <4>2, <3>2, <2>7 DEF Added, Wanted
      <4>. QED  BY <4>1, <4>2
    <3>. QED
      BY <3>1, <3>3, <3>4, <2>4, <2>6 DEF AfterRemoving, WhileAdding, AfterReload, Reloading
  <2>11. CASE AddJob(c)
    <3>1. PICK t \in todo[c] : /\ jobs' = [jobs EXCEPT ![t.id] = t.robot]
                               /\ todo' = [todo EXCEPT ![c] = @ \ {t}]
      BY <2>11 DEF AddJob
    <3>2. pc'[c] = "add" /\ pc[c] = "add"
      BY <2>11 DEF AddJob
    <3>3. t.id \in ScheduleIds /\ t.id \in Enabled /\ t.robot = row[t.id].robot
      BY <3>2, <2>2 DEF TypeOK, WhileAdding, ToAdd
    <3>4. jobs'[t.id] = Wanted(t.id) /\ \A s \in ScheduleIds \ {t.id} : jobs'[s] = jobs[s]
      BY <3>1, <3>3 DEF TypeOK, Wanted
    <3>5. todo'[c] = todo[c] \ {t}
      BY <3>1 DEF TypeOK
    <3>6. ToAdd(c)'
      BY <3>2, <3>5, <2>2, <2>7, <2>8 DEF ToAdd, WhileAdding
    <3>7. \A s \in ScheduleIds : Added(c, s)'
      <4>. TAKE s \in ScheduleIds
      <4>1. CASE s = t.id
        BY <4>1, <3>4, <2>7 DEF Added
      <4>2. CASE s # t.id
        BY <4>2, <3>2, <3>4, <3>5, <2>2, <2>7 DEF Added, WhileAdding
      <4>. QED  BY <4>1, <4>2
    <3>. QED
      BY <3>2, <3>6, <3>7, <2>4, <2>6 DEF AfterRemoving, WhileAdding, AfterReload, Reloading
  <2>12. CASE ReloadEnds(c)
    <3>1. pc[c] = "add" /\ todo[c] = {} /\ jobs' = jobs /\ pc'[c] = "idle"
      BY <2>12 DEF ReloadEnds, TypeOK
    <3>2. \A s \in ScheduleIds : jobs'[s] = Wanted(s)'
      BY <3>1, <2>2, <2>7 DEF WhileAdding, Added
    <3>. QED
      BY <3>1, <3>2, <2>4, <2>6 DEF AfterRemoving, WhileAdding, AfterReload
  <2>. QED  BY <1>7, <2>9, <2>10, <2>11, <2>12 DEF Reload
<1>. QED  BY <1>2, <1>3, <1>4, <1>5, <1>6, <1>7 DEF Next

\* A job that fires with no reason in the histories is of an enabled schedule.
LEMMA StepMisfire == TypeOK /\ HubInv /\ Exact /\ NoMisfire /\ [Next]_vars => NoMisfire'
<1>. SUFFICES ASSUME TypeOK, HubInv, Exact, NoMisfire, [Next]_vars PROVE NoMisfire'
  OBVIOUS
<1>1. CASE UNCHANGED misfired
  BY <1>1 DEF NoMisfire
<1>2. CASE Fire
  <2>1. PICK s \in Jobs :
          misfired' = (misfired \/ /\ Reloading = {} /\ ~stale /\ ~orphaned
                                   /\ jobs[s] \in robots
                                   /\ ~\E e \in Enabled : row[e].robot = jobs[s])
    BY <1>2 DEF Fire
  <2>2. ASSUME Reloading = {}, ~stale PROVE \E e \in Enabled : row[e].robot = jobs[s]
    <3>1. jobs[s] = Wanted(s) /\ jobs[s] # 0
      BY <1>2, <2>2 DEF Fire, Exact, AfterReload, Jobs
    <3>. QED  BY <3>1 DEF Wanted
  <2>. QED  BY <2>1, <2>2 DEF NoMisfire
<1>3. ~Fire => UNCHANGED misfired
  BY DEF Next, vars, StopHub, CreateRobot, DeleteRobot, StartHub, LookUp, InsertSchedule, Toggle,
         Reload, RemoveAll, ReadEnabled, AddJob, ReloadEnds
<1>. QED  BY <1>1, <1>2, <1>3

\* The jobs are exactly the enabled schedules after every reload that ran
\* alone, and no robot is run that none of them asks for, for any number of
\* requests, schedules, robots and restarts.
THEOREM JobsAreRows == Spec => []JobsFollowRows
<1>1. TypeOK /\ Exact => JobsAreSchedules
  <2>. SUFFICES ASSUME TypeOK, Exact, hub = "up", Reloading = {}, ~stale
                PROVE  jobs = [s \in ScheduleIds |-> IF s \in Enabled THEN row[s].robot ELSE 0]
    BY DEF JobsAreSchedules
  <2>1. \A s \in ScheduleIds : jobs[s] = IF s \in Enabled THEN row[s].robot ELSE 0
    BY DEF Exact, AfterReload, Wanted
  <2>. QED  BY <2>1 DEF TypeOK
<1>2. Init => NoMisfire
  BY DEF Init, NoMisfire
<1>3. Spec => [](TypeOK /\ HubInv /\ Exact /\ NoMisfire)
  BY InitType, InitHub, InitExact, <1>2, StepType, StepHub, StepExact, StepMisfire, PTL DEF Spec
<1>. QED  BY <1>1, <1>3, PTL DEF JobsFollowRows
=============================================================================

----------------------------- MODULE RunRemoval -----------------------------
(***************************************************************************)
(* Robots deleted while their runs are created, queued or executed.        *)
(* delete_robot asks nobody: it removes the rows under the dispatcher and  *)
(* under the threads of the pool, which find out when they next load their *)
(* run, and SQLite (external) gives the ids of deleted last rows again and *)
(* does not enforce foreign keys.  RunQueue has the rest of the queue, and *)
(* RobotCatalog the rest of the catalog, where a deletion takes two steps; *)
(* here a robot has one published version, a deletion is one step, and     *)
(* cancels and restarts are left out.  So are the alerts of a robot and    *)
(* the folders of its runs, which a deletion leaves behind.                *)
(***************************************************************************)
EXTENDS Integers, Sequences, FiniteSets

CONSTANTS
  Threads,        \* pool threads; as many as max_concurrent_runs
  RobotIds, RunIds, \* 1..n: ids the tables may reach
  Queue,          \* the robots of the runs that wait when the Hub starts
  NSteps,         \* log entries of an attempt
  MaxRetries,     \* bound on retries of a run
  MaxCreated, MaxDeletions \* bounds

ASSUME RemovalAssumption ==
  /\ IsFiniteSet(Threads) /\ Threads # {}
  /\ RobotIds \cup RunIds \subseteq Nat \ {0}
  /\ Queue \in Seq(RobotIds) /\ 1..Len(Queue) \subseteq RunIds
  /\ {NSteps, MaxRetries, MaxCreated, MaxDeletions} \subseteq Nat

VARIABLES
  robots,    \* ids in table robots
  runs,      \* table runs: id -> row, or NoRun
  entries,   \* table run_steps: pairs of run id and the run that wrote them
  making,    \* the robot a request to run it has looked up, or 0
  active,    \* _active: run id -> the job whose future it keeps, or NoJob
  dispatcher, disp, \* where the dispatcher thread is, and the run it has
             \* claimed, or NoJob
  claims,    \* number of claims so far
  pending,   \* jobs in the queue of the pool
  at, job, left, \* thread -> where it is in execute_run, its job, log
             \* entries to come
  created, deletions, \* counters
  overlapped, \* history: a robot was deleted while one of its runs was being
             \* worked on
  outlived,  \* history: a robot was deleted while a run of it was being made
  reused     \* history: a new run got the id of a run being worked on

rowVars  == <<robots, runs, entries>>
apiVars  == <<making, created, deletions, overlapped, outlived, reused>>
dispVars == <<dispatcher, disp, claims>>
poolVars == <<active, dispVars, pending>>
thVars   == <<at, job, left>>
vars == <<rowVars, apiVars, poolVars, thVars>>

\* Rows and jobs carry the number of the run, which no other run ever gets, and
\* jobs the number of their claim.
Run   == [no : Nat, robot : RobotIds, status : {"QUEUED", "RUNNING", "SUCCESS", "FAILED"},
          retries : Nat]
NoRun == [no |-> 0, robot |-> 0, status |-> "none", retries |-> 0]
Job   == [id : RunIds, no : Nat, claim : Nat]
NoJob == [id |-> 0, no |-> 0, claim |-> 0]

Exists(r) == runs[r] # NoRun
Used == {r \in RunIds : Exists(r)}
RunsOf(b) == {r \in Used : runs[r].robot = b}
\* INTEGER PRIMARY KEY without AUTOINCREMENT: the id behind the last one.
NewId(id, used) == (id = 1 \/ id - 1 \in used) /\ \A u \in used : u < id

\* Jobs in the hands of the queue, and those that are still to be worked on:
\* a thread that returns from execute_run has done with its run.
Jobs == ({disp} \cup pending \cup {job[t] : t \in Threads}) \ {NoJob}
Busy == {t \in Threads : at[t] \notin {"idle", "return"}}
Working == ({disp} \cup pending \cup {job[t] : t \in Busy}) \ {NoJob}

Init ==
  /\ robots = RobotIds /\ entries = {}
  /\ runs = [r \in RunIds |-> IF r \in 1..Len(Queue)
                              THEN [no |-> r, robot |-> Queue[r], status |-> "QUEUED", retries |-> 0]
                              ELSE NoRun]
  /\ making = 0 /\ created = Len(Queue) /\ deletions = 0
  /\ overlapped = FALSE /\ outlived = FALSE /\ reused = FALSE
  /\ active = [r \in RunIds |-> NoJob] /\ dispatcher = "idle" /\ disp = NoJob
  /\ claims = 0 /\ pending = {}
  /\ at = [t \in Threads |-> "idle"] /\ job = [t \in Threads |-> NoJob]
  /\ left = [t \in Threads |-> 0]

(***************************************************************************)
(* Requests.                                                               *)
(***************************************************************************)
CreateRobot ==
  \E b \in RobotIds :
    /\ NewId(b, robots)
    /\ robots' = robots \cup {b}
    /\ UNCHANGED <<runs, entries, apiVars, poolVars, thVars>>

\* create_run: the published version is looked up, then the row inserted.
LookUp ==
  /\ making = 0 /\ created < MaxCreated
  /\ making' \in robots
  /\ UNCHANGED <<rowVars, created, deletions, overlapped, outlived, reused, poolVars, thVars>>

InsertRun ==
  \E r \in RunIds :
     /\ making # 0 /\ NewId(r, Used)
     /\ runs' = [runs EXCEPT ![r] = [no |-> created + 1, robot |-> making,
                                     status |-> "QUEUED", retries |-> 0]]
     /\ created' = created + 1 /\ making' = 0
     /\ reused' = (reused \/ \E j \in Working : j.id = r)
     /\ UNCHANGED <<robots, entries, deletions, overlapped, outlived, poolVars, thVars>>

Deletes(b, lost) ==
  /\ deletions < MaxDeletions
  /\ robots' = robots \ {b}
  /\ runs' = [r \in RunIds |-> IF r \in RunsOf(b) THEN NoRun ELSE runs[r]]
  /\ entries' = entries \ lost
  /\ overlapped' = (overlapped \/ \E j \in Working : j.id \in RunsOf(b))
  /\ outlived' = (outlived \/ making = b)
  /\ deletions' = deletions + 1
  /\ UNCHANGED <<making, created, reused, poolVars, thVars>>

\* Mutant: the log entries stay.
DeleteButLog == \E b \in robots : Deletes(b, {})

\* Mutant: the log entries of all runs go.
DeleteAllLogs == \E b \in robots : Deletes(b, entries)

\* delete_robot: the log entries and artifacts of the runs of the robot, the
\* runs and the robot; not the alerts.
DeleteRobot == \E b \in robots : Deletes(b, {e \in entries : e[1] \in RunsOf(b)})

(***************************************************************************)
(* The dispatcher.                                                         *)
(***************************************************************************)

\* Mutant: runs that were deleted are forgotten, executed or not.
OccupiedByRows == {r \in Used : active[r] \in Jobs}

\* Mutant: futures that are done are kept.
OccupiedForEver == {r \in RunIds : active[r] # NoJob}

\* Entries of _active whose future is not done.
Occupied == {r \in RunIds : active[r] \in Jobs}

\* dispatch_once forgets the futures that are done and claims runs for the free
\* slots; one claim stands for a pass of its own.  The claim is committed ...
Claim ==
  /\ dispatcher = "idle" /\ Cardinality(Occupied) < Cardinality(Threads)
  /\ \E r \in Used :
       /\ runs[r].status = "QUEUED"
       /\ \A q \in Used : runs[q].status = "QUEUED" => runs[r].no <= runs[q].no
       /\ runs' = [runs EXCEPT ![r].status = "RUNNING"]
       /\ disp' = [id |-> r, no |-> runs[r].no, claim |-> claims + 1]
  /\ dispatcher' = "refresh" /\ claims' = claims + 1
  /\ active' = [r \in RunIds |-> IF r \in Occupied THEN active[r] ELSE NoJob]
  /\ UNCHANGED <<robots, entries, apiVars, pending, thVars>>

\* ... and the row read again.  When it is gone, this raises, and nothing in
\* _loop catches it: the dispatcher thread ends.
Refresh ==
  /\ dispatcher = "refresh"
  /\ IF Exists(disp.id) THEN dispatcher' = "submit" /\ UNCHANGED disp
                        ELSE dispatcher' = "dead" /\ disp' = NoJob
  /\ UNCHANGED <<rowVars, apiVars, active, claims, pending, thVars>>

\* The future replaces one that is kept under the same run id: of a thread that
\* has requeued the run and is still returning, or of a run that was deleted.
Submit ==
  /\ dispatcher = "submit"
  /\ active' = [active EXCEPT ![disp.id] = disp]
  /\ pending' = pending \cup {disp}
  /\ dispatcher' = "idle" /\ disp' = NoJob
  /\ UNCHANGED <<rowVars, apiVars, claims, thVars>>

Dispatch == Claim \/ Refresh \/ Submit

(***************************************************************************)
(* execute_run.                                                            *)
(***************************************************************************)
Row(t) == runs[job[t].id]
Gone(t) == ~Exists(job[t].id)

Goes(t, place) == at' = [at EXCEPT ![t] = place] /\ UNCHANGED <<job, left>>

\* execute_run ends or raises (nobody looks at the future's exception): the
\* thread has its job until the session is closed.
Leaves(t) == Goes(t, "return")

\* A free thread takes the oldest job and loads its run.  No run, or no
\* version: it raises outside of the try statement and the row stays as it is.
\* A run that is over: it returns.  Otherwise RUNNING is written if the row
\* has another status.
Start(t) ==
  /\ at[t] = "idle"
  /\ \E j \in pending :
       LET row == runs[j.id]
       IN /\ \A k \in pending : j.claim <= k.claim
          /\ pending' = pending \ {j}
          /\ job' = [job EXCEPT ![t] = j] /\ left' = [left EXCEPT ![t] = NSteps]
          /\ at' = [at EXCEPT ![t] = IF row.status \in {"QUEUED", "RUNNING"} /\ row.robot \in robots
                                     THEN IF row.status = "RUNNING" THEN "load" ELSE "mark"
                                     ELSE "return"]
  /\ UNCHANGED <<rowVars, apiVars, active, dispVars>>

Sets(t, status) == runs' = [runs EXCEPT ![job[t].id].status = status]

\* An UPDATE that finds no row raises.
MarkRunning(t) ==
  /\ at[t] = "mark"
  /\ IF Gone(t) THEN UNCHANGED runs /\ Leaves(t) ELSE Sets(t, "RUNNING") /\ Goes(t, "load")
  /\ UNCHANGED <<robots, entries, apiVars, poolVars>>

\* Every commit expires the run, so the next look at it (should_cancel, the
\* id for a log entry, the robot of the artifacts) loads it, whoever it is by
\* now; when it is gone, this raises, and so do all handlers of execute_run.
Load(t) ==
  /\ at[t] = "load"
  /\ IF Gone(t) THEN Leaves(t)
     ELSE Goes(t, IF left[t] > 0 THEN "log" ELSE "outcome")
  /\ UNCHANGED <<rowVars, apiVars, poolVars>>

\* log: the entry is inserted, whether the run is still there or not.
Log(t) ==
  /\ at[t] = "log"
  /\ entries' = entries \cup {<<job[t].id, job[t].no>>}
  /\ left' = [left EXCEPT ![t] = @ - 1]
  /\ at' = [at EXCEPT ![t] = "load"]
  /\ UNCHANGED <<robots, runs, apiVars, poolVars, job>>

\* The workflow ended: the UPDATE raises if the row has gone meanwhile.
Succeed(t) ==
  /\ at[t] = "outcome"
  /\ IF Gone(t) THEN UNCHANGED runs ELSE Sets(t, "SUCCESS")
  /\ Leaves(t)
  /\ UNCHANGED <<robots, entries, apiVars, poolVars>>

\* The workflow raised at one of its steps: FAILED and the log entry of the
\* error, in one transaction.
Fail(t) ==
  /\ at[t] \in {"log", "outcome"}
  /\ IF Gone(t) THEN UNCHANGED <<runs, entries>> /\ Leaves(t)
     ELSE /\ Sets(t, "FAILED")
          /\ entries' = entries \cup {<<job[t].id, job[t].no>>}
          /\ Goes(t, "finally")
  /\ UNCHANGED <<robots, apiVars, poolVars>>

\* The finally block loads the row again: a retry, or the alert (which is the
\* robot's and not modelled here).
Finally(t) ==
  /\ at[t] = "finally"
  /\ IF ~Gone(t) /\ Row(t).status = "FAILED" /\ Row(t).retries < MaxRetries
     THEN Goes(t, "requeue") ELSE Leaves(t)
  /\ UNCHANGED <<rowVars, apiVars, poolVars>>

Requeue(t) ==
  /\ at[t] = "requeue"
  /\ IF Gone(t) THEN UNCHANGED <<runs, entries>>
     ELSE /\ runs' = [runs EXCEPT ![job[t].id].status = "QUEUED",
                                  ![job[t].id].retries = @ + 1]
          /\ entries' = entries \cup {<<job[t].id, job[t].no>>}
  /\ Leaves(t)
  /\ UNCHANGED <<robots, apiVars, poolVars>>

\* The future is done and the thread free.
Return(t) ==
  /\ at[t] = "return"
  /\ at' = [at EXCEPT ![t] = "idle"] /\ job' = [job EXCEPT ![t] = NoJob]
  /\ left' = [left EXCEPT ![t] = 0]
  /\ UNCHANGED <<rowVars, apiVars, poolVars>>

Execute(t) == \/ Start(t) \/ MarkRunning(t) \/ Load(t) \/ Log(t)
              \/ Succeed(t) \/ Fail(t) \/ Finally(t) \/ Requeue(t) \/ Return(t)

Next == \/ CreateRobot \/ LookUp \/ InsertRun \/ DeleteRobot
        \/ Dispatch
        \/ \E t \in Threads : Execute(t)

Spec == Init /\ [][Next]_vars

\* The dispatcher's loop goes on while its thread lives, and so do the threads.
FairSpec == Spec /\ WF_vars(Dispatch) /\ \A t \in Threads : WF_vars(Execute(t))

(***************************************************************************)
(* Properties.                                                             *)
(***************************************************************************)
\* Type invariant; a thread has a job exactly while it is in execute_run.
TypeOK ==
  /\ robots \subseteq RobotIds /\ runs \in [RunIds -> Run \cup {NoRun}]
  /\ entries \subseteq RunIds \X Nat /\ making \in RobotIds \cup {0}
  /\ active \in [RunIds -> Job \cup {NoJob}] /\ disp \in Job \cup {NoJob}
  /\ dispatcher \in {"idle", "refresh", "submit", "dead"} /\ claims \in Nat
  /\ (disp = NoJob) = (dispatcher \in {"idle", "dead"})
  /\ pending \subseteq Job
  /\ at \in [Threads -> {"idle", "mark", "load", "log", "outcome", "finally", "requeue",
                       "return"}]
  /\ job \in [Threads -> Job \cup {NoJob}] /\ left \in [Threads -> Nat]
  /\ \A t \in Threads : (job[t] = NoJob) = (at[t] = "idle")
  /\ {created, deletions} \subseteq Nat /\ {overlapped, outlived, reused} \subseteq BOOLEAN

\* The log entries and runs a deletion leaves are those of runs and robots that
\* exist, so that no later run or robot with a deleted id shows the log or the
\* runs of another, unless one of its runs was being made or worked on.  (The
\* alerts of the robot do stay, and a later robot with its id shows them.)
LogsAndRunsAgree ==
  ~overlapped /\ ~outlived =>
    /\ \A e \in entries : runs[e[1]].no = e[2]
    /\ \A r \in Used : runs[r].robot \in robots

\* Log entries, runs and threads belong to runs and robots that exist.
TablesAgree == TypeOK /\ LogsAndRunsAgree

\* A run that is over has been executed: its log has entries of its own, even
\* when other robots are deleted in the middle of their runs.  Only a thread
\* of a deleted run whose id was given again decides a run it has not executed.
OverIsExecuted ==
  ~reused => \A r \in Used : runs[r].status \in {"SUCCESS", "FAILED"} =>
               <<r, runs[r].no>> \in entries

\* The dispatcher hands out no more work than there are threads: a run shown as
\* RUNNING never waits for another one to be executed, unless an id was given
\* again.  It may wait for a thread to return, as the future of a run that was
\* requeued and claimed again takes the place of the one that is returning.
NoRunWaitsForThread == ~reused => Cardinality(Working) <= Cardinality(Threads)

\* Every run is executed to an end or deleted, and deletions keep no thread
\* busy for ever, unless a run outlived its robot, or the dispatcher had claimed
\* a run of the robot that was deleted: this ends it, and runs stay QUEUED.
RunsComeToRest ==
  \A r \in RunIds :
    runs[r].status \in {"QUEUED", "RUNNING"} ~>
      \/ runs[r].status \notin {"QUEUED", "RUNNING"}
      \/ outlived
      \/ overlapped /\ dispatcher = "dead" /\ runs[r].status = "QUEUED"
=============================================================================

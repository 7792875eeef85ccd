------------------------- MODULE RunRemoval_proofs -------------------------
(***************************************************************************)
(* What deletions of robots cannot do to the runs of others, whatever the  *)
(* number of threads, robots, runs and retries.  The invariant says which  *)
(* jobs the queue still knows: while no id was given again under it, every *)
(* run is in one pair of hands and the futures, rows and entries found     *)
(* under its id are its own.                                               *)
(***************************************************************************)
EXTENDS RunRemoval, FiniteSetTheorems, TLAPS

(***************************************************************************)
(* Types.                                                                  *)
(***************************************************************************)

\* A thread about to log has an entry to write, one that has written all of
\* them ends the workflow.
Places == \A t \in Threads : /\ at[t] = "log" => left[t] > 0
                             /\ at[t] = "outcome" => left[t] = 0

\* Numbers of runs begin with 1.
Numbers ==
  /\ \A r \in RunIds : Exists(r) => runs[r].no # 0
  /\ disp # NoJob => disp.no # 0
  /\ \A j \in pending : j.no # 0
  /\ \A t \in Threads : at[t] # "idle" => job[t].no # 0
  /\ \A e \in entries : e[2] # 0

\* A future is kept under the id of its run.
Futures == \A r \in RunIds : active[r] # NoJob => active[r].id = r

Shape == TypeOK /\ Places /\ Numbers /\ Futures /\ IsFiniteSet(pending)

LEMMA Positive ==
  /\ 0 \notin RunIds /\ 0 \notin RobotIds /\ RunIds \subseteq Nat /\ RobotIds \subseteq Nat
  /\ NSteps \in Nat
BY RemovalAssumption

\* The runs that wait when the Hub starts.
LEMMA QueuedAre ==
  ASSUME Init
  PROVE  /\ runs \in [RunIds -> Run \cup {NoRun}]
         /\ \A r \in RunIds : runs[r] # NoRun => /\ runs[r] \in Run /\ runs[r].no # 0
                                               /\ runs[r].status = "QUEUED" /\ runs[r].robot \in robots
<1>1. \A r \in 1..Len(Queue) : Queue[r] \in RobotIds /\ r \in Nat /\ r # 0
  BY RemovalAssumption
<1>2. \A r \in RunIds :
        runs[r] = IF r \in 1..Len(Queue)
                  THEN [no |-> r, robot |-> Queue[r], status |-> "QUEUED", retries |-> 0]
                  ELSE NoRun
  BY DEF Init
<1>3. \A r \in RunIds : \/ runs[r] = NoRun
                        \/ (/\ runs[r] \in Run /\ runs[r].no # 0
                            /\ runs[r].status = "QUEUED" /\ runs[r].robot \in RobotIds)
  <2>. TAKE r \in RunIds
  <2>1. CASE r \in 1..Len(Queue)
    <3>1. runs[r] = [no |-> r, robot |-> Queue[r], status |-> "QUEUED", retries |-> 0]
      BY <1>2, <2>1
    <3>2. Queue[r] \in RobotIds /\ r \in Nat /\ r # 0
      BY <1>1, <2>1
    <3>. QED  BY <3>1, <3>2 DEF Run
  <2>2. CASE r \notin 1..Len(Queue)
    BY <1>2, <2>2
  <2>. QED  BY <2>1, <2>2
<1>4. robots = RobotIds /\ runs = [r \in RunIds |-> runs[r]]
  BY DEF Init
<1>. QED  BY <1>3, <1>4

LEMMA InitShape == Init => Shape
<1>. SUFFICES ASSUME Init PROVE Shape
  OBVIOUS
<1>1. TypeOK
  <2>1. \A t \in Threads : (job[t] = NoJob) = (at[t] = "idle")
    BY DEF Init
  <2>r. runs \in [RunIds -> Run \cup {NoRun}]
    BY QueuedAre DEF Init
  <2>2. /\ robots \subseteq RobotIds
        /\ entries \subseteq RunIds \X Nat /\ making \in RobotIds \cup {0}
        /\ active \in [RunIds -> Job \cup {NoJob}] /\ disp \in Job \cup {NoJob}
        /\ pending \subseteq Job /\ claims \in Nat
        /\ dispatcher = "idle" /\ disp = NoJob
    BY DEF Init
  <2>3. /\ at \in [Threads -> {"idle", "mark", "load", "log", "outcome", "finally", "requeue",
                             "return"}]
        /\ job \in [Threads -> Job \cup {NoJob}] /\ left \in [Threads -> Nat]
    BY DEF Init
  <2>4. {created, deletions} \subseteq Nat
    BY RemovalAssumption DEF Init
  <2>5. {overlapped, outlived, reused} \subseteq BOOLEAN
    BY DEF Init
  <2>. QED  BY <2>1, <2>r, <2>2, <2>3, <2>4, <2>5 DEF TypeOK
<1>2. Places /\ Numbers /\ Futures
  BY QueuedAre DEF Init, Places, Numbers, Futures, Exists
<1>3. IsFiniteSet(pending)
  BY FS_EmptySet DEF Init
<1>. QED  BY <1>1, <1>2, <1>3 DEF Shape

\* What the steps of execute_run do to the table of runs: the row of the run
\* of the thread gets another status (and count of retries).
LEMMA RowWritten ==
  ASSUME Shape, NEW t \in Threads, at[t] # "idle", ~Gone(t),
         NEW row \in Run, row.no = runs[job[t].id].no, row.robot = runs[job[t].id].robot,
         runs' = [runs EXCEPT ![job[t].id] = row]
  PROVE  /\ runs' \in [RunIds -> Run \cup {NoRun}]
         /\ \A r \in RunIds : /\ runs'[r].no = runs[r].no /\ runs'[r].robot = runs[r].robot
                              /\ (runs'[r] = NoRun) = (runs[r] = NoRun)
                              /\ r # job[t].id => runs'[r] = runs[r]
         /\ runs'[job[t].id] = row /\ job[t] \in Job
<1>1. job[t] \in Job /\ job[t].id \in RunIds
  BY DEF Shape, TypeOK, Job
<1>2. row # NoRun /\ runs[job[t].id] # NoRun
  BY Positive DEF Run, NoRun, Gone, Exists
<1>. QED  BY <1>1, <1>2 DEF Shape, TypeOK

LEMMA StatusWritten ==
  ASSUME Shape, NEW t \in Threads, at[t] # "idle", ~Gone(t),
         NEW s \in {"QUEUED", "RUNNING", "SUCCESS", "FAILED"}, Sets(t, s)
  PROVE  /\ runs' \in [RunIds -> Run \cup {NoRun}]
         /\ \A r \in RunIds : /\ runs'[r].no = runs[r].no /\ runs'[r].robot = runs[r].robot
                              /\ (runs'[r] = NoRun) = (runs[r] = NoRun)
                              /\ r # job[t].id => runs'[r] = runs[r]
         /\ runs'[job[t].id].status = s /\ job[t] \in Job
<1>. DEFINE row == [runs[job[t].id] EXCEPT !.status = s]
<1>1. job[t] \in Job /\ runs[job[t].id] \in Run
  BY DEF Shape, TypeOK, Gone, Exists, Job
<1>2. /\ row \in Run /\ row.no = runs[job[t].id].no /\ row.robot = runs[job[t].id].robot
      /\ row.status = s
  BY <1>1 DEF Run
<1>3. runs' = [runs EXCEPT ![job[t].id] = row]
  BY DEF Sets
<1>. HIDE DEF row
<1>. QED  BY <1>2, <1>3, RowWritten

LEMMA RequeueWritten ==
  ASSUME Shape, NEW t \in Threads, ~Gone(t), Requeue(t)
  PROVE  /\ runs' \in [RunIds -> Run \cup {NoRun}]
         /\ \A r \in RunIds : /\ runs'[r].no = runs[r].no /\ runs'[r].robot = runs[r].robot
                              /\ (runs'[r] = NoRun) = (runs[r] = NoRun)
                              /\ r # job[t].id => runs'[r] = runs[r]
         /\ runs'[job[t].id].status = "QUEUED" /\ job[t] \in Job
<1>. DEFINE old == runs[job[t].id]
            row == [no |-> old.no, robot |-> old.robot, status |-> "QUEUED", retries |-> old.retries + 1]
<1>1. job[t] \in Job /\ runs[job[t].id] \in Run /\ at[t] # "idle"
  BY DEF Requeue, Shape, TypeOK, Gone, Exists, Job
<1>2. /\ row \in Run /\ row.no = runs[job[t].id].no /\ row.robot = runs[job[t].id].robot
      /\ row.status = "QUEUED"
  BY <1>1 DEF Run
<1>3. runs' = [runs EXCEPT ![job[t].id] = row]
  <2>1. runs \in [RunIds -> Run \cup {NoRun}] /\ job[t].id \in RunIds
    BY <1>1 DEF Shape, TypeOK, Job
  <2>2. old = [no |-> old.no, robot |-> old.robot, status |-> old.status, retries |-> old.retries]
    BY <1>1 DEF Run
  <2>. QED  BY <2>1, <2>2 DEF Requeue
<1>. HIDE DEF row
<1>. QED  BY <1>1, <1>2, <1>3, RowWritten

\* Init and the steps keep the types.
LEMMA StepShape == Shape /\ [Next]_vars => Shape'
<1>. SUFFICES ASSUME Shape, [Next]_vars PROVE Shape'
  OBVIOUS
<1>. USE DEF Shape
<1>0. CASE UNCHANGED vars
  BY <1>0 DEF TypeOK, Places, Numbers, Futures, Exists, vars, rowVars, apiVars, poolVars, dispVars,
              thVars
<1>1. CASE CreateRobot
  BY <1>1 DEF CreateRobot, TypeOK, Places, Numbers, Futures, Exists, apiVars, poolVars, dispVars, thVars
<1>2. CASE LookUp
  BY <1>2 DEF LookUp, TypeOK, Places, Numbers, Futures, Exists, rowVars, poolVars, dispVars, thVars
<1>3. CASE InsertRun
  <2>1. PICK r \in RunIds :
          /\ making # 0
          /\ runs' = [runs EXCEPT ![r] = [no |-> created + 1, robot |-> making,
                                          status |-> "QUEUED", retries |-> 0]]
    BY <1>3 DEF InsertRun
  <2>2. making \in RobotIds /\ created + 1 \in Nat /\ created + 1 # 0
    BY <2>1 DEF TypeOK
  <2>3. runs' \in [RunIds -> Run \cup {NoRun}]
        /\ \A q \in RunIds : runs'[q] # NoRun => runs'[q].no # 0
    BY <2>1, <2>2 DEF TypeOK, Run, Numbers, Exists
  <2>. QED  BY <1>3, <2>2, <2>3 DEF InsertRun, TypeOK, Places, Numbers, Futures, Exists, poolVars, dispVars,
              thVars
<1>4. CASE DeleteRobot
  <2>1. PICK b \in robots : Deletes(b, {e \in entries : e[1] \in RunsOf(b)})
    BY <1>4 DEF DeleteRobot
  <2>2. runs' \in [RunIds -> Run \cup {NoRun}]
        /\ \A q \in RunIds : runs'[q] # NoRun => runs'[q].no # 0
    BY <2>1 DEF TypeOK, Deletes, Numbers, Exists
  <2>. QED
    BY <2>1, <2>2 DEF Deletes, TypeOK, Places, Numbers, Futures, Exists, poolVars, dispVars, thVars
<1>5. CASE Claim
  <2>1. PICK r \in Used :
          /\ runs' = [runs EXCEPT ![r].status = "RUNNING"]
          /\ disp' = [id |-> r, no |-> runs[r].no, claim |-> claims + 1]
    BY <1>5 DEF Claim
  <2>2. r \in RunIds /\ runs[r] \in Run /\ runs[r].no # 0 /\ runs[r].no \in Nat
    BY <2>1 DEF Used, Exists, TypeOK, Numbers, Run
  <2>3. runs' \in [RunIds -> Run \cup {NoRun}]
        /\ \A q \in RunIds : runs'[q] # NoRun => runs'[q].no # 0
    BY <2>1, <2>2 DEF TypeOK, Run, Numbers, Exists
  <2>4. disp' \in Job /\ disp'.no # 0 /\ disp' # NoJob /\ claims' \in Nat /\ dispatcher' = "refresh"
    BY <1>5, <2>1, <2>2 DEF Claim, Job, NoJob, TypeOK
  <2>5. active' \in [RunIds -> Job \cup {NoJob}]
        /\ \A q \in RunIds : active'[q] # NoJob => active'[q].id = q
    BY <1>5 DEF Claim, TypeOK, Futures
  <2>. QED
    BY <1>5, <2>3, <2>4, <2>5
    DEF Claim, TypeOK, Places, Numbers, Futures, Exists, apiVars, thVars
<1>6. CASE Submit
  <2>1. disp \in Job /\ disp.id \in RunIds /\ disp.no # 0
    BY <1>6 DEF Submit, TypeOK, Job, Numbers
  <2>2. IsFiniteSet(pending')
    BY <1>6, FS_AddElement DEF Submit
  <2>. QED
    BY <1>6, <2>1, <2>2
    DEF Submit, TypeOK, Places, Numbers, Futures, Exists, rowVars, apiVars, thVars
<1>r. CASE Refresh
  <2>1. disp # NoJob
    BY <1>r DEF Refresh, TypeOK
  <2>2. \/ disp' = disp /\ dispatcher' = "submit"
        \/ disp' = NoJob /\ dispatcher' = "dead"
    BY <1>r DEF Refresh
  <2>. QED
    BY <1>r, <2>1, <2>2
    DEF Refresh, TypeOK, Places, Numbers, Futures, Exists, rowVars, apiVars, thVars
<1>7. ASSUME NEW t \in Threads, Execute(t) PROVE Shape'
  <2>1. CASE Start(t)
    <3>1. PICK j \in pending :
            /\ pending' = pending \ {j}
            /\ job' = [job EXCEPT ![t] = j] /\ left' = [left EXCEPT ![t] = NSteps]
            /\ \E place \in {"load", "mark", "return"} : at' = [at EXCEPT ![t] = place]
      BY <2>1 DEF Start
    <3>2. IsFiniteSet(pending')
      BY <3>1, FS_RemoveElement
    <3>3. j \in Job /\ j # NoJob /\ j.no # 0
      BY Positive DEF TypeOK, Job, NoJob, Numbers
    <3>4. /\ at' \in [Threads -> {"idle", "mark", "load", "log", "outcome", "finally", "requeue",
                                 "return"}]
          /\ job' \in [Threads -> Job \cup {NoJob}] /\ left' \in [Threads -> Nat]
          /\ \A s \in Threads : (job'[s] = NoJob) = (at'[s] = "idle")
          /\ \A s \in Threads : at'[s] = "log" => left'[s] > 0
          /\ \A s \in Threads : at'[s] = "outcome" => left'[s] = 0
          /\ \A s \in Threads : at'[s] # "idle" => job'[s].no # 0
      BY <3>1, <3>3, Positive DEF TypeOK, Places, Numbers
    <3>. QED
      BY <2>1, <3>1, <3>2, <3>4
      DEF Start, TypeOK, Places, Numbers, Futures, Exists, rowVars, apiVars, dispVars
  <2>. DEFINE Moves == /\ at' \in [Threads -> {"idle", "mark", "load", "log", "outcome", "finally",
                                          "requeue", "return"}]
                       /\ job' \in [Threads -> Job \cup {NoJob}] /\ left' \in [Threads -> Nat]
                       /\ \A s \in Threads : (job'[s] = NoJob) = (at'[s] = "idle")
                       /\ \A s \in Threads : at'[s] = "log" => left'[s] > 0
                       /\ \A s \in Threads : at'[s] = "outcome" => left'[s] = 0
                       /\ \A s \in Threads : at'[s] # "idle" => job'[s].no # 0
  <2>. DEFINE Tables == /\ runs' \in [RunIds -> Run \cup {NoRun}]
                        /\ \A r \in RunIds : runs'[r] # NoRun => runs'[r].no # 0
                        /\ entries' \subseteq RunIds \X Nat
                        /\ \A e \in entries' : e[2] # 0
  <2>2. ASSUME Moves, Tables, UNCHANGED <<robots, apiVars, poolVars>> PROVE Shape'
    BY <2>2 DEF TypeOK, Places, Numbers, Futures, Exists, apiVars, poolVars, dispVars
  <2>4. ASSUME at[t] # "idle", NEW place \in {"mark", "load", "finally", "requeue", "return"},
               Goes(t, place)
        PROVE  Moves
    BY <2>4 DEF Goes, TypeOK, Places, Numbers
  <2>3. Leaves(t) /\ at[t] # "idle" => Moves
    BY <2>4 DEF Leaves
  <2>5. UNCHANGED <<runs, entries>> => Tables
    BY DEF TypeOK, Numbers, Exists
  <2>6. ASSUME at[t] # "idle", ~Gone(t), NEW s \in {"QUEUED", "RUNNING", "SUCCESS", "FAILED"},
               Sets(t, s), UNCHANGED entries \/ entries' = entries \cup {<<job[t].id, job[t].no>>}
        PROVE  Tables
    <3>1. job[t] \in Job /\ job[t].no # 0
      BY <2>6 DEF TypeOK, Numbers
    <3>2. runs' \in [RunIds -> Run \cup {NoRun}]
          /\ \A r \in RunIds : runs'[r] # NoRun => runs'[r].no # 0
      BY <2>6, StatusWritten DEF Numbers, Exists
    <3>. QED  BY <2>6, <3>1, <3>2 DEF TypeOK, Numbers, Job
  <2>7. CASE MarkRunning(t)
    BY <2>2, <2>3, <2>4, <2>5, <2>6, <2>7 DEF MarkRunning
  <2>8. CASE Load(t)
    <3>1. CASE Gone(t)
      BY <2>2, <2>3, <2>5, <2>8, <3>1 DEF Load, rowVars
    <3>2. CASE ~Gone(t)
      <4>1. Moves
        BY <2>8, <3>2 DEF Load, Goes, TypeOK, Places, Numbers
      <4>. QED  BY <2>2, <2>5, <2>8, <4>1 DEF Load, rowVars
    <3>. QED  BY <3>1, <3>2
  <2>9. CASE Log(t)
    <3>1. left[t] > 0 /\ left[t] - 1 \in Nat /\ job[t] \in Job /\ job[t].no # 0
      BY <2>9 DEF Log, Places, TypeOK, Numbers
    <3>2. Moves
      BY <2>9, <3>1 DEF Log, TypeOK, Places, Numbers
    <3>3. Tables
      BY <2>9, <3>1 DEF Log, TypeOK, Job, Numbers, Exists
    <3>. QED  BY <2>2, <2>9, <3>2, <3>3 DEF Log
  <2>10. CASE Succeed(t)
    BY <2>2, <2>3, <2>5, <2>6, <2>10 DEF Succeed
  <2>11. CASE Fail(t)
    BY <2>2, <2>3, <2>4, <2>5, <2>6, <2>11 DEF Fail
  <2>12. CASE Finally(t)
    BY <2>2, <2>3, <2>4, <2>5, <2>12 DEF Finally, rowVars
  <2>13. CASE Requeue(t)
    <3>1. CASE Gone(t)
      BY <2>2, <2>3, <2>5, <2>13, <3>1 DEF Requeue
    <3>2. CASE ~Gone(t)
      <4>1. job[t] \in Job /\ job[t].no # 0
        BY <2>13, <3>2 DEF Requeue, TypeOK, Numbers
      <4>3. runs' \in [RunIds -> Run \cup {NoRun}]
            /\ \A r \in RunIds : runs'[r] # NoRun => runs'[r].no # 0
        BY <2>13, <3>2, RequeueWritten DEF Numbers, Exists
      <4>4. entries' \subseteq RunIds \X Nat /\ \A e \in entries' : e[2] # 0
        BY <2>13, <3>2, <4>1 DEF Requeue, TypeOK, Job, Numbers
      <4>5. Moves /\ UNCHANGED <<robots, apiVars, poolVars>>
        BY <2>3, <2>13 DEF Requeue
      <4>6. Tables
        BY <4>3, <4>4
      <4>. QED  BY <2>2, <4>5, <4>6
    <3>. QED  BY <3>1, <3>2
  <2>14. CASE Return(t)
    <3>1. Moves
      BY <2>14 DEF Return, TypeOK, Places, Numbers
    <3>. QED  BY <2>2, <2>5, <2>14, <3>1 DEF Return, rowVars
  <2>. QED
    BY <1>7, <2>1, <2>7, <2>8, <2>9, <2>10, <2>11, <2>12, <2>13, <2>14 DEF Execute
<1>. QED  BY <1>0, <1>1, <1>2, <1>3, <1>4, <1>5, <1>6, <1>r, <1>7 DEF Next, Dispatch

(***************************************************************************)
(* Who holds which run.                                                    *)
(***************************************************************************)
\* No two of the dispatcher, the queue of the pool and its threads hold jobs
\* for the same id.
Apart ==
  /\ \A j, k \in pending : j.id = k.id => j = k
  /\ \A j \in pending : j.id # disp.id
  /\ \A t \in Busy : job[t].id # disp.id /\ \A j \in pending : j.id # job[t].id
  /\ \A s, t \in Busy : job[s].id = job[t].id => s = t

\* A row found under the id of a job is the one that was claimed, and nobody
\* claims it again.
HeldRows == \A j \in Working : Exists(j.id) => /\ runs[j.id].no = j.no
                                           /\ runs[j.id].status # "QUEUED"

\* The future of a job that was submitted is the one that is kept.
Kept == /\ \A j \in pending : active[j.id] = j
        /\ \A t \in Busy : active[job[t].id] = job[t]

OwnIds == ~reused => Apart /\ HeldRows /\ Kept

LEMMA JobsAre ==
  ASSUME Shape
  PROVE  /\ \A j \in Working : j \in Job /\ (j = disp \/ j \in pending \/ \E t \in Busy : j = job[t])
         /\ pending \subseteq Working
         /\ \A t \in Busy : job[t] \in Working
         /\ disp # NoJob => disp \in Working
<1>1. NoJob \notin Job
  BY Positive DEF NoJob, Job
<1>. QED  BY <1>1 DEF Working, Busy, Shape, TypeOK

LEMMA WorkingAreJobs == Working \subseteq Jobs
BY DEF Working, Jobs, Busy

\* A thread goes on with its job or has done with it.
LEMMA GoesOn ==
  ASSUME Shape, NEW t \in Threads, Execute(t), ~Start(t), ~Return(t)
  PROVE  /\ UNCHANGED poolVars /\ t \in Busy
         /\ Busy' \subseteq Busy
         /\ \A s \in Busy' : job'[s] = job[s]
         /\ \/ UNCHANGED runs
            \/ /\ ~Gone(t)
               /\ \A r \in RunIds : /\ runs'[r].no = runs[r].no
                                    /\ (runs'[r] = NoRun) = (runs[r] = NoRun)
                                    /\ r # job[t].id => runs'[r] = runs[r]
               /\ runs'[job[t].id].status # "QUEUED" \/ t \notin Busy'
<1>1. /\ UNCHANGED <<poolVars, job>> /\ t \in Busy
      /\ \E place \in {"load", "log", "outcome", "finally", "requeue", "return"} :
           at' = [at EXCEPT ![t] = place]
  BY DEF Execute, MarkRunning, Load, Log, Succeed, Fail, Finally, Requeue, Leaves, Goes, Busy
<1>2. Busy' \subseteq Busy /\ \A s \in Busy' : job'[s] = job[s]
  BY <1>1 DEF Busy, Shape, TypeOK
<1>. DEFINE Written == /\ ~Gone(t)
                       /\ \A r \in RunIds : /\ runs'[r].no = runs[r].no
                                            /\ (runs'[r] = NoRun) = (runs[r] = NoRun)
                                            /\ r # job[t].id => runs'[r] = runs[r]
                       /\ runs'[job[t].id].status # "QUEUED" \/ t \notin Busy'
<1>4. Requeue(t) /\ ~Gone(t) => Written
  <2>1. Requeue(t) => t \notin Busy'
    BY DEF Requeue, Leaves, Goes, Busy, Shape, TypeOK
  <2>. QED  BY <2>1, RequeueWritten
<1>5. ASSUME NEW st \in {"RUNNING", "SUCCESS", "FAILED"}, Sets(t, st), ~Gone(t)
      PROVE  Written
  <2>1. at[t] # "idle"
    BY <1>1 DEF Busy
  <2>. QED  BY <1>5, <2>1, StatusWritten
<1>. HIDE DEF Written
<1>6. Execute(t) => UNCHANGED runs \/ Written
  BY <1>4, <1>5 DEF Execute, MarkRunning, Load, Log, Succeed, Fail, Finally, Requeue, rowVars
<1>. USE DEF Written
<1>. QED  BY <1>1, <1>2, <1>6

\* A thread that returns has nothing to do with runs any more.
LEMMA ReturnsIdle ==
  ASSUME Shape, NEW t \in Threads, Return(t)
  PROVE  /\ UNCHANGED <<rowVars, apiVars, poolVars>>
         /\ Busy' = Busy /\ \A s \in Busy : job'[s] = job[s] /\ left'[s] = left[s]
         /\ Working' = Working
<1>1. UNCHANGED <<rowVars, apiVars, poolVars>> /\ t \notin Busy
  BY DEF Return, Busy
<1>2. Busy' = Busy /\ \A s \in Busy : job'[s] = job[s] /\ left'[s] = left[s]
  BY DEF Return, Busy, Shape, TypeOK
<1>. QED  BY <1>1, <1>2 DEF Working, poolVars, dispVars

\* Only the dispatcher takes on jobs.
LEMMA OnlyClaims ==
  ASSUME Shape, [Next]_vars, ~Claim
  PROVE  Working' \subseteq Working
<1>1. CASE UNCHANGED <<poolVars, thVars>>
  BY <1>1 DEF Working, Busy, poolVars, dispVars, thVars
<1>2. CASE Submit \/ Refresh
  BY <1>2 DEF Submit, Refresh, Working, Busy, thVars
<1>3. ASSUME NEW t \in Threads, Start(t) PROVE Working' \subseteq Working
  <2>1. PICK j \in pending :
          /\ pending' = pending \ {j} /\ job' = [job EXCEPT ![t] = j]
          /\ \A s \in Threads : s # t => at'[s] = at[s]
    BY <1>3 DEF Start, Shape, TypeOK
  <2>2. disp' = disp
    BY <1>3 DEF Start, dispVars
  <2>. QED  BY <2>1, <2>2 DEF Working, Busy, Shape, TypeOK
<1>4. ASSUME NEW t \in Threads, Execute(t), ~Start(t) PROVE Working' \subseteq Working
  <2>1. CASE Return(t)
    BY <2>1, ReturnsIdle
  <2>2. CASE ~Return(t)
    <3>1. UNCHANGED poolVars /\ Busy' \subseteq Busy /\ \A s \in Busy' : job'[s] = job[s]
      BY <1>4, <2>2, GoesOn
    <3>2. \A s \in Busy' : job'[s] \in {job[u] : u \in Busy}
      BY <3>1
    <3>. QED  BY <3>1, <3>2 DEF Working, poolVars, dispVars
  <2>. QED  BY <2>1, <2>2
<1>. QED
  BY <1>1, <1>2, <1>3, <1>4
  DEF Next, Dispatch, vars, CreateRobot, LookUp, InsertRun, DeleteRobot, Deletes

LEMMA StepOwnIds == Shape /\ Shape' /\ OwnIds /\ [Next]_vars => OwnIds'
<1>. SUFFICES ASSUME Shape, Shape', OwnIds, [Next]_vars, ~reused' PROVE Apart' /\ HeldRows' /\ Kept'
  BY DEF OwnIds
<1>a. reused => reused'
  BY DEF Next, CreateRobot, LookUp, InsertRun, DeleteRobot, Deletes, Dispatch, Claim, Refresh, Submit, Execute,
         Start, MarkRunning, Load, Log, Succeed, Fail, Finally, Requeue, Return, vars, apiVars
<1>b. Apart /\ HeldRows /\ Kept
  BY <1>a DEF OwnIds
<1>c. ASSUME UNCHANGED <<poolVars, thVars>> PROVE Apart' /\ Kept' /\ Working' = Working
  BY <1>b, <1>c DEF Apart, Kept, Busy, Working, poolVars, dispVars, thVars
<1>0. CASE UNCHANGED vars
  <2>1. HeldRows'
    BY <1>0, <1>b, <1>c DEF HeldRows, Exists, vars, rowVars
  <2>. QED  BY <1>0, <1>c, <2>1 DEF vars
<1>1. CASE CreateRobot \/ LookUp
  <2>1. UNCHANGED <<runs, poolVars, thVars>>
    BY <1>1 DEF CreateRobot, LookUp, rowVars
  <2>2. HeldRows'
    BY <1>b, <1>c, <2>1 DEF HeldRows, Exists
  <2>. QED  BY <1>c, <2>1, <2>2
<1>2. CASE InsertRun
  <2>1. PICK r \in RunIds :
          /\ \A q \in RunIds : q # r => runs'[q] = runs[q]
          /\ reused' = (reused \/ \E j \in Working : j.id = r)
    BY <1>2 DEF InsertRun, Shape, TypeOK
  <2>2. UNCHANGED <<poolVars, thVars>>
    BY <1>2 DEF InsertRun
  <2>3. \A j \in Working : j.id \in RunIds /\ j.id # r
    BY <2>1, JobsAre DEF Job
  <2>4. HeldRows'
    BY <1>b, <1>c, <2>1, <2>2, <2>3 DEF HeldRows, Exists
  <2>. QED  BY <1>c, <2>2, <2>4
<1>3. CASE DeleteRobot
  <2>1. UNCHANGED <<poolVars, thVars>>
    BY <1>3 DEF DeleteRobot, Deletes
  <2>2. \A q \in RunIds : runs'[q] = NoRun \/ runs'[q] = runs[q]
    BY <1>3 DEF DeleteRobot, Deletes
  <2>3. \A j \in Working : j.id \in RunIds
    BY JobsAre DEF Job
  <2>4. HeldRows'
    BY <1>b, <1>c, <2>1, <2>2, <2>3 DEF HeldRows, Exists
  <2>. QED  BY <1>c, <2>1, <2>4
<1>4. CASE Claim
  <2>1. PICK r \in Used :
          /\ runs[r].status = "QUEUED"
          /\ runs' = [runs EXCEPT ![r].status = "RUNNING"]
          /\ disp' = [id |-> r, no |-> runs[r].no, claim |-> claims + 1]
    BY <1>4 DEF Claim
  <2>2. /\ disp = NoJob /\ UNCHANGED <<pending, thVars>>
        /\ active' = [q \in RunIds |-> IF q \in Occupied THEN active[q] ELSE NoJob]
    BY <1>4 DEF Claim, Shape, TypeOK
  <2>3. r \in RunIds /\ runs[r] \in Run /\ Exists(r)
    BY <2>1 DEF Used, Exists, Shape, TypeOK
  <2>4. \A j \in Working : j \in Job /\ j.id \in RunIds /\ j.id # r
    BY <1>b, <2>1, <2>3, JobsAre DEF HeldRows, Job
  <2>5. Busy' = Busy /\ job' = job /\ pending' = pending
    BY <2>2 DEF Busy, thVars
  <2>6. Apart'
    BY <1>b, <2>1, <2>4, <2>5, JobsAre DEF Apart
  <2>7. Working' \subseteq Working \cup {disp'}
    BY <2>5 DEF Working
  <2>8. HeldRows'
    <3>1. \A q \in RunIds : q # r => runs'[q] = runs[q]
      BY <2>1 DEF Shape, TypeOK
    <3>2. runs'[r].no = runs[r].no /\ runs'[r].status = "RUNNING" /\ disp'.id = r
      BY <2>1, <2>3 DEF Shape, TypeOK, Run
    <3>. QED  BY <1>b, <2>1, <2>4, <2>7, <3>1, <3>2 DEF HeldRows, Exists
  <2>9. \A j \in Working : active[j.id] = j => active'[j.id] = j
    BY <2>2, <2>4, WorkingAreJobs DEF Occupied
  <2>10. Kept'
    BY <1>b, <2>5, <2>9, JobsAre DEF Kept
  <2>. QED  BY <2>6, <2>8, <2>10
<1>5. CASE Submit
  <2>1. /\ disp # NoJob /\ active' = [active EXCEPT ![disp.id] = disp]
        /\ pending' = pending \cup {disp} /\ disp' = NoJob
        /\ Busy' = Busy /\ job' = job /\ runs' = runs
    BY <1>5 DEF Submit, Busy, thVars, rowVars, Shape, TypeOK
  <2>2. disp \in Job /\ disp.id \in RunIds
    BY <2>1 DEF Shape, TypeOK, Job
  <2>3. \A j \in Working : j.id \in RunIds /\ j.id # 0
    BY JobsAre, Positive DEF Job
  <2>4. Apart'
    BY <1>b, <2>1, <2>2, <2>3, JobsAre DEF Apart, NoJob
  <2>5. HeldRows'
    <3>1. Working' \subseteq Working
      BY <2>1 DEF Working
    <3>. QED  BY <1>b, <2>1, <3>1 DEF HeldRows, Exists
  <2>6. Kept'
    <3>1. \A i \in RunIds : active'[i] = IF i = disp.id THEN disp ELSE active[i]
      BY <2>1 DEF Shape, TypeOK
    <3>. QED  BY <1>b, <2>1, <2>2, <2>3, <3>1, JobsAre DEF Kept, Apart
  <2>. QED  BY <2>4, <2>5, <2>6
<1>r. CASE Refresh
  <2>1. /\ disp' \in {disp, NoJob} /\ UNCHANGED <<runs, active, pending>>
        /\ Busy' = Busy /\ job' = job
    BY <1>r DEF Refresh, Busy, thVars, rowVars
  <2>2. \A j \in Working : j.id \in RunIds /\ j.id # 0
    BY JobsAre, Positive DEF Job
  <2>3. Apart'
    BY <1>b, <2>1, <2>2, JobsAre DEF Apart, NoJob
  <2>4. HeldRows'
    <3>1. Working' \subseteq Working
      BY <2>1 DEF Working
    <3>. QED  BY <1>b, <2>1, <3>1 DEF HeldRows, Exists
  <2>5. Kept'
    BY <1>b, <2>1 DEF Kept
  <2>. QED  BY <2>3, <2>4, <2>5
<1>6. ASSUME NEW t \in Threads, Start(t) PROVE Apart' /\ HeldRows' /\ Kept'
  <2>1. PICK j \in pending :
          /\ pending' = pending \ {j} /\ job' = [job EXCEPT ![t] = j]
          /\ \A s \in Threads : s # t => at'[s] = at[s]
    BY <1>6 DEF Start, Shape, TypeOK
  <2>2. UNCHANGED <<runs, active, disp>> /\ t \notin Busy
    BY <1>6 DEF Start, rowVars, dispVars, Busy
  <2>3. HeldRows'
    <3>1. Working' \subseteq Working
      BY <1>6, OnlyClaims DEF Start, Claim, dispVars, Shape, TypeOK
    <3>. QED  BY <1>b, <2>2, <3>1 DEF HeldRows, Exists
  <2>4. /\ Busy' \subseteq Busy \cup {t} /\ job'[t] = j
        /\ \A s \in Busy : job'[s] = job[s]
    BY <2>1, <2>2 DEF Busy, Shape, TypeOK
  <2>. QED  BY <1>b, <2>1, <2>2, <2>3, <2>4 DEF Apart, Kept
<1>8. ASSUME NEW t \in Threads, Return(t) PROVE Apart' /\ HeldRows' /\ Kept'
  <2>1. /\ UNCHANGED <<runs, active, disp, pending>> /\ Working' = Working
        /\ Busy' = Busy /\ \A s \in Busy : job'[s] = job[s]
    BY <1>8, ReturnsIdle DEF rowVars, poolVars, dispVars
  <2>. QED  BY <1>b, <2>1 DEF Apart, Kept, HeldRows, Exists
<1>7. ASSUME NEW t \in Threads, Execute(t), ~Start(t), ~Return(t) PROVE Apart' /\ HeldRows' /\ Kept'
  <2>1. /\ UNCHANGED poolVars /\ t \in Busy /\ Busy' \subseteq Busy
        /\ \A s \in Busy' : job'[s] = job[s]
    BY <1>7, GoesOn
  <2>2. Apart' /\ Kept'
    BY <1>b, <2>1 DEF Apart, Kept, poolVars, dispVars
  <2>3. \A j \in Working' : j \in Working /\ (j = job[t] => t \in Busy')
    <3>1. \A j \in Working' : j \in Job /\ (j = disp \/ j \in pending \/ \E s \in Busy' : j = job[s])
      <4>1. \A j \in Working' : j \in Job /\ (j = disp' \/ j \in pending' \/ \E s \in Busy' : j = job'[s])
        BY Positive DEF Working, NoJob, Job, Busy, Shape, TypeOK
      <4>. QED  BY <2>1, <4>1 DEF poolVars, dispVars
    <3>2. job[t] \in Job /\ disp # job[t] /\ job[t] \notin pending
      BY <1>b, <2>1 DEF Apart, Shape, TypeOK, Busy
    <3>3. \A s \in Busy' : job[s] = job[t] => s = t
      BY <1>b, <2>1 DEF Apart
    <3>4. \A j \in Working' : j \in Working
      BY <3>1, <2>1, JobsAre, Positive DEF Working, NoJob, Job
    <3>. QED  BY <3>1, <3>2, <3>3, <3>4
  <2>4. \A j \in Working : j.id \in RunIds /\ (j.id = job[t].id => j = job[t])
    BY <1>b, <2>1, JobsAre DEF Apart, Job
  <2>5. HeldRows'
    BY <1>7, <1>b, <2>3, <2>4, GoesOn DEF HeldRows, Exists
  <2>. QED  BY <2>2, <2>5
<1>. QED  BY <1>0, <1>1, <1>2, <1>3, <1>4, <1>5, <1>r, <1>6, <1>7, <1>8 DEF Next, Dispatch, Execute

\* What every step of a thread does to the rows and the log.
LEMMA RunsMonotone ==
  ASSUME Shape, [Next]_vars, ~reused'
  PROVE  /\ ~reused
         /\ \A j \in Working : runs'[j.id] # NoRun => Exists(j.id)
<1>1. ~reused
  BY DEF Next, CreateRobot, LookUp, InsertRun, DeleteRobot, Deletes, Dispatch, Claim, Refresh, Submit, Execute,
         Start, MarkRunning, Load, Log, Succeed, Fail, Finally, Requeue, Return, vars, apiVars
<1>2. \A j \in Working : j.id \in RunIds
  BY JobsAre DEF Job
<1>3. CASE InsertRun
  <2>1. PICK r \in RunIds : /\ \A q \in RunIds : q # r => runs'[q] = runs[q]
                           /\ \A j \in Working : j.id # r
    BY <1>3 DEF InsertRun, Shape, TypeOK
  <2>. QED  BY <1>1, <1>2, <2>1 DEF Exists
<1>4. CASE Claim
  <2>1. PICK r \in Used : runs' = [runs EXCEPT ![r].status = "RUNNING"]
    BY <1>4 DEF Claim
  <2>2. \A q \in RunIds : runs'[q] # NoRun => Exists(q)
    BY <2>1 DEF Used, Exists, Shape, TypeOK
  <2>. QED  BY <1>1, <1>2, <2>2
<1>5. ASSUME NEW t \in Threads, Execute(t) PROVE \A q \in RunIds : runs'[q] # NoRun => Exists(q)
  <2>1. CASE Start(t) \/ Return(t)
    BY <2>1 DEF Start, Return, rowVars, Exists
  <2>. QED  BY <1>5, <2>1, GoesOn DEF Exists
<1>6. CASE DeleteRobot
  BY <1>1, <1>2, <1>6 DEF DeleteRobot, Deletes, Exists
<1>7. CASE UNCHANGED runs
  BY <1>1, <1>7 DEF Exists
<1>. QED
  BY <1>1, <1>2, <1>3, <1>4, <1>5, <1>6, <1>7
  DEF Next, Dispatch, CreateRobot, LookUp, Refresh, Submit, rowVars, vars

(***************************************************************************)
(* A run that is over has been executed.                                   *)
(***************************************************************************)
\* Who has written the first of the entries of a run finds it in the log as
\* long as the run is there.
Logged == \A t \in Busy : Exists(job[t].id) /\ left[t] < NSteps =>
                           <<job[t].id, job[t].no>> \in entries

LEMMA StepLogged ==
  Shape /\ Shape' /\ OwnIds /\ (~reused => Logged) /\ [Next]_vars => (~reused' => Logged')
<1>. SUFFICES ASSUME Shape, Shape', OwnIds, ~reused => Logged, [Next]_vars, ~reused'
              PROVE  Logged'
  OBVIOUS
<1>a. ~reused /\ Logged /\ Apart /\ HeldRows /\ \A j \in Working : runs'[j.id] # NoRun => Exists(j.id)
  BY RunsMonotone DEF OwnIds
<1>b. \A t \in Busy : job[t] \in Working /\ job[t].id \in RunIds
  BY JobsAre DEF Job
<1>1. ASSUME UNCHANGED thVars, entries \subseteq entries' PROVE Logged'
  <2>1. Busy' = Busy /\ job' = job /\ left' = left
    BY <1>1 DEF Busy, thVars
  <2>. QED  BY <1>a, <1>b, <1>1, <2>1 DEF Logged, Exists
<1>2. CASE DeleteRobot
  <2>1. PICK b \in robots : Deletes(b, {e \in entries : e[1] \in RunsOf(b)})
    BY <1>2 DEF DeleteRobot
  <2>2. Busy' = Busy /\ job' = job /\ left' = left
    BY <2>1 DEF Deletes, Busy, thVars
  <2>3. ASSUME NEW t \in Busy, runs'[job[t].id] # NoRun, <<job[t].id, job[t].no>> \in entries
        PROVE  <<job[t].id, job[t].no>> \in entries'
    <3>1. job[t].id \notin RunsOf(b)
      BY <1>b, <2>1, <2>3 DEF Deletes
    <3>. QED  BY <2>1, <2>3, <3>1 DEF Deletes
  <2>. QED  BY <1>a, <1>b, <2>2, <2>3 DEF Logged, Exists
<1>3. ASSUME NEW t \in Threads, Start(t) PROVE Logged'
  <2>1. UNCHANGED <<runs, entries>>
    BY <1>3 DEF Start, rowVars
  <2>2. \A s \in Busy' : \/ s \in Busy /\ job'[s] = job[s] /\ left'[s] = left[s]
                         \/ left'[s] = NSteps
    BY <1>3 DEF Start, Busy, Shape, TypeOK
  <2>. QED  BY <1>a, <2>1, <2>2, Positive DEF Logged, Exists
<1>5. ASSUME NEW t \in Threads, Return(t) PROVE Logged'
  <2>1. UNCHANGED <<runs, entries>> /\ Busy' = Busy
        /\ \A s \in Busy : job'[s] = job[s] /\ left'[s] = left[s]
    BY <1>5, ReturnsIdle DEF rowVars
  <2>. QED  BY <1>a, <2>1 DEF Logged, Exists
<1>4. ASSUME NEW t \in Threads, Execute(t), ~Start(t), ~Return(t) PROVE Logged'
  <2>1. /\ t \in Busy /\ Busy' \subseteq Busy
        /\ \A s \in Busy' : job'[s] = job[s]
        /\ \A q \in RunIds : runs'[q] # NoRun => Exists(q)
    BY <1>4, GoesOn DEF Exists
  <2>2. entries \subseteq entries'
    BY <1>4 DEF Execute, MarkRunning, Load, Log, Succeed, Fail, Finally, Requeue, rowVars
  <2>3. \A s \in Busy' : left'[s] = left[s] \/ <<job[s].id, job[s].no>> \in entries'
    BY <1>4 DEF Execute, MarkRunning, Load, Log, Succeed, Fail, Finally, Requeue, Leaves, Goes,
                Busy, Shape, TypeOK
  <2>. QED  BY <1>a, <1>b, <2>1, <2>2, <2>3 DEF Logged, Exists
<1>. QED
  BY <1>1, <1>2, <1>3, <1>4, <1>5
  DEF Next, Dispatch, CreateRobot, LookUp, InsertRun, Claim, Refresh, Submit, Execute, vars, rowVars

LEMMA StepExecuted ==
  NSteps # 0 /\ Shape /\ Shape' /\ OwnIds /\ (~reused => Logged) /\ OverIsExecuted /\ [Next]_vars
    => OverIsExecuted'
<1>. DEFINE Over(row) == row.status \in {"SUCCESS", "FAILED"}
<1>. SUFFICES ASSUME NSteps # 0, Shape, Shape', OwnIds, ~reused => Logged, OverIsExecuted, [Next]_vars,
                     ~reused', NEW r \in RunIds, runs'[r] # NoRun, Over(runs'[r])
              PROVE  <<r, runs'[r].no>> \in entries'
  BY DEF OverIsExecuted, Used, Exists
<1>a. ~reused /\ Logged /\ HeldRows /\ (Exists(r) /\ Over(runs[r]) => <<r, runs[r].no>> \in entries)
  BY RunsMonotone DEF OwnIds, OverIsExecuted, Used
<1>1. CASE runs'[r] = runs[r] /\ entries \subseteq entries'
  BY <1>1, <1>a DEF Exists
<1>2. CASE InsertRun
  <2>1. Over(runs[r]) /\ runs'[r] = runs[r] /\ entries' = entries
    BY <1>2 DEF InsertRun, Shape, TypeOK
  <2>. QED  BY <1>1, <2>1
<1>3. CASE DeleteRobot
  <2>1. PICK b \in robots : Deletes(b, {e \in entries : e[1] \in RunsOf(b)})
    BY <1>3 DEF DeleteRobot
  <2>2. r \notin RunsOf(b) /\ runs'[r] = runs[r]
    BY <2>1 DEF Deletes
  <2>. QED  BY <1>a, <2>1, <2>2 DEF Deletes, Exists
<1>4. CASE Claim
  <2>1. PICK q \in Used : runs' = [runs EXCEPT ![q].status = "RUNNING"]
    BY <1>4 DEF Claim
  <2>2. q \in RunIds /\ runs[q] \in Run
    BY <2>1 DEF Used, Exists, Shape, TypeOK
  <2>3. q # r
    BY <2>1, <2>2 DEF Shape, TypeOK, Run
  <2>4. runs'[r] = runs[r] /\ entries' = entries
    BY <1>4, <2>1, <2>3 DEF Claim, Shape, TypeOK
  <2>. QED  BY <1>1, <2>4
<1>5. ASSUME NEW t \in Threads, Execute(t), ~Start(t), ~Return(t) PROVE <<r, runs'[r].no>> \in entries'
  <2>1. entries \subseteq entries'
    BY <1>5 DEF Execute, MarkRunning, Load, Log, Succeed, Fail, Finally, Requeue, rowVars
  <2>2. CASE runs'[r] = runs[r]
    BY <1>1, <2>1, <2>2
  <2>3. CASE runs'[r] # runs[r]
    <3>1. r = job[t].id /\ ~Gone(t) /\ t \in Busy /\ runs'[r].no = runs[r].no
      BY <1>5, <2>3, GoesOn
    <3>2. runs[r].no = job[t].no
      BY <1>a, <3>1, JobsAre DEF HeldRows, Gone
    <3>3. CASE Fail(t)
      BY <3>1, <3>2, <3>3 DEF Fail
    <3>4. CASE Succeed(t)
      <4>1. left[t] = 0 /\ left[t] < NSteps
        BY <3>4, Positive DEF Succeed, Shape, Places
      <4>2. <<job[t].id, job[t].no>> \in entries
        BY <1>a, <3>1, <4>1 DEF Logged, Gone
      <4>. QED  BY <2>1, <3>1, <3>2, <4>2
    <3>5. CASE MarkRunning(t)
      <4>1. runs'[r].status = "RUNNING"
        BY <3>1, <3>5, StatusWritten DEF MarkRunning
      <4>. QED  BY <4>1
    <3>6. CASE Requeue(t)
      BY <3>1, <3>6, RequeueWritten
    <3>. QED
      BY <1>5, <2>3, <3>3, <3>4, <3>5, <3>6 DEF Execute, Load, Log, Finally, rowVars
  <2>. QED  BY <2>2, <2>3
<1>6. CASE \E t \in Threads : Start(t) \/ Return(t)
  BY <1>1, <1>6 DEF Start, Return, rowVars
<1>. QED
  BY <1>1, <1>2, <1>3, <1>4, <1>5, <1>6
  DEF Next, Dispatch, CreateRobot, LookUp, Refresh, Submit, Execute, vars, rowVars

LEMMA InitOwn == Init => OwnIds /\ Logged /\ OverIsExecuted
<1>. SUFFICES ASSUME Init PROVE OwnIds /\ Logged /\ OverIsExecuted
  OBVIOUS
<1>1. Busy = {} /\ pending = {} /\ Working = {} /\ entries = {}
  BY DEF Init, Busy, Working
<1>2. \A r \in Used : runs[r].status = "QUEUED"
  BY QueuedAre DEF Used, Exists
<1>. QED  BY <1>1, <1>2 DEF OwnIds, Apart, HeldRows, Kept, Logged, OverIsExecuted

\* The types and who holds which run, in one.
LEMMA Holders == Spec => [](Shape /\ OwnIds)
<1>1. Init => Shape /\ OwnIds
  BY InitShape, InitOwn
<1>2. Shape /\ OwnIds /\ [Next]_vars => (Shape /\ OwnIds)'
  BY StepShape, StepOwnIds
<1>. QED  BY <1>1, <1>2, PTL DEF Spec

\* A run that is over has log entries of its own, whoever is deleted
\* meanwhile, unless an id was given again under the queue: the thread that
\* ends a run holds its job, the row under its id is that run's, and its log
\* has had one entry at least.  (A workflow without steps, which
\* validate_workflow keeps from being published, writes none.)
THEOREM OverAreExecuted == ASSUME NSteps # 0 PROVE Spec => []OverIsExecuted
<1>. DEFINE I == Shape /\ OwnIds /\ (~reused => Logged) /\ OverIsExecuted
<1>1. Init => I
  BY InitShape, InitOwn
<1>2. I /\ [Next]_vars => I'
  <2>. SUFFICES ASSUME I, [Next]_vars PROVE I'
    OBVIOUS
  <2>1. Shape' /\ OwnIds'
    BY StepShape, StepOwnIds
  <2>. QED  BY <2>1, StepLogged, StepExecuted
<1>3. I => OverIsExecuted
  OBVIOUS
<1>. QED  BY <1>1, <1>2, <1>3, PTL DEF Spec

(***************************************************************************)
(* What a deletion leaves behind.                                          *)
(***************************************************************************)
\* As long as no robot was deleted under the queue, every run it holds is
\* there; and so is the robot of the run that is being made.
StillThere == ~overlapped => ~reused /\ \A j \in Working : Exists(j.id)
Made == ~outlived /\ making # 0 => making \in robots

LEMMA StepStillThere ==
  Shape /\ Shape' /\ OwnIds /\ StillThere /\ [Next]_vars => StillThere'
<1>. SUFFICES ASSUME Shape, Shape', OwnIds, StillThere, [Next]_vars, ~overlapped'
              PROVE  ~reused' /\ \A j \in Working' : runs'[j.id] # NoRun
  BY DEF StillThere, Exists
<1>a. ~overlapped
  BY DEF Next, CreateRobot, LookUp, InsertRun, DeleteRobot, Deletes, Dispatch, Claim, Refresh, Submit, Execute,
         Start, MarkRunning, Load, Log, Succeed, Fail, Finally, Requeue, Return, vars, apiVars
<1>b. ~reused /\ (\A j \in Working : Exists(j.id)) /\ \A j \in Working : j.id \in RunIds
  BY <1>a, JobsAre DEF StillThere, Job
<1>1. CASE UNCHANGED <<runs, reused>> /\ ~Claim
  BY <1>b, <1>1, OnlyClaims DEF Exists
<1>2. CASE InsertRun
  <2>1. PICK r \in RunIds :
          /\ NewId(r, Used) /\ r # 0
          /\ runs' = [runs EXCEPT ![r] = [no |-> created + 1, robot |-> making,
                                          status |-> "QUEUED", retries |-> 0]]
          /\ reused' = (reused \/ \E j \in Working : j.id = r)
    BY <1>2, Positive DEF InsertRun
  <2>2. \A j \in Working : j.id # r
    BY <1>b, <2>1, Positive DEF NewId, Used
  <2>3. Working' = Working /\ \A q \in RunIds : q # r => runs'[q] = runs[q]
    BY <1>2, <2>1 DEF InsertRun, Working, Busy, poolVars, dispVars, thVars, Shape, TypeOK
  <2>. QED  BY <1>b, <2>1, <2>2, <2>3 DEF Exists
<1>3. CASE DeleteRobot
  <2>1. PICK b \in robots : Deletes(b, {e \in entries : e[1] \in RunsOf(b)})
    BY <1>3 DEF DeleteRobot
  <2>2. Working' = Working /\ reused' = reused /\ \A j \in Working : j.id \notin RunsOf(b)
    BY <2>1 DEF Deletes, Working, Busy, poolVars, dispVars, thVars
  <2>. QED  BY <1>b, <2>1, <2>2 DEF Deletes, Exists
<1>4. CASE Claim
  <2>1. PICK r \in Used : /\ runs' = [runs EXCEPT ![r].status = "RUNNING"]
                         /\ disp' = [id |-> r, no |-> runs[r].no, claim |-> claims + 1]
    BY <1>4 DEF Claim
  <2>2. r \in RunIds /\ runs[r] \in Run
    BY <2>1 DEF Used, Exists, Shape, TypeOK
  <2>3. Working' \subseteq Working \cup {disp'} /\ reused' = reused
    BY <1>4 DEF Claim, Working, Busy, thVars, apiVars
  <2>4. \A q \in RunIds : Exists(q) => runs'[q] # NoRun
    <3>1. runs'[r] # NoRun
      BY <2>1, <2>2, Positive DEF Shape, TypeOK, Run, NoRun
    <3>. QED  BY <2>1, <3>1 DEF Exists, Shape, TypeOK
  <2>5. disp'.id = r /\ Exists(r)
    BY <2>1 DEF Used
  <2>. QED  BY <1>b, <2>2, <2>3, <2>4, <2>5
<1>5. ASSUME NEW t \in Threads, Execute(t)
      PROVE  ~reused' /\ \A j \in Working' : runs'[j.id] # NoRun
  <2>1. CASE Start(t) \/ Return(t)
    <3>1. UNCHANGED <<runs, reused, dispatcher>>
      BY <2>1 DEF Start, Return, rowVars, apiVars, poolVars, dispVars
    <3>. QED  BY <1>1, <3>1 DEF Claim
  <2>2. CASE ~Start(t) /\ ~Return(t)
    <3>1. Working' \subseteq Working
      <4>1. UNCHANGED dispatcher
        BY <1>5, <2>2, GoesOn DEF poolVars, dispVars
      <4>. QED  BY <4>1, OnlyClaims DEF Claim
    <3>2. \A q \in RunIds : Exists(q) => runs'[q] # NoRun
      BY <1>5, <2>2, GoesOn DEF Exists
    <3>3. reused' = reused
      BY <1>5, <2>2
      DEF Execute, MarkRunning, Load, Log, Succeed, Fail, Finally, Requeue, apiVars
    <3>. QED  BY <1>b, <3>1, <3>2, <3>3
  <2>. QED  BY <2>1, <2>2
<1>6. CASE CreateRobot \/ LookUp \/ Refresh \/ Submit \/ UNCHANGED vars
  <2>1. UNCHANGED <<runs, reused>>
    BY <1>6 DEF CreateRobot, LookUp, Refresh, Submit, vars, rowVars, apiVars
  <2>. QED  BY <1>1, <1>4, <2>1
<1>. QED  BY <1>2, <1>3, <1>4, <1>5, <1>6 DEF Next, Dispatch

LEMMA StepMade == Shape /\ Made /\ [Next]_vars => Made'
<1>. SUFFICES ASSUME Shape, Made, [Next]_vars PROVE Made'
  OBVIOUS
<1>1. CASE DeleteRobot
  <2>1. PICK b \in robots : Deletes(b, {e \in entries : e[1] \in RunsOf(b)})
    BY <1>1 DEF DeleteRobot
  <2>2. ~outlived' => ~outlived /\ making # b
    BY <2>1 DEF Deletes
  <2>. QED  BY <2>1, <2>2 DEF Deletes, Made
<1>2. CASE CreateRobot
  BY <1>2 DEF CreateRobot, Made, apiVars
<1>3. CASE LookUp \/ InsertRun
  BY <1>3 DEF LookUp, InsertRun, Made, rowVars
<1>4. CASE UNCHANGED <<robots, making, outlived>>
  BY <1>4 DEF Made
<1>. QED
  BY <1>1, <1>2, <1>3, <1>4
  DEF Next, Dispatch, Claim, Refresh, Submit, Execute, Start, MarkRunning, Load, Log, Succeed, Fail,
      Finally, Requeue, Return, vars, rowVars, apiVars

LEMMA StepInherited ==
  Shape /\ OwnIds /\ StillThere /\ Made /\ LogsAndRunsAgree /\ [Next]_vars => LogsAndRunsAgree'
<1>. DEFINE Own(rn, en) == \A e \in en : rn[e[1]].no = e[2]
            Kin(rn, rb) == \A r \in RunIds : rn[r] # NoRun => rn[r].robot \in rb
<1>. SUFFICES ASSUME Shape, OwnIds, StillThere, Made, LogsAndRunsAgree, [Next]_vars,
                     ~overlapped', ~outlived'
              PROVE  Own(runs', entries') /\ Kin(runs', robots')
  BY DEF LogsAndRunsAgree, Used, Exists
<1>a. ~overlapped /\ ~outlived
  <2>1. DeleteRobot \/ UNCHANGED <<overlapped, outlived>>
    BY DEF Next, Dispatch, CreateRobot, LookUp, InsertRun, Claim, Refresh, Submit, Execute, Start,
           MarkRunning, Load, Log, Succeed, Fail, Finally, Requeue, Return, vars, apiVars
  <2>2. DeleteRobot => (overlapped => overlapped') /\ (outlived => outlived')
    BY DEF DeleteRobot, Deletes
  <2>. QED  BY <2>1, <2>2
<1>b. /\ Own(runs, entries) /\ Kin(runs, robots) /\ (making # 0 => making \in robots)
      /\ HeldRows /\ \A j \in Working : j.id \in RunIds /\ runs[j.id] # NoRun /\ runs[j.id].no = j.no
  BY <1>a, JobsAre DEF LogsAndRunsAgree, Made, StillThere, OwnIds, HeldRows, Used, Exists, Job
<1>c. \A e \in entries : e[1] \in RunIds /\ e[2] # 0
  BY DEF Shape, TypeOK, Numbers
<1>1. CASE UNCHANGED <<runs, entries>> /\ robots \subseteq robots'
  BY <1>b, <1>1
<1>2. CASE InsertRun
  <2>1. PICK r \in RunIds :
          /\ making # 0 /\ r \notin Used
          /\ runs' = [runs EXCEPT ![r] = [no |-> created + 1, robot |-> making,
                                          status |-> "QUEUED", retries |-> 0]]
    <3>1. PICK r \in RunIds :
            /\ making # 0 /\ NewId(r, Used)
            /\ runs' = [runs EXCEPT ![r] = [no |-> created + 1, robot |-> making,
                                            status |-> "QUEUED", retries |-> 0]]
      BY <1>2 DEF InsertRun
    <3>2. r \notin Used
      BY <3>1, Positive DEF NewId
    <3>. QED  BY <3>1, <3>2
  <2>2. runs[r].no = 0
    BY <2>1 DEF Used, Exists, NoRun
  <2>3. entries' = entries /\ robots' = robots
    BY <1>2 DEF InsertRun
  <2>4. /\ \A q \in RunIds : q # r => runs'[q] = runs[q]
        /\ runs'[r].robot = making
    BY <2>1 DEF Shape, TypeOK
  <2>5. \A e \in entries : e[1] # r
    BY <1>b, <1>c, <2>2
  <2>6. Own(runs', entries')
    BY <1>b, <1>c, <2>3, <2>4, <2>5
  <2>7. Kin(runs', robots')
    BY <1>b, <2>1, <2>3, <2>4
  <2>. QED  BY <2>6, <2>7
<1>3. CASE DeleteRobot
  <2>1. PICK b \in robots : Deletes(b, {e \in entries : e[1] \in RunsOf(b)})
    BY <1>3 DEF DeleteRobot
  <2>2. \A q \in RunIds : q \notin RunsOf(b) => runs'[q] = runs[q]
    BY <2>1 DEF Deletes
  <2>3. \A q \in RunIds : runs'[q] # NoRun => runs'[q] = runs[q] /\ runs[q].robot # b
    BY <2>1 DEF Deletes, RunsOf, Used, Exists
  <2>4. Own(runs', entries')
    BY <1>b, <1>c, <2>1, <2>2 DEF Deletes
  <2>5. Kin(runs', robots')
    BY <1>b, <2>1, <2>3 DEF Deletes
  <2>. QED  BY <2>4, <2>5
<1>4. ASSUME \A q \in RunIds : /\ runs'[q].no = runs[q].no /\ runs'[q].robot = runs[q].robot
                               /\ runs'[q] # NoRun => runs[q] # NoRun,
             robots' = robots,
             \A e \in entries' : e \in entries \/ \E t \in Busy : e = <<job[t].id, job[t].no>>
      PROVE  Own(runs', entries') /\ Kin(runs', robots')
  <2>1. \A t \in Busy : job[t].id \in RunIds /\ runs[job[t].id].no = job[t].no
    BY <1>b, JobsAre
  <2>2. ASSUME NEW e \in entries' PROVE runs'[e[1]].no = e[2]
    <3>1. CASE e \in entries
      <4>1. e[1] \in RunIds /\ runs[e[1]].no = e[2]
        BY <1>b, <1>c, <3>1
      <4>. QED  BY <1>4, <4>1
    <3>2. ASSUME NEW t \in Busy, e = <<job[t].id, job[t].no>> PROVE runs'[e[1]].no = e[2]
      <4>1. runs'[job[t].id].no = job[t].no
        BY <1>4, <2>1
      <4>. QED  BY <3>2, <4>1
    <3>. QED  BY <1>4, <3>1, <3>2
  <2>3. ASSUME NEW r \in RunIds, runs'[r] # NoRun PROVE runs'[r].robot \in robots'
    <3>1. runs[r] # NoRun /\ runs'[r].robot = runs[r].robot
      BY <1>4, <2>3
    <3>. QED  BY <1>b, <1>4, <3>1
  <2>. QED  BY <2>2, <2>3
<1>5. CASE Claim
  <2>1. PICK r \in Used : runs' = [runs EXCEPT ![r].status = "RUNNING"]
    BY <1>5 DEF Claim
  <2>2. r \in RunIds /\ runs[r] \in Run /\ runs[r] # NoRun
    BY <2>1 DEF Used, Exists, Shape, TypeOK
  <2>3. \A q \in RunIds : /\ runs'[q].no = runs[q].no /\ runs'[q].robot = runs[q].robot
                          /\ runs'[q] # NoRun => runs[q] # NoRun
    BY <2>1, <2>2 DEF Shape, TypeOK, Run
  <2>4. robots' = robots /\ entries' = entries
    BY <1>5 DEF Claim
  <2>. QED  BY <1>4, <2>3, <2>4
<1>6. ASSUME NEW t \in Threads, Execute(t)
      PROVE  Own(runs', entries') /\ Kin(runs', robots')
  <2>1. CASE Start(t) \/ Return(t)
    BY <1>1, <2>1 DEF Start, Return, rowVars
  <2>2. CASE ~Start(t) /\ ~Return(t)
    <3>1. t \in Busy /\ at[t] # "idle"
      BY <1>6, <2>2, GoesOn DEF Busy
    <3>2. \A q \in RunIds : /\ runs'[q].no = runs[q].no /\ runs'[q].robot = runs[q].robot
                            /\ runs'[q] # NoRun => runs[q] # NoRun
      BY <1>6, <2>2, <3>1, StatusWritten, RequeueWritten
      DEF Execute, MarkRunning, Load, Log, Succeed, Fail, Finally, Requeue, rowVars
    <3>3. /\ robots' = robots
          /\ \A e \in entries' : e \in entries \/ e = <<job[t].id, job[t].no>>
      BY <1>6, <2>2
      DEF Execute, MarkRunning, Load, Log, Succeed, Fail, Finally, Requeue, rowVars
    <3>. QED  BY <1>4, <3>1, <3>2, <3>3
  <2>. QED  BY <2>1, <2>2
<1>. QED
  BY <1>1, <1>2, <1>3, <1>5, <1>6
  DEF Next, Dispatch, CreateRobot, LookUp, Refresh, Submit, rowVars, vars

\* A deletion leaves no log entry of a run and no run of a robot that is gone,
\* unless it straddles a run that is being made or worked on: while it does
\* not, every run that is worked on is still there, so that no new run can get
\* its id, and the robot of a run that is inserted exists.
THEOREM TablesAlwaysAgree == Spec => []TablesAgree
<1>. DEFINE I == Shape /\ OwnIds /\ StillThere /\ Made /\ LogsAndRunsAgree
<1>1. Init => I
  <2>. SUFFICES ASSUME Init PROVE StillThere /\ Made /\ LogsAndRunsAgree
    BY InitShape, InitOwn
  <2>1. Working = {} /\ entries = {} /\ making = 0 /\ reused = FALSE
    BY DEF Init, Working, Busy
  <2>2. \A r \in Used : runs[r].robot \in robots
    BY QueuedAre DEF Used, Exists
  <2>. QED  BY <2>1, <2>2 DEF StillThere, Made, LogsAndRunsAgree
<1>2. I /\ [Next]_vars => I'
  <2>. SUFFICES ASSUME I, [Next]_vars PROVE I'
    OBVIOUS
  <2>1. Shape' /\ OwnIds'
    BY StepShape, StepOwnIds
  <2>. QED  BY <2>1, StepStillThere, StepMade, StepInherited
<1>3. I => TablesAgree
  BY DEF Shape, TablesAgree
<1>. QED  BY <1>1, <1>2, <1>3, PTL DEF Spec

(***************************************************************************)
(* The dispatcher's slots.                                                 *)
(***************************************************************************)
LEMMA JobsFinite == ASSUME Shape PROVE IsFiniteSet(Jobs) /\ IsFiniteSet(Working)
<1>. DEFINE Given == {job[t] : t \in Threads}
<1>1. IsFiniteSet(Given)
  <2>1. job \in Surjection(Threads, Given)
    BY DEF Surjection, Shape, TypeOK
  <2>. HIDE DEF Given
  <2>. QED  BY <2>1, FS_Surjection, RemovalAssumption
<1>2. IsFiniteSet(pending \cup Given)
  <2>. HIDE DEF Given
  <2>. QED  BY <1>1, FS_Union DEF Shape
<1>3. IsFiniteSet((pending \cup Given) \cup {disp})
  <2>. HIDE DEF Given
  <2>. QED  BY <1>2, FS_AddElement
<1>4. Jobs \subseteq (pending \cup Given) \cup {disp}
  BY DEF Jobs
<1>5. IsFiniteSet(Jobs)
  <2>. HIDE DEF Given
  <2>. QED  BY <1>3, <1>4, FS_Subset
<1>. QED  BY <1>5, WorkingAreJobs, FS_Subset

\* While no id was given again, the jobs that the pool is to work on take up a
\* slot each: every one has its future, and no two have the same.
LEMMA SlotsCoverWork ==
  ASSUME Shape, Apart, Kept, disp = NoJob
  PROVE  IsFiniteSet(Occupied) /\ Cardinality(Working) <= Cardinality(Occupied)
<1>1. IsFiniteSet(Occupied)
  <2>. DEFINE f == [r \in Occupied |-> active[r]]
  <2>1. f \in Injection(Occupied, Jobs)
    <3>1. \A r \in Occupied : active[r] \in Jobs /\ active[r].id = r
      BY DEF Occupied, Jobs, Shape, Futures
    <3>. QED  BY <3>1 DEF Injection, IsInjective
  <2>. HIDE DEF f
  <2>. QED  BY <2>1, JobsFinite, FS_Injection
<1>2. Cardinality(Working) <= Cardinality(Occupied)
  <2>. DEFINE g == [j \in Working |-> j.id]
  <2>1. \A j \in Working : j \in pending \/ \E t \in Busy : j = job[t]
    BY JobsAre, Positive DEF NoJob, Job
  <2>2. \A j \in Working : j.id \in Occupied
    BY <2>1, JobsAre, WorkingAreJobs DEF Kept, Occupied, Job
  <2>3. \A j, k \in Working : j.id = k.id => j = k
    BY <2>1 DEF Apart
  <2>4. g \in Injection(Working, Occupied)
    BY <2>2, <2>3 DEF Injection, IsInjective
  <2>. HIDE DEF g
  <2>. QED  BY <1>1, <2>4, FS_Injection
<1>. QED  BY <1>1, <1>2

LEMMA StepFits ==
  Shape /\ Shape' /\ OwnIds /\ NoRunWaitsForThread /\ [Next]_vars => NoRunWaitsForThread'
<1>. SUFFICES ASSUME Shape, Shape', OwnIds, NoRunWaitsForThread, [Next]_vars, ~reused'
              PROVE  Cardinality(Working') <= Cardinality(Threads)
  BY DEF NoRunWaitsForThread
<1>a. ~reused /\ Apart /\ Kept /\ Cardinality(Working) <= Cardinality(Threads)
  BY RunsMonotone DEF OwnIds, NoRunWaitsForThread
<1>b. IsFiniteSet(Working) /\ Cardinality(Working) \in Nat /\ Cardinality(Threads) \in Nat
  BY JobsFinite, FS_CardinalityType, RemovalAssumption
<1>1. CASE ~Claim
  <2>1. Working' \subseteq Working
    BY <1>1, OnlyClaims
  <2>2. Cardinality(Working') <= Cardinality(Working) /\ Cardinality(Working') \in Nat
    BY <1>b, <2>1, FS_Subset, FS_CardinalityType
  <2>. QED  BY <1>a, <1>b, <2>2
<1>2. CASE Claim
  <2>1. disp = NoJob /\ Cardinality(Occupied) < Cardinality(Threads)
    BY <1>2 DEF Claim, Shape, TypeOK
  <2>2. Cardinality(Working) < Cardinality(Threads)
    BY <1>a, <1>b, <2>1, SlotsCoverWork, FS_CardinalityType
  <2>3. Working' \subseteq Working \cup {disp'}
    BY <1>2 DEF Claim, Working, Busy, thVars
  <2>4. /\ IsFiniteSet(Working \cup {disp'})
        /\ Cardinality(Working \cup {disp'}) <= Cardinality(Working) + 1
        /\ Cardinality(Working \cup {disp'}) \in Nat
    <3>1. IsFiniteSet(Working \cup {disp'})
      BY <1>b, FS_AddElement
    <3>2. Cardinality(Working \cup {disp'}) = IF disp' \in Working THEN Cardinality(Working)
                                                          ELSE Cardinality(Working) + 1
      BY <1>b, FS_AddElement
    <3>. QED  BY <1>b, <3>1, <3>2, FS_CardinalityType
  <2>5. Cardinality(Working') <= Cardinality(Working \cup {disp'}) /\ Cardinality(Working') \in Nat
    BY <2>3, <2>4, FS_Subset, FS_CardinalityType
  <2>. QED  BY <1>b, <2>2, <2>4, <2>5
<1>. QED  BY <1>1, <1>2

\* The dispatcher hands out no more work than the pool has threads, although
\* deletions take rows away under it and runs are claimed again while the
\* thread that requeued them returns, unless an id was given again: it counts
\* the futures it keeps, one under the id of each job that is to be worked on,
\* and claims only when they are fewer than the threads.  What the overwriting
\* of _active lets out of the count are threads that return.
THEOREM NoneWaitsForThread == Spec => []NoRunWaitsForThread
<1>. DEFINE I == Shape /\ OwnIds /\ NoRunWaitsForThread
<1>1. Init => I
  <2>. SUFFICES ASSUME Init PROVE NoRunWaitsForThread
    BY InitShape, InitOwn
  <2>1. Working = {}
    BY DEF Init, Working, Busy
  <2>2. Cardinality(Working) = 0 /\ Cardinality(Threads) \in Nat
    BY <2>1, FS_EmptySet, FS_CardinalityType, RemovalAssumption
  <2>. QED  BY <2>2 DEF NoRunWaitsForThread
<1>2. I /\ [Next]_vars => I'
  <2>. SUFFICES ASSUME I, [Next]_vars PROVE I'
    OBVIOUS
  <2>1. Shape' /\ OwnIds'
    BY StepShape, StepOwnIds
  <2>. QED  BY <2>1, StepFits
<1>3. I => NoRunWaitsForThread
  OBVIOUS
<1>. QED  BY <1>1, <1>2, <1>3, PTL DEF Spec
=============================================================================

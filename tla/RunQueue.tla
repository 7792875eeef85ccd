------------------------------ MODULE RunQueue ------------------------------
(***************************************************************************)
(* The execution queue of the Hub: the rows of the table "runs", the       *)
(* dispatcher thread that claims them, the thread pool that executes them, *)
(* and the API handlers that create and cancel them, over any number of    *)
(* restarts.  Every action is one atomic access to the database or to the  *)
(* dispatcher: a handler that reads a row and commits it later is two      *)
(* actions, and others may act in between.                                 *)
(***************************************************************************)
EXTENDS Integers, Sequences, FiniteSets

CONSTANTS
  Runs,          \* the primary keys of the runs, in the order of creation
  Robots, RobotOf,   \* the robots, and the robot each run belongs to
  Threads,       \* pool threads, of this process and of an earlier one
  Cancellers,    \* API request threads inside cancel_run
  MaxConcurrent, \* max_concurrent_runs as the caller gives it
  Asked,         \* values of max_retries a client or a schedule asks for
  NSteps,        \* steps of a workflow
  MaxBoots,      \* bound: the Hub starts at most this many times, and its last
                 \* process is not stopped
  Crashes,       \* whether the machine may stop at any moment
  Overlap,       \* whether a Hub starts while an old process still executes
  SlowAlerts     \* whether an alert's e-mail outlasts the lock timeout

ASSUME RunQueueAssumption ==
  /\ Runs \subseteq Nat /\ IsFiniteSet(Runs)
  /\ RobotOf \in [Runs -> Robots]
  /\ IsFiniteSet(Threads)
  /\ MaxConcurrent \in Int
  /\ Asked \subseteq Int
  /\ NSteps \in Nat
  /\ MaxBoots \in Nat
  /\ Crashes \in BOOLEAN /\ Overlap \in BOOLEAN /\ SlowAlerts \in BOOLEAN

Status   == {"NONE", "QUEUED", "RUNNING", "SUCCESS", "FAILED", "CANCELLED"}
Terminal == {"SUCCESS", "FAILED", "CANCELLED"}

\* A row: "cancel" is cancellation_requested_at IS NOT NULL, "finished" is
\* finished_at IS NOT NULL.
Row == [status : Status, cancel : BOOLEAN, finished : BOOLEAN,
        retries : Nat, max : 0..5]
NoRow == [status |-> "NONE", cancel |-> FALSE, finished |-> FALSE,
          retries |-> 0, max |-> 0]

\* A submitted future: the run it executes and the number of its claim.
Job   == [run : Runs, n : Nat]
NoJob == [run |-> -1, n |-> 0]

\* Where a pool thread is inside execute_run.
Busy == {"picked", "precancel", "mark", "check", "step", "stopping",
         "finally", "requeue", "finish", "alert", "alerting", "return"}

VARIABLES
  db,         \* the table runs
  alert,      \* the failure alert of each run
  hub,        \* phase of the current Hub process
  boots,      \* number of times the Hub started
  recovering, \* the rows recover_interrupted_runs has loaded
  disp,       \* the dispatcher: pc, free slots left in this pass, claimed run
  active,     \* _active: the claim number of the future kept for a run, or 0
  pending,    \* the pool's work queue
  pc, job, step, snap, old, \* each pool thread: pc, future, next step, row as
                            \* last loaded, belongs to an earlier process
  req,        \* each canceller: the run and the row it loaded, or NoRow
  starts,     \* history: number of times each run was claimed
  late        \* history: steps that ended after the cancel request

dbVars   == <<db, alert, starts, late>>
hubVars  == <<hub, boots, recovering>>
dispVars == <<disp, active, pending>>
thVars   == <<pc, job, step, snap, old>>
vars     == <<db, alert, hub, boots, recovering, disp, active, pending,
              pc, job, step, snap, old, req, starts, late>>

(***************************************************************************)
(* Helpers.                                                                *)
(***************************************************************************)
Limit == IF MaxConcurrent > 1 THEN MaxConcurrent ELSE 1

\* Mutant: negative requests are kept.
ClampAbove(m) == IF m > 5 THEN 5 ELSE m

Clamp(m) == IF m < 0 THEN 0 ELSE IF m > 5 THEN 5 ELSE m

\* The ORM writes only the columns whose value differs from the loaded one.
Written(current, loaded, new) == IF new = loaded THEN current ELSE new

\* SQLite has one writer: a thread that mails an alert holds the write lock.
WriteFree == \A t \in Threads : pc[t] # "alerting"

Store(r, row) == db' = [db EXCEPT ![r] = row]

Closed(row, status) == [row EXCEPT !.status = status, !.finished = TRUE]

Claimable(r) == db[r].status = "QUEUED" /\ ~db[r].cancel

\* Mutant: the budget of retries is off by one.
RetryOnceMore(row) == row.status = "FAILED" /\ row.retries <= row.max /\ ~row.cancel

MayRetry(row) == row.status = "FAILED" /\ row.retries < row.max /\ ~row.cancel

\* Mutant: no alert for a failure that met a cancel request.
AlertUnlessCancelled(row) == row.status = "FAILED" /\ ~row.cancel

NeedsAlert(row) == row.status = "FAILED"

Cancellable(row) == row.status \in {"QUEUED", "RUNNING"}

\* The future of a claim is done once it has left the queue and its thread.
FutureDone(r, n) ==
  /\ \A i \in 1..Len(pending) : pending[i] # [run |-> r, n |-> n]
  /\ \A t \in Threads : job[t] # [run |-> r, n |-> n]

\* Mutant: finished futures are not forgotten.
OccupiedForEver == {r \in Runs : active[r] # 0}

Occupied == {r \in Runs : active[r] # 0 /\ ~FutureDone(r, active[r])}

\* Pool threads of the current process that hold a future.
PoolBusy == {t \in Threads : pc[t] \in Busy /\ ~old[t]}

Idle == [pc |-> "idle", slots |-> 0, run |-> -1]
Off  == [pc |-> "off", slots |-> 0, run |-> -1]

Init ==
  /\ db = [r \in Runs |-> NoRow]
  /\ alert = [r \in Runs |-> "none"]
  /\ hub = "down" /\ boots = 0 /\ recovering = {}
  /\ disp = Off /\ active = [r \in Runs |-> 0] /\ pending = << >>
  /\ pc = [t \in Threads |-> "idle"]
  /\ job = [t \in Threads |-> NoJob]
  /\ step = [t \in Threads |-> 1]
  /\ snap = [t \in Threads |-> NoRow]
  /\ old = [t \in Threads |-> FALSE]
  /\ req = [c \in Cancellers |-> [run |-> -1, row |-> NoRow]]
  /\ starts = [r \in Runs |-> 0]
  /\ late = [r \in Runs |-> 0]

(***************************************************************************)
(* API handlers.                                                           *)
(***************************************************************************)
\* run_robot, and the scheduler's _run_robot: one insert and its commit.
CreateRun(r, asked) ==
  /\ hub = "up" /\ WriteFree
  /\ db[r].status = "NONE"
  /\ \A q \in Runs : q < r => db[q].status # "NONE"
  /\ Store(r, [db[r] EXCEPT !.status = "QUEUED", !.max = Clamp(asked)])
  /\ UNCHANGED <<alert, starts, late, hubVars, dispVars, thVars, req>>

\* cancel_run up to its first assignment: a finished run is refused.
CancelRead(c, r) ==
  /\ hub = "up" /\ req[c].run = -1
  /\ Cancellable(db[r])
  /\ req' = [req EXCEPT ![c] = [run |-> r, row |-> db[r]]]
  /\ UNCHANGED <<dbVars, hubVars, dispVars, thVars>>

\* The columns cancel_run writes, according to the row it loaded.
CancelledRow(row, loaded) ==
  IF loaded.status = "QUEUED"
  THEN [row EXCEPT !.cancel = TRUE, !.status = "CANCELLED", !.finished = TRUE]
  ELSE [row EXCEPT !.cancel = TRUE]

\* The rest of cancel_run, decided by the status it loaded.
CancelCommit(c) ==
  LET r == req[c].run
  IN /\ r # -1 /\ WriteFree
     /\ Store(r, CancelledRow(db[r], req[c].row))
     /\ req' = [req EXCEPT ![c] = [run |-> -1, row |-> NoRow]]
     /\ UNCHANGED <<alert, starts, late, hubVars, dispVars, thVars>>

\* The commit waits for the lock longer than its timeout: HTTP 500.
CancelTimesOut(c) ==
  /\ SlowAlerts /\ ~WriteFree /\ req[c].run # -1
  /\ req' = [req EXCEPT ![c] = [run |-> -1, row |-> NoRow]]
  /\ UNCHANGED <<dbVars, hubVars, dispVars, thVars>>

(***************************************************************************)
(* The dispatcher thread.                                                  *)
(***************************************************************************)
\* dispatch_once, first part: forget the finished futures, count free slots.
DispatchBegin ==
  LET slots == Limit - Cardinality(Occupied)
  IN /\ disp.pc = "idle"
     /\ active' = [r \in Runs |-> IF r \in Occupied THEN active[r] ELSE 0]
     /\ disp' = IF slots > 0 THEN [Idle EXCEPT !.pc = "claim", !.slots = slots]
                             ELSE Idle
     /\ UNCHANGED <<dbVars, hubVars, pending, thVars, req>>

\* The first pass runs inside start(): the Hub serves requests after it.
PassEnds == hub' = IF hub = "starting" THEN "up" ELSE hub

\* Mutant: the claim leaves the row to execute_run.
ClaimedLater(row) == row

ClaimedRow(row) == [row EXCEPT !.status = "RUNNING"]

\* _next_queued_run finds a row.  The registration of the worker has taken
\* the write lock before the row is read, so the claim is atomic.
Claim(r) ==
  /\ disp.pc = "claim" /\ WriteFree
  /\ Claimable(r) /\ \A q \in Runs : q < r => ~Claimable(q)
  /\ Store(r, ClaimedRow(db[r]))
  /\ starts' = [starts EXCEPT ![r] = @ + 1]
  /\ disp' = [disp EXCEPT !.pc = "submit", !.run = r]
  /\ UNCHANGED <<alert, late, hubVars, active, pending, thVars, req>>

\* _next_queued_run finds none: the pass ends.
NothingQueued ==
  /\ disp.pc = "claim" /\ WriteFree
  /\ \A r \in Runs : ~Claimable(r)
  /\ disp' = Idle /\ PassEnds
  /\ UNCHANGED <<dbVars, boots, recovering, active, pending, thVars, req>>

\* The claimed run is handed to the pool and its future kept in _active.
SubmitJob ==
  LET r == disp.run
  IN /\ disp.pc = "submit"
     /\ pending' = Append(pending, [run |-> r, n |-> starts[r]])
     /\ active' = [active EXCEPT ![r] = starts[r]]
     /\ IF disp.slots > 1
        THEN /\ disp' = [pc |-> "claim", slots |-> disp.slots - 1, run |-> -1]
             /\ UNCHANGED hub
        ELSE disp' = Idle /\ PassEnds
     /\ UNCHANGED <<dbVars, boots, recovering, thVars, req>>

\* The claim waits for the lock too long: nothing in _loop catches the error
\* and the dispatcher thread ends.
DispatcherDies ==
  /\ SlowAlerts /\ ~WriteFree /\ hub = "up" /\ disp.pc = "claim"
  /\ disp' = Off
  /\ UNCHANGED <<dbVars, hubVars, active, pending, thVars, req>>

(***************************************************************************)
(* execute_run, in a pool thread.                                          *)
(***************************************************************************)
Goto(t, where) ==
  /\ pc[t] \in Busy
  /\ pc' = [pc EXCEPT ![t] = where]
  /\ UNCHANGED <<job, old, hubVars, dispVars, req>>

\* A free pool thread takes the oldest future.
PickUp(t) ==
  /\ pc[t] = "idle" /\ pending # << >>
  /\ Cardinality(PoolBusy) < Limit
  /\ pc' = [pc EXCEPT ![t] = "picked"]
  /\ job' = [job EXCEPT ![t] = Head(pending)]
  /\ pending' = Tail(pending)
  /\ UNCHANGED <<dbVars, hubVars, disp, active, step, snap, old, req>>

\* execute_run loads the row: finished, asked to stop, or to be executed.
LoadRun(t) ==
  LET row == db[job[t].run]
  IN /\ pc[t] = "picked"
     /\ Goto(t, IF ~Cancellable(row) THEN "return"
                ELSE IF row.cancel THEN "precancel" ELSE "mark")
     /\ snap' = [snap EXCEPT ![t] = row]
     /\ UNCHANGED <<dbVars, step>>

CancelBeforeStart(t) ==
  /\ pc[t] = "precancel" /\ WriteFree
  /\ Goto(t, "return")
  /\ Store(job[t].run, Closed(db[job[t].run], "CANCELLED"))
  /\ UNCHANGED <<alert, starts, late, step, snap>>

MarkRunning(t) ==
  /\ pc[t] = "mark" /\ WriteFree
  /\ Goto(t, "check")
  /\ Store(job[t].run, [db[job[t].run] EXCEPT
                          !.status = Written(@, snap[t].status, "RUNNING")])
  /\ step' = [step EXCEPT ![t] = 1]
  /\ UNCHANGED <<alert, starts, late, snap>>

\* Mutant: should_cancel looks at the row loaded when the run began.
CancelLoaded(t) == snap[t].cancel

\* should_cancel: a query of its own, not the loaded row.
CancelSeen(t) == db[job[t].run].cancel

\* _execute_steps asks should_cancel before each step.
CheckCancel(t) ==
  /\ pc[t] = "check" /\ step[t] <= NSteps
  /\ Goto(t, IF CancelSeen(t) THEN "stopping" ELSE "step")
  /\ UNCHANGED <<dbVars, step, snap>>

CountLate(r) == late' = [late EXCEPT ![r] = IF db[r].cancel THEN @ + 1 ELSE @]

\* A step, with its own retries, ends well.
StepSucceeds(t) ==
  /\ pc[t] = "step" /\ WriteFree
  /\ Goto(t, "check")
  /\ step' = [step EXCEPT ![t] = @ + 1]
  /\ CountLate(job[t].run)
  /\ UNCHANGED <<db, alert, starts, snap>>

\* The workflow raises (before its steps, in one, or when its artifacts are
\* registered: StepEngine has the details): FAILED is committed with the log
\* entry of the error.
AttemptFails(t) ==
  /\ pc[t] \in {"check", "step"} /\ WriteFree
  /\ Store(job[t].run, [db[job[t].run] EXCEPT !.status = "FAILED"])
  /\ IF pc[t] = "step" THEN CountLate(job[t].run) ELSE UNCHANGED late
  /\ Goto(t, "finally")
  /\ UNCHANGED <<alert, starts, step, snap>>

\* WorkflowCancelledError: CANCELLED is committed with its log entry.
StopOnCancel(t) ==
  /\ pc[t] = "stopping" /\ WriteFree
  /\ Goto(t, "finally")
  /\ Store(job[t].run, [db[job[t].run] EXCEPT !.status = "CANCELLED"])
  /\ UNCHANGED <<alert, starts, late, step, snap>>

Resolve(r) == [q \in Runs |-> IF RobotOf[q] = RobotOf[r] /\ alert[q] = "open"
                              THEN "resolved" ELSE alert[q]]

\* The workflow ended: SUCCESS, finished_at and the robot's alerts at once.
AttemptSucceeds(t) ==
  LET r == job[t].run
  IN /\ pc[t] = "check" /\ step[t] > NSteps /\ WriteFree
     /\ Goto(t, "return")
     /\ Store(r, Closed(db[r], "SUCCESS"))
     /\ alert' = Resolve(r)
     /\ UNCHANGED <<starts, late, step, snap>>

\* The finally block reloads the row, which the commit before it expired.
Finally(t) ==
  LET row == db[job[t].run]
  IN /\ pc[t] = "finally"
     /\ Goto(t, IF MayRetry(row) THEN "requeue"
                ELSE IF NeedsAlert(row) THEN "alert" ELSE "finish")
     /\ snap' = [snap EXCEPT ![t] = row]
     /\ UNCHANGED <<dbVars, step>>

Requeue(t) ==
  LET r == job[t].run
  IN /\ pc[t] = "requeue" /\ WriteFree
     /\ Goto(t, "return")
     /\ Store(r, [db[r] EXCEPT !.status = "QUEUED",
                               !.retries = snap[t].retries + 1,
                               !.finished = Written(@, snap[t].finished, FALSE)])
     /\ UNCHANGED <<alert, starts, late, step, snap>>

Finish(t) ==
  /\ pc[t] = "finish" /\ WriteFree
  /\ Goto(t, "return")
  /\ Store(job[t].run, [db[job[t].run] EXCEPT !.finished = TRUE])
  /\ UNCHANGED <<alert, starts, late, step, snap>>

\* create_failure_alert flushes the alert, which takes the write lock, and
\* sends the e-mail while it holds it.
AlertFlush(t) ==
  /\ pc[t] = "alert" /\ WriteFree
  /\ Goto(t, "alerting")
  /\ UNCHANGED <<dbVars, step, snap>>

AlertCommit(t) ==
  LET r == job[t].run
  IN /\ pc[t] = "alerting"
     /\ Goto(t, "return")
     /\ Store(r, [db[r] EXCEPT !.finished = TRUE])
     /\ alert' = [alert EXCEPT ![r] = "open"]
     /\ UNCHANGED <<starts, late, step, snap>>

Release(t) ==
  /\ pc' = [pc EXCEPT ![t] = "idle"]
  /\ job' = [job EXCEPT ![t] = NoJob]
  /\ step' = [step EXCEPT ![t] = 1]
  /\ snap' = [snap EXCEPT ![t] = NoRow]
  /\ old' = [old EXCEPT ![t] = FALSE]

\* _execute closes its session and the future is done.
Return(t) ==
  /\ pc[t] = "return" /\ Release(t)
  /\ UNCHANGED <<dbVars, hubVars, dispVars, req>>

\* A commit of the thread waits for the lock too long.  The error leaves the
\* session unusable, so the handlers of execute_run raise too: the row stays.
CommitTimesOut(t) ==
  /\ SlowAlerts /\ ~WriteFree
  /\ pc[t] \in Busy \ {"picked", "finally", "alerting", "return"}
  /\ Release(t)
  /\ UNCHANGED <<dbVars, hubVars, dispVars, req>>

(***************************************************************************)
(* The life of the Hub process.                                            *)
(***************************************************************************)

\* Mutant: a run with a cancel request is not recovered.
InterruptedUncancelled == {r \in Runs : db[r].status = "RUNNING" /\ ~db[r].cancel}

Interrupted == {r \in Runs : db[r].status = "RUNNING"}

\* start(): a new pool, and recover_interrupted_runs loads the RUNNING rows.
Boot ==
  /\ hub = "down" /\ boots < MaxBoots
  /\ Overlap \/ \A t \in Threads : pc[t] = "idle"
  /\ hub' = "recovering" /\ boots' = boots + 1
  /\ recovering' = Interrupted
  /\ UNCHANGED <<dbVars, dispVars, thVars, req>>

\* Mutant: recovery puts the interrupted runs back in the queue.
RequeuedRow(row) == [row EXCEPT !.status = "QUEUED"]

RecoveredRow(row) == Closed(row, "FAILED")

RecoverCommit ==
  /\ hub = "recovering" /\ WriteFree
  /\ db' = [r \in Runs |-> IF r \in recovering THEN RecoveredRow(db[r]) ELSE db[r]]
  /\ hub' = "starting" /\ recovering' = {} /\ disp' = Idle
  /\ UNCHANGED <<alert, starts, late, boots, active, pending, thVars, req>>

\* shutdown() once the requests are served: it joins the dispatcher (a claim
\* that waits for the lock outlasts the join), drops the queued futures and
\* does not wait for the threads that execute.
Shutdown ==
  /\ hub = "up" /\ boots < MaxBoots /\ \A c \in Cancellers : req[c].run = -1
  /\ disp.pc \in {"idle", "off"} \/ (disp.pc = "claim" /\ ~WriteFree)
  /\ hub' = "down" /\ disp' = Off /\ pending' = << >>
  /\ active' = [r \in Runs |-> 0]
  /\ old' = [t \in Threads |-> pc[t] \in Busy]
  /\ UNCHANGED <<dbVars, boots, recovering, pc, job, step, snap, req>>

\* Power is lost: only the database remains, without the open transaction.
Crash ==
  /\ Crashes /\ hub # "down" /\ boots < MaxBoots
  /\ hub' = "down" /\ recovering' = {}
  /\ disp' = Off /\ pending' = << >> /\ active' = [r \in Runs |-> 0]
  /\ pc' = [t \in Threads |-> "idle"]
  /\ job' = [t \in Threads |-> NoJob]
  /\ step' = [t \in Threads |-> 1]
  /\ snap' = [t \in Threads |-> NoRow]
  /\ old' = [t \in Threads |-> FALSE]
  /\ req' = [c \in Cancellers |-> [run |-> -1, row |-> NoRow]]
  /\ UNCHANGED <<dbVars, boots>>

(***************************************************************************)
(* The specification.                                                      *)
(***************************************************************************)
DispatcherNext ==
  \/ DispatchBegin
  \/ \E r \in Runs : Claim(r)
  \/ NothingQueued
  \/ SubmitJob
  \/ DispatcherDies

ThreadNext(t) ==
  \/ PickUp(t) \/ LoadRun(t) \/ CancelBeforeStart(t) \/ MarkRunning(t)
  \/ CheckCancel(t) \/ StepSucceeds(t) \/ AttemptFails(t) \/ StopOnCancel(t)
  \/ AttemptSucceeds(t) \/ Finally(t) \/ Requeue(t) \/ Finish(t)
  \/ AlertFlush(t) \/ AlertCommit(t) \/ Return(t) \/ CommitTimesOut(t)

CancellerNext(c) ==
  \/ \E r \in Runs : CancelRead(c, r)
  \/ CancelCommit(c)
  \/ CancelTimesOut(c)

Next ==
  \/ \E r \in Runs, asked \in Asked : CreateRun(r, asked)
  \/ \E c \in Cancellers : CancellerNext(c)
  \/ DispatcherNext
  \/ \E t \in Threads : ThreadNext(t)
  \/ Boot \/ RecoverCommit \/ Shutdown \/ Crash

Spec == Init /\ [][Next]_vars

\* The threads and the dispatcher's loop keep running, a request ends, and
\* the Hub is started.  Nobody is obliged to create, cancel or shut down.
Fairness ==
  /\ WF_vars(DispatcherNext)
  /\ \A t \in Threads : WF_vars(ThreadNext(t))
  /\ \A c \in Cancellers : WF_vars(CancelCommit(c))
  /\ WF_vars(Boot) /\ WF_vars(RecoverCommit)

FairSpec == Spec /\ Fairness
=============================================================================

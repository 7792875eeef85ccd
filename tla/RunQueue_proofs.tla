--------------------------- MODULE RunQueue_proofs ---------------------------
(***************************************************************************)
(* Theorems about RunQueue for every set of runs, threads and cancellers,  *)
(* every limit, and every choice of crashes, overlap and slow e-mails.     *)
(***************************************************************************)
EXTENDS RunQueueProps, FiniteSetTheorems, TLAPS

\* Type invariant, with the facts the actions rely on: a busy thread has a
\* job, and a dispatcher about to submit has a run.
TypeInv ==
  /\ TypeOK
  /\ \A t \in Threads : pc[t] \in Busy => job[t] \in Job
  /\ disp.pc = "submit" => disp.run \in Runs

\* Every row an action stores is a row.
LEMMA RowTypes ==
  ASSUME NEW row \in Row
  PROVE  /\ \A s \in Status : [row EXCEPT !.status = s] \in Row
         /\ \A s \in Status : Closed(row, s) \in Row
         /\ [row EXCEPT !.finished = TRUE] \in Row
         /\ \A m \in 0..5 : [row EXCEPT !.status = "QUEUED", !.max = m] \in Row
         /\ \A n \in Nat, f \in BOOLEAN :
              [row EXCEPT !.status = "QUEUED", !.retries = n, !.finished = f] \in Row
         /\ \A loaded \in Row : CancelledRow(row, loaded) \in Row
         /\ ClaimedRow(row) \in Row
         /\ RecoveredRow(row) \in Row
BY DEF Row, Status, ClaimedRow, RecoveredRow, Closed, CancelledRow

LEMMA RowFields ==
  ASSUME NEW row \in Row
  PROVE  /\ row.status \in Status /\ row.cancel \in BOOLEAN
         /\ row.finished \in BOOLEAN /\ row.retries \in Nat /\ row.max \in 0..5
BY DEF Row

LEMMA StoreType ==
  ASSUME db \in [Runs -> Row], NEW r \in Runs, NEW row \in Row, Store(r, row)
  PROVE  /\ db' \in [Runs -> Row]
         /\ db'[r] = row
         /\ \A q \in Runs : q # r => db'[q] = db[q]
BY DEF Store

LEMMA ClampType == \A m \in Int : Clamp(m) \in 0..5
BY DEF Clamp

LEMMA LimitType == Limit \in Nat
BY RunQueueAssumption DEF Limit

LEMMA NoRowType == NoRow \in Row
BY DEF NoRow, Row, Status

LEMMA InitTypeInv == Init => TypeInv
BY RunQueueAssumption DEF Init, TypeInv, TypeOK, Row, NoRow, Status, Off, Job, NoJob, Busy

\* What every action of a pool thread that only moves its pc keeps typed.
LEMMA GotoType ==
  ASSUME TypeInv, NEW t \in Threads, NEW where \in Busy, Goto(t, where),
         db' \in [Runs -> Row], alert' \in [Runs -> {"none", "open", "resolved"}],
         starts' \in [Runs -> Nat], late' \in [Runs -> Nat],
         step' \in [Threads -> Nat], snap' \in [Threads -> Row]
  PROVE  TypeInv'
BY DEF TypeInv, TypeOK, Goto, hubVars, dispVars

LEMMA BusyJob ==
  ASSUME TypeInv, NEW t \in Threads, pc[t] \in Busy
  PROVE  /\ job[t] \in Job /\ job[t].run \in Runs /\ db[job[t].run] \in Row
         /\ snap[t] \in Row
<1>1. job[t] \in Job
  BY DEF TypeInv
<1>2. job[t].run \in Runs
  BY <1>1 DEF Job
<1> QED BY <1>1, <1>2 DEF TypeInv, TypeOK

LEMMA CountLateType ==
  ASSUME TypeInv, NEW r \in Runs, CountLate(r)
  PROVE  late' \in [Runs -> Nat]
<1>1. CASE db[r].cancel
  BY <1>1 DEF CountLate, TypeInv, TypeOK
<1>2. CASE ~db[r].cancel
  BY <1>2 DEF CountLate, TypeInv, TypeOK
<1> QED BY <1>1, <1>2

LEMMA StepTypeInv == TypeInv /\ [Next]_vars => TypeInv'
<1> SUFFICES ASSUME TypeInv, [Next]_vars PROVE TypeInv'
  OBVIOUS
<1>1. ASSUME NEW r \in Runs, NEW asked \in Asked, CreateRun(r, asked) PROVE TypeInv'
  <2>1. Clamp(asked) \in 0..5
    BY ClampType, RunQueueAssumption
  <2>2. [db[r] EXCEPT !.status = "QUEUED", !.max = Clamp(asked)] \in Row
    BY <2>1, RowTypes DEF TypeInv, TypeOK
  <2>3. db' \in [Runs -> Row]
    BY <1>1, <2>2, StoreType DEF CreateRun, TypeInv, TypeOK
  <2> QED BY <1>1, <2>3 DEF CreateRun, dbVars, hubVars, dispVars, thVars, TypeInv, TypeOK
<1>2. ASSUME NEW c \in Cancellers, NEW r \in Runs, CancelRead(c, r) PROVE TypeInv'
  BY <1>2 DEF CancelRead, dbVars, hubVars, dispVars, thVars, TypeInv, TypeOK
<1>3. ASSUME NEW c \in Cancellers, CancelCommit(c) PROVE TypeInv'
  <2>1. req[c].run \in Runs /\ req[c].row \in Row
    BY <1>3 DEF CancelCommit, TypeInv, TypeOK
  <2>2. CancelledRow(db[req[c].run], req[c].row) \in Row
    BY <2>1, RowTypes DEF TypeInv, TypeOK
  <2>3. db' \in [Runs -> Row]
    BY <1>3, <2>1, <2>2, StoreType DEF CancelCommit, TypeInv, TypeOK
  <2>4. req' \in [Cancellers -> [run : Runs \cup {-1}, row : Row]]
    BY <1>3, NoRowType DEF CancelCommit, TypeInv, TypeOK
  <2> QED BY <1>3, <2>3, <2>4 DEF CancelCommit, dbVars, hubVars, dispVars, thVars, TypeInv, TypeOK
<1>4. ASSUME NEW c \in Cancellers, CancelTimesOut(c) PROVE TypeInv'
  BY <1>4, NoRowType DEF CancelTimesOut, dbVars, hubVars, dispVars, thVars, TypeInv, TypeOK
<1>5. CASE DispatchBegin
  <2>1. Cardinality(Occupied) \in Nat
    BY FS_Subset, FS_CardinalityType, RunQueueAssumption DEF Occupied
  <2> DEFINE slots == Limit - Cardinality(Occupied)
  <2>2. slots > 0 => slots \in Nat
    BY <2>1, LimitType
  <2>3. disp' \in [pc : {"off", "idle", "claim", "submit"}, slots : Nat, run : Runs \cup {-1}]
        /\ disp'.pc # "submit"
    BY <1>5, <2>2 DEF DispatchBegin, Idle
  <2> QED BY <1>5, <2>3 DEF DispatchBegin, dbVars, hubVars, thVars, TypeInv, TypeOK
<1>6. ASSUME NEW r \in Runs, Claim(r) PROVE TypeInv'
  <2>1. db' \in [Runs -> Row]
    BY <1>6, RowTypes, StoreType DEF Claim, TypeInv, TypeOK
  <2>2. starts' \in [Runs -> Nat]
    BY <1>6 DEF Claim, TypeInv, TypeOK
  <2>3. disp' \in [pc : {"off", "idle", "claim", "submit"}, slots : Nat, run : Runs \cup {-1}]
        /\ disp'.run \in Runs
    BY <1>6 DEF Claim, TypeInv, TypeOK
  <2> QED BY <1>6, <2>1, <2>2, <2>3 DEF Claim, hubVars, thVars, TypeInv, TypeOK
<1>7. CASE NothingQueued
  BY <1>7 DEF NothingQueued, PassEnds, Idle, dbVars, thVars, TypeInv, TypeOK
<1>8. CASE SubmitJob
  <2>1. disp.run \in Runs
    BY <1>8 DEF SubmitJob, TypeInv
  <2>2. [run |-> disp.run, n |-> starts[disp.run]] \in Job
    BY <2>1 DEF Job, TypeInv, TypeOK
  <2>3. pending' \in Seq(Job)
    BY <1>8, <2>2 DEF SubmitJob, TypeInv, TypeOK
  <2>4. /\ disp' \in [pc : {"off", "idle", "claim", "submit"}, slots : Nat, run : Runs \cup {-1}]
        /\ disp'.pc # "submit"
        /\ hub' \in {"down", "recovering", "starting", "up"}
    BY <1>8 DEF SubmitJob, PassEnds, Idle, TypeInv, TypeOK
  <2>5. active' \in [Runs -> Nat]
    BY <1>8, <2>1 DEF SubmitJob, TypeInv, TypeOK
  <2> QED BY <1>8, <2>3, <2>4, <2>5 DEF SubmitJob, dbVars, thVars, TypeInv, TypeOK
<1>9. CASE DispatcherDies
  BY <1>9 DEF DispatcherDies, Off, dbVars, hubVars, thVars, TypeInv, TypeOK
<1>10. ASSUME NEW t \in Threads, PickUp(t) PROVE TypeInv'
  <2>1. Head(pending) \in Job /\ Tail(pending) \in Seq(Job)
    BY <1>10 DEF PickUp, TypeInv, TypeOK
  <2> QED BY <1>10, <2>1 DEF PickUp, dbVars, hubVars, Busy, TypeInv, TypeOK
<1>11. ASSUME NEW t \in Threads, LoadRun(t) PROVE TypeInv'
  <2>1. pc[t] \in Busy
    BY <1>11 DEF LoadRun, Busy
  <2> QED BY <1>11, <2>1, BusyJob, GotoType DEF LoadRun, dbVars, Busy, TypeInv, TypeOK
<1>12. ASSUME NEW t \in Threads, CancelBeforeStart(t) PROVE TypeInv'
  <2>1. pc[t] \in Busy
    BY <1>12 DEF CancelBeforeStart, Busy
  <2>2. job[t].run \in Runs /\ db[job[t].run] \in Row /\ snap[t] \in Row
    BY <2>1, BusyJob
  <2>3. Closed(db[job[t].run], "CANCELLED") \in Row
    BY <2>2, RowTypes, RowFields DEF Status
  <2>4. db' \in [Runs -> Row]
    BY <1>12, <2>2, <2>3, StoreType DEF CancelBeforeStart, TypeInv, TypeOK
  <2> QED BY <1>12, <2>1, <2>4, GotoType DEF CancelBeforeStart, Busy, TypeInv, TypeOK
<1>13. ASSUME NEW t \in Threads, MarkRunning(t) PROVE TypeInv'
  <2>1. pc[t] \in Busy
    BY <1>13 DEF MarkRunning, Busy
  <2>2. job[t].run \in Runs /\ db[job[t].run] \in Row /\ snap[t] \in Row
    BY <2>1, BusyJob
  <2>3. [db[job[t].run] EXCEPT !.status = Written(db[job[t].run].status, snap[t].status, "RUNNING")] \in Row
    BY <2>2, RowTypes, RowFields DEF Status, Written
  <2>4. db' \in [Runs -> Row]
    BY <1>13, <2>2, <2>3, StoreType DEF MarkRunning, TypeInv, TypeOK
  <2> QED BY <1>13, <2>1, <2>4, GotoType DEF MarkRunning, Busy, TypeInv, TypeOK
<1>14. ASSUME NEW t \in Threads, CheckCancel(t) PROVE TypeInv'
  <2>1. pc[t] \in Busy
    BY <1>14 DEF CheckCancel, Busy
  <2> QED BY <1>14, <2>1, GotoType DEF CheckCancel, dbVars, Busy, TypeInv, TypeOK
<1>15. ASSUME NEW t \in Threads, StepSucceeds(t) PROVE TypeInv'
  <2>1. pc[t] \in Busy
    BY <1>15 DEF StepSucceeds, Busy
  <2>2. late' \in [Runs -> Nat] /\ step' \in [Threads -> Nat]
    BY <1>15, <2>1, BusyJob, CountLateType DEF StepSucceeds, TypeInv, TypeOK
  <2> QED BY <1>15, <2>1, <2>2, GotoType DEF StepSucceeds, Busy, TypeInv, TypeOK
<1>16. ASSUME NEW t \in Threads, AttemptFails(t) PROVE TypeInv'
  <2>1. pc[t] \in Busy
    BY <1>16 DEF AttemptFails, Busy
  <2>2. job[t].run \in Runs /\ db[job[t].run] \in Row /\ snap[t] \in Row
    BY <2>1, BusyJob
  <2>3. [db[job[t].run] EXCEPT !.status = "FAILED"] \in Row
    BY <2>2, RowTypes, RowFields DEF Status
  <2>4. db' \in [Runs -> Row]
    BY <1>16, <2>2, <2>3, StoreType DEF AttemptFails, TypeInv, TypeOK
  <2>5. late' \in [Runs -> Nat]
    <3>1. CASE pc[t] = "step"
      BY <1>16, <2>2, <3>1, CountLateType DEF AttemptFails
    <3>2. CASE pc[t] # "step"
      BY <1>16, <3>2 DEF AttemptFails, TypeInv, TypeOK
    <3> QED BY <3>1, <3>2
  <2> QED BY <1>16, <2>1, <2>4, <2>5, GotoType DEF AttemptFails, Busy, TypeInv, TypeOK
<1>17. ASSUME NEW t \in Threads, StopOnCancel(t) PROVE TypeInv'
  <2>1. pc[t] \in Busy
    BY <1>17 DEF StopOnCancel, Busy
  <2>2. job[t].run \in Runs /\ db[job[t].run] \in Row /\ snap[t] \in Row
    BY <2>1, BusyJob
  <2>3. [db[job[t].run] EXCEPT !.status = "CANCELLED"] \in Row
    BY <2>2, RowTypes, RowFields DEF Status
  <2>4. db' \in [Runs -> Row]
    BY <1>17, <2>2, <2>3, StoreType DEF StopOnCancel, TypeInv, TypeOK
  <2> QED BY <1>17, <2>1, <2>4, GotoType DEF StopOnCancel, Busy, TypeInv, TypeOK
<1>18. ASSUME NEW t \in Threads, AttemptSucceeds(t) PROVE TypeInv'
  <2>1. pc[t] \in Busy
    BY <1>18 DEF AttemptSucceeds, Busy
  <2>2. job[t].run \in Runs /\ db[job[t].run] \in Row /\ snap[t] \in Row
    BY <2>1, BusyJob
  <2>3. Closed(db[job[t].run], "SUCCESS") \in Row
    BY <2>2, RowTypes, RowFields DEF Status
  <2>4. db' \in [Runs -> Row]
    BY <1>18, <2>2, <2>3, StoreType DEF AttemptSucceeds, TypeInv, TypeOK
  <2>5. alert' \in [Runs -> {"none", "open", "resolved"}]
    BY <1>18 DEF AttemptSucceeds, Resolve, TypeInv, TypeOK
  <2> QED BY <1>18, <2>1, <2>4, <2>5, GotoType DEF AttemptSucceeds, Busy, TypeInv, TypeOK
<1>19. ASSUME NEW t \in Threads, Finally(t) PROVE TypeInv'
  <2>1. pc[t] \in Busy
    BY <1>19 DEF Finally, Busy
  <2> QED BY <1>19, <2>1, BusyJob, GotoType DEF Finally, dbVars, Busy, TypeInv, TypeOK
<1>20. ASSUME NEW t \in Threads, Requeue(t) PROVE TypeInv'
  <2>1. pc[t] \in Busy
    BY <1>20 DEF Requeue, Busy
  <2>2. job[t].run \in Runs /\ db[job[t].run] \in Row /\ snap[t] \in Row
    BY <2>1, BusyJob
  <2>3. [db[job[t].run] EXCEPT !.status = "QUEUED", !.retries = snap[t].retries + 1,
                   !.finished = Written(db[job[t].run].finished, snap[t].finished, FALSE)] \in Row
    <3>1. snap[t].retries + 1 \in Nat
      BY <2>2 DEF Row
    <3>2. db[job[t].run].finished \in BOOLEAN
      BY <2>2 DEF Row
    <3>3. Written(db[job[t].run].finished, snap[t].finished, FALSE) \in BOOLEAN
      BY <3>2, Zenon DEF Written
    <3> QED BY <2>2, <3>1, <3>3, RowTypes
  <2>4. db' \in [Runs -> Row]
    BY <1>20, <2>2, <2>3, StoreType DEF Requeue, TypeInv, TypeOK
  <2> QED BY <1>20, <2>1, <2>4, GotoType DEF Requeue, Busy, TypeInv, TypeOK
<1>21. ASSUME NEW t \in Threads, Finish(t) PROVE TypeInv'
  <2>1. pc[t] \in Busy
    BY <1>21 DEF Finish, Busy
  <2>2. job[t].run \in Runs /\ db[job[t].run] \in Row /\ snap[t] \in Row
    BY <2>1, BusyJob
  <2>3. [db[job[t].run] EXCEPT !.finished = TRUE] \in Row
    BY <2>2, RowTypes, RowFields DEF Status
  <2>4. db' \in [Runs -> Row]
    BY <1>21, <2>2, <2>3, StoreType DEF Finish, TypeInv, TypeOK
  <2> QED BY <1>21, <2>1, <2>4, GotoType DEF Finish, Busy, TypeInv, TypeOK
<1>22. ASSUME NEW t \in Threads, AlertFlush(t) PROVE TypeInv'
  <2>1. pc[t] \in Busy
    BY <1>22 DEF AlertFlush, Busy
  <2> QED BY <1>22, <2>1, GotoType DEF AlertFlush, dbVars, Busy, TypeInv, TypeOK
<1>23. ASSUME NEW t \in Threads, AlertCommit(t) PROVE TypeInv'
  <2>1. pc[t] \in Busy
    BY <1>23 DEF AlertCommit, Busy
  <2>2. job[t].run \in Runs /\ db[job[t].run] \in Row /\ snap[t] \in Row
    BY <2>1, BusyJob
  <2>3. [db[job[t].run] EXCEPT !.finished = TRUE] \in Row
    BY <2>2, RowTypes, RowFields DEF Status
  <2>4. db' \in [Runs -> Row]
    BY <1>23, <2>2, <2>3, StoreType DEF AlertCommit, TypeInv, TypeOK
  <2>5. alert' \in [Runs -> {"none", "open", "resolved"}]
    BY <1>23 DEF AlertCommit, TypeInv, TypeOK
  <2> QED BY <1>23, <2>1, <2>4, <2>5, GotoType DEF AlertCommit, Busy, TypeInv, TypeOK
<1>24. ASSUME NEW t \in Threads, Release(t), UNCHANGED <<dbVars, hubVars, dispVars, req>>
       PROVE TypeInv'
  BY <1>24, NoRowType DEF Release, dbVars, hubVars, dispVars, Busy, TypeInv, TypeOK
<1>25. ASSUME NEW t \in Threads, Return(t) PROVE TypeInv'
  BY <1>24, <1>25 DEF Return
<1>26. ASSUME NEW t \in Threads, CommitTimesOut(t) PROVE TypeInv'
  BY <1>24, <1>26 DEF CommitTimesOut
<1>27. CASE Boot
  BY <1>27 DEF Boot, Interrupted, dbVars, dispVars, thVars, TypeInv, TypeOK
<1>28. CASE RecoverCommit
  <2>1. db' \in [Runs -> Row]
    BY <1>28, RowTypes DEF RecoverCommit, TypeInv, TypeOK
  <2> QED BY <1>28, <2>1 DEF RecoverCommit, Idle, thVars, TypeInv, TypeOK
<1>29. CASE Shutdown
  BY <1>29 DEF Shutdown, Off, dbVars, TypeInv, TypeOK
<1>30. CASE Crash
  BY <1>30, NoRowType DEF Crash, Off, Busy, dbVars, TypeInv, TypeOK
<1>31. CASE UNCHANGED vars
  BY <1>31 DEF vars, TypeInv, TypeOK
<1> QED
  BY <1>1, <1>2, <1>3, <1>4, <1>5, <1>6, <1>7, <1>8, <1>9, <1>10, <1>11, <1>12,
     <1>13, <1>14, <1>15, <1>16, <1>17, <1>18, <1>19, <1>20, <1>21, <1>22, <1>23,
     <1>25, <1>26, <1>27, <1>28, <1>29, <1>30, <1>31
     DEF Next, CancellerNext, DispatcherNext, ThreadNext

\* Every reachable state has the declared types.
THEOREM TypeCorrect == Spec => []TypeOK
<1>1. Spec => []TypeInv
  BY InitTypeInv, StepTypeInv, PTL DEF Spec
<1> QED BY <1>1, PTL DEF TypeInv

(***************************************************************************)
(* Ownership.  A run has at most one owner, and a run with an owner is not *)
(* QUEUED: QUEUED is written when a run is created, and by its owner as    *)
(* its last act.                                                           *)
(***************************************************************************)
Free == {"QUEUED", "NONE"}

OwnInv ==
  /\ SingleExecutor
  /\ \A r \in Runs : Owned(r) => db[r].status \notin Free

\* A step that adds no owner keeps OwnInv if no owned run becomes free.
LEMMA OwnersShrink ==
  ASSUME OwnInv,
         disp'.pc = "submit" => disp.pc = "submit" /\ disp'.run = disp.run,
         pending' = pending \/ pending' = << >>,
         \A t \in Threads : Works(t)' => Works(t) /\ job'[t] = job[t],
         \A r \in Runs : Owned(r)' => db'[r].status \notin Free
  PROVE  OwnInv'
<1>1. (\A t, u \in Threads :
         Works(t) /\ Works(u) /\ job[t].run = job[u].run => t = u)'
  BY DEF OwnInv, SingleExecutor
<1>2. ASSUME NEW t \in Threads, Works(t)'
      PROVE  ~(disp'.pc = "submit" /\ disp'.run = job'[t].run)
  BY <1>2 DEF OwnInv, SingleExecutor, Claimed
<1>3. ASSUME NEW t \in Threads, Works(t)'
      PROVE  ~\E i \in 1..Len(pending') : pending'[i].run = job'[t].run
  BY <1>3 DEF OwnInv, SingleExecutor, Queued
<1>4. \A i, j \in 1..Len(pending') : pending'[i].run = pending'[j].run => i = j
  BY DEF OwnInv, SingleExecutor
<1>5. \A i \in 1..Len(pending') : ~(disp'.pc = "submit" /\ disp'.run = pending'[i].run)
  BY DEF OwnInv, SingleExecutor, Claimed
<1> QED BY <1>1, <1>2, <1>3, <1>4, <1>5 DEF OwnInv, SingleExecutor, Claimed, Queued

\* So does a thread that only moves its pc and writes the row of its own run.
LEMMA ThreadMoves ==
  ASSUME TypeInv, OwnInv, NEW t \in Threads, NEW where \in Busy, Goto(t, where),
         pc[t] # "return",
         \A q \in Runs : q # job[t].run => db'[q].status = db[q].status,
         where # "return" => db'[job[t].run].status \notin Free
  PROVE  OwnInv'
<1>1. /\ disp' = disp /\ pending' = pending /\ job' = job
      /\ pc' = [pc EXCEPT ![t] = where] /\ pc[t] \in Busy
  BY DEF Goto, dispVars
<1>2. \A u \in Threads : Works(u)' => Works(u)
  BY <1>1 DEF Works, TypeInv, TypeOK
<1>3. ASSUME NEW r \in Runs, Owned(r)' PROVE db'[r].status \notin Free
  <2>1. Owned(r)
    BY <1>1, <1>2, <1>3 DEF Owned, Claimed, Queued, Executing
  <2>2. CASE r # job[t].run
    BY <2>1, <2>2 DEF OwnInv
  <2>3. CASE r = job[t].run /\ where # "return"
    BY <2>3
  <2>4. CASE r = job[t].run /\ where = "return"
    <3>1. Works(t) /\ ~Works(t)'
      BY <1>1, <2>4 DEF Works, TypeInv, TypeOK
    <3>2. ~Claimed(r) /\ ~Queued(r)
      BY <3>1, <2>4 DEF OwnInv, SingleExecutor
    <3>3. \A u \in Threads : Works(u)' /\ job[u].run = r => FALSE
      BY <3>1, <1>2, <2>4 DEF OwnInv, SingleExecutor
    <3>4. ~Owned(r)'
      BY <1>1, <3>2, <3>3 DEF Owned, Claimed, Queued, Executing
    <3> QED BY <3>4, <1>3
  <2> QED BY <2>2, <2>3, <2>4
<1> QED BY <1>1, <1>2, <1>3, OwnersShrink

LEMMA InitOwnInv == Init => OwnInv
BY DEF Init, OwnInv, SingleExecutor, Owned, Claimed, Queued, Executing, Works, Busy, Off

\* A step that leaves the dispatcher's run, the queue and the threads alone
\* and frees no run that has an owner.
LEMMA OwnersKept ==
  ASSUME OwnInv, disp'.pc = "submit" => disp' = disp, UNCHANGED <<pending, pc, job>>,
         \A r \in Runs : Owned(r) => db'[r].status \notin Free
  PROVE  OwnInv'
<1>1. \A r \in Runs : Owned(r)' => Owned(r)
  BY DEF Owned, Claimed, Queued, Executing, Works
<1>2. \A t \in Threads : Works(t)' => Works(t)
  BY DEF Works
<1> QED BY <1>1, <1>2, OwnersShrink

LEMMA ReleaseOwn ==
  ASSUME TypeInv, OwnInv, NEW t \in Threads, Release(t),
         UNCHANGED <<dbVars, hubVars, dispVars, req>>
  PROVE  OwnInv'
<1>1. \A u \in Threads : Works(u)' => Works(u) /\ job'[u] = job[u]
  BY DEF Release, Works, Busy, TypeInv, TypeOK
<1>2. \A r \in Runs : Owned(r)' => Owned(r)
  BY <1>1 DEF Owned, Claimed, Queued, Executing, dispVars
<1> QED BY <1>1, <1>2, OwnersShrink DEF OwnInv, dbVars, dispVars

LEMMA StepOwnInv == TypeInv /\ OwnInv /\ [Next]_vars => OwnInv'
<1> SUFFICES ASSUME TypeInv, OwnInv, [Next]_vars PROVE OwnInv'
  OBVIOUS
<1>1. ASSUME NEW r \in Runs, NEW asked \in Asked, CreateRun(r, asked) PROVE OwnInv'
  <2>1. ~Owned(r)
    BY <1>1 DEF CreateRun, OwnInv, Free
  <2>2. \A q \in Runs : q # r => db'[q] = db[q]
    BY <1>1 DEF CreateRun, Store, TypeInv, TypeOK
  <2> QED BY <1>1, <2>1, <2>2, OwnersKept DEF CreateRun, OwnInv, dispVars, thVars
<1>2. ASSUME NEW c \in Cancellers, NEW r \in Runs, CancelRead(c, r) PROVE OwnInv'
  BY <1>2, OwnersKept DEF CancelRead, OwnInv, dbVars, dispVars, thVars
<1>3. ASSUME NEW c \in Cancellers, CancelCommit(c) PROVE OwnInv'
  <2>1. \A q \in Runs : db'[q].status \in {db[q].status, "CANCELLED"}
    BY <1>3 DEF CancelCommit, Store, CancelledRow, TypeInv, TypeOK, Row
  <2> QED BY <1>3, <2>1, OwnersKept DEF CancelCommit, OwnInv, Free, dispVars, thVars
<1>4. ASSUME NEW c \in Cancellers, CancelTimesOut(c) PROVE OwnInv'
  BY <1>4, OwnersKept DEF CancelTimesOut, OwnInv, dbVars, dispVars, thVars
<1>5. CASE DispatchBegin
  BY <1>5, OwnersKept DEF DispatchBegin, Idle, OwnInv, dbVars, thVars
<1>6. ASSUME NEW r \in Runs, Claim(r) PROVE OwnInv'
  <2>1. ~Owned(r)
    BY <1>6 DEF Claim, Claimable, OwnInv, Free
  <2>2. /\ disp'.pc = "submit" /\ disp'.run = r /\ disp.pc # "submit"
        /\ UNCHANGED <<pending, pc, job>>
    BY <1>6 DEF Claim, TypeInv, TypeOK, thVars
  <2>3. (\A u \in Threads : Works(u) => Works(u) /\ job[u].run # r)'
    BY <2>1, <2>2 DEF Owned, Executing, Works
  <2>4. \A i \in 1..Len(pending) : pending[i].run # r
    BY <2>1 DEF Owned, Queued
  <2>5. SingleExecutor'
    BY <2>2, <2>3, <2>4 DEF OwnInv, SingleExecutor, Claimed, Queued, Works
  <2>6. db'[r].status = "RUNNING" /\ \A q \in Runs : q # r => db'[q] = db[q]
    BY <1>6 DEF Claim, Store, ClaimedRow, TypeInv, TypeOK, Row
  <2>7. \A q \in Runs : q # r /\ Owned(q)' => Owned(q)
    BY <2>2 DEF Owned, Claimed, Queued, Executing, Works
  <2> QED BY <2>5, <2>6, <2>7 DEF OwnInv, Free
<1>7. CASE NothingQueued
  BY <1>7, OwnersKept DEF NothingQueued, Idle, OwnInv, dbVars, thVars
<1>8. CASE SubmitJob
  <2> DEFINE r == disp.run
             e == [run |-> r, n |-> starts[r]]
  <2>1. /\ disp.pc = "submit" /\ disp'.pc # "submit" /\ r \in Runs
        /\ UNCHANGED <<db, pc, job>> /\ pending' = Append(pending, e)
    BY <1>8 DEF SubmitJob, Idle, dbVars, thVars, TypeInv
  <2>2. e.run = r /\ pending \in Seq(Job) /\ e \in Job
    BY <2>1 DEF Job, TypeInv, TypeOK
  <2>3. /\ Len(pending') = Len(pending) + 1 /\ Len(pending) \in Nat
        /\ \A i \in 1..Len(pending) : pending'[i] = pending[i]
        /\ pending'[Len(pending) + 1] = e
    <3> HIDE DEF e, r
    <3> QED BY <2>1, <2>2
  <2>4. Claimed(r)
    BY <2>1 DEF Claimed
  <2>5. \A i \in 1..Len(pending) : pending[i].run # r
    BY <2>4 DEF OwnInv, SingleExecutor, Claimed
  <2>6. \A u \in Threads : Works(u) => job[u].run # r
    BY <2>4 DEF OwnInv, SingleExecutor
  <2>7. \A i \in 1..Len(pending') : i \in 1..Len(pending) \/ i = Len(pending) + 1
    BY <2>3
  <2>8. \A i, j \in 1..Len(pending') : pending'[i].run = pending'[j].run => i = j
    BY <2>2, <2>3, <2>5, <2>7 DEF OwnInv, SingleExecutor
  <2>9. ASSUME NEW u \in Threads, Works(u)
        PROVE  ~\E i \in 1..Len(pending') : pending'[i].run = job[u].run
    <3>1. \A i \in 1..Len(pending) : pending[i].run # job[u].run
      BY <2>9 DEF OwnInv, SingleExecutor, Queued
    <3> QED BY <2>2, <2>3, <2>6, <2>7, <2>9, <3>1
  <2>10. SingleExecutor'
    BY <2>1, <2>8, <2>9 DEF OwnInv, SingleExecutor, Claimed, Queued, Works
  <2>11. ASSUME NEW q \in Runs, Owned(q)' PROVE Owned(q)
    <3>1. CASE q = r
      BY <2>4, <3>1 DEF Owned
    <3>2. CASE q # r
      BY <2>1, <2>2, <2>3, <2>7, <2>11, <3>2 DEF Owned, Claimed, Queued, Executing, Works
    <3> QED BY <3>1, <3>2
  <2> QED BY <2>1, <2>10, <2>11 DEF OwnInv
<1>9. CASE DispatcherDies
  BY <1>9, OwnersKept DEF DispatcherDies, Off, OwnInv, dbVars, thVars
<1>10. ASSUME NEW t \in Threads, PickUp(t) PROVE OwnInv'
  <2>1. /\ pending # << >> /\ pending \in Seq(Job) /\ pending' = Tail(pending)
        /\ job' = [job EXCEPT ![t] = Head(pending)]
        /\ pc' = [pc EXCEPT ![t] = "picked"] /\ ~Works(t)
        /\ UNCHANGED <<db, disp>>
    BY <1>10 DEF PickUp, Works, Busy, dbVars, TypeInv, TypeOK
  <2>2. /\ Len(pending) \in Nat /\ Len(pending) > 0 /\ Head(pending) = pending[1]
        /\ Len(pending') = Len(pending) - 1
        /\ \A i \in 1..Len(pending') : pending'[i] = pending[i + 1]
    BY <2>1
  <2>3. /\ job'[t] = pending[1] /\ Works(t)'
        /\ \A u \in Threads : u # t => job'[u] = job[u] /\ (Works(u)' <=> Works(u))
    BY <2>1, <2>2 DEF Works, Busy, TypeInv, TypeOK
  <2>4. Queued(pending[1].run)
    BY <2>2 DEF Queued
  <2>5. \A u \in Threads : Works(u) => job[u].run # pending[1].run
    BY <2>4 DEF OwnInv, SingleExecutor
  <2>6. (\A u, v \in Threads :
          Works(u) /\ Works(v) /\ job[u].run = job[v].run => u = v)'
    BY <2>3, <2>5 DEF OwnInv, SingleExecutor
  <2>7. \A i, j \in 1..Len(pending') : pending'[i].run = pending'[j].run => i = j
    BY <2>2 DEF OwnInv, SingleExecutor
  <2>8. \A i \in 1..Len(pending') : pending'[i].run # pending[1].run
    BY <2>2 DEF OwnInv, SingleExecutor
  <2>9. ASSUME NEW u \in Threads, Works(u)'
        PROVE  ~\E i \in 1..Len(pending') : pending'[i].run = job'[u].run
    <3>1. CASE u = t
      BY <2>3, <2>8, <3>1
    <3>2. CASE u # t
      <4>1. \A i \in 1..Len(pending) : pending[i].run # job[u].run
        BY <2>3, <2>9, <3>2 DEF OwnInv, SingleExecutor, Queued
      <4> QED BY <2>2, <2>3, <3>2, <4>1
    <3> QED BY <3>1, <3>2
  <2>10. ASSUME NEW u \in Threads, Works(u)'
         PROVE  ~(disp'.pc = "submit" /\ disp'.run = job'[u].run)
    BY <2>1, <2>2, <2>3, <2>10 DEF OwnInv, SingleExecutor, Claimed
  <2>11. \A i \in 1..Len(pending') : ~(disp'.pc = "submit" /\ disp'.run = pending'[i].run)
    BY <2>1, <2>2 DEF OwnInv, SingleExecutor, Claimed
  <2>12. SingleExecutor'
    BY <2>6, <2>7, <2>9, <2>10, <2>11 DEF SingleExecutor, Claimed, Queued
  <2>13. ASSUME NEW q \in Runs, Owned(q)' PROVE Owned(q)
    <3>1. CASE Claimed(q)'
      BY <2>1, <3>1 DEF Claimed, Owned
    <3>2. CASE Queued(q)'
      BY <2>2, <3>2 DEF Queued, Owned
    <3>3. CASE Executing(q)'
      BY <2>3, <2>4, <3>3 DEF Executing, Owned
    <3> QED BY <2>13, <3>1, <3>2, <3>3 DEF Owned
  <2> QED BY <2>1, <2>12, <2>13 DEF OwnInv
<1>11. ASSUME NEW t \in Threads, Works(t) PROVE db[job[t].run].status \notin Free
  BY <1>11, BusyJob DEF OwnInv, Owned, Executing, Works
<1>12. ASSUME NEW t \in Threads, LoadRun(t) PROVE OwnInv'
  <2>1. Works(t)
    BY <1>12 DEF LoadRun, Works, Busy
  <2> QED BY <1>12, <1>11, <2>1, ThreadMoves DEF LoadRun, dbVars, Works, Busy
<1>13. ASSUME NEW t \in Threads, CancelBeforeStart(t) PROVE OwnInv'
  <2>1. Works(t) /\ job[t].run \in Runs /\ db[job[t].run] \in Row
    BY <1>13, BusyJob DEF CancelBeforeStart, Works, Busy
  <2>2. /\ \A q \in Runs : q # job[t].run => db'[q] = db[q]
        /\ Goto(t, "return") /\ pc[t] # "return"
    BY <1>13 DEF CancelBeforeStart, Store, TypeInv, TypeOK
  <2> QED BY <1>11, <2>1, <2>2, ThreadMoves DEF Busy, Free
<1>14. ASSUME NEW t \in Threads, MarkRunning(t) PROVE OwnInv'
  <2>1. Works(t) /\ job[t].run \in Runs /\ db[job[t].run] \in Row
    BY <1>14, BusyJob DEF MarkRunning, Works, Busy
  <2>2. /\ \A q \in Runs : q # job[t].run => db'[q] = db[q]
        /\ Goto(t, "check") /\ pc[t] # "return"
    BY <1>14 DEF MarkRunning, Store, TypeInv, TypeOK
  <2>3. db'[job[t].run].status \in {db[job[t].run].status, "RUNNING"}
    BY <1>14, <2>1 DEF MarkRunning, Store, TypeInv, TypeOK, Row, Written
  <2> QED BY <1>11, <2>1, <2>2, <2>3, ThreadMoves DEF Busy, Free
<1>15. ASSUME NEW t \in Threads, CheckCancel(t) PROVE OwnInv'
  <2>1. Works(t)
    BY <1>15 DEF CheckCancel, Works, Busy
  <2> QED BY <1>15, <1>11, <2>1, ThreadMoves DEF CheckCancel, dbVars, Works, Busy
<1>16. ASSUME NEW t \in Threads, StepSucceeds(t) PROVE OwnInv'
  <2>1. Works(t)
    BY <1>16 DEF StepSucceeds, Works, Busy
  <2> QED BY <1>16, <1>11, <2>1, ThreadMoves DEF StepSucceeds, dbVars, Works, Busy
<1>17. ASSUME NEW t \in Threads, AttemptFails(t) PROVE OwnInv'
  <2>1. Works(t) /\ job[t].run \in Runs /\ db[job[t].run] \in Row
    BY <1>17, BusyJob DEF AttemptFails, Works, Busy
  <2>2. /\ \A q \in Runs : q # job[t].run => db'[q] = db[q]
        /\ Goto(t, "finally") /\ pc[t] # "return"
    BY <1>17 DEF AttemptFails, Store, TypeInv, TypeOK
  <2>3. db'[job[t].run].status \in {"FAILED"}
    BY <1>17, <2>1 DEF AttemptFails, Store, TypeInv, TypeOK, Row
  <2> QED BY <1>11, <2>1, <2>2, <2>3, ThreadMoves DEF Busy, Free
<1>18. ASSUME NEW t \in Threads, StopOnCancel(t) PROVE OwnInv'
  <2>1. Works(t) /\ job[t].run \in Runs /\ db[job[t].run] \in Row
    BY <1>18, BusyJob DEF StopOnCancel, Works, Busy
  <2>2. /\ \A q \in Runs : q # job[t].run => db'[q] = db[q]
        /\ Goto(t, "finally") /\ pc[t] # "return"
    BY <1>18 DEF StopOnCancel, Store, TypeInv, TypeOK
  <2>3. db'[job[t].run].status \in {"CANCELLED"}
    BY <1>18, <2>1 DEF StopOnCancel, Store, TypeInv, TypeOK, Row
  <2> QED BY <1>11, <2>1, <2>2, <2>3, ThreadMoves DEF Busy, Free
<1>19. ASSUME NEW t \in Threads, AttemptSucceeds(t) PROVE OwnInv'
  <2>1. Works(t) /\ job[t].run \in Runs /\ db[job[t].run] \in Row
    BY <1>19, BusyJob DEF AttemptSucceeds, Works, Busy
  <2>2. /\ \A q \in Runs : q # job[t].run => db'[q] = db[q]
        /\ Goto(t, "return") /\ pc[t] # "return"
    BY <1>19 DEF AttemptSucceeds, Store, TypeInv, TypeOK
  <2> QED BY <1>11, <2>1, <2>2, ThreadMoves DEF Busy, Free
<1>20. ASSUME NEW t \in Threads, Finally(t) PROVE OwnInv'
  <2>1. Works(t)
    BY <1>20 DEF Finally, Works, Busy
  <2> QED BY <1>20, <1>11, <2>1, ThreadMoves DEF Finally, dbVars, Works, Busy
<1>21. ASSUME NEW t \in Threads, Requeue(t) PROVE OwnInv'
  <2>1. Works(t) /\ job[t].run \in Runs /\ db[job[t].run] \in Row
    BY <1>21, BusyJob DEF Requeue, Works, Busy
  <2>2. /\ \A q \in Runs : q # job[t].run => db'[q] = db[q]
        /\ Goto(t, "return") /\ pc[t] # "return"
    BY <1>21 DEF Requeue, Store, TypeInv, TypeOK
  <2> QED BY <1>11, <2>1, <2>2, ThreadMoves DEF Busy, Free
<1>22. ASSUME NEW t \in Threads, Finish(t) PROVE OwnInv'
  <2>1. Works(t) /\ job[t].run \in Runs /\ db[job[t].run] \in Row
    BY <1>22, BusyJob DEF Finish, Works, Busy
  <2>2. /\ \A q \in Runs : q # job[t].run => db'[q] = db[q]
        /\ Goto(t, "return") /\ pc[t] # "return"
    BY <1>22 DEF Finish, Store, TypeInv, TypeOK
  <2> QED BY <1>11, <2>1, <2>2, ThreadMoves DEF Busy, Free
<1>23. ASSUME NEW t \in Threads, AlertFlush(t) PROVE OwnInv'
  <2>1. Works(t)
    BY <1>23 DEF AlertFlush, Works, Busy
  <2> QED BY <1>23, <1>11, <2>1, ThreadMoves DEF AlertFlush, dbVars, Works, Busy
<1>24. ASSUME NEW t \in Threads, AlertCommit(t) PROVE OwnInv'
  <2>1. Works(t) /\ job[t].run \in Runs /\ db[job[t].run] \in Row
    BY <1>24, BusyJob DEF AlertCommit, Works, Busy
  <2>2. /\ \A q \in Runs : q # job[t].run => db'[q] = db[q]
        /\ Goto(t, "return") /\ pc[t] # "return"
    BY <1>24 DEF AlertCommit, Store, TypeInv, TypeOK
  <2> QED BY <1>11, <2>1, <2>2, ThreadMoves DEF Busy, Free
<1>25. ASSUME NEW t \in Threads, Return(t) PROVE OwnInv'
  BY <1>25, ReleaseOwn DEF Return
<1>26. ASSUME NEW t \in Threads, CommitTimesOut(t) PROVE OwnInv'
  BY <1>26, ReleaseOwn DEF CommitTimesOut
<1>27. CASE Boot
  BY <1>27, OwnersKept DEF Boot, OwnInv, dbVars, dispVars, thVars
<1>28. CASE RecoverCommit
  <2>1. \A q \in Runs : db'[q].status \in {db[q].status, "FAILED"}
    <3> TAKE q \in Runs
    <3>1. db[q] \in Row /\ db'[q] = IF q \in recovering THEN RecoveredRow(db[q]) ELSE db[q]
      BY <1>28 DEF RecoverCommit, TypeInv, TypeOK
    <3>2. RecoveredRow(db[q]).status = "FAILED"
      BY <3>1 DEF RecoveredRow, Closed, Row
    <3> QED BY <3>1, <3>2
  <2> QED BY <1>28, <2>1, OwnersKept DEF RecoverCommit, Idle, OwnInv, Free, thVars
<1>29. CASE Shutdown
  <2>1. \A r \in Runs : Owned(r)' => Owned(r)
    BY <1>29 DEF Shutdown, Off, Owned, Claimed, Queued, Executing, Works
  <2> QED BY <1>29, <2>1, OwnersShrink DEF Shutdown, Off, OwnInv, Works, dbVars
<1>30. CASE Crash
  <2>1. \A r \in Runs : ~Owned(r)'
    BY <1>30 DEF Crash, Off, Owned, Claimed, Queued, Executing, Works, Busy
  <2> QED BY <1>30, <2>1, OwnersShrink DEF Crash, Off, Works, Busy
<1>31. CASE UNCHANGED vars
  BY <1>31, OwnersKept DEF vars, OwnInv
<1> QED
  BY <1>1, <1>2, <1>3, <1>4, <1>5, <1>6, <1>7, <1>8, <1>9, <1>10, <1>12,
     <1>13, <1>14, <1>15, <1>16, <1>17, <1>18, <1>19, <1>20, <1>21, <1>22, <1>23,
     <1>24, <1>25, <1>26, <1>27, <1>28, <1>29, <1>30, <1>31
     DEF Next, CancellerNext, DispatcherNext, ThreadNext

\* The owners of a run are exclusive in every reachable state.
LEMMA Exclusive == Spec => []SingleExecutor
<1>1. Spec => [](TypeInv /\ OwnInv)
  BY InitTypeInv, StepTypeInv, InitOwnInv, StepOwnInv, PTL DEF Spec
<1>2. TypeInv /\ OwnInv => SingleExecutor
  BY DEF OwnInv
<1> QED BY <1>1, <1>2, PTL

\* No claimable run is in somebody's hands.
LEMMA ClaimsAreSafe == Spec => []ClaimableIsFree
<1>1. Spec => [](TypeInv /\ OwnInv)
  BY InitTypeInv, StepTypeInv, InitOwnInv, StepOwnInv, PTL DEF Spec
<1>2. TypeInv /\ OwnInv => ClaimableIsFree
  BY DEF OwnInv, ClaimableIsFree, Claimable, Free
<1> QED BY <1>1, <1>2, PTL

\* No run is ever started beside itself, by any number of threads, of this and
\* of earlier processes, and cancel requests: claim_next_queued_run finds no run
\* that has an owner, and no run has two.
THEOREM StartedOnce == Spec => []NeverTwice
BY Exclusive, ClaimsAreSafe, PTL DEF NeverTwice

(***************************************************************************)
(* Counting.  A run is claimed once per retry that was granted and used,   *)
(* plus once; a step ends late only if it was in progress when the cancel  *)
(* request was committed, and then no other step begins.                   *)
(***************************************************************************)
CountInv ==
  /\ \A r \in Runs :
       /\ db[r].retries <= db[r].max /\ starts[r] <= db[r].retries + 1
       /\ db[r].status \in Free => starts[r] <= db[r].retries
       /\ db[r].status = "NONE" => db[r].retries = 0
       /\ late[r] <= 1
       /\ late[r] > 0 => db[r].cancel
  /\ \A t \in Threads :
       /\ pc[t] = "requeue" => /\ snap[t].retries = db[job[t].run].retries
                              /\ snap[t].retries < db[job[t].run].max
       /\ pc[t] = "step" => late[job[t].run] = 0

\* What a step may do to a row without touching the counts.
SameCounts(r) ==
  /\ db'[r].retries = db[r].retries /\ db'[r].max = db[r].max
  /\ db'[r].status \in Free => db'[r].status = db[r].status
  /\ db[r].cancel => db'[r].cancel

LEMMA CountKept ==
  ASSUME TypeInv, CountInv, UNCHANGED <<starts, late>>,
         \A r \in Runs : SameCounts(r),
         \A t \in Threads : pc'[t] \in {"requeue", "step"} =>
            pc'[t] = pc[t] /\ job'[t] = job[t] /\ snap'[t] = snap[t]
  PROVE  CountInv'
<1>1. ASSUME NEW r \in Runs
      PROVE  /\ db'[r].retries <= db'[r].max /\ starts'[r] <= db'[r].retries + 1
             /\ db'[r].status \in Free => starts'[r] <= db'[r].retries
             /\ db'[r].status = "NONE" => db'[r].retries = 0
             /\ late'[r] <= 1
             /\ late'[r] > 0 => db'[r].cancel
  BY DEF CountInv, SameCounts, Free
<1>2. ASSUME NEW t \in Threads, pc'[t] = "requeue"
      PROVE  /\ snap'[t].retries = db'[job'[t].run].retries
             /\ snap'[t].retries < db'[job'[t].run].max
  <2>1. pc[t] = "requeue" /\ job'[t] = job[t] /\ snap'[t] = snap[t]
    BY <1>2
  <2>2. job[t].run \in Runs
    BY <2>1, BusyJob DEF Busy
  <2> QED BY <2>1, <2>2 DEF CountInv, SameCounts
<1>3. ASSUME NEW t \in Threads, pc'[t] = "step" PROVE late'[job'[t].run] = 0
  BY <1>3 DEF CountInv
<1> QED BY <1>1, <1>2, <1>3 DEF CountInv

LEMMA StoreCounts ==
  ASSUME TypeInv, NEW r \in Runs, NEW row, Store(r, row),
         row.retries = db[r].retries, row.max = db[r].max,
         row.status \in Free => row.status = db[r].status,
         db[r].cancel => row.cancel
  PROVE  \A q \in Runs : SameCounts(q)
<1>1. db'[r] = row /\ \A q \in Runs : q # r => db'[q] = db[q]
  BY DEF Store, TypeInv, TypeOK
<1> QED BY <1>1 DEF SameCounts

\* Every step but these three leaves the counts of every run alone.
ThreadQuiet(t) ==
  \/ PickUp(t) \/ LoadRun(t) \/ CancelBeforeStart(t) \/ MarkRunning(t)
  \/ CheckCancel(t) \/ StepSucceeds(t) \/ AttemptFails(t) \/ StopOnCancel(t)
  \/ AttemptSucceeds(t) \/ Finally(t) \/ Finish(t) \/ AlertFlush(t)
  \/ AlertCommit(t) \/ Return(t) \/ CommitTimesOut(t)

Quiet ==
  \/ \E c \in Cancellers : CancellerNext(c)
  \/ DispatchBegin \/ NothingQueued \/ SubmitJob \/ DispatcherDies
  \/ \E t \in Threads : ThreadQuiet(t)
  \/ Boot \/ RecoverCommit \/ Shutdown \/ Crash
  \/ UNCHANGED vars

LEMMA NextCases ==
  ASSUME [Next]_vars
  PROVE  \/ Quiet
         \/ \E r \in Runs, asked \in Asked : CreateRun(r, asked)
         \/ \E r \in Runs : Claim(r)
         \/ \E t \in Threads : Requeue(t)
BY DEF Next, DispatcherNext, ThreadNext, Quiet, ThreadQuiet

LEMMA QuietRows ==
  ASSUME TypeInv, Quiet
  PROVE  \A q \in Runs : SameCounts(q)
<1>0. ASSUME UNCHANGED db PROVE \A q \in Runs : SameCounts(q)
  BY <1>0 DEF SameCounts
<1>1. ASSUME NEW c \in Cancellers, CancelCommit(c) PROVE \A q \in Runs : SameCounts(q)
  <2> DEFINE r == req[c].run
             row == CancelledRow(db[r], req[c].row)
  <2>1. r \in Runs /\ Store(r, row)
    BY <1>1 DEF CancelCommit, TypeInv, TypeOK
  <2>2. /\ row.retries = db[r].retries /\ row.max = db[r].max /\ row.cancel
        /\ row.status \in {db[r].status, "CANCELLED"}
    BY <2>1 DEF CancelledRow, TypeInv, TypeOK, Row
  <2> HIDE DEF r, row
  <2> QED BY <2>1, <2>2, StoreCounts DEF Free
<1>2. ASSUME NEW c \in Cancellers, CancellerNext(c) PROVE \A q \in Runs : SameCounts(q)
  BY <1>0, <1>1, <1>2 DEF CancellerNext, CancelRead, CancelTimesOut, dbVars
<1>3. ASSUME NEW t \in Threads, CancelBeforeStart(t) PROVE \A q \in Runs : SameCounts(q)
  <2> DEFINE r == job[t].run
             row == Closed(db[r], "CANCELLED")
  <2>1. r \in Runs /\ db[r] \in Row /\ Store(r, row)
    BY <1>3, BusyJob DEF CancelBeforeStart, Busy
  <2>2. /\ row.retries = db[r].retries /\ row.max = db[r].max
        /\ row.cancel = db[r].cancel
        /\ row.status \in Free => row.status = db[r].status
    BY <2>1 DEF Row, Free, Closed
  <2> HIDE DEF r, row
  <2> QED BY <2>1, <2>2, StoreCounts
<1>4. ASSUME NEW t \in Threads, MarkRunning(t) PROVE \A q \in Runs : SameCounts(q)
  <2> DEFINE r == job[t].run
             row == [db[r] EXCEPT !.status = Written(db[r].status, snap[t].status, "RUNNING")]
  <2>1. r \in Runs /\ db[r] \in Row /\ Store(r, row)
    BY <1>4, BusyJob DEF MarkRunning, Busy
  <2>2. /\ row.retries = db[r].retries /\ row.max = db[r].max
        /\ row.cancel = db[r].cancel
        /\ row.status \in Free => row.status = db[r].status
    BY <2>1 DEF Row, Free, Written
  <2> HIDE DEF r, row
  <2> QED BY <2>1, <2>2, StoreCounts
<1>5. ASSUME NEW t \in Threads, AttemptFails(t) PROVE \A q \in Runs : SameCounts(q)
  <2> DEFINE r == job[t].run
             row == [db[r] EXCEPT !.status = "FAILED"]
  <2>1. r \in Runs /\ db[r] \in Row /\ Store(r, row)
    BY <1>5, BusyJob DEF AttemptFails, Busy
  <2>2. /\ row.retries = db[r].retries /\ row.max = db[r].max
        /\ row.cancel = db[r].cancel
        /\ row.status \in Free => row.status = db[r].status
    BY <2>1 DEF Row, Free
  <2> HIDE DEF r, row
  <2> QED BY <2>1, <2>2, StoreCounts
<1>6. ASSUME NEW t \in Threads, StopOnCancel(t) PROVE \A q \in Runs : SameCounts(q)
  <2> DEFINE r == job[t].run
             row == [db[r] EXCEPT !.status = "CANCELLED"]
  <2>1. r \in Runs /\ db[r] \in Row /\ Store(r, row)
    BY <1>6, BusyJob DEF StopOnCancel, Busy
  <2>2. /\ row.retries = db[r].retries /\ row.max = db[r].max
        /\ row.cancel = db[r].cancel
        /\ row.status \in Free => row.status = db[r].status
    BY <2>1 DEF Row, Free
  <2> HIDE DEF r, row
  <2> QED BY <2>1, <2>2, StoreCounts
<1>7. ASSUME NEW t \in Threads, AttemptSucceeds(t) PROVE \A q \in Runs : SameCounts(q)
  <2> DEFINE r == job[t].run
             row == Closed(db[r], "SUCCESS")
  <2>1. r \in Runs /\ db[r] \in Row /\ Store(r, row)
    BY <1>7, BusyJob DEF AttemptSucceeds, Busy
  <2>2. /\ row.retries = db[r].retries /\ row.max = db[r].max
        /\ row.cancel = db[r].cancel
        /\ row.status \in Free => row.status = db[r].status
    BY <2>1 DEF Row, Free, Closed
  <2> HIDE DEF r, row
  <2> QED BY <2>1, <2>2, StoreCounts
<1>8. ASSUME NEW t \in Threads, Finish(t) PROVE \A q \in Runs : SameCounts(q)
  <2> DEFINE r == job[t].run
             row == [db[r] EXCEPT !.finished = TRUE]
  <2>1. r \in Runs /\ db[r] \in Row /\ Store(r, row)
    BY <1>8, BusyJob DEF Finish, Busy
  <2>2. /\ row.retries = db[r].retries /\ row.max = db[r].max
        /\ row.cancel = db[r].cancel
        /\ row.status \in Free => row.status = db[r].status
    BY <2>1 DEF Row, Free
  <2> HIDE DEF r, row
  <2> QED BY <2>1, <2>2, StoreCounts
<1>9. ASSUME NEW t \in Threads, AlertCommit(t) PROVE \A q \in Runs : SameCounts(q)
  <2> DEFINE r == job[t].run
             row == [db[r] EXCEPT !.finished = TRUE]
  <2>1. r \in Runs /\ db[r] \in Row /\ Store(r, row)
    BY <1>9, BusyJob DEF AlertCommit, Busy
  <2>2. /\ row.retries = db[r].retries /\ row.max = db[r].max
        /\ row.cancel = db[r].cancel
        /\ row.status \in Free => row.status = db[r].status
    BY <2>1 DEF Row, Free
  <2> HIDE DEF r, row
  <2> QED BY <2>1, <2>2, StoreCounts
<1>10. ASSUME NEW t \in Threads,
              \/ PickUp(t) \/ LoadRun(t) \/ CheckCancel(t) \/ StepSucceeds(t)
              \/ Finally(t) \/ AlertFlush(t) \/ Return(t) \/ CommitTimesOut(t)
       PROVE  UNCHANGED db
  BY <1>10 DEF PickUp, LoadRun, CheckCancel, StepSucceeds, Finally, AlertFlush,
               Return, CommitTimesOut, dbVars
<1>11. CASE RecoverCommit
  <2>1. ASSUME NEW q \in Runs PROVE SameCounts(q)
    <3>1. db[q] \in Row /\ db'[q] = IF q \in recovering THEN RecoveredRow(db[q]) ELSE db[q]
      BY <1>11 DEF RecoverCommit, TypeInv, TypeOK
    <3>2. /\ RecoveredRow(db[q]).status = "FAILED"
          /\ RecoveredRow(db[q]).retries = db[q].retries
          /\ RecoveredRow(db[q]).max = db[q].max
          /\ RecoveredRow(db[q]).cancel = db[q].cancel
      BY <3>1 DEF RecoveredRow, Closed, Row
    <3> QED BY <3>1, <3>2 DEF SameCounts, Free
  <2> QED BY <2>1
<1>12. CASE DispatchBegin \/ NothingQueued \/ SubmitJob \/ DispatcherDies \/ Boot
            \/ Shutdown \/ Crash \/ UNCHANGED vars
  BY <1>0, <1>12 DEF DispatchBegin, NothingQueued, SubmitJob, DispatcherDies, Boot,
                     Shutdown, Crash, vars, dbVars
<1> QED
  BY <1>0, <1>2, <1>3, <1>4, <1>5, <1>6, <1>7, <1>8, <1>9, <1>10, <1>11, <1>12 DEF Quiet, ThreadQuiet

LEMMA InitCountInv == Init => CountInv
BY DEF Init, CountInv, NoRow

LEMMA StepCountInv == TypeInv /\ OwnInv /\ CountInv /\ [Next]_vars => CountInv'
<1> SUFFICES ASSUME TypeInv, OwnInv, CountInv, [Next]_vars PROVE CountInv'
  OBVIOUS
<1>0. Quiet => \A q \in Runs : SameCounts(q)
  BY QuietRows
<1>1. ASSUME NEW r \in Runs, NEW asked \in Asked, CreateRun(r, asked) PROVE CountInv'
  <2> DEFINE row == [db[r] EXCEPT !.status = "QUEUED", !.max = Clamp(asked)]
  <2>1. /\ Store(r, row) /\ db[r].status = "NONE" /\ db[r] \in Row
        /\ UNCHANGED <<starts, late, thVars>>
    BY <1>1 DEF CreateRun, TypeInv, TypeOK
  <2>2. Clamp(asked) \in 0..5
    BY ClampType, RunQueueAssumption
  <2>3. /\ row.status = "QUEUED" /\ row.max \in 0..5
        /\ row.retries = db[r].retries /\ row.cancel = db[r].cancel
    BY <2>1, <2>2 DEF Row
  <2>4. db'[r] = row /\ \A q \in Runs : q # r => db'[q] = db[q]
    BY <2>1 DEF Store, TypeInv, TypeOK
  <2>5. db[r].retries = 0 /\ starts[r] <= 0
    BY <2>1 DEF CountInv, Free
  <2>6. ASSUME NEW q \in Runs
        PROVE  /\ db'[q].retries <= db'[q].max /\ starts'[q] <= db'[q].retries + 1
               /\ db'[q].status \in Free => starts'[q] <= db'[q].retries
               /\ db'[q].status = "NONE" => db'[q].retries = 0
               /\ late'[q] <= 1
               /\ late'[q] > 0 => db'[q].cancel
    <3> HIDE DEF row
    <3>1. CASE q = r
      BY <2>1, <2>3, <2>4, <2>5, <3>1 DEF CountInv, TypeInv, TypeOK
    <3>2. CASE q # r
      BY <2>1, <2>4, <3>2 DEF CountInv
    <3> QED BY <3>1, <3>2
  <2>7. ASSUME NEW t \in Threads, pc[t] = "requeue" PROVE job[t].run \in Runs /\ job[t].run # r
    <3>1. Owned(job[t].run) /\ job[t].run \in Runs
      BY <2>7, BusyJob DEF Owned, Executing, Works, Busy
    <3> QED BY <3>1, <2>1 DEF OwnInv, Free
  <2>8. ASSUME NEW t \in Threads
        PROVE  /\ pc'[t] = "requeue" => /\ snap'[t].retries = db'[job'[t].run].retries
                                      /\ snap'[t].retries < db'[job'[t].run].max
               /\ pc'[t] = "step" => late'[job'[t].run] = 0
    BY <2>1, <2>4, <2>7 DEF CountInv, thVars
  <2> QED BY <2>6, <2>8 DEF CountInv
<1>2. ASSUME NEW c \in Cancellers, NEW r \in Runs, CancelRead(c, r) PROVE CountInv'
  BY <1>0, <1>2, CountKept DEF Quiet, ThreadQuiet, CancellerNext, CancelRead, dbVars, thVars
<1>3. ASSUME NEW c \in Cancellers, CancelCommit(c) PROVE CountInv'
  BY <1>0, <1>3, CountKept DEF Quiet, ThreadQuiet, CancellerNext, CancelCommit, thVars
<1>4. ASSUME NEW c \in Cancellers, CancelTimesOut(c) PROVE CountInv'
  BY <1>0, <1>4, CountKept DEF Quiet, ThreadQuiet, CancellerNext, CancelTimesOut, dbVars, thVars
<1>5. CASE DispatchBegin
  BY <1>0, <1>5, CountKept DEF Quiet, ThreadQuiet, DispatchBegin, dbVars, thVars
<1>6. ASSUME NEW r \in Runs, Claim(r) PROVE CountInv'
  <2>1. /\ db[r].status = "QUEUED" /\ db[r] \in Row /\ starts[r] \in Nat
        /\ UNCHANGED <<late, thVars>>
        /\ starts' = [starts EXCEPT ![r] = starts[r] + 1]
        /\ db'[r] = ClaimedRow(db[r]) /\ \A q \in Runs : q # r => db'[q] = db[q]
    BY <1>6 DEF Claim, Claimable, Store, TypeInv, TypeOK
  <2>2. /\ db'[r].retries = db[r].retries /\ db'[r].max = db[r].max
        /\ db'[r].cancel = db[r].cancel /\ db'[r].status = "RUNNING"
    BY <2>1 DEF ClaimedRow, Row
  <2>3. starts'[r] = starts[r] + 1 /\ \A q \in Runs : q # r => starts'[q] = starts[q]
    BY <2>1 DEF TypeInv, TypeOK
  <2>4. ASSUME NEW q \in Runs
        PROVE  /\ db'[q].retries <= db'[q].max /\ starts'[q] <= db'[q].retries + 1
               /\ db'[q].status \in Free => starts'[q] <= db'[q].retries
               /\ db'[q].status = "NONE" => db'[q].retries = 0
               /\ late'[q] <= 1
               /\ late'[q] > 0 => db'[q].cancel
    <3>1. CASE q = r
      BY <2>1, <2>2, <2>3, <3>1 DEF CountInv, Free, Row
    <3>2. CASE q # r
      BY <2>1, <2>3, <3>2 DEF CountInv
    <3> QED BY <3>1, <3>2
  <2>5. ASSUME NEW t \in Threads, pc[t] = "requeue" PROVE job[t].run \in Runs
    BY <2>5, BusyJob DEF Busy
  <2>6. ASSUME NEW t \in Threads
        PROVE  /\ pc'[t] = "requeue" => /\ snap'[t].retries = db'[job'[t].run].retries
                                      /\ snap'[t].retries < db'[job'[t].run].max
               /\ pc'[t] = "step" => late'[job'[t].run] = 0
    BY <2>1, <2>2, <2>5 DEF CountInv, thVars
  <2> QED BY <2>4, <2>6 DEF CountInv
<1>7. CASE NothingQueued
  BY <1>0, <1>7, CountKept DEF Quiet, ThreadQuiet, NothingQueued, dbVars, thVars
<1>8. CASE SubmitJob
  BY <1>0, <1>8, CountKept DEF Quiet, ThreadQuiet, SubmitJob, dbVars, thVars
<1>9. CASE DispatcherDies
  BY <1>0, <1>9, CountKept DEF Quiet, ThreadQuiet, DispatcherDies, dbVars, thVars
<1>10. ASSUME NEW t \in Threads, PickUp(t) PROVE CountInv'
  <2>1. \A u \in Threads : pc'[u] \in {"requeue", "step"} =>
          pc'[u] = pc[u] /\ job'[u] = job[u] /\ snap'[u] = snap[u]
    BY <1>10 DEF PickUp, TypeInv, TypeOK
  <2> QED BY <1>0, <1>10, <2>1, CountKept DEF Quiet, ThreadQuiet, PickUp, dbVars
<1>11. ASSUME NEW t \in Threads, NEW where \in Busy \ {"requeue", "step"},
              Goto(t, where), snap' = [snap EXCEPT ![t] = snap'[t]]
       PROVE  \A u \in Threads : pc'[u] \in {"requeue", "step"} =>
                pc'[u] = pc[u] /\ job'[u] = job[u] /\ snap'[u] = snap[u]
  BY <1>11 DEF Goto, TypeInv, TypeOK
<1>12. ASSUME NEW t \in Threads, LoadRun(t) PROVE CountInv'
  <2>1. PICK where \in {"return", "precancel", "mark"} : Goto(t, where)
    BY <1>12 DEF LoadRun
  <2>2. snap' = [snap EXCEPT ![t] = snap'[t]] /\ UNCHANGED dbVars
    BY <1>12 DEF LoadRun, TypeInv, TypeOK
  <2> QED BY <1>0, <1>11, <1>12, <2>1, <2>2, CountKept DEF Quiet, ThreadQuiet, dbVars, Busy
<1>13. ASSUME NEW t \in Threads, CancelBeforeStart(t) PROVE CountInv'
  <2>1. Goto(t, "return") /\ UNCHANGED <<starts, late, snap>>
    BY <1>13 DEF CancelBeforeStart
  <2>2. snap' = [snap EXCEPT ![t] = snap'[t]]
    BY <2>1 DEF TypeInv, TypeOK
  <2> QED BY <1>0, <1>13, <1>11, <2>1, <2>2, CountKept DEF Quiet, ThreadQuiet, Busy
<1>14. ASSUME NEW t \in Threads, MarkRunning(t) PROVE CountInv'
  <2>1. Goto(t, "check") /\ UNCHANGED <<starts, late, snap>>
    BY <1>14 DEF MarkRunning
  <2>2. snap' = [snap EXCEPT ![t] = snap'[t]]
    BY <2>1 DEF TypeInv, TypeOK
  <2> QED BY <1>0, <1>14, <1>11, <2>1, <2>2, CountKept DEF Quiet, ThreadQuiet, Busy
<1>15. ASSUME NEW t \in Threads, CheckCancel(t) PROVE CountInv'
  <2> DEFINE r == job[t].run
  <2>1. /\ r \in Runs /\ late[r] \in Nat /\ UNCHANGED <<dbVars, snap, job>>
    BY <1>15, BusyJob DEF CheckCancel, Goto, Busy, TypeInv, TypeOK
  <2>2. pc' = [pc EXCEPT ![t] = IF db[r].cancel THEN "stopping" ELSE "step"]
    BY <1>15 DEF CheckCancel, CancelSeen, Goto
  <2>3. pc'[t] = "step" => late[r] = 0
    <3>1. CASE db[r].cancel
      BY <2>2, <3>1 DEF TypeInv, TypeOK
    <3>2. CASE ~db[r].cancel
      BY <2>1, <3>2 DEF CountInv
    <3> QED BY <3>1, <3>2
  <2>4. pc'[t] # "requeue" /\ \A u \in Threads : u # t => pc'[u] = pc[u]
    BY <2>2 DEF TypeInv, TypeOK
  <2> QED BY <2>1, <2>3, <2>4 DEF CountInv, dbVars
<1>16. ASSUME NEW t \in Threads, StepSucceeds(t) PROVE CountInv'
  <2> DEFINE r == job[t].run
  <2>1. /\ pc[t] = "step" /\ r \in Runs /\ UNCHANGED <<db, starts, snap, job>>
        /\ pc' = [pc EXCEPT ![t] = "check"] /\ CountLate(r)
    BY <1>16, BusyJob DEF StepSucceeds, Goto, Busy
  <2>2. ASSUME NEW u \in Threads, u # t, pc[u] = "step"
        PROVE  job[u].run # r
    BY <2>1, <2>2 DEF OwnInv, SingleExecutor, Works, Busy
  <2>3. late[r] = 0
    BY <2>1 DEF CountInv
  <2>4. /\ late'[r] = IF db[r].cancel THEN 1 ELSE 0
        /\ \A q : q # r => late'[q] = late[q]
    BY <2>1, <2>3 DEF CountLate, TypeInv, TypeOK
  <2>5. late'[r] <= 1 /\ (late'[r] > 0 => db[r].cancel)
    BY <2>4
  <2>6. \A q \in Runs : late'[q] <= 1 /\ (late'[q] > 0 => db[q].cancel)
    BY <2>4, <2>5 DEF CountInv
  <2>7. ASSUME NEW u \in Threads, pc'[u] = "step" PROVE late'[job'[u].run] = 0
    BY <2>1, <2>2, <2>4, <2>7 DEF CountInv, TypeInv, TypeOK
  <2>8. \A u \in Threads : pc'[u] = "requeue" => pc[u] = "requeue"
    BY <2>1 DEF TypeInv, TypeOK
  <2> QED BY <2>1, <2>6, <2>7, <2>8 DEF CountInv
<1>17. ASSUME NEW t \in Threads, AttemptFails(t) PROVE CountInv'
  <2> DEFINE r == job[t].run
             row == [db[r] EXCEPT !.status = "FAILED"]
  <2>1. /\ pc[t] \in {"check", "step"} /\ r \in Runs /\ db[r] \in Row
        /\ Store(r, row) /\ UNCHANGED <<starts, snap, job>>
        /\ pc' = [pc EXCEPT ![t] = "finally"]
        /\ IF pc[t] = "step" THEN CountLate(r) ELSE UNCHANGED late
    BY <1>17, BusyJob DEF AttemptFails, Goto, Busy
  <2>2. /\ row.retries = db[r].retries /\ row.max = db[r].max
        /\ row.cancel = db[r].cancel /\ row.status = "FAILED"
    BY <2>1 DEF Row
  <2>3. db'[r] = row /\ \A q \in Runs : q # r => db'[q] = db[q]
    BY <2>1 DEF Store, TypeInv, TypeOK
  <2> HIDE DEF row
  <2>4. /\ \A q \in Runs : q # r => late'[q] = late[q]
        /\ late'[r] <= 1 /\ (late'[r] > 0 => db[r].cancel)
    <3>1. CASE pc[t] = "step"
      <4>1. late[r] = 0
        BY <3>1 DEF CountInv
      <4>2. CASE db[r].cancel
        BY <2>1, <3>1, <4>1, <4>2 DEF CountLate, TypeInv, TypeOK
      <4>3. CASE ~db[r].cancel
        BY <2>1, <3>1, <4>1, <4>3 DEF CountLate, TypeInv, TypeOK
      <4> QED BY <4>2, <4>3
    <3>2. CASE pc[t] # "step"
      BY <2>1, <3>2 DEF CountInv
    <3> QED BY <3>1, <3>2
  <2>5. ASSUME NEW q \in Runs
        PROVE  /\ db'[q].retries <= db'[q].max /\ starts'[q] <= db'[q].retries + 1
               /\ db'[q].status \in Free => starts'[q] <= db'[q].retries
               /\ db'[q].status = "NONE" => db'[q].retries = 0
               /\ late'[q] <= 1
               /\ late'[q] > 0 => db'[q].cancel
    <3>1. CASE q = r
      BY <2>1, <2>2, <2>3, <2>4, <3>1 DEF CountInv, Free
    <3>2. CASE q # r
      BY <2>1, <2>3, <2>4, <3>2 DEF CountInv
    <3> QED BY <3>1, <3>2
  <2>6. ASSUME NEW u \in Threads, u # t, pc[u] \in {"requeue", "step"}
        PROVE  job[u].run # r /\ job[u].run \in Runs
    BY <2>1, <2>6, BusyJob DEF OwnInv, SingleExecutor, Works, Busy
  <2>7. ASSUME NEW u \in Threads, pc'[u] \in {"requeue", "step"} PROVE u # t /\ pc'[u] = pc[u]
    BY <2>1, <2>7 DEF TypeInv, TypeOK
  <2> QED BY <2>1, <2>3, <2>4, <2>5, <2>6, <2>7 DEF CountInv
<1>18. ASSUME NEW t \in Threads, StopOnCancel(t) PROVE CountInv'
  <2>1. Goto(t, "finally") /\ UNCHANGED <<starts, late, snap>>
    BY <1>18 DEF StopOnCancel
  <2>2. snap' = [snap EXCEPT ![t] = snap'[t]]
    BY <2>1 DEF TypeInv, TypeOK
  <2> QED BY <1>0, <1>18, <1>11, <2>1, <2>2, CountKept DEF Quiet, ThreadQuiet, Busy
<1>19. ASSUME NEW t \in Threads, AttemptSucceeds(t) PROVE CountInv'
  <2>1. Goto(t, "return") /\ UNCHANGED <<starts, late, snap>>
    BY <1>19 DEF AttemptSucceeds
  <2>2. snap' = [snap EXCEPT ![t] = snap'[t]]
    BY <2>1 DEF TypeInv, TypeOK
  <2> QED BY <1>0, <1>19, <1>11, <2>1, <2>2, CountKept DEF Quiet, ThreadQuiet, Busy
<1>20. ASSUME NEW t \in Threads, Finally(t) PROVE CountInv'
  <2> DEFINE r == job[t].run
  <2>1. /\ r \in Runs /\ db[r] \in Row /\ UNCHANGED <<dbVars, job>>
        /\ pc' = [pc EXCEPT ![t] = pc'[t]] /\ pc'[t] # "step"
        /\ pc'[t] = "requeue" => MayRetry(db[r])
        /\ snap' = [snap EXCEPT ![t] = db[r]]
    BY <1>20, BusyJob DEF Finally, Goto, Busy, TypeInv, TypeOK
  <2>2. snap'[t] = db[r] /\ \A u \in Threads : u # t => snap'[u] = snap[u] /\ pc'[u] = pc[u]
    BY <2>1 DEF TypeInv, TypeOK
  <2> QED BY <2>1, <2>2 DEF CountInv, MayRetry, dbVars
<1>21. ASSUME NEW t \in Threads, Requeue(t) PROVE CountInv'
  <2> DEFINE r == job[t].run
             row == [db[r] EXCEPT !.status = "QUEUED", !.retries = snap[t].retries + 1,
                       !.finished = Written(db[r].finished, snap[t].finished, FALSE)]
  <2>1. /\ pc[t] = "requeue" /\ r \in Runs /\ db[r] \in Row
        /\ UNCHANGED <<starts, late, snap, job>> /\ Store(r, row)
        /\ pc' = [pc EXCEPT ![t] = "return"]
    BY <1>21, BusyJob DEF Requeue, Goto, Busy
  <2>2. /\ row.status = "QUEUED" /\ row.retries = db[r].retries + 1
        /\ row.max = db[r].max /\ row.cancel = db[r].cancel /\ db[r].retries < db[r].max
    BY <2>1 DEF Row, CountInv
  <2>3. db'[r] = row /\ \A q \in Runs : q # r => db'[q] = db[q]
    BY <2>1 DEF Store, TypeInv, TypeOK
  <2> HIDE DEF row
  <2>4. ASSUME NEW q \in Runs
        PROVE  /\ db'[q].retries <= db'[q].max /\ starts'[q] <= db'[q].retries + 1
               /\ db'[q].status \in Free => starts'[q] <= db'[q].retries
               /\ db'[q].status = "NONE" => db'[q].retries = 0
               /\ late'[q] <= 1
               /\ late'[q] > 0 => db'[q].cancel
    <3>1. CASE q = r
      <4>1. db[r].retries \in Nat /\ db[r].max \in 0..5
        BY <2>1 DEF Row
      <4>2. starts[r] \in Nat
        BY <2>1 DEF TypeInv, TypeOK
      <4> QED BY <2>1, <2>2, <2>3, <3>1, <4>1, <4>2 DEF CountInv
    <3>2. CASE q # r
      BY <2>1, <2>3, <3>2 DEF CountInv
    <3> QED BY <3>1, <3>2
  <2>5. ASSUME NEW u \in Threads, u # t, pc[u] = "requeue"
        PROVE  job[u].run # r /\ job[u].run \in Runs
    BY <2>1, <2>5, BusyJob DEF OwnInv, SingleExecutor, Works, Busy
  <2>6. ASSUME NEW u \in Threads, pc'[u] \in {"requeue", "step"} PROVE u # t /\ pc'[u] = pc[u]
    BY <2>1, <2>6 DEF TypeInv, TypeOK
  <2> QED BY <2>1, <2>3, <2>4, <2>5, <2>6 DEF CountInv
<1>22. ASSUME NEW t \in Threads, Finish(t) PROVE CountInv'
  <2>1. Goto(t, "return") /\ UNCHANGED <<starts, late, snap>>
    BY <1>22 DEF Finish
  <2>2. snap' = [snap EXCEPT ![t] = snap'[t]]
    BY <2>1 DEF TypeInv, TypeOK
  <2> QED BY <1>0, <1>22, <1>11, <2>1, <2>2, CountKept DEF Quiet, ThreadQuiet, Busy
<1>23. ASSUME NEW t \in Threads, AlertFlush(t) PROVE CountInv'
  <2>1. snap' = [snap EXCEPT ![t] = snap'[t]]
    BY <1>23 DEF AlertFlush, TypeInv, TypeOK
  <2> QED BY <1>0, <1>11, <1>23, <2>1, CountKept DEF Quiet, ThreadQuiet, AlertFlush, dbVars, Busy
<1>24. ASSUME NEW t \in Threads, AlertCommit(t) PROVE CountInv'
  <2>1. Goto(t, "return") /\ UNCHANGED <<starts, late, snap>>
    BY <1>24 DEF AlertCommit
  <2>2. snap' = [snap EXCEPT ![t] = snap'[t]]
    BY <2>1 DEF TypeInv, TypeOK
  <2> QED BY <1>0, <1>24, <1>11, <2>1, <2>2, CountKept DEF Quiet, ThreadQuiet, Busy
<1>25. ASSUME NEW t \in Threads, Release(t), UNCHANGED <<dbVars, hubVars, dispVars, req>>
       PROVE  CountInv'
  BY <1>25, CountKept DEF SameCounts, Release, dbVars, TypeInv, TypeOK
<1>26. ASSUME NEW t \in Threads, Return(t) \/ CommitTimesOut(t) PROVE CountInv'
  BY <1>25, <1>26 DEF Return, CommitTimesOut
<1>27. CASE Boot
  BY <1>0, <1>27, CountKept DEF Quiet, ThreadQuiet, Boot, dbVars, thVars
<1>28. CASE RecoverCommit
  BY <1>0, <1>28, CountKept DEF Quiet, ThreadQuiet, RecoverCommit, thVars
<1>29. CASE Shutdown
  BY <1>0, <1>29, CountKept DEF Quiet, ThreadQuiet, Shutdown, dbVars
<1>30. CASE Crash
  BY <1>0, <1>30, CountKept DEF Quiet, ThreadQuiet, Crash, dbVars
<1>31. CASE UNCHANGED vars
  BY <1>0, <1>31, CountKept DEF Quiet, ThreadQuiet, vars
<1> QED
  BY <1>1, <1>2, <1>3, <1>4, <1>5, <1>6, <1>7, <1>8, <1>9, <1>10, <1>12,
     <1>13, <1>14, <1>15, <1>16, <1>17, <1>18, <1>19, <1>20, <1>21, <1>22, <1>23,
     <1>24, <1>26, <1>27, <1>28, <1>29, <1>30, <1>31
     DEF Next, CancellerNext, DispatcherNext, ThreadNext

LEMMA Invariance == Spec => [](TypeInv /\ OwnInv /\ CountInv)
BY InitTypeInv, StepTypeInv, InitOwnInv, StepOwnInv, InitCountInv, StepCountInv, PTL
   DEF Spec

\* No run is claimed more often than its retries allow, whatever crashes,
\* restarts and cancel requests meet it.
THEOREM RetriesBounded == Spec => []RetryBound
<1>1. TypeInv /\ CountInv => RetryBound
  <2> SUFFICES ASSUME TypeInv, CountInv, NEW r \in Runs PROVE starts[r] <= db[r].max + 1
    BY DEF RetryBound
  <2>1. starts[r] \in Nat /\ db[r] \in Row
    BY DEF TypeInv, TypeOK
  <2>2. db[r].retries \in Nat /\ db[r].max \in 0..5
    BY <2>1 DEF Row
  <2> QED BY <2>1, <2>2 DEF CountInv
<1> QED BY <1>1, Invariance, PTL

\* After a cancel request is committed at most one step of the run ends.
THEOREM CancelStopsTheRun == Spec => []AtMostOneLateStep
<1>1. CountInv => AtMostOneLateStep
  BY DEF CountInv, AtMostOneLateStep
<1> QED BY <1>1, Invariance, PTL

(***************************************************************************)
(* Refinement.  RunQueue implements RunLifecycle: three kinds of step      *)
(* create, begin and retry a run, and every other step at most ends some.  *)
(***************************************************************************)
\* What a handler or a recovery holds across two commits is a run that exists.
HeldInv ==
  /\ \A c \in Cancellers : req[c].run # -1 => db[req[c].run].status # "NONE"
  /\ \A r \in recovering : db[r].status # "NONE"

LEMMA InitHeldInv == Init => HeldInv
BY DEF Init, HeldInv

LEMMA HeldKept ==
  ASSUME TypeInv, HeldInv, UNCHANGED req, recovering' \subseteq recovering,
         \A r \in Runs : db'[r].status = "NONE" => db[r].status = "NONE"
  PROVE  HeldInv'
BY DEF HeldInv, TypeInv, TypeOK

LEMMA StepHeldInv == TypeInv /\ HeldInv /\ [Next]_vars => HeldInv'
<1> SUFFICES ASSUME TypeInv, HeldInv, [Next]_vars PROVE HeldInv'
  OBVIOUS
<1>1. ASSUME NEW r \in Runs, NEW asked \in Asked, CreateRun(r, asked) PROVE HeldInv'
  <2>1. db[r] \in Row /\ Clamp(asked) \in 0..5
    BY ClampType, RunQueueAssumption DEF TypeInv, TypeOK
  <2>2. [db[r] EXCEPT !.status = "QUEUED", !.max = Clamp(asked)].status = "QUEUED"
    BY <2>1 DEF Row
  <2>3. \A q \in Runs : db'[q].status = "NONE" => db[q].status = "NONE"
    BY <1>1, <2>2 DEF CreateRun, Store, TypeInv, TypeOK
  <2> QED BY <1>1, <2>3, HeldKept DEF CreateRun, hubVars
<1>2. ASSUME NEW r \in Runs, Claim(r) PROVE HeldInv'
  <2>1. db[r] \in Row
    BY DEF TypeInv, TypeOK
  <2>2. ClaimedRow(db[r]).status = "RUNNING"
    BY <2>1 DEF Row, ClaimedRow
  <2>3. \A q \in Runs : db'[q].status = "NONE" => db[q].status = "NONE"
    BY <1>2, <2>2 DEF Claim, Store, TypeInv, TypeOK
  <2> QED BY <1>2, <2>3, HeldKept DEF Claim, hubVars
<1>3. ASSUME NEW t \in Threads, Requeue(t) PROVE HeldInv'
  <2> DEFINE r == job[t].run
             row == [db[r] EXCEPT !.status = "QUEUED", !.retries = snap[t].retries + 1,
                       !.finished = Written(db[r].finished, snap[t].finished, FALSE)]
  <2>1. r \in Runs /\ db[r] \in Row /\ Store(r, row) /\ UNCHANGED <<req, recovering>>
    BY <1>3, BusyJob DEF Requeue, Goto, Busy, hubVars
  <2>2. row.status = "QUEUED"
    BY <2>1 DEF Row
  <2> HIDE DEF r, row
  <2>3. \A q \in Runs : db'[q].status = "NONE" => db[q].status = "NONE"
    BY <2>1, <2>2 DEF Store, TypeInv, TypeOK
  <2> QED BY <2>1, <2>3, HeldKept
<1>4. ASSUME Quiet PROVE \A r \in Runs : db'[r].status = "NONE" => db[r].status = "NONE"
  BY <1>4, QuietRows DEF SameCounts, Free
<1>5. ASSUME NEW c \in Cancellers, CancellerNext(c) PROVE HeldInv'
  <2>1. recovering' = recovering
    BY <1>5 DEF CancellerNext, CancelRead, CancelCommit, CancelTimesOut, hubVars
  <2>2. \A r \in Runs : db'[r].status = "NONE" => db[r].status = "NONE"
    BY <1>4, <1>5 DEF Quiet
  <2>3. \A d \in Cancellers : req'[d].run # -1 =>
          req'[d].run \in Runs /\ db[req'[d].run].status # "NONE"
    <3>1. ASSUME NEW r \in Runs, CancelRead(c, r)
          PROVE  \A d \in Cancellers : req'[d].run # -1 =>
                   req'[d].run \in Runs /\ db[req'[d].run].status # "NONE"
      BY <3>1 DEF CancelRead, Cancellable, HeldInv, TypeInv, TypeOK
    <3>2. CASE CancelCommit(c) \/ CancelTimesOut(c)
      <4>1. req'[c].run = -1 /\ \A d \in Cancellers : d # c => req'[d] = req[d]
        BY <3>2 DEF CancelCommit, CancelTimesOut, TypeInv, TypeOK
      <4>2. \A d \in Cancellers : req[d].run \in Runs \cup {-1}
        BY DEF TypeInv, TypeOK
      <4> QED BY <4>1, <4>2 DEF HeldInv
    <3> QED BY <1>5, <3>1, <3>2 DEF CancellerNext
  <2> QED BY <2>1, <2>2, <2>3 DEF HeldInv, TypeInv, TypeOK
<1>6. CASE Boot
  <2>1. /\ UNCHANGED <<db, req>>
        /\ \A r \in recovering' : r \in Runs /\ db[r].status # "NONE"
    BY <1>6 DEF Boot, Interrupted, dbVars
  <2> QED BY <2>1 DEF HeldInv
<1>7. CASE Crash
  BY <1>7 DEF Crash, HeldInv
<1>8. CASE DispatchBegin \/ NothingQueued \/ SubmitJob \/ DispatcherDies
            \/ RecoverCommit \/ Shutdown \/ UNCHANGED vars
  <2>1. UNCHANGED req /\ recovering' \subseteq recovering
    BY <1>8 DEF DispatchBegin, NothingQueued, SubmitJob, DispatcherDies, RecoverCommit,
                Shutdown, vars, hubVars
  <2> QED BY <1>4, <1>8, <2>1, HeldKept DEF Quiet
<1>9. ASSUME NEW t \in Threads, ThreadQuiet(t) PROVE HeldInv'
  <2>1. UNCHANGED req /\ recovering' = recovering
    BY <1>9 DEF ThreadQuiet, PickUp, LoadRun, CancelBeforeStart, MarkRunning, CheckCancel,
                StepSucceeds, AttemptFails, StopOnCancel, AttemptSucceeds, Finally,
                Finish, AlertFlush, AlertCommit, Return, CommitTimesOut, Goto,
                hubVars
  <2> QED BY <1>4, <1>9, <2>1, HeldKept DEF Quiet
<1> QED
  BY <1>1, <1>2, <1>3, <1>5, <1>6, <1>7, <1>8, <1>9, NextCases DEF Quiet

\* A run that does not exist is left alone by every quiet step.
LEMMA AbsentStays ==
  ASSUME TypeInv, OwnInv, HeldInv, Quiet, NEW r \in Runs, db[r].status = "NONE"
  PROVE  db'[r] = db[r]
<1>1. ASSUME NEW t \in Threads, Works(t) PROVE job[t].run # r /\ job[t].run \in Runs
  BY <1>1, BusyJob DEF OwnInv, Owned, Executing, Works, Free
<1>2. ASSUME NEW q \in Runs, NEW row, q # r, Store(q, row) PROVE db'[r] = db[r]
  BY <1>2 DEF Store, TypeInv, TypeOK
<1>3. ASSUME NEW c \in Cancellers, CancellerNext(c) PROVE db'[r] = db[r]
  <2>1. CASE CancelCommit(c)
    <3>1. req[c].run \in Runs /\ req[c].run # r
      BY <2>1 DEF CancelCommit, HeldInv, TypeInv, TypeOK
    <3> QED BY <1>2, <2>1, <3>1 DEF CancelCommit
  <2> QED BY <1>3, <2>1 DEF CancellerNext, CancelRead, CancelTimesOut, dbVars
<1>4. ASSUME NEW t \in Threads, ThreadQuiet(t) PROVE db'[r] = db[r]
  <2>1. CASE CancelBeforeStart(t)
    BY <1>1, <1>2, <2>1 DEF CancelBeforeStart, Works, Busy
  <2>2. CASE MarkRunning(t)
    BY <1>1, <1>2, <2>2 DEF MarkRunning, Works, Busy
  <2>3. CASE AttemptFails(t)
    BY <1>1, <1>2, <2>3 DEF AttemptFails, Works, Busy
  <2>4. CASE StopOnCancel(t)
    BY <1>1, <1>2, <2>4 DEF StopOnCancel, Works, Busy
  <2>5. CASE AttemptSucceeds(t)
    BY <1>1, <1>2, <2>5 DEF AttemptSucceeds, Works, Busy
  <2>6. CASE Finish(t)
    BY <1>1, <1>2, <2>6 DEF Finish, Works, Busy
  <2>7. CASE AlertCommit(t)
    BY <1>1, <1>2, <2>7 DEF AlertCommit, Works, Busy
  <2>8. CASE UNCHANGED db
    BY <2>8
  <2> QED BY <1>4, <2>1, <2>2, <2>3, <2>4, <2>5, <2>6, <2>7, <2>8
          DEF ThreadQuiet, PickUp, LoadRun, CheckCancel, StepSucceeds, Finally,
              AlertFlush, Return, CommitTimesOut, dbVars
<1>5. CASE RecoverCommit
  BY <1>5 DEF RecoverCommit, HeldInv, TypeInv, TypeOK
<1>6. CASE UNCHANGED db
  BY <1>6
<1> QED
  BY <1>3, <1>4, <1>5, <1>6
     DEF Quiet, DispatchBegin, NothingQueued, SubmitJob, DispatcherDies, Boot,
         Shutdown, Crash, vars, dbVars

\* A run that does not exist has no cancel request.
BlankInv == \A r \in Runs : db[r].status = "NONE" => ~db[r].cancel

LEMMA InitBlankInv == Init => BlankInv
BY DEF Init, BlankInv, NoRow

LEMMA StepBlankInv ==
  TypeInv /\ OwnInv /\ HeldInv /\ BlankInv /\ [Next]_vars => BlankInv'
<1> SUFFICES ASSUME TypeInv, OwnInv, HeldInv, BlankInv, [Next]_vars PROVE BlankInv'
  OBVIOUS
<1>1. CASE Quiet
  <2>1. \A r \in Runs : db'[r].status = "NONE" => db[r].status = "NONE"
    BY <1>1, QuietRows DEF SameCounts, Free
  <2>2. \A r \in Runs : db[r].status = "NONE" => db'[r] = db[r]
    BY <1>1, AbsentStays
  <2> QED BY <2>1, <2>2 DEF BlankInv
<1>2. ASSUME NEW r \in Runs, NEW row, Store(r, row), row.status # "NONE" PROVE BlankInv'
  BY <1>2 DEF Store, BlankInv, TypeInv, TypeOK
<1>3. ASSUME NEW r \in Runs, NEW asked \in Asked, CreateRun(r, asked) PROVE BlankInv'
  <2>1. db[r] \in Row
    BY DEF TypeInv, TypeOK
  <2>2. [db[r] EXCEPT !.status = "QUEUED", !.max = Clamp(asked)].status # "NONE"
    BY <2>1 DEF Row
  <2> QED BY <1>2, <1>3, <2>2 DEF CreateRun
<1>4. ASSUME NEW r \in Runs, Claim(r) PROVE BlankInv'
  <2>1. db[r] \in Row
    BY DEF TypeInv, TypeOK
  <2>2. ClaimedRow(db[r]).status # "NONE"
    BY <2>1 DEF Row, ClaimedRow
  <2> QED BY <1>2, <1>4, <2>2 DEF Claim
<1>5. ASSUME NEW t \in Threads, Requeue(t) PROVE BlankInv'
  <2>1. job[t].run \in Runs /\ db[job[t].run] \in Row
    BY <1>5, BusyJob DEF Requeue, Busy
  <2>2. [db[job[t].run] EXCEPT !.status = "QUEUED", !.retries = snap[t].retries + 1,
           !.finished = Written(db[job[t].run].finished, snap[t].finished, FALSE)].status # "NONE"
    BY <2>1 DEF Row
  <2> QED BY <1>2, <1>5, <2>1, <2>2 DEF Requeue
<1> QED BY <1>1, <1>3, <1>4, <1>5, NextCases

\* A quiet step gives no run a new owner.
LEMMA QuietOwners ==
  ASSUME TypeInv, OwnInv, Quiet, NEW r \in Runs, Owned(r)'
  PROVE  Owned(r)
<1>1. ASSUME disp'.pc = "submit" => disp' = disp, UNCHANGED <<pending, pc, job>>
      PROVE  Owned(r)
  BY <1>1 DEF Owned, Claimed, Queued, Executing, Works
<1>2. ASSUME NEW t \in Threads, NEW where, Goto(t, where), pc[t] # "return"
      PROVE  Owned(r)
  <2>1. \A u \in Threads : Works(u)' => Works(u)
    BY <1>2 DEF Goto, Works, TypeInv, TypeOK
  <2> QED BY <1>2, <2>1 DEF Goto, dispVars, Owned, Claimed, Queued, Executing
<1>3. ASSUME NEW c \in Cancellers, CancellerNext(c) PROVE Owned(r)
  BY <1>1, <1>3 DEF CancellerNext, CancelRead, CancelCommit, CancelTimesOut, dispVars, thVars
<1>4. ASSUME NEW t \in Threads, PickUp(t) PROVE Owned(r)
  <2>1. /\ pending \in Seq(Job) /\ pending # << >> /\ pending' = Tail(pending)
        /\ disp' = disp /\ job' = [job EXCEPT ![t] = Head(pending)]
        /\ pc' = [pc EXCEPT ![t] = "picked"]
    BY <1>4 DEF PickUp, TypeInv, TypeOK
  <2>2. CASE Claimed(r)'
    BY <2>1, <2>2 DEF Claimed, Owned
  <2>3. CASE Queued(r)'
    BY <2>1, <2>3 DEF Queued, Owned
  <2>4. CASE Executing(r)'
    <3>1. PICK u \in Threads : Works(u)' /\ job'[u].run = r
      BY <2>4 DEF Executing
    <3>2. CASE u = t
      <4>1. pending[1].run = r /\ 1 \in 1..Len(pending)
        BY <2>1, <3>1, <3>2 DEF TypeInv, TypeOK
      <4> QED BY <4>1 DEF Queued, Owned
    <3>3. CASE u # t
      BY <2>1, <3>1, <3>3 DEF Works, Executing, Owned, TypeInv, TypeOK
    <3> QED BY <3>2, <3>3
  <2> QED BY <2>2, <2>3, <2>4 DEF Owned
<1>5. ASSUME NEW t \in Threads, Return(t) \/ CommitTimesOut(t) PROVE Owned(r)
  <2>1. \A u \in Threads : Works(u)' => Works(u) /\ job'[u] = job[u]
    BY <1>5 DEF Return, CommitTimesOut, Release, Works, Busy, TypeInv, TypeOK
  <2> QED BY <1>5, <2>1 DEF Return, CommitTimesOut, dispVars, Owned, Claimed, Queued, Executing
<1>6. ASSUME NEW t \in Threads, ThreadQuiet(t) PROVE Owned(r)
  <2>1. CASE \E where : Goto(t, where) /\ pc[t] # "return"
    BY <1>2, <2>1
  <2> QED BY <1>4, <1>5, <1>6, <2>1
          DEF ThreadQuiet, LoadRun, CancelBeforeStart, MarkRunning, CheckCancel,
              StepSucceeds, AttemptFails, StopOnCancel, AttemptSucceeds, Finally,
              Finish, AlertFlush, AlertCommit
<1>7. CASE SubmitJob
  <2> DEFINE q == disp.run
             e == [run |-> q, n |-> starts[q]]
  <2>1. /\ disp.pc = "submit" /\ disp'.pc # "submit" /\ UNCHANGED <<pc, job>>
        /\ pending' = Append(pending, e) /\ pending \in Seq(Job) /\ e.run = q
    BY <1>7 DEF SubmitJob, Idle, thVars, TypeInv, TypeOK
  <2> HIDE DEF e
  <2>2. \A i \in 1..Len(pending') : pending'[i] = e \/ (i \in 1..Len(pending) /\ pending'[i] = pending[i])
    BY <2>1
  <2> QED BY <1>7, <2>1, <2>2 DEF Owned, Claimed, Queued, Executing, Works
<1>8. CASE Shutdown \/ Crash
  BY <1>8 DEF Shutdown, Crash, Off, Owned, Claimed, Queued, Executing, Works, Busy
<1>9. CASE DispatchBegin \/ NothingQueued \/ DispatcherDies \/ Boot \/ RecoverCommit
           \/ UNCHANGED vars
  <2>1. UNCHANGED <<pending, pc, job>>
    BY <1>9 DEF DispatchBegin, NothingQueued, DispatcherDies, Boot, RecoverCommit, vars,
                dispVars, thVars
  <2>2. disp'.pc = "submit" => disp' = disp
    <3>1. CASE DispatchBegin
      BY <3>1 DEF DispatchBegin, Idle
    <3>2. CASE NothingQueued \/ DispatcherDies \/ RecoverCommit
      BY <3>2 DEF NothingQueued, DispatcherDies, RecoverCommit, Idle, Off
    <3>3. CASE Boot \/ UNCHANGED vars
      BY <3>3 DEF Boot, vars, dispVars
    <3> QED BY <1>9, <3>1, <3>2, <3>3
  <2> QED BY <1>1, <2>1, <2>2
<1> QED BY <1>3, <1>6, <1>7, <1>8, <1>9 DEF Quiet

LEMMA QuietHistory == ASSUME Quiet PROVE UNCHANGED starts
BY DEF Quiet, ThreadQuiet, CancellerNext, CancelRead, CancelCommit, CancelTimesOut,
       DispatchBegin, NothingQueued, SubmitJob, DispatcherDies, PickUp, LoadRun,
       CancelBeforeStart, MarkRunning, CheckCancel, StepSucceeds, AttemptFails,
       StopOnCancel, AttemptSucceeds, Finally, Finish, AlertFlush, AlertCommit, Return,
       CommitTimesOut, Boot, RecoverCommit, Shutdown, Crash, vars, dbVars

\* A quiet step leaves each run in its phase or ends it.
LEMMA QuietPhase ==
  ASSUME TypeInv, OwnInv, HeldInv, Quiet, NEW r \in Runs
  PROVE  \/ PhaseOf(r)' = PhaseOf(r)
         \/ PhaseOf(r) \in {"waiting", "working"} /\ PhaseOf(r)' = "over"
<1>1. /\ db'[r].status \in Free => db'[r].status = db[r].status
      /\ db[r].cancel => db'[r].cancel
  BY QuietRows DEF SameCounts
<1>2. db[r].status = "NONE" => db'[r].status = "NONE"
  BY AbsentStays
<1>3. Owned(r)' => Owned(r)
  BY QuietOwners
<1>4. Owned(r) => db[r].status \notin Free
  BY DEF OwnInv
<1>5. Claimable(r)' => Claimable(r)
  BY <1>1 DEF Claimable, Free
<1>6. db'[r].status = "NONE" => db[r].status = "NONE"
  BY <1>1 DEF Free
<1>7. Claimable(r) => ~Owned(r)
  BY <1>4 DEF Claimable, Free
<1>8. db[r].status = "NONE" => ~Owned(r) /\ ~Claimable(r)
  BY <1>4 DEF Claimable, Free
<1> QED BY <1>2, <1>3, <1>5, <1>6, <1>7, <1>8 DEF PhaseOf

LEMMA QuietLife ==
  ASSUME TypeInv, OwnInv, HeldInv, Quiet
  PROVE  \E S \in SUBSET Runs : Life!LEnd(S)
<1> DEFINE S == {r \in Runs : PhaseOf(r) # PhaseOf(r)'}
<1>1. \A r \in S : PhaseOf(r) \in {"waiting", "working"}
  BY QuietPhase
<1>2. \A r \in Runs : PhaseOf(r)' = IF r \in S THEN "over" ELSE PhaseOf(r)
  BY QuietPhase
<1>3. \A r \in Runs : db'[r].max = db[r].max
  BY QuietRows DEF SameCounts
<1>4. UNCHANGED starts
  BY QuietHistory
<1> HIDE DEF S
<1>5. S \in SUBSET Runs
  BY DEF S
<1>6. Life!LEnd(S)
  BY <1>1, <1>2, <1>3, <1>4, <1>5 DEF Life!LEnd
<1> QED BY <1>5, <1>6

LEMMA InitLife == Init => Life!LInit
BY DEF Init, Life!LInit, PhaseOf, NoRow

LEMMA StepLife ==
  TypeInv /\ OwnInv /\ CountInv /\ HeldInv /\ BlankInv /\ [Next]_vars => [Life!LNext]_(Life!lifeVars)
<1> SUFFICES ASSUME TypeInv, OwnInv, CountInv, HeldInv, BlankInv, [Next]_vars
             PROVE  Life!LNext
  OBVIOUS
<1>1. CASE Quiet
  BY <1>1, QuietLife DEF Life!LNext
<1>2. ASSUME NEW r \in Runs, NEW asked \in Asked, CreateRun(r, asked)
      PROVE  Life!LNext
  <2> DEFINE row == [db[r] EXCEPT !.status = "QUEUED", !.max = Clamp(asked)]
  <2>1. /\ db[r] \in Row /\ db[r].status = "NONE" /\ Store(r, row)
        /\ UNCHANGED <<starts, disp, pending, pc, job>>
    BY <1>2 DEF CreateRun, dispVars, thVars, TypeInv, TypeOK
  <2>2. Clamp(asked) \in 0..5
    BY ClampType, RunQueueAssumption
  <2>3. row.status = "QUEUED" /\ row.max = Clamp(asked) /\ row.cancel = db[r].cancel
    BY <2>1, <2>2 DEF Row
  <2>4. db'[r] = row /\ \A q \in Runs : q # r => db'[q] = db[q]
    BY <2>1 DEF Store, TypeInv, TypeOK
  <2> HIDE DEF row
  <2>5. \A q \in Runs : Owned(q)' <=> Owned(q)
    BY <2>1 DEF Owned, Claimed, Queued, Executing, Works
  <2>6. ~Owned(r)
    BY <2>1 DEF OwnInv, Free
  <2>7. ~db[r].cancel
    BY <2>1 DEF BlankInv
  <2>8. PhaseOf(r) = "absent" /\ PhaseOf(r)' = "waiting"
    BY <2>1, <2>3, <2>4, <2>5, <2>6, <2>7 DEF PhaseOf, Claimable
  <2>9. \A q \in Runs : q # r => PhaseOf(q)' = PhaseOf(q)
    BY <2>4, <2>5 DEF PhaseOf, Claimable
  <2>10. Life!LCreate(r, Clamp(asked))
    BY <2>1, <2>3, <2>4, <2>8, <2>9 DEF Life!LCreate
  <2> QED BY <2>2, <2>10 DEF Life!LNext
<1>3. ASSUME NEW r \in Runs, Claim(r) PROVE Life!LNext
  <2>1. /\ db[r] \in Row /\ Claimable(r) /\ Store(r, ClaimedRow(db[r]))
        /\ disp.pc # "submit" /\ disp'.pc = "submit" /\ disp'.run = r
        /\ starts' = [starts EXCEPT ![r] = @ + 1] /\ UNCHANGED <<pending, pc, job>>
    BY <1>3 DEF Claim, thVars, TypeInv, TypeOK
  <2>2. ClaimedRow(db[r]).status = "RUNNING" /\ ClaimedRow(db[r]).max = db[r].max
    BY <2>1 DEF ClaimedRow, Row
  <2>3. db'[r] = ClaimedRow(db[r]) /\ \A q \in Runs : q # r => db'[q] = db[q]
    BY <2>1 DEF Store, TypeInv, TypeOK
  <2>4. \A q \in Runs : q # r => (Owned(q)' <=> Owned(q))
    BY <2>1 DEF Owned, Claimed, Queued, Executing, Works
  <2>5. Owned(r)' /\ ~Owned(r)
    BY <2>1 DEF Owned, Claimed, OwnInv, Free, Claimable
  <2>6. PhaseOf(r) = "waiting" /\ PhaseOf(r)' = "working"
    BY <2>1, <2>2, <2>3, <2>5 DEF PhaseOf, Claimable
  <2>7. \A q \in Runs : q # r => PhaseOf(q)' = PhaseOf(q)
    BY <2>3, <2>4 DEF PhaseOf, Claimable
  <2>8. starts[r] <= db[r].max
    <3>1. starts[r] \in Nat /\ db[r].retries \in Nat /\ db[r].max \in 0..5
      BY <2>1 DEF Row, TypeInv, TypeOK
    <3> QED BY <2>1, <3>1 DEF CountInv, Claimable, Free
  <2>9. [q \in Runs |-> db[q].max]' = [q \in Runs |-> db[q].max]
    BY <2>2, <2>3
  <2>10. Life!LBegin(r)
    BY <2>1, <2>6, <2>7, <2>8, <2>9 DEF Life!LBegin
  <2> QED BY <2>10 DEF Life!LNext
<1>4. ASSUME NEW t \in Threads, Requeue(t) PROVE Life!LNext
  <2> DEFINE r == job[t].run
             row == [db[r] EXCEPT !.status = "QUEUED", !.retries = snap[t].retries + 1,
                       !.finished = Written(db[r].finished, snap[t].finished, FALSE)]
  <2>1. /\ r \in Runs /\ db[r] \in Row /\ Store(r, row) /\ Works(t) /\ ~Works(t)'
        /\ \A u \in Threads : u # t => (Works(u)' <=> Works(u))
        /\ pc[t] = "requeue" /\ UNCHANGED <<starts, disp, pending, job>>
    BY <1>4, BusyJob DEF Requeue, Goto, dispVars, Works, Busy, TypeInv, TypeOK
  <2>2. row.status = "QUEUED" /\ row.max = db[r].max /\ row.cancel = db[r].cancel
    BY <2>1 DEF Row
  <2>3. db'[r] = row /\ \A q \in Runs : q # r => db'[q] = db[q]
    BY <2>1 DEF Store, TypeInv, TypeOK
  <2>4. Owned(r) /\ db[r].status # "NONE"
    BY <2>1 DEF Owned, Executing, OwnInv, Free
  <2> HIDE DEF row
  <2>5. ~Owned(r)'
    BY <2>1 DEF OwnInv, SingleExecutor, Owned, Claimed, Queued, Executing
  <2>6. \A q \in Runs : q # r => (Owned(q)' <=> Owned(q))
    BY <2>1 DEF Owned, Claimed, Queued, Executing
  <2>7. PhaseOf(r) = "working"
    BY <2>4 DEF PhaseOf
  <2>8. \A q \in Runs : q # r => PhaseOf(q)' = PhaseOf(q)
    BY <2>3, <2>6 DEF PhaseOf, Claimable
  <2>9. [q \in Runs |-> db[q].max]' = [q \in Runs |-> db[q].max]
    BY <2>2, <2>3
  <2>10. CASE db[r].cancel
    <3>1. PhaseOf(r)' = "over"
      BY <2>1, <2>2, <2>3, <2>5, <2>10 DEF PhaseOf, Claimable
    <3>2. Life!LEnd({r})
      BY <2>1, <2>7, <2>8, <2>9, <3>1 DEF Life!LEnd
    <3> QED BY <2>1, <3>2 DEF Life!LNext
  <2>11. CASE ~db[r].cancel
    <3>1. PhaseOf(r)' = "waiting"
      BY <2>1, <2>2, <2>3, <2>5, <2>11 DEF PhaseOf, Claimable
    <3>2. starts[r] <= db[r].max
      <4>1. starts[r] \in Nat /\ db[r].retries \in Nat /\ db[r].max \in 0..5
        BY <2>1 DEF Row, TypeInv, TypeOK
      <4> QED BY <2>1, <4>1 DEF CountInv
    <3>3. Life!LRetry(r)
      BY <2>1, <2>7, <2>8, <2>9, <3>1, <3>2 DEF Life!LRetry
    <3> QED BY <2>1, <3>3 DEF Life!LNext
  <2> QED BY <2>10, <2>11
<1> QED BY <1>1, <1>2, <1>3, <1>4, NextCases

\* The queue implements the life cycle: a run that is over is never worked on
\* again, through crashes, zombies and stale cancels.
THEOREM Refinement == Spec => ImplementsLifecycle
<1> DEFINE I == TypeInv /\ OwnInv /\ CountInv /\ HeldInv /\ BlankInv
<1>1. Init => I
  BY InitTypeInv, InitOwnInv, InitCountInv, InitHeldInv, InitBlankInv
<1>2. I /\ [Next]_vars => I'
  BY StepTypeInv, StepOwnInv, StepCountInv, StepHeldInv, StepBlankInv
<1>3. I /\ [Next]_vars => [Life!LNext]_(Life!lifeVars)
  BY StepLife
<1> QED BY <1>1, <1>2, <1>3, InitLife, PTL DEF Spec, ImplementsLifecycle, Life!LSpec

(***************************************************************************)
(* What the panel shows.  Nobody lets go of a run that is RUNNING: a       *)
(* thread that has decided its outcome never meets a RUNNING row, since    *)
(* only an owner writes that.                                              *)
(***************************************************************************)
Decided == {"finally", "requeue", "finish", "alert", "alerting"}

OutcomeInv == \A t \in Threads : pc[t] \in Decided => db[job[t].run].status # "RUNNING"

\* Who writes RUNNING or FAILED into a row that has another status.
LEMMA StatusWritten ==
  ASSUME TypeInv, [Next]_vars, NEW r \in Runs
  PROVE  \/ db'[r].status \in {db[r].status, "QUEUED", "CANCELLED", "SUCCESS"}
         \/ /\ db'[r].status = "RUNNING"
            /\ Claim(r) \/ \E t \in Threads : MarkRunning(t) /\ job[t].run = r
         \/ /\ db'[r].status = "FAILED"
            /\ \/ RecoverCommit /\ r \in recovering
               \/ \E t \in Threads : AttemptFails(t) /\ job[t].run = r
<1> DEFINE Harmless == db'[r].status \in {db[r].status, "QUEUED", "CANCELLED", "SUCCESS"}
           Runs1 == /\ db'[r].status = "RUNNING"
                    /\ Claim(r) \/ \E t \in Threads : MarkRunning(t) /\ job[t].run = r
           Fails1 == /\ db'[r].status = "FAILED"
                     /\ \/ RecoverCommit /\ r \in recovering
                        \/ \E t \in Threads : AttemptFails(t) /\ job[t].run = r
<1> SUFFICES Harmless \/ Runs1 \/ Fails1
  OBVIOUS
<1>0. ASSUME NEW q \in Runs, NEW row, Store(q, row)
      PROVE  db'[r] = IF r = q THEN row ELSE db[r]
  BY <1>0 DEF Store, TypeInv, TypeOK
<1>1. ASSUME NEW q \in Runs, NEW row, Store(q, row),
             row.status \in {db[q].status, "QUEUED", "CANCELLED", "SUCCESS"}
      PROVE  Harmless
  BY <1>0, <1>1
<1>2. ASSUME NEW q \in Runs, NEW asked \in Asked, CreateRun(q, asked) PROVE Harmless
  <2>1. db[q] \in Row
    BY DEF TypeInv, TypeOK
  <2>2. [db[q] EXCEPT !.status = "QUEUED", !.max = Clamp(asked)].status = "QUEUED"
    BY <2>1 DEF Row
  <2>3. Store(q, [db[q] EXCEPT !.status = "QUEUED", !.max = Clamp(asked)])
    BY <1>2 DEF CreateRun
  <2> HIDE DEF Harmless
  <2> QED BY <1>1, <2>2, <2>3
<1>3. ASSUME NEW c \in Cancellers, CancelCommit(c) PROVE Harmless
  <2> DEFINE q == req[c].run
             row == CancelledRow(db[q], req[c].row)
  <2>1. q \in Runs /\ db[q] \in Row /\ Store(q, row)
    BY <1>3 DEF CancelCommit, TypeInv, TypeOK
  <2>2. row.status \in {db[q].status, "CANCELLED"}
    BY <2>1 DEF CancelledRow, Row
  <2> HIDE DEF q, row, Harmless
  <2> QED BY <1>1, <2>1, <2>2
<1>4. ASSUME NEW q \in Runs, Claim(q) PROVE Harmless \/ Runs1
  <2>1. Store(q, ClaimedRow(db[q])) /\ ClaimedRow(db[q]).status = "RUNNING"
    BY <1>4 DEF Claim, ClaimedRow, Row, TypeInv, TypeOK
  <2> QED BY <1>0, <1>4, <2>1
<1>5. ASSUME NEW t \in Threads, MarkRunning(t) PROVE Harmless \/ Runs1
  <2> DEFINE q == job[t].run
             row == [db[q] EXCEPT !.status = Written(db[q].status, snap[t].status, "RUNNING")]
  <2>1. q \in Runs /\ db[q] \in Row /\ Store(q, row)
    BY <1>5, BusyJob DEF MarkRunning, Busy
  <2>2. row.status \in {db[q].status, "RUNNING"}
    BY <2>1 DEF Written, Row
  <2> HIDE DEF row
  <2> QED BY <1>0, <1>5, <2>1, <2>2
<1>6. ASSUME NEW t \in Threads,
             \/ CancelBeforeStart(t) \/ StopOnCancel(t) \/ AttemptSucceeds(t)
             \/ Requeue(t) \/ Finish(t) \/ AlertCommit(t)
      PROVE  Harmless
  <2> DEFINE q == job[t].run
  <2>1. q \in Runs /\ db[q] \in Row
    BY <1>6, BusyJob DEF CancelBeforeStart, StopOnCancel, AttemptSucceeds, Requeue, Finish,
                         AlertCommit, Busy
  <2>2. /\ Closed(db[q], "CANCELLED").status = "CANCELLED"
        /\ Closed(db[q], "SUCCESS").status = "SUCCESS"
        /\ [db[q] EXCEPT !.status = "CANCELLED"].status = "CANCELLED"
        /\ [db[q] EXCEPT !.status = "QUEUED", !.retries = snap[t].retries + 1,
              !.finished = Written(db[q].finished, snap[t].finished, FALSE)].status = "QUEUED"
        /\ [db[q] EXCEPT !.finished = TRUE].status = db[q].status
    BY <2>1 DEF Closed, Row
  <2> HIDE DEF q, Harmless
  <2>3. CASE CancelBeforeStart(t) \/ StopOnCancel(t) \/ AttemptSucceeds(t)
    BY <1>1, <2>1, <2>2, <2>3 DEF CancelBeforeStart, StopOnCancel, AttemptSucceeds, q
  <2>4. CASE Requeue(t)
    BY <1>1, <2>1, <2>2, <2>4 DEF Requeue, q
  <2>5. CASE Finish(t) \/ AlertCommit(t)
    BY <1>1, <2>1, <2>2, <2>5 DEF Finish, AlertCommit, q
  <2> QED BY <1>6, <2>3, <2>4, <2>5
<1>7. ASSUME NEW t \in Threads, AttemptFails(t) PROVE Harmless \/ Fails1
  <2> DEFINE q == job[t].run
  <2>1. q \in Runs /\ db[q] \in Row /\ Store(q, [db[q] EXCEPT !.status = "FAILED"])
    BY <1>7, BusyJob DEF AttemptFails, Busy
  <2>2. [db[q] EXCEPT !.status = "FAILED"].status = "FAILED"
    BY <2>1 DEF Row
  <2>3. db'[r].status = IF r = q THEN "FAILED" ELSE db[r].status
    BY <1>0, <2>1, <2>2
  <2> QED BY <1>7, <2>3
<1>8. CASE RecoverCommit
  <2>1. db[r] \in Row /\ db'[r] = IF r \in recovering THEN RecoveredRow(db[r]) ELSE db[r]
    BY <1>8 DEF RecoverCommit, TypeInv, TypeOK
  <2>2. RecoveredRow(db[r]).status = "FAILED"
    BY <2>1 DEF RecoveredRow, Closed, Row
  <2> QED BY <1>8, <2>1, <2>2
<1>9. CASE UNCHANGED db
  BY <1>9
<1>10. ASSUME NEW c \in Cancellers, CancellerNext(c)
       PROVE  UNCHANGED db \/ CancelCommit(c)
  BY <1>10 DEF CancellerNext, CancelRead, CancelTimesOut, dbVars
<1>11. ASSUME DispatcherNext PROVE UNCHANGED db \/ \E q \in Runs : Claim(q)
  BY <1>11 DEF DispatcherNext, DispatchBegin, NothingQueued, SubmitJob, DispatcherDies, dbVars
<1>12. ASSUME NEW t \in Threads, ThreadNext(t)
       PROVE  \/ UNCHANGED db \/ MarkRunning(t) \/ Finish(t) \/ AlertCommit(t)
              \/ CancelBeforeStart(t) \/ AttemptFails(t) \/ StopOnCancel(t)
              \/ AttemptSucceeds(t) \/ Requeue(t)
  BY <1>12 DEF ThreadNext, PickUp, LoadRun, CheckCancel, StepSucceeds, Finally, AlertFlush,
               Return, CommitTimesOut, dbVars
<1>13. CASE Boot \/ Shutdown \/ Crash \/ UNCHANGED vars
  BY <1>9, <1>13 DEF Boot, Shutdown, Crash, vars, dbVars
<1> HIDE DEF Harmless, Runs1, Fails1
<1> QED
  BY <1>2, <1>3, <1>4, <1>5, <1>6, <1>7, <1>8, <1>9, <1>10, <1>11, <1>12, <1>13 DEF Next

\* A row is RUNNING after a step if it was before, or it was claimed or marked.
LEMMA BecomesRunning ==
  ASSUME TypeInv, [Next]_vars, NEW r \in Runs, db'[r].status = "RUNNING"
  PROVE  \/ db[r].status = "RUNNING"
         \/ Claim(r)
         \/ \E t \in Threads : MarkRunning(t) /\ job[t].run = r
BY StatusWritten

\* A thread that has decided was so before, or has just decided.
LEMMA BecomesDecided ==
  ASSUME TypeInv, [Next]_vars, NEW t \in Threads, pc'[t] \in Decided
  PROVE  /\ job'[t] = job[t] /\ Works(t)
         /\ \/ pc[t] \in Decided
            \/ AttemptFails(t) \/ StopOnCancel(t)
<1>1. ASSUME UNCHANGED <<pc, job>> PROVE pc[t] \in Decided /\ job'[t] = job[t]
  BY <1>1
<1>2. ASSUME NEW u \in Threads, NEW where, Goto(u, where), where \notin Decided
      PROVE  pc[t] \in Decided /\ job'[t] = job[t]
  BY <1>2 DEF Goto, TypeInv, TypeOK
<1>3. ASSUME NEW u \in Threads, NEW where, Goto(u, where), pc[u] \in Decided
      PROVE  pc[t] \in Decided /\ job'[t] = job[t]
  BY <1>3 DEF Goto, TypeInv, TypeOK
<1>4. ASSUME NEW u \in Threads, AttemptFails(u) \/ StopOnCancel(u)
      PROVE  job'[t] = job[t] /\ (pc[t] \in Decided \/ (u = t /\ Works(t)))
  BY <1>4 DEF AttemptFails, StopOnCancel, Goto, Works, Busy, TypeInv, TypeOK
<1>5. ASSUME NEW u \in Threads, ThreadNext(u), ~AttemptFails(u), ~StopOnCancel(u)
      PROVE  pc[t] \in Decided /\ job'[t] = job[t]
  <2>1. CASE PickUp(u)
    BY <2>1 DEF PickUp, Decided, TypeInv, TypeOK
  <2>2. CASE LoadRun(u)
    BY <1>2, <2>2 DEF LoadRun, Decided
  <2>3. CASE CancelBeforeStart(u) \/ MarkRunning(u) \/ StepSucceeds(u) \/ AttemptSucceeds(u)
    BY <1>2, <2>3 DEF CancelBeforeStart, MarkRunning, StepSucceeds, AttemptSucceeds, Decided
  <2>4. CASE CheckCancel(u)
    BY <1>2, <2>4 DEF CheckCancel, Decided
  <2>5. CASE Finally(u) \/ Requeue(u) \/ Finish(u) \/ AlertFlush(u) \/ AlertCommit(u)
    BY <1>3, <2>5 DEF Finally, Requeue, Finish, AlertFlush, AlertCommit, Decided
  <2>6. CASE Return(u) \/ CommitTimesOut(u)
    BY <2>6 DEF Return, CommitTimesOut, Release, Decided, TypeInv, TypeOK
  <2> QED BY <1>5, <2>1, <2>2, <2>3, <2>4, <2>5, <2>6 DEF ThreadNext
<1>6. ASSUME \/ \E r \in Runs, asked \in Asked : CreateRun(r, asked)
             \/ \E c \in Cancellers : CancellerNext(c)
             \/ DispatcherNext \/ Boot \/ RecoverCommit \/ Shutdown \/ UNCHANGED vars
      PROVE  UNCHANGED <<pc, job>>
  BY <1>6 DEF CreateRun, CancellerNext, CancelRead, CancelCommit, CancelTimesOut,
              DispatcherNext, DispatchBegin, Claim, NothingQueued, SubmitJob, DispatcherDies,
              Boot, RecoverCommit, Shutdown, vars, thVars
<1>7. ~Crash
  BY DEF Crash, Decided
<1>8. pc[t] \in Decided => Works(t)
  BY DEF Decided, Works, Busy
<1> QED BY <1>1, <1>4, <1>5, <1>6, <1>7, <1>8 DEF Next

LEMMA StepOutcome == TypeInv /\ OwnInv /\ OutcomeInv /\ [Next]_vars => OutcomeInv'
<1> SUFFICES ASSUME TypeInv, OwnInv, OutcomeInv, [Next]_vars,
                    NEW t \in Threads, pc'[t] \in Decided,
                    db'[job[t].run].status = "RUNNING"
             PROVE  FALSE
  BY BecomesDecided DEF OutcomeInv
<1> DEFINE r == job[t].run
<1>1. Works(t) /\ r \in Runs /\ db[r] \in Row
  BY BecomesDecided, BusyJob DEF Works
<1>2. ~Claim(r)
  BY <1>1 DEF Claim, Claimable, OwnInv, Owned, Executing, Free
<1>3. ASSUME NEW u \in Threads, MarkRunning(u), job[u].run = r PROVE FALSE
  <2>1. Works(u) /\ pc'[u] = "check"
    BY <1>3 DEF MarkRunning, Goto, Works, Busy, TypeInv, TypeOK
  <2>2. u = t
    BY <1>1, <1>3, <2>1 DEF OwnInv, SingleExecutor
  <2> QED BY <2>1, <2>2 DEF Decided
<1>4. db[r].status = "RUNNING"
  BY <1>1, <1>2, <1>3, BecomesRunning
<1>5. CASE pc[t] \in Decided
  BY <1>4, <1>5 DEF OutcomeInv
<1>6. CASE AttemptFails(t)
  <2>1. db'[r] = [db[r] EXCEPT !.status = "FAILED"]
    BY <1>1, <1>6 DEF AttemptFails, Store, TypeInv, TypeOK
  <2> QED BY <1>1, <2>1 DEF Row
<1>7. CASE StopOnCancel(t)
  <2>1. db'[r] = [db[r] EXCEPT !.status = "CANCELLED"]
    BY <1>1, <1>7 DEF StopOnCancel, Store, TypeInv, TypeOK
  <2> QED BY <1>1, <2>1 DEF Row
<1> QED BY <1>5, <1>6, <1>7, BecomesDecided

\* The dispatcher starts when the recovery has committed.
WaitsForHub == hub \in {"down", "recovering"} => disp = Off

LEMMA InitWaits == Init => WaitsForHub
BY DEF Init, WaitsForHub

LEMMA StepWaits == WaitsForHub /\ [Next]_vars => WaitsForHub'
<1> SUFFICES ASSUME WaitsForHub, [Next]_vars PROVE WaitsForHub'
  OBVIOUS
<1>1. CASE \/ \E r \in Runs, asked \in Asked : CreateRun(r, asked)
           \/ \E c \in Cancellers : CancellerNext(c)
  BY <1>1 DEF CreateRun, CancellerNext, CancelRead, CancelCommit, CancelTimesOut, WaitsForHub,
              hubVars, dispVars
<1>2. CASE DispatcherNext
  <2>1. disp.pc # "off"
    BY <1>2 DEF DispatcherNext, DispatchBegin, Claim, NothingQueued, SubmitJob, DispatcherDies
  <2>2. hub \notin {"down", "recovering"}
    BY <2>1 DEF WaitsForHub, Off
  <2>3. hub' = hub \/ hub' = "up"
    BY <1>2 DEF DispatcherNext, DispatchBegin, Claim, NothingQueued, SubmitJob, DispatcherDies,
                PassEnds, hubVars
  <2> QED BY <2>2, <2>3 DEF WaitsForHub
<1>3. ASSUME NEW t \in Threads, ThreadNext(t) PROVE WaitsForHub'
  BY <1>3 DEF ThreadNext, PickUp, LoadRun, CancelBeforeStart, MarkRunning, CheckCancel,
              StepSucceeds, AttemptFails, StopOnCancel, AttemptSucceeds, Finally, Requeue,
              Finish, AlertFlush, AlertCommit, Return, CommitTimesOut, Goto, WaitsForHub,
              hubVars, dispVars
<1>4. CASE Boot \/ RecoverCommit \/ Shutdown \/ Crash \/ UNCHANGED vars
  BY <1>4 DEF Boot, RecoverCommit, Shutdown, Crash, vars, WaitsForHub, dispVars
<1> QED BY <1>1, <1>2, <1>3, <1>4 DEF Next

\* An owner lets go of its run only at the end of execute_run, or when its
\* process ends.
LEMMA OwnersStay ==
  ASSUME TypeInv, WaitsForHub, [Next]_vars, ~SlowAlerts, hub' # "down" \/ hub = "down",
         NEW r \in Runs, Owned(r), ~Owned(r)'
  PROVE  \E t \in Threads : ThreadNext(t) /\ Works(t) /\ job[t].run = r /\ pc'[t] = "return"
<1>0. SUFFICES ASSUME \A t \in Threads : ThreadNext(t) /\ Works(t) /\ job[t].run = r => pc'[t] # "return"
               PROVE  FALSE
  OBVIOUS
<1>1. ASSUME disp.pc = "submit" => disp' = disp, UNCHANGED <<pending, pc, job>> PROVE FALSE
  BY <1>1 DEF Owned, Claimed, Queued, Executing, Works
<1>2. ASSUME NEW t \in Threads, NEW where \in Busy, Goto(t, where), ThreadNext(t), pc[t] # "return"
      PROVE  FALSE
  <2>1. \A u \in Threads : Works(u) /\ job[u].run = r => Works(u)'
    BY <1>0, <1>2 DEF Goto, Works, TypeInv, TypeOK
  <2> QED BY <1>2, <2>1 DEF Goto, dispVars, Owned, Claimed, Queued, Executing
<1>3. ASSUME NEW t \in Threads, PickUp(t) PROVE FALSE
  <2>1. /\ pending \in Seq(Job) /\ pending # << >> /\ pending' = Tail(pending)
        /\ disp' = disp /\ job' = [job EXCEPT ![t] = Head(pending)]
        /\ pc' = [pc EXCEPT ![t] = "picked"] /\ pc[t] = "idle"
    BY <1>3 DEF PickUp, TypeInv, TypeOK
  <2>2. Works(t)' /\ job'[t] = pending[1] /\ ~Works(t)
    BY <2>1 DEF Works, Busy, TypeInv, TypeOK
  <2>3. CASE Claimed(r)
    BY <2>1, <2>3 DEF Claimed, Owned
  <2>4. CASE Queued(r)
    <3>1. PICK i \in 1..Len(pending) : pending[i].run = r
      BY <2>4 DEF Queued
    <3>2. CASE i = 1
      BY <2>2, <3>1, <3>2 DEF Owned, Executing
    <3>3. CASE i # 1
      <4>1. i - 1 \in 1..Len(pending') /\ pending'[i - 1] = pending[i]
        BY <2>1, <3>1, <3>3
      <4> QED BY <3>1, <4>1 DEF Owned, Queued
    <3> QED BY <3>2, <3>3
  <2>5. CASE Executing(r)
    <3>1. PICK u \in Threads : Works(u) /\ job[u].run = r
      BY <2>5 DEF Executing
    <3>2. u # t /\ Works(u)' /\ job'[u] = job[u]
      BY <2>1, <2>2, <3>1 DEF Works, TypeInv, TypeOK
    <3> QED BY <3>1, <3>2 DEF Owned, Executing
  <2> QED BY <2>3, <2>4, <2>5 DEF Owned
<1>4. ASSUME NEW t \in Threads, Return(t) PROVE FALSE
  <2>1. \A u \in Threads : Works(u) => Works(u)' /\ job'[u] = job[u]
    BY <1>4 DEF Return, Release, Works, Busy, TypeInv, TypeOK
  <2> QED BY <1>4, <2>1 DEF Return, dispVars, Owned, Claimed, Queued, Executing
<1>5. ASSUME NEW t \in Threads, ThreadNext(t) PROVE FALSE
  <2>1. ~CommitTimesOut(t)
    BY DEF CommitTimesOut
  <2>2. CASE \E where \in Busy : Goto(t, where) /\ pc[t] # "return"
    BY <1>2, <1>5, <2>2
  <2> QED BY <1>3, <1>4, <1>5, <2>1, <2>2
          DEF ThreadNext, LoadRun, CancelBeforeStart, MarkRunning, CheckCancel,
              StepSucceeds, AttemptFails, StopOnCancel, AttemptSucceeds, Finally, Requeue,
              Finish, AlertFlush, AlertCommit, Busy
<1>6. CASE SubmitJob
  <2> DEFINE e == [run |-> disp.run, n |-> starts[disp.run]]
  <2>1. /\ UNCHANGED <<pc, job>> /\ pending' = Append(pending, e) /\ pending \in Seq(Job)
    BY <1>6 DEF SubmitJob, thVars, TypeInv, TypeOK
  <2>2. e.run = disp.run
    OBVIOUS
  <2> HIDE DEF e
  <2>3. /\ \A i \in 1..Len(pending) : i \in 1..Len(pending') /\ pending'[i] = pending[i]
        /\ Len(pending') \in 1..Len(pending') /\ pending'[Len(pending')] = e
    BY <2>1
  <2> QED BY <2>1, <2>2, <2>3 DEF Owned, Claimed, Queued, Executing, Works
<1>7. CASE Shutdown \/ Crash
  BY <1>7 DEF Shutdown, Crash
<1>8. CASE \/ \E q \in Runs, asked \in Asked : CreateRun(q, asked)
           \/ \E c \in Cancellers : CancellerNext(c)
           \/ DispatchBegin \/ NothingQueued \/ DispatcherDies \/ Boot \/ UNCHANGED vars
           \/ \E q \in Runs : Claim(q)
  <2>1. UNCHANGED <<pending, pc, job>> /\ (disp.pc = "submit" => disp' = disp)
    BY <1>8 DEF CreateRun, CancellerNext, CancelRead, CancelCommit, CancelTimesOut,
                DispatchBegin, NothingQueued, DispatcherDies, Boot, Claim, vars, dispVars,
                thVars
  <2> QED BY <1>1, <2>1
<1>9. CASE RecoverCommit
  <2>1. /\ disp.pc = "off" /\ disp'.pc = "idle" /\ UNCHANGED <<pending, pc, job>>
    BY <1>9 DEF RecoverCommit, WaitsForHub, Off, Idle, thVars
  <2> QED BY <1>1, <2>1
<1> QED BY <1>5, <1>6, <1>7, <1>8, <1>9 DEF Next, DispatcherNext

\* What is shown as RUNNING is in somebody's hands, or about to be recovered.
ShownInv ==
  \A r \in Runs : db[r].status = "RUNNING" =>
     hub = "down" \/ Owned(r) \/ (hub = "recovering" /\ r \in recovering)

\* A thread never returns from a run that it leaves RUNNING.
LEMMA ReturnsDecided ==
  ASSUME TypeInv, OwnInv, OutcomeInv, [Next]_vars, NEW t \in Threads, ThreadNext(t), Works(t),
         pc'[t] = "return", db'[job[t].run].status = "RUNNING"
  PROVE  FALSE
<1> DEFINE r == job[t].run
<1>1. r \in Runs /\ db[r] \in Row /\ pc[t] # "return"
  BY BusyJob DEF Works
<1>2. ~Claim(r)
  BY <1>1 DEF Claim, Claimable, OwnInv, Owned, Executing, Free
<1>3. ASSUME NEW u \in Threads, MarkRunning(u), job[u].run = r PROVE FALSE
  <2>1. Works(u) /\ pc'[u] = "check"
    BY <1>3 DEF MarkRunning, Goto, Works, Busy, TypeInv, TypeOK
  <2>2. u = t
    BY <1>1, <1>3, <2>1 DEF OwnInv, SingleExecutor
  <2> QED BY <2>1, <2>2
<1>4. db[r].status = "RUNNING"
  BY <1>1, <1>2, <1>3, BecomesRunning
<1>5. pc[t] \notin Decided
  BY <1>4 DEF OutcomeInv
<1>6. ASSUME NEW row, Store(r, row), row.status # "RUNNING" PROVE FALSE
  BY <1>1, <1>6 DEF Store, TypeInv, TypeOK
<1>7. CASE CancelBeforeStart(t) \/ AttemptSucceeds(t)
  <2>1. /\ Closed(db[r], "CANCELLED").status = "CANCELLED"
        /\ Closed(db[r], "SUCCESS").status = "SUCCESS"
    BY <1>1 DEF Closed, Row
  <2> QED BY <1>6, <1>7, <2>1 DEF CancelBeforeStart, AttemptSucceeds
<1>8. CASE LoadRun(t)
  BY <1>4, <1>8 DEF LoadRun, Goto, Cancellable, TypeInv, TypeOK
<1>9. ASSUME NEW where, where # "return", Goto(t, where) PROVE FALSE
  BY <1>9 DEF Goto, TypeInv, TypeOK
<1>10. CASE MarkRunning(t) \/ StepSucceeds(t) \/ AttemptFails(t) \/ StopOnCancel(t) \/ CheckCancel(t)
  <2>1. \E where : where # "return" /\ Goto(t, where)
    BY <1>10 DEF MarkRunning, StepSucceeds, AttemptFails, StopOnCancel, CheckCancel
  <2> QED BY <1>9, <2>1
<1>11. CASE Finally(t) \/ Requeue(t) \/ Finish(t) \/ AlertFlush(t) \/ AlertCommit(t)
  BY <1>5, <1>11 DEF Finally, Requeue, Finish, AlertFlush, AlertCommit, Decided
<1>12. CASE PickUp(t) \/ Return(t) \/ CommitTimesOut(t)
  BY <1>12 DEF PickUp, Return, CommitTimesOut, Release, TypeInv, TypeOK
<1> QED BY <1>7, <1>8, <1>10, <1>11, <1>12 DEF ThreadNext

\* Only a start leaves "down", and only a start adds rows to recover.
LEMMA LeavesDown ==
  ASSUME [Next]_vars, ~Boot
  PROVE  /\ hub = "down" => hub' = "down"
         /\ boots' = boots /\ recovering' \subseteq recovering
<1>1. CASE \/ \E r \in Runs, asked \in Asked : CreateRun(r, asked)
           \/ \E c \in Cancellers : CancellerNext(c)
           \/ DispatcherNext
  BY <1>1 DEF CreateRun, CancellerNext, CancelRead, CancelCommit, CancelTimesOut, DispatcherNext,
              DispatchBegin, Claim, NothingQueued, SubmitJob, DispatcherDies, PassEnds, hubVars
<1>2. ASSUME NEW t \in Threads, ThreadNext(t) PROVE UNCHANGED hubVars
  BY <1>2 DEF ThreadNext, PickUp, LoadRun, CancelBeforeStart, MarkRunning, CheckCancel,
              StepSucceeds, AttemptFails, StopOnCancel, AttemptSucceeds, Finally, Requeue,
              Finish, AlertFlush, AlertCommit, Return, CommitTimesOut, Goto
<1>3. CASE RecoverCommit \/ Shutdown \/ Crash \/ UNCHANGED vars
  BY <1>3 DEF RecoverCommit, Shutdown, Crash, vars
<1> QED BY <1>1, <1>2, <1>3 DEF Next, hubVars

LEMMA StepShown ==
  ASSUME TypeInv, OwnInv, OutcomeInv, WaitsForHub, ShownInv, [Next]_vars, ~SlowAlerts
  PROVE  ShownInv'
<1> SUFFICES ASSUME NEW r \in Runs, db'[r].status = "RUNNING", hub' # "down", ~Owned(r)'
             PROVE  hub' = "recovering" /\ r \in recovering'
  BY DEF ShownInv
<1>1. ~Claim(r)
  BY DEF Claim, Owned, Claimed, TypeInv, TypeOK
<1>2. ASSUME NEW t \in Threads, MarkRunning(t), job[t].run = r PROVE FALSE
  <2>1. Works(t)' /\ job'[t].run = r
    BY <1>2 DEF MarkRunning, Goto, Works, Busy, TypeInv, TypeOK
  <2> QED BY <2>1 DEF Owned, Executing
<1>3. db[r].status = "RUNNING"
  BY <1>1, <1>2, BecomesRunning
<1>4. ~Owned(r)
  BY OwnersStay, ReturnsDecided
<1>5. CASE hub = "down"
  <2>1. Boot
    BY <1>5, LeavesDown
  <2> QED BY <1>3, <2>1 DEF Boot, Interrupted
<1>6. CASE hub = "recovering" /\ r \in recovering
  <2>1. ~RecoverCommit
    <3>1. RecoveredRow(db[r]).status = "FAILED"
      BY DEF RecoveredRow, Closed, Row, TypeInv, TypeOK
    <3> QED BY <1>6, <3>1 DEF RecoverCommit
  <2>2. ~Crash /\ ~Boot /\ ~Shutdown
    BY <1>6 DEF Crash, Boot, Shutdown
  <2> QED BY <1>6, <2>1, <2>2
          DEF Next, CreateRun, CancellerNext, CancelRead, CancelCommit, CancelTimesOut,
              DispatcherNext, DispatchBegin, Claim, NothingQueued, SubmitJob, DispatcherDies,
              PassEnds, ThreadNext, PickUp, LoadRun, CancelBeforeStart, MarkRunning,
              CheckCancel, StepSucceeds, AttemptFails, StopOnCancel, AttemptSucceeds, Finally,
              Requeue, Finish, AlertFlush, AlertCommit, Return, CommitTimesOut, Goto,
              hubVars, vars
<1> QED BY <1>3, <1>4, <1>5, <1>6 DEF ShownInv

\* Where no alert's e-mail outlasts the lock, a run shown as RUNNING while the Hub
\* serves requests is claimed, queued or executed, whatever crashes and restarts
\* meet it: recover_interrupted_runs misses none, and execute_run abandons none.
THEOREM RunningHasOwner ==
  ASSUME ~SlowAlerts
  PROVE  Spec => []RunningIsOwned
<1>1. Init => OutcomeInv /\ ShownInv
  BY DEF Init, OutcomeInv, ShownInv, Decided
<1>2. TypeInv /\ OwnInv /\ OutcomeInv /\ WaitsForHub /\ ShownInv /\ [Next]_vars => ShownInv'
  BY StepShown
<1>3. Spec => []ShownInv
  BY <1>1, <1>2, InitTypeInv, StepTypeInv, InitOwnInv, StepOwnInv, StepOutcome, InitWaits,
     StepWaits, PTL DEF Spec
<1>4. ShownInv => RunningIsOwned
  BY DEF ShownInv, RunningIsOwned
<1> QED BY <1>3, <1>4, PTL

(***************************************************************************)
(* Failures.                                                               *)
(***************************************************************************)
Reporting == {"finally", "requeue", "alert", "alerting"}

Reported(r) ==
  alert[r] # "none" \/ \E t \in Threads : pc[t] \in Reporting /\ job[t].run = r

\* Before the first start there are no runs, so the first one recovers none; then
\* a FAILED run has its alert, or its thread has not yet decided on it.
ReportInv ==
  /\ boots = 0 => hub = "down" /\ \A r \in Runs : db[r].status = "NONE"
  /\ boots <= 1 /\ hub # "down" => recovering = {}
  /\ boots = 1 /\ hub # "down" => \A r \in Runs : db[r].status = "FAILED" => Reported(r)

\* An alert stays, open or resolved.
LEMMA AlertStays ==
  ASSUME TypeInv, [Next]_vars, NEW r \in Runs, alert[r] # "none"
  PROVE  alert'[r] # "none"
<1>1. CASE UNCHANGED alert
  BY <1>1
<1>2. ASSUME NEW t \in Threads, ThreadNext(t), ~AlertCommit(t), ~AttemptSucceeds(t)
      PROVE  UNCHANGED alert
  BY <1>2 DEF ThreadNext, PickUp, LoadRun, CancelBeforeStart, MarkRunning, CheckCancel,
              StepSucceeds, AttemptFails, StopOnCancel, Finally, Requeue, Finish, AlertFlush,
              Return, CommitTimesOut, dbVars
<1>3. ASSUME NEW t \in Threads, AlertCommit(t) \/ AttemptSucceeds(t) PROVE alert'[r] # "none"
  BY <1>3 DEF AlertCommit, AttemptSucceeds, Resolve, TypeInv, TypeOK
<1>4. ASSUME \/ \E q \in Runs, asked \in Asked : CreateRun(q, asked)
             \/ \E c \in Cancellers : CancellerNext(c)
             \/ DispatcherNext \/ Boot \/ RecoverCommit \/ Shutdown \/ Crash \/ UNCHANGED vars
      PROVE  UNCHANGED alert
  BY <1>4 DEF CreateRun, CancellerNext, CancelRead, CancelCommit, CancelTimesOut,
              DispatcherNext, DispatchBegin, Claim, NothingQueued, SubmitJob, DispatcherDies,
              Boot, RecoverCommit, Shutdown, Crash, vars, dbVars
<1> QED BY <1>1, <1>2, <1>3, <1>4 DEF Next

\* How a thread that has a failure to report comes to an end with it.
LEMMA ReporterStays ==
  ASSUME TypeInv, [Next]_vars, ~SlowAlerts, hub' # "down" \/ hub = "down",
         NEW t \in Threads, pc[t] \in Reporting
  PROVE  \/ pc'[t] \in Reporting /\ job'[t] = job[t]
         \/ Requeue(t) \/ AlertCommit(t)
         \/ Finally(t) /\ db[job[t].run].status # "FAILED" /\ UNCHANGED db
<1>1. CASE UNCHANGED <<pc, job>>
  BY <1>1
<1>2. ASSUME NEW u \in Threads, NEW where, Goto(u, where), pc[u] \notin Reporting
      PROVE  pc'[t] = pc[t] /\ job'[t] = job[t]
  BY <1>2 DEF Goto, TypeInv, TypeOK
<1>3. ASSUME NEW u \in Threads, PickUp(u) \/ Return(u)
      PROVE  pc'[t] = pc[t] /\ job'[t] = job[t]
  BY <1>3 DEF PickUp, Return, Release, Reporting, TypeInv, TypeOK
<1>4. ASSUME NEW u \in Threads, u # t,
             Finally(u) \/ Requeue(u) \/ AlertFlush(u) \/ AlertCommit(u)
      PROVE  pc'[t] = pc[t] /\ job'[t] = job[t]
  BY <1>4 DEF Finally, Requeue, AlertFlush, AlertCommit, Goto, TypeInv, TypeOK
<1>5. ASSUME AlertFlush(t) PROVE pc'[t] \in Reporting /\ job'[t] = job[t]
  BY <1>5 DEF AlertFlush, Goto, Reporting, TypeInv, TypeOK
<1>6. ASSUME Finally(t), db[job[t].run].status = "FAILED"
      PROVE  pc'[t] \in Reporting /\ job'[t] = job[t]
  BY <1>6 DEF Finally, NeedsAlert, Goto, Reporting, TypeInv, TypeOK
<1>7. ASSUME NEW u \in Threads, ThreadNext(u)
      PROVE  \/ pc'[t] \in Reporting /\ job'[t] = job[t]
             \/ Requeue(t) \/ AlertCommit(t)
             \/ Finally(t) /\ db[job[t].run].status # "FAILED"
  <2>1. ~CommitTimesOut(u)
    BY DEF CommitTimesOut
  <2>2. CASE \E where : Goto(u, where) /\ pc[u] \notin Reporting
    BY <1>2, <2>2
  <2> QED BY <1>3, <1>4, <1>5, <1>6, <1>7, <2>1, <2>2
          DEF ThreadNext, LoadRun, CancelBeforeStart, MarkRunning, CheckCancel, StepSucceeds,
              AttemptFails, StopOnCancel, AttemptSucceeds, Finish, Reporting
<1>8. Finally(t) => UNCHANGED db
  BY DEF Finally, dbVars
<1>9. ASSUME \/ \E q \in Runs, asked \in Asked : CreateRun(q, asked)
             \/ \E c \in Cancellers : CancellerNext(c)
             \/ DispatcherNext \/ Boot \/ RecoverCommit \/ UNCHANGED vars
      PROVE  UNCHANGED <<pc, job>>
  BY <1>9 DEF CreateRun, CancellerNext, CancelRead, CancelCommit, CancelTimesOut,
              DispatcherNext, DispatchBegin, Claim, NothingQueued, SubmitJob, DispatcherDies,
              Boot, RecoverCommit, vars, thVars
<1>10. ~Shutdown /\ ~Crash
  BY DEF Shutdown, Crash
<1> QED BY <1>1, <1>7, <1>8, <1>9, <1>10 DEF Next

LEMMA StepReport ==
  ASSUME TypeInv, OwnInv, HeldInv, ReportInv, [Next]_vars, ~SlowAlerts
  PROVE  ReportInv'
<1>0. boots \in Nat
  BY DEF TypeInv, TypeOK
<1>1. boots' = 0 => hub' = "down" /\ \A r \in Runs : db'[r].status = "NONE"
  <2> SUFFICES ASSUME boots' = 0 PROVE hub' = "down" /\ \A r \in Runs : db'[r].status = "NONE"
    OBVIOUS
  <2>1. ~Boot
    BY <1>0 DEF Boot
  <2>2. boots = 0 /\ hub = "down" /\ hub' = "down" /\ \A r \in Runs : db[r].status = "NONE"
    BY <2>1, LeavesDown DEF ReportInv
  <2>3. ASSUME NEW t \in Threads PROVE ~Requeue(t)
    <3>1. ~Works(t)
      BY <2>2, BusyJob DEF OwnInv, Owned, Executing, Works, Free
    <3> QED BY <3>1 DEF Requeue, Works, Busy
  <2>4. Quiet
    BY <2>2, <2>3, NextCases DEF CreateRun, Claim, Claimable
  <2> QED BY <2>2, <2>4, AbsentStays
<1>2. boots' <= 1 /\ hub' # "down" => recovering' = {}
  <2>1. CASE Boot
    BY <1>0, <2>1 DEF Boot, ReportInv, Interrupted
  <2>2. CASE ~Boot
    BY <2>2, LeavesDown DEF ReportInv
  <2> QED BY <2>1, <2>2
<1>3. ASSUME boots' = 1, hub' # "down", NEW r \in Runs, db'[r].status = "FAILED"
      PROVE  Reported(r)'
  <2>1. ~Boot
    BY <1>0, <1>3 DEF Boot, ReportInv, dbVars
  <2>2. boots = 1 /\ hub # "down"
    BY <1>3, <2>1, LeavesDown
  <2>3. CASE db[r].status = "FAILED"
    <3>1. CASE alert[r] # "none"
      BY <3>1, AlertStays DEF Reported
    <3>2. ASSUME NEW t \in Threads, pc[t] \in Reporting, job[t].run = r PROVE Reported(r)'
      <4>1. CASE pc'[t] \in Reporting /\ job'[t] = job[t]
        BY <3>2, <4>1 DEF Reported
      <4>2. ~Requeue(t)
        <5>1. db[r] \in Row
          BY DEF TypeInv, TypeOK
        <5>2. [db[r] EXCEPT !.status = "QUEUED", !.retries = snap[t].retries + 1,
                 !.finished = Written(db[r].finished, snap[t].finished, FALSE)].status = "QUEUED"
          BY <5>1 DEF Row
        <5> QED BY <1>3, <3>2, <5>2 DEF Requeue, Store, TypeInv, TypeOK
      <4>3. CASE AlertCommit(t)
        BY <3>2, <4>3 DEF AlertCommit, Reported, TypeInv, TypeOK
      <4> QED BY <1>3, <2>3, <3>2, <4>1, <4>2, <4>3, ReporterStays
    <3> QED BY <2>2, <2>3, <3>1, <3>2 DEF ReportInv, Reported
  <2>4. ASSUME NEW t \in Threads, AttemptFails(t), job[t].run = r PROVE Reported(r)'
    BY <2>4 DEF AttemptFails, Goto, Reported, Reporting, TypeInv, TypeOK
  <2>5. recovering = {}
    BY <2>2 DEF ReportInv
  <2> QED BY <1>3, <2>3, <2>4, <2>5, StatusWritten
<1> QED BY <1>1, <1>2, <1>3 DEF ReportInv

\* Until the Hub is restarted, a run left FAILED by its executor has its alert,
\* whatever number of threads decide and whoever cancels, where no e-mail outlasts the
\* lock: every way through the finally block of execute_run that leaves FAILED
\* behind goes through create_failure_alert.
THEOREM FailuresReported ==
  ASSUME ~SlowAlerts
  PROVE  Spec => []FailureIsReported
<1>1. Init => ReportInv
  BY DEF Init, ReportInv, NoRow
<1>2. TypeInv /\ OwnInv /\ HeldInv /\ ReportInv /\ [Next]_vars => ReportInv'
  BY StepReport
<1>3. Spec => [](TypeInv /\ OwnInv /\ ReportInv)
  BY <1>1, <1>2, InitTypeInv, StepTypeInv, InitOwnInv, StepOwnInv, InitHeldInv, StepHeldInv,
     PTL DEF Spec
<1>4. ReportInv => FailureIsReported
  <2> SUFFICES ASSUME ReportInv, hub = "up", boots = 1,
                      NEW r \in Runs, db[r].status = "FAILED", ~Owned(r)
               PROVE  alert[r] # "none"
    BY DEF FailureIsReported
  <2>1. \A t \in Threads : pc[t] \in Reporting => job[t].run # r
    BY DEF Owned, Executing, Works, Reporting, Busy
  <2> QED BY <2>1 DEF ReportInv, Reported
<1> QED BY <1>3, <1>4, PTL
==============================================================================

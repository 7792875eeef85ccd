--------------------------- MODULE RunQueueProps ---------------------------
(***************************************************************************)
(* The properties of RunQueue, and the refinement mapping under which it   *)
(* implements RunLifecycle.                                                *)
(***************************************************************************)
EXTENDS RunQueue

\* Type invariant: the values each column, thread and history may hold.
TypeOK ==
  /\ db \in [Runs -> Row]
  /\ alert \in [Runs -> {"none", "open", "resolved"}]
  /\ hub \in {"down", "recovering", "starting", "up"}
  /\ boots \in Nat /\ recovering \subseteq Runs
  /\ disp \in [pc : {"off", "idle", "claim", "submit"}, slots : Nat,
               run : Runs \cup {-1}]
  /\ active \in [Runs -> Nat] /\ pending \in Seq(Job)
  /\ pc \in [Threads -> Busy \cup {"idle"}]
  /\ job \in [Threads -> Job \cup {NoJob}]
  /\ step \in [Threads -> Nat] /\ snap \in [Threads -> Row]
  /\ old \in [Threads -> BOOLEAN]
  /\ req \in [Cancellers -> [run : Runs \cup {-1}, row : Row]]
  /\ starts \in [Runs -> Nat] /\ late \in [Runs -> Nat]

\* Who will still act on a run: the dispatcher that claimed it, the pool's
\* queue, a thread that has not written its outcome yet.
Works(t) == pc[t] \in Busy \ {"return"}
Claimed(r)   == disp.pc = "submit" /\ disp.run = r
Queued(r)    == \E i \in 1..Len(pending) : pending[i].run = r
Executing(r) == \E t \in Threads : Works(t) /\ job[t].run = r
Owned(r)     == Claimed(r) \/ Queued(r) \/ Executing(r)

\* Two owners never hold one run: an outcome would be decided twice.  The
\* code relies on the atomic claim and on QUEUED being written only by the
\* owner, as its last act, although N threads, zombies of an earlier process
\* and stale cancels act on the same rows.
SingleExecutor ==
  /\ \A t, u \in Threads :
       Works(t) /\ Works(u) /\ job[t].run = job[u].run => t = u
  /\ \A t \in Threads : Works(t) => ~Claimed(job[t].run) /\ ~Queued(job[t].run)
  /\ \A i, j \in 1..Len(pending) : pending[i].run = pending[j].run => i = j
  /\ \A i \in 1..Len(pending) : ~Claimed(pending[i].run)

\* A run is claimed at most once more than the retries it was granted (and
\* never more than six times, whatever number the client asks for).
RetryBound == \A r \in Runs : starts[r] <= db[r].max + 1

\* After a cancel request is committed at most the step in progress ends:
\* "O robo vai parar ao finalizar o passo atual".
AtMostOneLateStep == \A r \in Runs : late[r] <= 1

\* While the Hub serves requests and no writer starves, a run shown as
\* RUNNING is really in somebody's hands.
RunningIsOwned ==
  hub = "up" => \A r \in Runs : db[r].status = "RUNNING" => Owned(r)

\* Until the Hub is restarted, a run left FAILED by its executor has been
\* reported: its alert exists, open or resolved by a later success.
FailureIsReported ==
  hub = "up" /\ boots = 1 => \A r \in Runs :
    db[r].status = "FAILED" /\ ~Owned(r) => alert[r] # "none"

\* A claimable run is never also in somebody's hands: the dispatcher would
\* start it a second time beside the first.
ClaimableIsFree == \A r \in Runs : Claimable(r) => ~Owned(r)

\* No run is started beside itself: neither does it have two owners, nor could
\* the dispatcher claim one that has an owner.
NeverTwice == SingleExecutor /\ ClaimableIsFree

\* Every run that was created comes to rest: a terminal status with nobody
\* working on it, or the known stuck case of a cancelled run put back in the
\* queue (NoStuckCancel).
AtRest(r) == /\ ~Owned(r)
             /\ db[r].status \in Terminal \/ (db[r].status = "QUEUED" /\ db[r].cancel)
EveryRunSettles ==
  \A r \in Runs : (db[r].status # "NONE") ~> AtRest(r)

(***************************************************************************)
(* Refinement.                                                             *)
(***************************************************************************)
PhaseOf(r) == IF db[r].status = "NONE" THEN "absent"
              ELSE IF Owned(r) THEN "working"
              ELSE IF Claimable(r) THEN "waiting" ELSE "over"

Life == INSTANCE RunLifecycle WITH
          phase    <- [r \in Runs |-> PhaseOf(r)],
          attempts <- starts,
          budget   <- [r \in Runs |-> db[r].max]

\* The queue implements RunLifecycle: no interleaving, crash, zombie thread
\* or stale cancel makes a run that is over be worked on again.
ImplementsLifecycle == Life!LSpec

(***************************************************************************)
(* What the documentation says and the code does not keep.                 *)
(***************************************************************************)
\* A run whose cancellation was accepted does not go back to the queue.
NoStuckCancel == \A r \in Runs : ~(db[r].status = "QUEUED" /\ db[r].cancel)
=============================================================================

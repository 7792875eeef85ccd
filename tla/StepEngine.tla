----------------------------- MODULE StepEngine -----------------------------
(***************************************************************************)
(* One run, attempt after attempt: the try block of execute_run and the    *)
(* WorkflowExecutor it calls, which opens a browser when the workflow      *)
(* needs one, tries every step up to its own number of retries, collects   *)
(* the files the steps produce, and stops at a step when the client has    *)
(* asked to.  The queue around it is RunQueue.                             *)
(***************************************************************************)
EXTENDS Integers, Sequences, FiniteSets

CONSTANTS
  Workflows,  \* the published workflows: sequences of Step
  Parameters, \* the names of the parameters of the executor's run method
  MaxRetries  \* max_retries of the run

\* Families of steps, by what the engine tells apart: whether they need the
\* page, what they do at the path the workflow names, and where the file they
\* report as an artifact lies.
WebKinds   == {"click", "screenshot"}
LocalKinds == {"desktop_click", "command_run", "file_write_text", "csv_write", "file_delete"}
WriteKinds  == {"file_write_text", "csv_write"}
RunDirKinds == {"screenshot", "command_run"} \* a name joined to the run's folder
PathKinds   == {"csv_write"}                 \* the path they have written

\* What a workflow may give as a path or name: an absolute path below BASE_DIR,
\* an absolute path elsewhere, or a relative one.
Paths == {"inside", "outside", "relative"}

Step == [kind : WebKinds \cup LocalKinds,
         disabled : BOOLEAN, \* meta.disabled
         retry : {n \in Int : n <= 5}, \* validation has no lower bound
         path : Paths,       \* of WriteKinds, file_delete and RunDirKinds
         overwrite : BOOLEAN]

ASSUME StepEngineAssumption ==
  /\ Workflows \subseteq Seq(Step)
  /\ MaxRetries \in Nat

VARIABLES
  wf,      \* the workflow of the run's version
  status,  \* status of the run
  tries,   \* retry_count
  cancel,  \* cancellation_requested_at IS NOT NULL
  asked,   \* the status a cancel request has read, or "none"
  pc,      \* where execute_run is
  i, k,    \* current step and its attempt
  page,    \* number of browsers open
  disk,    \* files of the user that exist
  made,    \* files of this attempt, known to the executor only
  rows,    \* files registered for the run (table artifacts)
  started, \* history: number of times each step was started
  ended,   \* history: number of times each step ended well
  done     \* history: steps that ended well in this attempt

vars == <<wf, status, tries, cancel, asked, pc, i, k, page, disk, made, rows,
          started, ended, done>>

world   == <<disk, made, rows>>
history == <<started, ended, done>>

(***************************************************************************)
(* Helpers.                                                                *)
(***************************************************************************)
Enabled(w) == {j \in 1..Len(w) : ~w[j].disabled}

NeedsBrowser(w) == \E j \in Enabled(w) : w[j].kind \in WebKinds

\* Mutant: one attempt too many.
AttemptsPlusOne(s) == s.retry + 2

Attempts(s) == s.retry + 1

\* The artifacts a step reports when it ends well.
FileOf(w, j) == IF w[j].kind \in RunDirKinds \cup PathKinds THEN {j} ELSE {}

\* relative_to(BASE_DIR) looks at the words of the path only: it raises for a
\* path elsewhere and for a relative one, which only a name joined to the run's
\* folder (an absolute one replaces it) has ceased to be.
Registrable(w, j) ==
  w[j].path = "inside" \/ (w[j].kind \in RunDirKinds /\ w[j].path = "relative")

\* The file a path names: the Hub runs in BASE_DIR (start-linux.sh), so a
\* relative path and an absolute one may be the same file.
Files == {"inside", "outside"}
FileAt(p) == IF p = "outside" THEN "outside" ELSE "inside"

\* Mutant: the file is replaced without asking.
ReplacesAnyFile(s, d) == TRUE

\* _ensure_can_write: only a path that does not exist, unless overwrite.
CanWrite(s, d) == s.kind \in WriteKinds => s.overwrite \/ FileAt(s.path) \notin d

\* A step that writes a file of the user: with an absolute name, a screenshot
\* or the output of a command does so without asking.
Writes(s) == s.kind \in WriteKinds \/ (s.kind \in RunDirKinds /\ s.path # "relative")

\* What a step makes of the disk.
AfterStep(s, d) == IF Writes(s) THEN d \cup {FileAt(s.path)}
                   ELSE IF s.kind = "file_delete" THEN d \ {FileAt(s.path)} ELSE d

Keywords == {"workflow", "inputs", "log"}

\* Mutant: an exception leaves the browser open.
LeftOpen(n) == n

AfterClose(n) == 0

\* Mutant: the attempt is not counted.
SameCount(n) == n

NextCount(n) == n + 1

Init ==
  /\ wf \in Workflows
  /\ status = "QUEUED" /\ tries = 0 /\ cancel = FALSE /\ asked = "none"
  /\ pc = "queued" /\ i = 1 /\ k = 1 /\ page = 0
  /\ disk = {} /\ made = {} /\ rows = {}
  /\ started = [j \in 1..Len(wf) |-> 0] /\ ended = started /\ done = {}

Goto(where) == /\ pc' = where
               /\ UNCHANGED <<wf, tries, cancel, asked>>

(***************************************************************************)
(* The run is claimed and its executor called.                             *)
(***************************************************************************)
\* A run with a cancel request is never claimed.
Begin ==
  /\ pc = "queued" /\ ~cancel
  /\ Goto("call") /\ status' = "RUNNING"
  /\ i' = 1 /\ k' = 1 /\ made' = {} /\ done' = {}
  /\ UNCHANGED <<page, disk, rows, started, ended>>

\* cancel_run reads the status, which refuses a run that is over ...
AskToCancel ==
  /\ asked = "none" /\ status \in {"RUNNING", "QUEUED"}
  /\ asked' = status
  /\ UNCHANGED <<wf, status, tries, cancel, pc, i, k, page, world, history>>

\* ... and commits: for a run it has seen executing only the request, for a
\* waiting one, which may be executing by now, the end as well.
CommitCancel ==
  /\ asked # "none"
  /\ asked' = "none" /\ cancel' = TRUE
  /\ IF asked = "RUNNING"
     THEN UNCHANGED <<status, pc>>
     ELSE status' = "CANCELLED" /\ pc' = IF pc = "queued" THEN "over" ELSE pc
  /\ UNCHANGED <<wf, tries, i, k, page, world, history>>

\* execute_run finds the request and does not call the executor.
CancelBeforeStart ==
  /\ pc = "call" /\ cancel
  /\ Goto("ending") /\ status' = "CANCELLED"
  /\ UNCHANGED <<i, k, page, world, history>>

\* executor.run(**run_kwargs): a keyword that run does not know is a
\* TypeError.  Then a browser is opened if an enabled step needs it.
Call ==
  /\ pc = "call" /\ ~cancel
  /\ Goto(IF ~(Keywords \subseteq Parameters) THEN "failing"
          ELSE IF NeedsBrowser(wf) THEN "launch" ELSE "next")
  /\ UNCHANGED <<status, i, k, page, world, history>>

Launch ==
  /\ pc = "launch"
  /\ Goto("next") /\ page' = page + 1
  /\ UNCHANGED <<status, i, k, world, history>>

\* The browser is not installed or there is no display.
LaunchFails ==
  /\ pc = "launch"
  /\ Goto("failing")
  /\ UNCHANGED <<status, i, k, page, world, history>>

(***************************************************************************)
(* _execute_steps.                                                         *)
(***************************************************************************)
\* should_cancel is passed only to an executor that takes it.
StopRequested == cancel /\ "should_cancel" \in Parameters

\* WorkflowCancelledError leaves the executor, whose finally closes the page.
StopBeforeStep ==
  /\ pc = "next" /\ i <= Len(wf) /\ StopRequested
  /\ Goto("ending") /\ status' = "CANCELLED" /\ page' = AfterClose(page)
  /\ UNCHANGED <<i, k, world, history>>

SkipStep ==
  /\ pc = "next" /\ i <= Len(wf) /\ ~StopRequested /\ wf[i].disabled
  /\ Goto("next") /\ i' = i + 1
  /\ UNCHANGED <<status, k, page, world, history>>

StartStep ==
  /\ pc = "next" /\ i <= Len(wf) /\ ~StopRequested /\ ~wf[i].disabled
  /\ Attempts(wf[i]) > 0
  /\ Goto("act") /\ k' = 1
  /\ started' = [started EXCEPT ![i] = @ + 1]
  /\ UNCHANGED <<status, i, page, world, ended, done>>

\* range(1, attempts + 1) is empty: the step is passed over in silence.
NoAttempts ==
  /\ pc = "next" /\ i <= Len(wf) /\ ~StopRequested /\ ~wf[i].disabled
  /\ Attempts(wf[i]) <= 0
  /\ Goto("next") /\ i' = i + 1
  /\ UNCHANGED <<status, k, page, world, history>>

\* _execute_step of any kind returns; a web kind without a page raises.
StepEnds ==
  /\ pc = "act" /\ (wf[i].kind \in WebKinds => page > 0) /\ CanWrite(wf[i], disk)
  /\ Goto("next") /\ i' = i + 1
  /\ disk' = AfterStep(wf[i], disk) /\ made' = made \cup FileOf(wf, i)
  /\ ended' = [ended EXCEPT ![i] = @ + 1] /\ done' = done \cup {i}
  /\ UNCHANGED <<status, k, page, rows, started>>

\* It raises, possibly after it has acted: the commit of its SUCCESS log is
\* inside the try as well.
LeavesBehind == \/ UNCHANGED disk
                \/ CanWrite(wf[i], disk) /\ disk' = AfterStep(wf[i], disk)

\* It is tried again.
StepIsRetried ==
  /\ pc = "act" /\ k < Attempts(wf[i])
  /\ Goto("act") /\ k' = k + 1
  /\ started' = [started EXCEPT ![i] = @ + 1] /\ LeavesBehind
  /\ UNCHANGED <<status, i, page, made, rows, ended, done>>

\* Mutant: the workflow goes on after a step that failed.
StepIsPassedOver ==
  /\ pc = "act" /\ k >= Attempts(wf[i])
  /\ Goto("next") /\ i' = i + 1
  /\ UNCHANGED <<status, k, page, world, history>>

\* The last attempt fails.  With a page, a screenshot is taken if that works
\* and execute_run registers it; the files of the steps before are forgotten.
StepGivesUp ==
  /\ pc = "act" /\ k >= Attempts(wf[i])
  /\ Goto("failing") /\ page' = AfterClose(page)
  /\ \/ page > 0 /\ rows' = rows \cup {<<"failure", i>>}
     \/ UNCHANGED rows
  /\ LeavesBehind
  /\ UNCHANGED <<status, i, k, made, history>>

StepsEnd ==
  /\ pc = "next" /\ i > Len(wf)
  /\ Goto("register") /\ page' = AfterClose(page)
  /\ UNCHANGED <<status, i, k, world, history>>

(***************************************************************************)
(* Back in execute_run.                                                    *)
(***************************************************************************)

\* Mutant: what cannot be registered is left out and the run succeeds.
RegisterWhatFits ==
  /\ pc = "register"
  /\ rows' = rows \cup {<<"file", j>> : j \in {m \in made : Registrable(wf, m)}}
  /\ Goto("ending") /\ status' = "SUCCESS"
  /\ UNCHANGED <<i, k, page, disk, made, history>>

\* The files are registered in order; for one that is not Registrable relative_to
\* raises, and the rows added before it are committed with the log entry of the
\* failure.
Register ==
  LET strange == {j \in made : ~Registrable(wf, j)}
  IN /\ pc = "register"
     /\ rows' = rows \cup {<<"file", j>> : j \in {m \in made : \A s \in strange : m < s}}
     /\ IF strange = {} THEN Goto("ending") /\ status' = "SUCCESS"
                        ELSE Goto("failing") /\ UNCHANGED status
     /\ UNCHANGED <<i, k, page, disk, made, history>>

\* FAILED is committed, with the log entry of the error ...
CommitFailed ==
  /\ pc = "failing"
  /\ Goto("finally") /\ status' = "FAILED"
  /\ UNCHANGED <<i, k, page, world, history>>

\* Mutant: one retry too many.
RetryOnceMore == status = "FAILED" /\ tries <= MaxRetries /\ ~cancel

\* ... and the finally block reads the row again: it decides on a retry ...
MayRetry == status = "FAILED" /\ tries < MaxRetries /\ ~cancel

DecideRetry ==
  /\ pc = "finally"
  /\ Goto(IF MayRetry THEN "requeue" ELSE "ending")
  /\ UNCHANGED <<status, i, k, page, world, history>>

\* ... and commits it, over a cancel request that has come in between.
Requeue ==
  /\ pc = "requeue"
  /\ pc' = "queued" /\ status' = "QUEUED" /\ tries' = NextCount(tries)
  /\ UNCHANGED <<wf, cancel, asked, i, k, page, world, history>>

Return ==
  /\ pc = "ending" /\ Goto("over")
  /\ UNCHANGED <<status, i, k, page, world, history>>

StepsNext == \/ StopBeforeStep \/ SkipStep \/ NoAttempts \/ StartStep
             \/ StepEnds \/ StepIsRetried \/ StepGivesUp \/ StepsEnd

RunNext == \/ Begin \/ CancelBeforeStart \/ Call \/ Launch \/ LaunchFails \/ StepsNext
           \/ Register \/ CommitFailed \/ DecideRetry \/ Requeue \/ Return

Next == RunNext \/ AskToCancel \/ CommitCancel

Spec == Init /\ [][Next]_vars

\* The queue claims the run again and the thread keeps executing: every step
\* is bounded by its timeout.
FairSpec == Spec /\ WF_vars(RunNext)

(***************************************************************************)
(* Properties.                                                             *)
(***************************************************************************)
Over == {"SUCCESS", "FAILED", "CANCELLED"}

\* Type invariant: run row, control state and files.
TypeOK ==
  /\ wf \in Workflows /\ status \in {"QUEUED", "RUNNING"} \cup Over
  /\ tries \in 0..MaxRetries /\ cancel \in BOOLEAN /\ asked \in {"none", "RUNNING", "QUEUED"}
  /\ pc \in {"queued", "call", "launch", "next", "act", "register", "failing",
             "finally", "requeue", "ending", "over"}
  /\ i \in 1..Len(wf) + 1 /\ k \in Nat /\ page \in 0..1
  /\ disk \subseteq Files /\ made \subseteq 1..Len(wf)
  /\ rows \subseteq {"file", "failure"} \X (1..Len(wf))
  /\ started \in [1..Len(wf) -> Nat] /\ ended \in [1..Len(wf) -> Nat]
  /\ done \subseteq 1..Len(wf)

\* A web step is attempted only with a page: the browser is opened before the
\* first step, from a look at the whole workflow, so a web step behind local
\* ones, skipped ones or retries still finds it (executor.py:80).
WebStepHasPage == pc = "act" /\ wf[i].kind \in WebKinds => page = 1

\* No browser outlives its attempt: whichever way the steps end (success,
\* exception, cancel), the requeued or finished run has none (executor.py:92).
NoBrowserLeft == pc \notin {"next", "act"} => page = 0

\* The two sides of the browser's life, over well-typed states: there when a web
\* step wants it, gone when the attempt is over.
BrowserFollowsAttempt == TypeOK /\ WebStepHasPage /\ NoBrowserLeft

\* Retries of a step multiply with retries of the run, and with nothing
\* else: how often a step may act on the outside world.
Granted(s) == IF s.retry >= 0 THEN s.retry + 1 ELSE 0
BudgetOfActions ==
  \A j \in 1..Len(wf) : started[j] <= Granted(wf[j]) * (MaxRetries + 1)

\* Steps whose attempt count is positive: a negative retry, which validation
\* lets pass, disables a step.
Effective(w) == {j \in Enabled(w) : w[j].retry >= 0}

\* SUCCESS means that the last attempt did every step of the workflow, after
\* however many failures, and that every file of that attempt is registered.
SuccessIsComplete ==
  status = "SUCCESS" =>
    /\ done = Effective(wf)
    /\ \A j \in done : FileOf(wf, j) \subseteq {m \in made : <<"file", m>> \in rows}

\* A report that is no path below BASE_DIR to the letter: a relative path a
\* step has written, or an absolute path or name elsewhere.
Strange(s) == \/ s.kind \in PathKinds /\ s.path \in {"relative", "outside"}
              \/ s.kind \in RunDirKinds /\ s.path = "outside"

\* A run whose steps have all ended well is not failed, nor its steps done
\* again, unless one of them makes such a report (closing the browser, which
\* is external, is taken to succeed).
CompletedIsSuccess ==
  pc = "failing" /\ i > Len(wf) => \E j \in done : Strange(wf[j])

\* Success is told from failure: SUCCESS is complete, and a complete attempt is
\* not FAILED but for the path of a report.
OutcomeIsTrue == SuccessIsComplete /\ CompletedIsSuccess

\* A step acts only after all steps before it have ended well in the same
\* attempt: a workflow is never resumed in the middle nor carried on after a
\* failure.
OrderedEffects ==
  pc = "act" => done = {j \in Effective(wf) : j < i}

\* Steps without overwrite never replace a file, whatever is retried and however
\* the path is given: on each file they end well once, and once more for every
\* start of a step that deletes it.
Total(f, S) ==
  LET upTo[n \in 0..Len(wf)] ==
        IF n = 0 THEN 0 ELSE upTo[n - 1] + (IF n \in S THEN f[n] ELSE 0)
  IN upTo[Len(wf)]
Protected(p) ==
  {j \in 1..Len(wf) : wf[j].kind \in WriteKinds /\ ~wf[j].overwrite /\ FileAt(wf[j].path) = p}
Deleting(p) == {j \in 1..Len(wf) : wf[j].kind = "file_delete" /\ FileAt(wf[j].path) = p}
ProtectedOnce ==
  \A p \in Files : Total(ended, Protected(p)) <= 1 + Total(started, Deleting(p))

\* Whatever fails, the run comes to an end: retries are used up.  The one bad
\* end is a cancel that was committed while the finally block was requeueing:
\* nobody claims the run again, until it is cancelled once more.
EveryRunEnds == <>[](\/ status \in Over /\ pc = "over"
                     \/ status = "QUEUED" /\ cancel)

(***************************************************************************)
(* What the documentation says and the code does not keep.                 *)
(***************************************************************************)
\* "Executar roda o robo ativo": a run of local steps fails, if it fails, in
\* one of its steps.
FailsInAStep ==
  status = "FAILED" => \E j \in 1..Len(wf) : started[j] > 0
=============================================================================

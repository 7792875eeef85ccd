# TLA+ models of HUB RPA

HUB RPA is a local hub for robots: a FastAPI process with a web page, an SQLite
database, a queue that executes robots in threads, a scheduler, and a recorder
that turns a browser session into a workflow. This directory holds TLA+ models
of the parts of it that change state, the TLC configurations that check them,
and machine-checked proofs of their main properties.

Paths below are relative to the repository; `src/` is its root.

## 1. Inventory

| Component | State | Operations | Interacts with | Hard behaviour | What makes it correct |
|---|---|---|---|---|---|
| Run queue: `domain/runs/queue.py`, `domain/runs/service.py` | table `runs`; in memory `_active`, the pool's queue, the dispatcher thread | create, claim, submit, execute, retry, cancel, recover, shut down | executor (call), monitoring (alerts), API and scheduler (create, cancel), catalog (deletion), SQLite (one writer) | N pool threads, request threads and the dispatcher act on the same rows; a row is read in one transaction and written in another; power loss; threads of an earlier process; robots deleted under it | one executor per run, bounded retries, cancel obeyed, nothing lost, every run comes to rest |
| Monitoring: `domain/monitoring.py` | table `alerts` | create an alert and mail it, resolve the alerts of a robot, summaries | queue, credentials (password of the mail account) | the mail is sent while the write lock is held | every failure is reported |
| Executor: `rpa_core/engine/executor.py`, `models.py` | browser, files, artifacts of an attempt | run a workflow step by step | queue (call, log, should_cancel), file system, sites, desktop | retries of steps inside retries of runs, failure at any point, cancel between steps | ordered effects, a budget of actions, no browser left, SUCCESS is complete |
| Validation and guided form: `rpa_core/engine/validation.py`, `apps/api/rpa_hub_api/main.py:159` | none | validate a workflow, build one from a form | catalog (asked before publication), readiness | the form of forty step types is listed twice, in validation and executor; the form's workflows are stored unvalidated | what is accepted is executable, what the form makes is accepted |
| Robot catalog: `domain/robots/repository.py`, `apps/api/rpa_hub_api/main.py` | tables `robots`, `robot_versions` | create, import, duplicate, version, edit, publish, activate, reconfigure, patch, delete | queue (published version), schedules, recorder (new versions) | requests that read, then write; reused ids; no foreign keys enforced | one published version, dense numbers, runs never use drafts, no orphans |
| Schedules: `infra/scheduler/service.py`, `domain/schedules/repository.py` | table `schedules`; jobs of APScheduler in memory | create, toggle, reload, fire, start, stop | queue (create a run), catalog (deletion removes rows) | reload is not atomic and runs in every request's thread | enabled schedules have jobs, nothing else fires |
| Recorder: `rpa_core/recorder/playwright_recorder.py` | one session per recording: thread, flag, status, events | start, record, stop, make a workflow | catalog (new version), Playwright | the thread, the page's events and two stop requests interleave; join times out | what is saved is what was done, in order, one variable per input |
| Credentials: `domain/secrets.py` | tables `secrets`, `robot_secrets` | save, test, resolve, rewrite legacy values; attach, exchange, rename, detach links | executor and monitoring (resolve), readiness, catalog (deletion removes links) | SELECT then INSERT or UPDATE; a read that rewrites and so locks; exchanges that merge two links; ids given again | the last save wins and can be read, a nickname names a credential, no link of another robot |
| Settings and key file: `infra/settings.py` | environment, key file | load the key, create it | credentials | two callers create the key; a kill between emptying and writing the file | every saved credential opens with the key in use |
| Readiness check: `domain/readiness.py` | none | list what a robot lacks | validation, credentials | computes in its own way what an attempt resolves | agrees with the attempt |
| Database session and migrations: `infra/db/session.py` | schema | `init_db` | all | killed between two statements; two Hubs at once | no row lost, a serving Hub has the whole schema |
| Workers, `apps/worker/local_worker.py` | table `workers` | register, heartbeat | queue (labels a run) | none that decides anything | - |
| Audit, authentication, desktop controller, schemas, web page | none, or rows nobody reads to decide | - | - | - | - |

Every component is also listed in `PROJECT.json` with its status; every hazard
found while reading is listed there at its line, with the properties that would
catch it going wrong and what those properties leave out.

## 2. Modules

| Module | Models | State and its counterpart |
|---|---|---|
| `RunLifecycle` | abstract: what the queue promises of one run | `phase` (absent, waiting, working, over), `attempts`, `budget` |
| `RunQueue` | the execution queue | `db` rows of `runs`; `alert`; `hub` phase of the process; `disp`, `active`, `pending` the dispatcher, `_active` and the pool's queue; `pc`, `job`, `step`, `snap`, `old` each pool thread inside `execute_run`; `req` each thread inside `cancel_run`; `starts`, `late` histories |
| `RunQueueProps` | properties of `RunQueue`, refinement mapping to `RunLifecycle` | - |
| `RunRemoval` | the queue again, with robots and runs that are deleted under it and ids that are given again | `robots`, `runs`, `entries` the tables (`no` is a number no other run ever gets); `making` a request that has looked up its robot; `active`, `dispatcher`, `disp`, `pending` the queue in memory; `at`, `job`, `left` each thread; `claims` numbers the jobs; histories `overlapped`, `outlived`, `reused` |
| `StepEngine` | one run, attempt after attempt: `execute_run`'s try block and `WorkflowExecutor` | `wf` the workflow, `cancel` and `asked` the cancel request and the one in progress, `pc`, `i`, `k` position, `page` open browsers, `disk`, `made` and `rows` files, artifacts of the attempt and rows of `artifacts`; histories `started`, `ended`, `done` |
| `StepForms` | the fields of every step type as `validate_workflow` and `_execute_step` see them, and the guided form as a function from payloads to workflows | pure; extends `StepEngine`, whose runs rely on it |
| `RobotCatalog` | robots, versions and the runs that refer to them | the three tables; `req` what each request in progress has read; histories `patched`, `straddled`, `drifted` |
| `HubSchedule` | schedules, jobs and reload | table, `jobs`, `todo` the rows a reload has still to add; histories `stale`, `orphaned`, `misfired` |
| `TeachSession` | one recording | thread, status, flag, `acted` what the user did and in which frame, `last` the `__rpaLastEvent` of each frame's document, `sent` and `got`, the stop requests, the saved versions |
| `CredentialStore` | the key file, the table `secrets` and every caller that builds a `SecretStore` | `env`, `file`, `made` where keys come from; `row` the table; `lock` SQLite's write lock; `call` each caller with its key and the row it has seen; histories `saved`, `old`, `raced`, `forked`, `cut` |
| `RobotSecrets` | the table `robot_secrets`, the requests on it, the resolver and the panel | `robots`, `link` the tables, `req` what each request has read; histories `served`, `merged`, `overlapped` |
| `Migration` | `init_db` on a SQLite file | `tables`, `rows`, `cols`, `cancelled` the file; `pc`, `todo` each Hub that starts: the statement it is about to run and what its last query found missing; histories `cut`, `overlapped`, `refused` |
| `..._proofs` | theorems about the module of that name; `RunQueue_proofs` also about `RunQueueProps`, `StepEngine_proofs` about `StepForms` | - |
| `PanelRequests_proofs` | theorems about `TeachSession` and `RobotSecrets`, the two parts that a user changes from the panel request by request | - |
| `MC...` | constants for TLC | - |

How they fit: `StepEngine` is the inside of the actions `CheckCancel`,
`StepSucceeds`, `AttemptFails`, `StopOnCancel` and `AttemptSucceeds` of
`RunQueue`, which only counts steps; `StepForms` says which of its steps fail for
their form. `RobotCatalog` provides the published version that
`RunQueue.CreateRun` and `HubSchedule.Fire` need, and the action `InsertVersion`
that ends a `TeachSession`; its set `Valid` is what `StepForms.Valid` decides.
`HubSchedule.Fire` is one of the callers of `CreateRun`. `CredentialStore` is what
a step of `StepEngine` that types a credential calls, after `RobotSecrets.Resolved`
has turned its nickname into a name. `RunRemoval` composes the queue with the
deletion of `RobotCatalog`, each reduced to what the other can notice.

### How code becomes actions

* SQLite with SQLAlchemy: a SELECT holds no transaction; the write lock is held
  from the first flush to the commit; the ORM writes only the columns that were
  changed, finds its row by id alone and raises when an UPDATE finds none. So a
  handler that reads, decides and commits is two actions with the row it read
  remembered in between (`CancelRead` and `CancelCommit`; `Load...` or `ReadFor...`
  and the writing action), and a handler whose first statement writes is one. The
  dispatcher registers its worker before it looks for a run, so its claim is one
  action.
* The id of a new row is the one behind the last (no AUTOINCREMENT), so the id of
  a deleted last row is given again; foreign keys are not enforced.
* `execute_run` is one action per commit. `Finally` reads the row that the last
  commit has expired; `Requeue`, `Finish` and `AlertFlush`/`AlertCommit` write it.
  In all three modules that have a retry, the decision and its commit are two
  actions, and the thread keeps its job until it has returned.
* The commit of a claim and the refresh after it are two actions of `RunRemoval`
  (`Claim`, `Refresh`): the row may be deleted in between, which ends the
  dispatcher's thread. In `RunQueue`, which deletes nothing, they are one.
* An alert e-mail is sent between flush and commit (20 s limit, against 5 s for
  the lock): with `SlowAlerts`, whoever needs the lock meanwhile may give up, and
  the dispatcher's thread ends, since nothing in `_loop` catches the error. In
  `CredentialStore` the same wait is `GivesUp`.
* `write_text` of the key file is two actions: it empties the file, then writes it.
* `reload` is one action per call of APScheduler.
* `relative_to(BASE_DIR)` compares words of paths, `artifacts_dir / name` is the name
  alone when it is absolute, and a file has a relative and an absolute path: `Paths`,
  `Registrable` and `FileAt` of `StepEngine` keep these three apart.
* Playwright, the user, APScheduler's own steps, the loss of power, SQLite's
  choice of ids and the order of rows in a query without ORDER BY are external,
  modelled from how the code uses them.

Abstractions: error texts, log entries, inputs, times and names are left out.
For `StepEngine` the forty step types are families told apart by what the engine
does differently for them: needs the page or not, reports a file in the run's
folder, reports the path it wrote, writes a path, deletes one; a path is inside
`BASE_DIR`, outside or relative. `StepForms` has every type, with fields that are
given or not. A workflow in `RobotCatalog` is
valid or not. A label in `TeachSession` is a value, and a name made from it a
sequence (label, counters). Encryption is the number of the key; the legacy
encoding is a key of its own that every store opens. An instant of time is not
modelled: schedules fire at any time and waits may time out at any time. Inputs
are drawn from small sets that include values outside the legal range (`Asked`
has -1, `retry` has -1, `timeout` has -1, 0 and one above the limit), as the code
accepts them.

## 3. What each run checks

| Run | Instance | Properties and what they say |
|---|---|---|
| `core` | 2 runs, 1 slot, 1 canceller, 2 steps, retries -1 or 1 asked, power loss, 2 starts, fair | `AtMostOneLateStep` (a cancel is obeyed), `RunningIsOwned` (no orphan shown as RUNNING), `FailureIsReported`, `EveryRunSettles`, and `TypeOK`, which holds the clamp of the retries |
| `zombies` | 2 runs, 1 slot, an old process that overlaps a new one, slow alerts | `NeverTwice` (no run has two owners, none that could be claimed has one), `RetryBound`, `ImplementsLifecycle` (the refinement) |
| `engine` | all 1,110 workflows of up to 3 steps over 10 step variants, 1 retry of the run, 1 cancel request at a time; forms of every step type, all blanks of the guided form | `BrowserFollowsAttempt`, `BudgetOfActions`, `OutcomeIsTrue`, `OrderedEffects`, `ProtectedOnce` (no file replaced that must not be), `EveryRunEnds`; `AcceptedIsExecutable`, `GuidedIsAccepted` |
| `versions` | 2 requests at once, 2 robots, 3 version ids, 1 run, 1 deletion or direct edit | `OneToRun` (one published version, an active robot has it), `CatalogIsConsistent` (dense numbers, no orphans, no run of a draft), `ExecutedIsQueued` |
| `schedule` | 2 requests at once, 2 schedules, 2 robots, 2 toggles, 1 deletion, 2 starts, fair | `NoScheduleForgotten`, `JobsFollowRows` (jobs exact, no misfire), `EnabledGetsJob` |
| `teach` | 2 stop requests, 2 frames, 2 events, 3 actions, new documents at any time, fair | `SavedIsWhatWasDone` (what was done, in order, but for what was said before), `VersionIsUsable` (own variables), `CompleteUnlessLate`, `RecordingEnds` |
| `upgrade` | 2 Hubs, 3 starts, files of 3 releases, 2 old and 2 new runs, kills anywhere | `NoRowLost`, `ServesWholeFile` (schema, history, details with their run), `StartsUnlessCut` |
| `store` | 2 callers, 1 credential, 2 values, 4 calls, 1 kill, with and without key and legacy rows, fair | `StoreIsReadable` (rows open with the key in use, the key file is complete), `LastSaveWins` (but for one race, which restores the legacy value), `LockIsFreed` |
| `links` | 2 requests at once, 2 robots, 3 link ids, 2 credentials (1 unreadable), 1 nickname, 3 calls, 1 deletion | `NicknameServed`, `LinksHaveRobots`, `ReadinessAgrees`, `OwnLinksOnly` |
| `removal` | 2 threads, 2 robots, 3 runs, two of which wait at first, 1 retry, 1 deletion, fair | `TablesAgree` (no log and no run inherited), `OverIsExecuted`, `NoRunWaitsForThread`, `RunsComeToRest` |

Properties that combine several conjuncts are defined from named parts in their
module, each with its own comment.

Why the bounds are enough to meet the interesting cases. Two runs are needed
for one to be claimed beside the other and for the order of claims; more runs
repeat pairs. Two starts give one recovery and one overlap. `core` uses one
slot; with more, a run may be requeued and claimed again while the thread that
requeued it is still returning, so that its entry in `_active` is overwritten and a
third job is handed out: the theorems hold for any number of slots, and `removal`
has two, with two runs that wait at first, which is what this takes. Three steps give a
web step before and behind local ones and a file written, deleted and written
again. Three version ids are what two requests need to race for number 2, or for a
reactivation of number 1 to meet a newer draft. Three actions in two frames
give a repetition, a pair of equal labels, and an action whose event was given
before in its frame with one of the other frame in between. Its two events are a
field whose label each frame has and a button; fields without a label are covered by
the theorems, which are about any events. Two callers and
four calls are two that create the key at once and two that use what they saved;
one name is enough because rows of different names never meet. Three calls on
links are two to link both credentials and one to exchange them, or an exchange
that meets a removal. Three runs and one deletion are a deleted run in the hands of
a thread, the run that gets its id, and one that is not concerned.

`CHECK_DEADLOCK FALSE` is set where the system may really stop: a run that is
over, tables of a small instance that are full, calls used up, a Hub whose
dispatcher has died or whose last schedule request has been served, a recording
that has ended.

Bounds in guards: `MaxBoots`, `MaxToggles`, `MaxDeletions`, `MaxCreated`, `MaxCalls`,
`MaxCrashes`, `MaxRare` (deletions and direct edits in the catalog together),
`MaxEvents`, `MaxStarts` and `MaxNewRuns` (migrations), `MaxRetries` (retries of a run
in `StepEngine` and `RunRemoval`; `RunQueue` clamps what is asked as the code
does); ids are bounded by `RobotIds`, `VersionIds`, `RunIds`, `LinkIds`, `ScheduleIds`
(an insert that needs a larger id is not taken). `MaxTimeout` is no bound of the
model but the setting `max_step_timeout_ms`.

### Conditions in the properties

Each history names an overlap after which the code does not keep a property, and
each is set only by that overlap, so a property with the condition says that this
is the only way.

* `straddled` (`RobotCatalog`): a request has read before a deletion and written
  after it, or a deletion has read its runs before one was inserted. Without the
  condition TLC finds orphans, a published version of the wrong robot and gaps;
  see the hazard at `src/domain/robots/repository.py:162`. The run stops exploring
  at such states (`BeforeStraddling`), about which no property says anything.
* `patched`: PATCH may write any status; such robots are left out of
  `ActiveIsRunnable`.
* `rare = 0` in `ExecutedIsQueued`: no version was edited in place, no robot deleted
  (and no status patched, which has the same counter).
* `cut`, `overlapped` (`Migration`): a start ended between its first rename and
  its commit; two starts were in progress at once. In the first case the next
  start either fails for ever on `run_steps_old` or serves empty tables, with the
  history in the renamed ones: `NoRowLost` needs no condition and says that it can
  still be brought back by hand.
* `stale`, `orphaned` (`HubSchedule`): since the last reload that ran alone, two
  reloads have overlapped or a deletion has left jobs behind, or a robot was
  deleted while a schedule of it was being made. `NoScheduleForgotten` needs no
  such condition: overlapping reloads may bring jobs back but never lose one.
* `forked`, `cut` (`CredentialStore`): a key was written over a key, which takes two
  callers that both found no file; the Hub was killed between emptying and writing
  the file. `raced`: the last save of a credential was committed while a caller that
  had read its row in the legacy encoding was not yet done with it. Only then may
  `LastSaveWins` find another value than the saved one, and it must be the one of the
  legacy row (`old`): so two saves never undo each other, and no rewrite touches a
  value that was saved.
* `merged` (`RobotSecrets`): an exchange for a credential that is linked already
  deletes the link with its nickname. `overlapped`: two requests, or a request and a
  deletion of the robot, met on one link.
* `overlapped`, `outlived`, `reused` (`RunRemoval`): a robot was deleted while a run
  of it was being worked on; while one was being made; a new run got the id of a run
  that was still being worked on. Being worked on (`Working`) ends with the last
  commit of `execute_run`: a thread that only has to return has nothing left to do
  with its run, and counted with the others (`Jobs`) the jobs do exceed the threads,
  without any deletion.
* `RunsComeToRest` excepts `outlived`, a run that no longer has a version, and runs
  that wait when a deletion has ended the dispatcher: `dispatcher = "dead"`, which
  only an overlapping deletion does. A fair dispatcher is one that goes on while its
  thread lives.
* `LogsAndRunsAgree` is about log entries and runs. The alerts of a robot and the
  folders of its runs stay when it is deleted, without any overlap, and a new robot
  with its id shows the alerts; they are not modelled.
* `SavedIsWhatWasDone` excepts what was said before. The page compares an event with
  the one before in the document of the same frame, so an action is lost although
  others came in between in other frames; `parameterize_events` compares with the step
  before, of whichever frame. Events name elements by label, text or id, so two
  elements that share them count as one: `Event` has only what the page tells. The
  property is of a version as a whole: it must repeat all actions up to some moment
  but for those.
* `EveryRunEnds` and `EveryRunSettles` except the cancel of run `stuck`.
* `CompletedIsSuccess` excepts the reports that `relative_to` refuses (`Strange`): a
  relative path that a step wrote, or an absolute path or artifact name elsewhere.
* `FailureIsReported` speaks of the first process: runs recovered after a crash
  get no alert, and no document says they do. `RunningIsOwned` is checked without
  slow alerts: a commit that fails for the lock leaves a run RUNNING until the next
  start.

### Disagreements between the code and what it says

Two configurations are expected to violate one property each; `PROJECT.json`
quotes the sentences.

| Run | Property | What happens |
|---|---|---|
| `stuck` | `NoStuckCancel` | a cancel accepted while an attempt is being requeued leaves the run QUEUED and never claimed |
| `call` | `FailsInAStep` | `execute_run` passes `workflow=`, the executor's parameter is `workflow_data`: each real run fails before its first step; tests use fakes |

`call` changes how the rest is to be read: the passing runs of `RunQueue`,
`RunRemoval` and `StepEngine` describe the queue with an executor whose signature
matches the call, as the repository's own tests do with their fakes. The constant
`Parameters` of `StepEngine` is that signature.

Other behaviour that a reader of the documents would not expect is allowed for by a
condition or an exception of a passing property:

* a report that is no absolute path below `BASE_DIR`, such as the one of
  `src/README.md:317` or any relative path, fails a run whose steps have all ended well
  and repeats its steps (`CompletedIsSuccess`);
* an edit in place changes what a queued run executes, although
  `src/ANALISE_TECNICA.md:32` calls the version immutable (`ExecutedIsQueued`);
* overlapping reloads bring the job of a paused schedule back
  (`src/README.md:386`, `stale`);
* exchanging a credential for one that is linked already loses the nickname
  (`src/README.md:130`, `merged`);
* rewriting a legacy value may overwrite a newer save (`raced`), and the first two
  callers of a new installation may each use a key of their own (`forked`);
* a run may be decided by a thread of a deleted run whose id it got (`reused`);
* a deletion right after the claim of a run ends the dispatcher, and no run is
  executed until the next start (`RunsComeToRest`);
* equal actions are dropped although actions in other frames came in between, and
  two fields with one label are recorded as one (`SavedIsWhatWasDone`).

### Fairness

Safety properties need none. `core`: the dispatcher's loop and the pool
threads keep running (each is a thread that blocks only with time limits), a
cancel request ends, and the Hub is started again after power loss (it is
the next start that recovers). Creating, cancelling, shutting down and losing
power are never forced. The instance has no slow alerts: with them the
dispatcher may die, and the queue then rests until a restart. `engine`: the
thread keeps executing, each step is bounded by its timeout, and a requeued run
is claimed again unless it is cancelled (shown by `core`). `schedule`: a request that has committed
goes on through its reload. `teach`: the recording thread goes on; Playwright's
launch, navigation and close have time limits. `store`: a thread that is not killed
goes on with its call; a wait for the lock ends by itself (`GivesUp`). `removal`: the
dispatcher goes on while its thread lives, and so do the pool threads. Users and requests need not act.

## 4. What is proved

For all values of the constants, from the assumptions named in each module
(`RunQueueAssumption`, `CatalogAssumption`, ...), which TLC evaluates in every run:

| Theorem | Module | States |
|---|---|---|
| `TypeCorrect` | `RunQueue_proofs` | `Spec => []TypeOK` |
| `StartedOnce` | | `Spec => []NeverTwice` |
| `RetriesBounded` | | `Spec => []RetryBound` |
| `CancelStopsTheRun` | | `Spec => []AtMostOneLateStep` |
| `RunningHasOwner` | | `Spec => []RunningIsOwned`, without slow alerts |
| `FailuresReported` | | `Spec => []FailureIsReported`, without slow alerts |
| `Refinement` | | `Spec => ImplementsLifecycle` |
| `OverAreExecuted` | `RunRemoval_proofs` | `Spec => []OverIsExecuted`, if `NSteps # 0` |
| `TablesAlwaysAgree` | | `Spec => []TablesAgree` |
| `NoneWaitsForThread` | | `Spec => []NoRunWaitsForThread` |
| `BrowserIsClosed` | `StepEngine_proofs` | `Spec => []BrowserFollowsAttempt` |
| `StepsInOrder` | | `Spec => []OrderedEffects` |
| `OutcomeTold` | | `Spec => []OutcomeIsTrue`, if the service calls the executor by parameters it has |
| `BudgetKept` | | `Spec => []BudgetOfActions` |
| `ProtectedWrites` | | `Spec => []ProtectedOnce` |
| `AcceptedRuns` | | `Spec => []AcceptedIsExecutable` |
| `GuidedRuns` | | `Spec => []GuidedIsAccepted` |
| `OneIsRun` | `RobotCatalog_proofs` | `Spec => []OneToRun` |
| `QueuedIsExecuted` | | `Spec => []ExecutedIsQueued` |
| `CatalogAgrees` | | `Spec => []CatalogIsConsistent` |
| `NothingForgotten` | `HubSchedule_proofs` | `Spec => []NoScheduleForgotten` |
| `JobsAreRows` | | `Spec => []JobsFollowRows` |
| `StoreStaysReadable` | `CredentialStore_proofs` | `Spec => []StoreIsReadable` |
| `SavesPrevail` | | `Spec => []LastSaveWins` |
| `VersionsAreUsable` | `PanelRequests_proofs` | `Spec => []VersionIsUsable` |
| `SavedIsDone` | | `Spec => []SavedIsWhatWasDone` |
| `CompleteOrLate` | | `Spec => []CompleteUnlessLate` |
| `NoLinkWithoutRobot` | | `LinksSpec => []LinksHaveRobots` |
| `NicknamesStay` | | `LinksSpec => []NicknameServed` |
| `LinksStayOwn` | | `LinksSpec => OwnLinksOnly` |
| `PanelAgrees` | | `LinksSpec => []ReadinessAgrees` |
| `RowsAreKept` | `Migration_proofs` | `Spec => NoRowLost` |
| `ServedFileIsWhole` | | `Spec => []ServesWholeFile` |
| `StartsSucceed` | | `Spec => []StartsUnlessCut` |

So every safety property of the passing runs is also a theorem. Three kinds of
theorems have a hypothesis on a constant.

* `~SlowAlerts`: with an alert that holds the write lock for longer than the others
  wait, a commit that gives up leaves its run RUNNING, or FAILED without alert, and
  both properties are false: TLC finds counterexamples with two slots. Run `core`,
  which checks them, has the same hypothesis.
* `NSteps # 0`: a workflow without steps ends without a log entry; validation keeps
  it from being published.
* `Keywords \subseteq Parameters` (`OutcomeTold`): with the signature of run `call` an
  attempt fails without having looked at its steps.

The arguments, by the strengthening each needs.

1. *Queue.* `TypeInv` is `TypeOK` with what typing a step needs: a busy thread holds
   a future, the dispatcher in "submit" holds a run. `SingleExecutor` is not
   inductive: a thread may be picked up for a run that somebody else could claim.
   `OwnInv` adds that a run with an owner is not QUEUED (nor uncreated). Steps fall
   into those that add no owner and make no owned run claimable (`OwnersShrink`,
   `ThreadMoves`), the claim, which takes a row that by `OwnInv` nobody owns, and the
   requeue, after which the thread no longer counts as an owner. A stale cancel is
   harmless because it never writes QUEUED, and recovery because it writes FAILED.
   `CountInv` ties `starts` to the column `retry_count`, the value a thread in
   "requeue" remembers to the column, for which it needs `OwnInv`, and `late` to the
   cancel column and to threads inside a step.
2. *What the panel shows of the queue.* `ShownInv` is `RunningIsOwned` for every phase
   of the Hub: what is RUNNING has an owner, or the Hub is down, or the recovery has
   it on its list. A thread may only let go of a run that is not RUNNING, which is
   `OutcomeInv`: once it has decided the outcome nobody writes RUNNING into its row,
   since only an owner does and by `OwnInv` there is no other. `ReportInv` says that
   a FAILED run has its alert or a thread that has not yet come to it.
3. *Refinement.* Two small invariants more (`HeldInv`: what a handler or the recovery
   remembers is a run that exists; `BlankInv`: an uncreated row has no cancel
   request). Then every step creates, begins or retries one run, or ends a set of
   runs, or leaves the abstract state alone (`QuietLife`).
4. *Deletions under the queue.* A run is known by its number, which no other ever
   gets; ids are given again. `OwnIds` says what holds until an id is given again
   while its run is still worked on: no two jobs that are worked on have one id
   (`Apart`), the row under the id of such a job is its own and not QUEUED
   (`HeldRows`), and its future is the one that is kept (`Kept`). A thread that only
   returns is outside of all three, which is what lets its run be claimed again and
   its future be replaced. So each job that is worked on has a slot of its own, which
   bounds them; `Logged` follows a run's first entry to its outcome; and while nothing
   overlaps, what is worked on exists (`StillThere`), so no id of it is free, and a
   refresh finds its row.
5. *Executor.* The position in the workflow (`Place`) and the page follow from the
   control state; `HasPage` says that a page is open as long as an attempt is at its
   steps, if any of them needs one. `Doing` is `OrderedEffects` for every place, not
   only "act", with the files made so far: the one invariant from which both the
   order and the completeness of SUCCESS follow. `Spent` counts what a step has
   already used of its budget: full attempts before, tries in this one.
   `ProtectedOnce` compares two sums over the steps. `PaidFor` says how they are
   balanced at any moment: every protected write that ended well is paid for by the
   start of a step that deletes, or by the file being there, and a deletion that is
   under way has not paid yet. So a write finds nothing to replace, a step that fails
   after it has deleted was counted when it was started, and one that fails after it
   has written leaves the file that keeps the next from writing.
6. *Forms.* Both theorems are about operators without state, at the moment a run
   relies on them; type by type, from the tables of the two readers.
7. *Catalog.* A request knows what it has loaded (`RequestsLoaded`); unless a
   deletion has overtaken it, that is still there (`StillThere`). From this no
   version is without robot, which makes an unused robot id really new; then two
   published versions of one robot are equal and an active robot has one. For
   numbers and references, `Meets` says what a request relies on besides: its number
   is at most the one that is next now, the list of runs of a deletion is complete,
   the version of a new run was published. The unique constraint does the rest: a
   number that is not taken and at most the next one is the next one. For the
   workflows of runs, a version keeps its workflow while `rare` stays 0.
8. *Schedules.* `Remembered` says what the callers inside a reload still owe to the
   scheduler: an enabled schedule has a job or is on somebody's list, or somebody
   will still read the table. `Exact` says what the jobs are at each place of a
   reload, as long as none has overlapped it.
9. *Credentials.* `Carries` says what a caller holds at each place, `KeysAgree` that a
   store once built has the key that would be loaded now. `LegacyIsOld` says that a
   row, or what a caller has seen of it, in the legacy encoding has the value of the
   start, and that this is the value saved last unless a save came while the caller
   was at it: so the rewrite either changes no value or undoes a save that raced.
10. *Links.* `RowsCurrent` says that the link and the robot a request has read are
    still what it has read, unless another met it; so what it writes by id goes to
    its own link, and a nickname moves with it.
11. *Recorder.* `LastIs` says that a document remembers the last action of its frame,
    or nothing. From it, `Follows`: there is an order-preserving choice of the action
    each report is of, and every other action was said before. The workflow is in the
    same way a selection of the reports (`Picks`), and the two compose to `Reached`,
    which `Made` carries to the drafts and the saved versions while the user goes on.
    `Owns` does the same for the variables, and `Waited` says that a request that did
    not time out finds the thread ended.
12. *Migration.* `NoRowLost` is an action property. A rename overwrites what is
    recorded for its new name, so `RowsInv` is needed: a table that does not exist has
    no rows. Each statement then keeps a row or moves it between a table and its
    renamed form; the copy drops only what it has copied. For a Hub that serves,
    `Stage` says, statement by statement, what a start that has the file to itself
    may rely on: which tables there are, whose runs the details belong to, and which
    columns its last query found missing.

Two parts are about sequences and sums of any length and are proved by induction.
The library's induction theorems take an operator as a parameter, which the
provers cannot instantiate, so the induction is done on sets, from
`WFMin` over the order of the naturals (lemma `Induction`): what the loop of
`parameterize_events` makes of events of any length (`After`, `UpTo` in
`PanelRequests_proofs`), and the sums of `ProtectedOnce` (`SumsAre`, `SumsBumped` in
`StepEngine_proofs`).

Model-checked only: liveness (`EveryRunSettles`, `EveryRunEnds`, `EnabledGetsJob`,
`RecordingEnds`, `LockIsFreed`, `RunsComeToRest`), which is outside the prover's
reach.

## 5. Not modelled

* Workers: a label on a run; of two first registrations at once the unique
  constraint refuses one, and nothing reads the rows back to decide.
* A firing due between `remove_all_jobs` and `add_job` is lost
  (`src/infra/scheduler/service.py:44`): instants of time are not modelled. A row
  whose cron expression a newer APScheduler refuses would end a reload in its loop
  (line 45): the expressions are checked when they are stored.
* A restart while threads of the earlier process still execute lets more robots act
  on one desktop than the limit says (`src/domain/runs/queue.py:50`): run `zombies`
  shows that each run still has one executor; the limit is of a process.
* Effects of single step types on sites, sheets, mail and the desktop, templating,
  the sandbox's roots and commands: a step succeeds or fails.
* Read-only handlers, summaries, response shapes, audit, authentication, the desktop
  controller and the web page.

`PROJECT.json` gives the reason for each component.

## 6. Plan

Done, in order of importance: queue with its abstract specification and proofs,
executor with validation and guided form, catalog, schedules, recorder, migrations,
credential store and links, deletion of robots under the queue.

What a next step would add:

1. Abstract specifications of the credential store and of the catalog, and proofs
   that the detailed modules implement them, as `RunLifecycle` is for the queue.
2. Files in `StepEngine`: moves and copies, artifacts with one name.
3. Cancels and restarts in `RunRemoval`.

## 7. Running

    tlc -workers 2 -config MCRunQueue_core.cfg MCRunQueue
    tlapm RunQueue_proofs.tla

Each configuration `MC<Module>_<run>.cfg` belongs to the module `MC<Module>`. The
definitions preceded by a comment "Mutant:" are deliberate errors: each differs
from the definition after it the way a bug in that code would, and replacing the
one by the other makes TLC report the property that `PROJECT.json` pairs with it.

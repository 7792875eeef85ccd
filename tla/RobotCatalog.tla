---------------------------- MODULE RobotCatalog ----------------------------
(***************************************************************************)
(* Robots, the numbered versions of their workflows and the runs that      *)
(* refer to them, as the HTTP handlers of main.py change them through      *)
(* RobotRepository.  Each handler reads without holding a transaction and  *)
(* writes in one commit, so that a request is two steps or more and other  *)
(* requests commit in between; SQLite gives the ids of deleted last rows   *)
(* again and does not enforce foreign keys.                                *)
(***************************************************************************)
EXTENDS Integers, FiniteSets

CONSTANTS
  Clients,      \* requests in progress at once
  RobotIds, VersionIds, RunIds, \* 1..n: ids the tables may reach
  Workflows,    \* what a version may hold
  Valid,        \* those validate_workflow finds no error in
  Empty,        \* the workflow of a new robot
  MaxRare       \* bound on robots deleted and on workflows and statuses
                \* written directly, together

ASSUME CatalogAssumption ==
  /\ Valid \subseteq Workflows /\ Empty \in Workflows \ Valid
  /\ RobotIds \cup VersionIds \cup RunIds \subseteq Nat \ {0}
  /\ MaxRare \in Nat

VARIABLES
  robot,     \* table robots: id -> status, or "absent"
  version,   \* table robot_versions: id -> row, or NoVersion
  run,       \* table runs: id -> row, or NoRun
  req,       \* client -> what its request has read, or NoReq
  rare,      \* number of deletions and direct edits
  patched,   \* history: robots whose status was written by PATCH
  straddled, \* history: a request has read before and written after a
             \* deletion (a deletion: before and after a new run)
  drifted    \* history: runs that have executed another workflow than queued

vars == <<robot, version, run, req, rare, patched, straddled, drifted>>

VersionRow == [robot : RobotIds, num : Nat \ {0}, wf : Workflows,
               status : {"draft", "published", "archived"},
               was : BOOLEAN] \* history: it has been published
NoVersion == [robot |-> 0, num |-> 0, wf |-> Empty, status |-> "absent", was |-> FALSE]

RunRow == [version : VersionIds,
           queued : Workflows] \* history: what the version held
NoRun == [version |-> 0, queued |-> Empty]

Req == [op : {"none", "copy", "paste", "version", "publish", "delete", "run"},
        robot : RobotIds \cup {0}, ver : VersionIds \cup {0}, num : Nat, wf : Workflows,
        flag : BOOLEAN, runs : SUBSET RunIds,
        stale : BOOLEAN] \* history: its reads were before a deletion or a new run
NoReq == [op |-> "none", robot |-> 0, ver |-> 0, num |-> 0, wf |-> Empty,
          flag |-> FALSE, runs |-> {}, stale |-> FALSE]

(***************************************************************************)
(* Queries of RobotRepository.                                             *)
(***************************************************************************)
Robots      == {b \in RobotIds : robot[b] # "absent"}
Versions    == {v \in VersionIds : version[v] # NoVersion}
VersionsOf(b)  == {v \in Versions : version[v].robot = b}
Published(b)   == {v \in VersionsOf(b) : version[v].status = "published"}
Newest(V)      == {v \in V : \A u \in V : version[u].num <= version[v].num}

\* latest_version and latest_published_version: the version, or {} for None.
LatestVersion(b)   == Newest(VersionsOf(b))
LatestPublished(b) == Newest(Published(b))

\* INTEGER PRIMARY KEY without AUTOINCREMENT: the id behind the last one.
NewId(id, used) == (id = 1 \/ id - 1 \in used) /\ \A u \in used : u < id

Row(b, n, w, st) == [robot |-> b, num |-> n, wf |-> w, status |-> st,
                     was |-> st = "published"]

NumberTaken(b, n) == \E v \in VersionsOf(b) : version[v].num = n

(***************************************************************************)
(* Requests.                                                               *)
(***************************************************************************)
Idle(c) == req[c].op = "none"

Load(c, r) == /\ Idle(c)
              /\ req' = [req EXCEPT ![c] = r]
              /\ UNCHANGED <<robot, version, run, rare, patched, straddled, drifted>>

Finish(c) == /\ req' = [req EXCEPT ![c] = NoReq]
             /\ straddled' = (straddled \/ req[c].stale)

\* A 404, a 400 or a 500 that leaves the tables alone.
Refuse(c) == /\ req' = [req EXCEPT ![c] = NoReq]
             /\ UNCHANGED <<robot, version, run, rare, patched, straddled, drifted>>

\* Inserts a robot and its version 1, in one commit.
Insert(w, publish) ==
  \E b \in RobotIds, v \in VersionIds :
    /\ NewId(b, Robots) /\ NewId(v, Versions) /\ ~NumberTaken(b, 1)
    /\ robot' = [robot EXCEPT ![b] = IF publish THEN "active" ELSE "draft"]
    /\ version' = [version EXCEPT ![v] = Row(b, 1, w, IF publish THEN "published" ELSE "draft")]
    /\ patched' = patched \ {b}

\* create_robot (empty), guided (whatever the template gives), import
\* (validated) and demo (validated by its author, published at once).
CreateRobot ==
  /\ \E w \in Workflows, publish \in BOOLEAN :
       (publish => w \in Valid) /\ Insert(w, publish)
  /\ UNCHANGED <<run, req, rare, straddled, drifted>>

\* duplicate_robot: workflow, then whether the source is published, then the
\* new robot, with whatever became of the source in the meantime.
LoadCopy(c, b) ==
  /\ robot[b] # "absent"
  /\ LET source == IF LatestPublished(b) # {} THEN LatestPublished(b) ELSE LatestVersion(b)
     IN \E w \in {version[v].wf : v \in source} \cup (IF source = {} THEN {Empty} ELSE {}) :
          Load(c, [NoReq EXCEPT !.op = "copy", !.robot = b, !.wf = w])

LoadCopyFlag(c) ==
  /\ req[c].op = "copy"
  /\ req' = [req EXCEPT ![c].op = "paste", ![c].flag = Published(req[c].robot) # {}]
  /\ UNCHANGED <<robot, version, run, rare, patched, straddled, drifted>>

InsertCopy(c) ==
  /\ req[c].op = "paste"
  /\ Insert(req[c].wf, req[c].flag) /\ Finish(c)
  /\ UNCHANGED <<run, rare, drifted>>

\* create_next_version, from POST versions (a workflow or a copy of the
\* latest), from the end of a recording, and from reconfigure, which also
\* writes the robot's status if it has read another one.
LoadVersion(c, b) ==
  /\ robot[b] # "absent"
  /\ \E reconfigure \in BOOLEAN, w \in Workflows :
       LET latest == LatestVersion(b)
       IN /\ (reconfigure /\ latest # {}) => w \in {version[v].wf : v \in latest}
          /\ \E n \in {version[v].num + 1 : v \in latest} \cup (IF latest = {} THEN {1} ELSE {}) :
               Load(c, [NoReq EXCEPT !.op = "version", !.robot = b, !.num = n,
                          !.wf = w, !.flag = reconfigure /\ robot[b] # "draft"])

\* Mutant: the latest version is written over.
OverwriteVersion(c) ==
  /\ req[c].op = "version" /\ VersionsOf(req[c].robot) # {}
  /\ version' = [v \in VersionIds |-> IF v \in LatestVersion(req[c].robot)
                                      THEN [version[v] EXCEPT !.wf = req[c].wf] ELSE version[v]]
  /\ Finish(c) /\ UNCHANGED <<robot, run, rare, patched, drifted>>

InsertVersion(c) ==
  LET q == req[c]
  IN /\ q.op = "version"
     /\ \/ /\ NumberTaken(q.robot, q.num) \/ (q.flag /\ robot[q.robot] = "absent")
           /\ Refuse(c)
        \/ /\ ~NumberTaken(q.robot, q.num) /\ (q.flag => robot[q.robot] # "absent")
           /\ \E v \in VersionIds :
                /\ NewId(v, Versions)
                /\ version' = [version EXCEPT ![v] = Row(q.robot, q.num, q.wf, "draft")]
           /\ robot' = IF q.flag THEN [robot EXCEPT ![q.robot] = "draft"] ELSE robot
           /\ Finish(c) /\ UNCHANGED <<run, rare, patched, drifted>>

\* PUT /robot-versions: any version, unvalidated.  (Writing what is there
\* already changes nothing.)
UpdateWorkflow ==
  /\ rare < MaxRare /\ rare' = rare + 1
  /\ \E v \in Versions : \E w \in Workflows \ {version[v].wf} :
       version' = [version EXCEPT ![v].wf = w]
  /\ UNCHANGED <<robot, run, req, patched, straddled, drifted>>

\* publish_version of any version, and activate, of the latest one: the
\* workflow is read and validated first.  When activate has read the robot as
\* "active" (flag), it does not write this status again.
LoadPublish(c, v) ==
  LET b == version[v].robot
  IN /\ v \in Versions /\ version[v].wf \in Valid
     /\ \E cached \in BOOLEAN :
          /\ cached => v \in LatestVersion(b) /\ robot[b] = "active"
          /\ Load(c, [NoReq EXCEPT !.op = "publish", !.robot = b, !.ver = v,
                        !.num = version[v].num, !.flag = cached])

\* Mutant: only what came before the version is archived.
AfterPublishOfNewer(q) ==
  [u \in VersionIds |->
     IF u = q.ver THEN [version[u] EXCEPT !.status = "published", !.was = TRUE]
     ELSE IF u \in VersionsOf(q.robot) /\ version[u].num < q.num
       THEN [version[u] EXCEPT !.status = "archived"] ELSE version[u]]

AfterPublish(q) ==
  [u \in VersionIds |->
     IF u = q.ver THEN [version[u] EXCEPT !.status = "published", !.was = TRUE]
     ELSE IF u \in VersionsOf(q.robot)
       THEN [version[u] EXCEPT !.status = "archived"] ELSE version[u]]

\* One commit; a version or robot row that has gone is an error.
Publish(c) ==
  LET q == req[c]
  IN /\ q.op = "publish"
     /\ \/ (robot[q.robot] = "absent" \/ version[q.ver] = NoVersion) /\ Refuse(c)
        \/ /\ robot[q.robot] # "absent" /\ version[q.ver] # NoVersion
           /\ robot' = IF q.flag THEN robot ELSE [robot EXCEPT ![q.robot] = "active"]
           /\ version' = AfterPublish(q)
           /\ Finish(c) /\ UNCHANGED <<run, rare, patched, drifted>>

\* PATCH /robots with a status: any text, shown as it is.
PatchStatus ==
  /\ rare < MaxRare /\ rare' = rare + 1
  /\ \E b \in Robots : \E st \in {"draft", "active"} \ {robot[b]} :
       robot' = [robot EXCEPT ![b] = st] /\ patched' = patched \cup {b}
  /\ UNCHANGED <<version, run, req, straddled, drifted>>

\* delete_robot: the ids of the runs, then everything in one commit.
LoadDelete(c, b) ==
  /\ robot[b] # "absent" /\ rare < MaxRare
  /\ Load(c, [NoReq EXCEPT !.op = "delete", !.robot = b,
                !.runs = {r \in RunIds : run[r] # NoRun
                            /\ run[r].version \in VersionsOf(b)}])

Straddle(ops) == [d \in Clients |-> [req[d] EXCEPT
                    !.stale = @ \/ req[d].op \in ops]]

\* Mutant: the runs of a deleted robot are kept.
RunsKept(q) == run
RunsAfterDelete(q) == [r \in RunIds |-> IF r \in q.runs THEN NoRun ELSE run[r]]

DeleteRobot(c) ==
  LET b == req[c].robot
  IN /\ req[c].op = "delete" /\ rare < MaxRare
     /\ robot' = [robot EXCEPT ![b] = "absent"]
     /\ version' = [v \in VersionIds |-> IF v \in VersionsOf(b) THEN NoVersion ELSE version[v]]
     /\ run' = RunsAfterDelete(req[c])
     /\ rare' = rare + 1
     /\ req' = [Straddle({"copy", "paste", "version", "publish", "delete", "run"})
                  EXCEPT ![c] = NoReq]
     /\ straddled' = (straddled \/ req[c].stale)
     /\ UNCHANGED <<patched, drifted>>

\* create_run, from POST run and from a schedule: the version is read, then
\* the run is inserted.
LoadRun(c, b) ==
  \E v \in LatestPublished(b) :
    Load(c, [NoReq EXCEPT !.op = "run", !.robot = b, !.ver = v])

InsertRun(c) ==
  LET v == req[c].ver
  IN /\ req[c].op = "run"
     /\ \E r \in RunIds :
          /\ NewId(r, {s \in RunIds : run[s] # NoRun})
          /\ run' = [run EXCEPT ![r] = [version |-> v, queued |-> version[v].wf]]
     /\ req' = [Straddle({"delete"}) EXCEPT ![c] = NoReq]
     /\ straddled' = (straddled \/ req[c].stale)
     /\ UNCHANGED <<robot, version, rare, patched, drifted>>

\* execute_run reads the workflow of the version when the executor is called,
\* for every attempt again.
ExecuteRun(r) ==
  /\ run[r] # NoRun /\ run[r].version \in Versions
  /\ drifted' = drifted \cup {s \in {r} : version[run[r].version].wf # run[r].queued}
  /\ UNCHANGED <<robot, version, run, req, rare, patched, straddled>>

Init ==
  /\ robot = [b \in RobotIds |-> "absent"]
  /\ version = [v \in VersionIds |-> NoVersion]
  /\ run = [r \in RunIds |-> NoRun]
  /\ req = [c \in Clients |-> NoReq]
  /\ rare = 0 /\ patched = {} /\ straddled = FALSE /\ drifted = {}

Request(c) ==
  \/ \E b \in RobotIds : LoadCopy(c, b) \/ LoadVersion(c, b) \/ LoadDelete(c, b) \/ LoadRun(c, b)
  \/ \E v \in VersionIds : LoadPublish(c, v)
  \/ LoadCopyFlag(c) \/ InsertCopy(c) \/ InsertVersion(c) \/ Publish(c)
  \/ DeleteRobot(c) \/ InsertRun(c)

Next == \/ CreateRobot \/ UpdateWorkflow \/ PatchStatus
        \/ \E c \in Clients : Request(c)
        \/ \E r \in RunIds : ExecuteRun(r)

Spec == Init /\ [][Next]_vars

(***************************************************************************)
(* Properties.                                                             *)
(***************************************************************************)
\* Type invariant: rows, requests and histories.
TypeOK ==
  /\ robot \in [RobotIds -> {"absent", "draft", "active"}]
  /\ version \in [VersionIds -> VersionRow \cup {NoVersion}]
  /\ run \in [RunIds -> RunRow \cup {NoRun}]
  /\ req \in [Clients -> Req]
  /\ rare \in 0..MaxRare /\ patched \subseteq RobotIds
  /\ straddled \in BOOLEAN /\ drifted \subseteq RunIds

\* At most one version of a robot is published, whatever activations, new
\* versions and reconfigurations interleave: the run button has one meaning.
\* (A publish that straddles a deletion may hit a reused id.)
OnePublished == ~straddled => \A b \in Robots : Cardinality(Published(b)) <= 1

\* "Robos active possuem uma versao publicada pronta para execucao": unless
\* PATCH has written the status by hand.
ActiveIsRunnable ==
  ~straddled => \A b \in Robots \ patched : robot[b] = "active" => Published(b) # {}

\* What the run button starts is defined: an active robot has exactly one
\* published version, any other at most one.
OneToRun == OnePublished /\ ActiveIsRunnable

\* The versions of a robot are numbered 1..n without gap or repetition, even
\* when several requests take the next number from the same latest version.
NumbersAreDense ==
  ~straddled => \A b \in Robots :
    {version[v].num : v \in VersionsOf(b)} = 1..Cardinality(VersionsOf(b))

\* No version outlives its robot and no run its version (the alerts of a
\* deleted robot do stay).
NoOrphans ==
  ~straddled => /\ \A v \in Versions : version[v].robot \in Robots
                /\ \A r \in RunIds : run[r] # NoRun => run[r].version \in Versions

\* A run never uses a draft: its version has been published, though it may be
\* archived, or even edited, since.
RunsUsePublished ==
  ~straddled => \A r \in RunIds : run[r] # NoRun => version[run[r].version].was

\* The tables agree with each other: numbers, references and statuses.
CatalogIsConsistent == TypeOK /\ NumbersAreDense /\ NoOrphans /\ RunsUsePublished

\* A queued run executes the workflow its version held when it was queued,
\* whatever is published, archived or recorded meanwhile, as long as nobody
\* edits a version in place (or deletes a robot, whose ids are given again).
ExecutedIsQueued == rare = 0 => drifted = {}
=============================================================================

------------------------- MODULE RobotCatalog_proofs -------------------------
(***************************************************************************)
(* Proofs about RobotCatalog: for any number of requests, robots, versions *)
(* and runs, and any workflows.                                            *)
(***************************************************************************)
EXTENDS RobotCatalog, FiniteSetTheorems, TLAPS

(***************************************************************************)
(* Types.                                                                  *)
(***************************************************************************)
LEMMA NothingTyped ==
  /\ NoReq \in Req /\ NoVersion \notin VersionRow
  /\ NoReq.op = "none" /\ NoReq.stale = FALSE
  /\ NoVersion.status = "absent" /\ NoVersion.robot = 0 /\ 0 \notin RobotIds
<1>1. 0 \notin RobotIds /\ Empty \in Workflows
  BY CatalogAssumption
<1>2. NoReq \in Req
  BY <1>1 DEF NoReq, Req
<1>. QED  BY <1>1, <1>2 DEF NoReq, NoVersion, VersionRow

LEMMA RowTyped ==
  ASSUME NEW b \in RobotIds, NEW n \in Nat \ {0}, NEW w \in Workflows,
         NEW st \in {"draft", "published", "archived"}
  PROVE  /\ Row(b, n, w, st) \in VersionRow
         /\ Row(b, n, w, st).robot = b /\ Row(b, n, w, st).status = st
<1>. DEFINE p == st = "published"
<1>1. p \in BOOLEAN
  OBVIOUS
<1>2. Row(b, n, w, st) = [robot |-> b, num |-> n, wf |-> w, status |-> st, was |-> p]
  BY DEF Row
<1>. HIDE DEF p
<1>. QED  BY <1>1, <1>2 DEF VersionRow

LEMMA VersionsTyped ==
  ASSUME TypeOK, NEW v \in Versions
  PROVE  /\ v \in VersionIds /\ version[v] \in VersionRow
         /\ version[v].robot \in RobotIds /\ version[v].num \in Nat \ {0}
         /\ version[v].wf \in Workflows
BY DEF TypeOK, Versions, VersionRow

\* The row of a request that a deletion or a new run has overtaken.
Overtaken(q, ops) == [q EXCEPT !.stale = @ \/ q.op \in ops]

LEMMA OvertakenTyped ==
  ASSUME NEW q \in Req, NEW ops
  PROVE  /\ Overtaken(q, ops) \in Req
         /\ Overtaken(q, ops).op = q.op /\ Overtaken(q, ops).robot = q.robot
         /\ Overtaken(q, ops).ver = q.ver /\ Overtaken(q, ops).num = q.num
         /\ ~Overtaken(q, ops).stale => ~q.stale /\ q.op \notin ops
<1>. DEFINE b == q.stale \/ q.op \in ops
<1>1. Overtaken(q, ops) = [q EXCEPT !.stale = b]
  BY DEF Overtaken
<1>2. b \in BOOLEAN
  OBVIOUS
<1>3. ~b => ~q.stale /\ q.op \notin ops
  OBVIOUS
<1>. HIDE DEF b
<1>4. /\ Overtaken(q, ops) \in Req
      /\ Overtaken(q, ops).op = q.op /\ Overtaken(q, ops).robot = q.robot
      /\ Overtaken(q, ops).ver = q.ver /\ Overtaken(q, ops).num = q.num
      /\ Overtaken(q, ops).stale = b
  BY <1>1, <1>2 DEF Req
<1>. QED  BY <1>3, <1>4

(***************************************************************************)
(* The inductive invariant.  A request knows what it has loaded; unless a  *)
(* deletion has overtaken it, that is still there.                         *)
(***************************************************************************)
Loaded(q) ==
  /\ q.op # "none" => q.robot \in RobotIds
  /\ q.op \in {"publish", "run"} => q.ver \in VersionIds
  /\ q.op = "version" => q.num # 0

RequestsLoaded == \A c \in Clients : Loaded(req[c])

StillThere(q) ==
  /\ q.op = "version" /\ ~q.stale => robot[q.robot] # "absent"
  /\ q.op = "publish" /\ ~q.stale => /\ q.ver \in Versions /\ version[q.ver].robot = q.robot
                                     /\ robot[q.robot] # "absent"

\* No version without robot and no two published versions of one robot.
VersionsHaveRobots == \A v \in Versions : robot[version[v].robot] # "absent"
PublishedIsUnique ==
  \A u, v \in Versions :
    /\ version[u].status = "published" /\ version[v].status = "published"
    /\ version[u].robot = version[v].robot
    => u = v
ActiveHasPublished ==
  \A b \in Robots \ patched :
    robot[b] = "active" => \E v \in Versions : version[v].robot = b /\ version[v].status = "published"

Sound == /\ \A c \in Clients : StillThere(req[c])
         /\ VersionsHaveRobots /\ PublishedIsUnique /\ ActiveHasPublished

LEMMA InitType == Init => TypeOK /\ RequestsLoaded /\ Sound
<1>. SUFFICES ASSUME Init PROVE TypeOK /\ RequestsLoaded /\ Sound
  OBVIOUS
<1>1. /\ robot \in [RobotIds -> {"absent", "draft", "active"}]
      /\ version \in [VersionIds -> VersionRow \cup {NoVersion}]
      /\ run \in [RunIds -> RunRow \cup {NoRun}]
  <2>1. robot \in [RobotIds -> {"absent", "draft", "active"}]
    BY DEF Init
  <2>2. version \in [VersionIds -> VersionRow \cup {NoVersion}]
    BY DEF Init
  <2>3. run \in [RunIds -> RunRow \cup {NoRun}]
    BY DEF Init
  <2>. QED  BY <2>1, <2>2, <2>3
<1>2. req \in [Clients -> Req] /\ \A c \in Clients : req[c] = NoReq
  BY NothingTyped DEF Init
<1>3. rare \in 0..MaxRare /\ patched \subseteq RobotIds /\ straddled \in BOOLEAN /\ drifted \subseteq RunIds
  <2>1. rare \in 0..MaxRare
    BY CatalogAssumption DEF Init
  <2>2. patched \subseteq RobotIds /\ straddled \in BOOLEAN /\ drifted \subseteq RunIds
    BY DEF Init
  <2>. QED  BY <2>1, <2>2
<1>4. TypeOK
  BY <1>1, <1>2, <1>3 DEF TypeOK
<1>5. RequestsLoaded /\ \A c \in Clients : StillThere(req[c])
  BY <1>2, NothingTyped DEF RequestsLoaded, Loaded, StillThere
<1>6. Versions = {} /\ Robots = {}
  BY DEF Init, Versions, Robots
<1>. QED  BY <1>4, <1>5, <1>6 DEF Sound, VersionsHaveRobots, PublishedIsUnique, ActiveHasPublished

(***************************************************************************)
(* The steps of a request, as far as its own row is concerned.             *)
(***************************************************************************)
Others(c) == \A d \in Clients \ {c} : req'[d] = req[d]

LEMMA LoadTyped ==
  ASSUME TypeOK, RequestsLoaded, NEW c \in Clients, NEW r \in Req, Loaded(r),
         req' = [req EXCEPT ![c] = r]
  PROVE  req' \in [Clients -> Req] /\ req'[c] = r /\ Others(c) /\ RequestsLoaded'
<1>1. req' \in [Clients -> Req] /\ req'[c] = r /\ Others(c)
  BY DEF TypeOK, Others
<1>2. \A d \in Clients : Loaded(req'[d])
  BY <1>1 DEF Others, RequestsLoaded
<1>. QED  BY <1>1, <1>2 DEF RequestsLoaded, Loaded

LEMMA OvertakeTyped ==
  ASSUME TypeOK, RequestsLoaded, NEW c \in Clients, NEW ops,
         req' = [Straddle(ops) EXCEPT ![c] = NoReq]
  PROVE  /\ req' \in [Clients -> Req] /\ req'[c] = NoReq /\ RequestsLoaded'
         /\ \A d \in Clients \ {c} : req'[d] = Overtaken(req[d], ops)
<1>1. Straddle(ops) = [d \in Clients |-> Overtaken(req[d], ops)]
  BY DEF Straddle, Overtaken
<1>2. \A d \in Clients : req[d] \in Req
  BY DEF TypeOK
<1>3. \A d \in Clients : Overtaken(req[d], ops) \in Req
  BY <1>2, OvertakenTyped
<1>4. req'[c] = NoReq /\ \A d \in Clients \ {c} : req'[d] = Overtaken(req[d], ops)
  BY <1>1
<1>5. req' \in [Clients -> Req]
  BY <1>1, <1>3, NothingTyped
<1>6. \A d \in Clients \ {c} : Loaded(req'[d])
  <2>. TAKE d \in Clients \ {c}
  <2>1. Loaded(req[d])
    BY DEF RequestsLoaded
  <2>2. /\ req'[d].op = req[d].op /\ req'[d].robot = req[d].robot /\ req'[d].ver = req[d].ver
        /\ req'[d].num = req[d].num
    BY <1>2, <1>4, OvertakenTyped
  <2>. QED  BY <2>1, <2>2 DEF Loaded
<1>7. Loaded(req'[c])
  BY <1>4, NothingTyped DEF Loaded
<1>. QED  BY <1>4, <1>5, <1>6, <1>7 DEF RequestsLoaded, Loaded

\* What Insert and a new version make of the tables.
LEMMA InsertTyped ==
  ASSUME TypeOK, NEW w \in Workflows, NEW publish \in BOOLEAN, Insert(w, publish)
  PROVE  /\ robot' \in [RobotIds -> {"absent", "draft", "active"}]
         /\ version' \in [VersionIds -> VersionRow \cup {NoVersion}]
         /\ patched' \subseteq RobotIds
<1>1. PICK b \in RobotIds, v \in VersionIds :
        /\ robot' = [robot EXCEPT ![b] = IF publish THEN "active" ELSE "draft"]
        /\ version' = [version EXCEPT ![v] = Row(b, 1, w, IF publish THEN "published" ELSE "draft")]
        /\ patched' = patched \ {b}
  BY DEF Insert
<1>. DEFINE st == IF publish THEN "published" ELSE "draft"
<1>2. st \in {"draft", "published", "archived"}
  OBVIOUS
<1>. HIDE DEF st
<1>3. Row(b, 1, w, st) \in VersionRow
  BY <1>2, RowTyped
<1>4. version' = [version EXCEPT ![v] = Row(b, 1, w, st)]
  BY <1>1 DEF st
<1>5. version' \in [VersionIds -> VersionRow \cup {NoVersion}]
  BY <1>3, <1>4 DEF TypeOK
<1>6. robot' \in [RobotIds -> {"absent", "draft", "active"}] /\ patched' \subseteq RobotIds
  BY <1>1 DEF TypeOK
<1>. QED  BY <1>5, <1>6

LEMMA PublishTyped ==
  ASSUME TypeOK, NEW q \in Req, q.ver \in Versions
  PROVE  /\ AfterPublish(q) \in [VersionIds -> VersionRow \cup {NoVersion}]
         /\ \A u \in VersionIds :
              /\ AfterPublish(q)[u] = NoVersion <=> version[u] = NoVersion
              /\ AfterPublish(q)[u].robot = version[u].robot
              /\ u = q.ver => AfterPublish(q)[u].status = "published"
              /\ u # q.ver /\ u \in VersionsOf(q.robot) => AfterPublish(q)[u].status = "archived"
              /\ u # q.ver /\ u \notin VersionsOf(q.robot) => AfterPublish(q)[u] = version[u]
<1>. DEFINE new(u) == AfterPublish(q)[u]
<1>1. \A u \in VersionIds :
        new(u) = IF u = q.ver THEN [version[u] EXCEPT !.status = "published", !.was = TRUE]
                 ELSE IF u \in VersionsOf(q.robot) THEN [version[u] EXCEPT !.status = "archived"]
                 ELSE version[u]
  BY DEF AfterPublish
<1>2. ASSUME NEW r \in VersionRow
      PROVE  /\ [r EXCEPT !.status = "published", !.was = TRUE] \in VersionRow
             /\ [r EXCEPT !.status = "published", !.was = TRUE].robot = r.robot
             /\ [r EXCEPT !.status = "published", !.was = TRUE].status = "published"
             /\ [r EXCEPT !.status = "archived"] \in VersionRow
             /\ [r EXCEPT !.status = "archived"].robot = r.robot
             /\ [r EXCEPT !.status = "archived"].status = "archived"
  BY DEF VersionRow
<1>. HIDE DEF new
<1>3. ASSUME NEW u \in VersionIds
      PROVE  /\ new(u) \in VersionRow \cup {NoVersion}
             /\ new(u) = NoVersion <=> version[u] = NoVersion
             /\ new(u).robot = version[u].robot
             /\ u = q.ver => new(u).status = "published"
             /\ u # q.ver /\ u \in VersionsOf(q.robot) => new(u).status = "archived"
             /\ u # q.ver /\ u \notin VersionsOf(q.robot) => new(u) = version[u]
  <2>1. CASE u = q.ver \/ u \in VersionsOf(q.robot)
    <3>1. version[u] \in VersionRow /\ version[u] # NoVersion
      BY <2>1 DEF VersionsOf, Versions, TypeOK
    <3>. QED  BY <1>1, <1>2, <2>1, <3>1, NothingTyped
  <2>2. CASE u # q.ver /\ u \notin VersionsOf(q.robot)
    BY <1>1, <2>2 DEF TypeOK
  <2>. QED  BY <2>1, <2>2
<1>4. AfterPublish(q) = [u \in VersionIds |-> new(u)]
  BY DEF AfterPublish, new
<1>5. AfterPublish(q) \in [VersionIds -> VersionRow \cup {NoVersion}]
  BY <1>3, <1>4
<1>. QED  BY <1>3, <1>5 DEF new

LEMMA FinishTyped ==
  ASSUME TypeOK, RequestsLoaded, NEW c \in Clients, Finish(c)
  PROVE  /\ req' \in [Clients -> Req] /\ req'[c] = NoReq /\ Others(c) /\ RequestsLoaded'
         /\ straddled' \in BOOLEAN /\ (~straddled' => ~straddled /\ ~req[c].stale)
<1>1. req' = [req EXCEPT ![c] = NoReq]
  BY DEF Finish
<1>2. Loaded(NoReq) /\ NoReq \in Req
  BY NothingTyped DEF Loaded
<1>3. straddled' = (straddled \/ req[c].stale)
  BY DEF Finish
<1>4. straddled' \in BOOLEAN /\ (~straddled' => ~straddled /\ ~req[c].stale)
  BY <1>3
<1>. QED  BY <1>1, <1>2, <1>4, LoadTyped

LEMMA RefuseTyped ==
  ASSUME TypeOK, RequestsLoaded, NEW c \in Clients, Refuse(c)
  PROVE  req' \in [Clients -> Req] /\ req'[c] = NoReq /\ Others(c) /\ RequestsLoaded'
<1>1. req' = [req EXCEPT ![c] = NoReq]
  BY DEF Refuse
<1>2. Loaded(NoReq) /\ NoReq \in Req
  BY NothingTyped DEF Loaded
<1>. QED  BY <1>1, <1>2, LoadTyped

LEMMA StepType == TypeOK /\ RequestsLoaded /\ [Next]_vars => TypeOK' /\ RequestsLoaded'
<1>. SUFFICES ASSUME TypeOK, RequestsLoaded, [Next]_vars PROVE TypeOK' /\ RequestsLoaded'
  OBVIOUS
<1>. DEFINE Requests == req' \in [Clients -> Req] /\ RequestsLoaded'
            Catalog  == /\ robot' \in [RobotIds -> {"absent", "draft", "active"}]
                        /\ version' \in [VersionIds -> VersionRow \cup {NoVersion}]
            Rest     == /\ run' \in [RunIds -> RunRow \cup {NoRun}]
                        /\ rare' \in 0..MaxRare /\ patched' \subseteq RobotIds
                        /\ straddled' \in BOOLEAN /\ drifted' \subseteq RunIds
<1>a. Requests /\ Catalog /\ Rest => TypeOK' /\ RequestsLoaded'
  BY DEF TypeOK
<1>b. \A c \in Clients : req[c] \in Req /\ Loaded(req[c])
  BY DEF TypeOK, RequestsLoaded
<1>c. UNCHANGED req => Requests
  BY DEF TypeOK, RequestsLoaded, Loaded
<1>d. UNCHANGED <<robot, version>> => Catalog
  BY DEF TypeOK
<1>e. UNCHANGED <<run, rare, patched, straddled, drifted>> => Rest
  BY DEF TypeOK
<1>. HIDE DEF Requests, Catalog, Rest
<1>1. CASE UNCHANGED vars
  BY <1>a, <1>c, <1>d, <1>e, <1>1 DEF vars
<1>2. CASE CreateRobot
  <2>1. PICK w \in Workflows, publish \in BOOLEAN : Insert(w, publish)
    BY <1>2 DEF CreateRobot
  <2>2. Catalog /\ patched' \subseteq RobotIds
    BY <2>1, InsertTyped DEF Catalog
  <2>3. Rest
    BY <1>2, <2>2 DEF CreateRobot, Rest, TypeOK
  <2>. QED  BY <1>a, <1>c, <1>2, <2>2, <2>3 DEF CreateRobot
<1>3. CASE UpdateWorkflow
  <2>1. PICK v \in Versions, w \in Workflows : version' = [version EXCEPT ![v].wf = w]
    BY <1>3 DEF UpdateWorkflow
  <2>2. version[v] \in VersionRow /\ v \in VersionIds
    BY VersionsTyped
  <2>3. [version[v] EXCEPT !.wf = w] \in VersionRow
    BY <2>2 DEF VersionRow
  <2>4. Catalog
    BY <1>3, <2>1, <2>2, <2>3 DEF UpdateWorkflow, Catalog, TypeOK
  <2>5. Rest
    BY <1>3, CatalogAssumption DEF UpdateWorkflow, Rest, TypeOK
  <2>. QED  BY <1>a, <1>c, <1>3, <2>4, <2>5 DEF UpdateWorkflow
<1>4. CASE PatchStatus
  <2>1. PICK b \in Robots, st \in {"draft", "active"} :
          robot' = [robot EXCEPT ![b] = st] /\ patched' = patched \cup {b}
    BY <1>4 DEF PatchStatus
  <2>2. b \in RobotIds
    BY DEF Robots
  <2>3. Catalog
    BY <1>4, <2>1, <2>2 DEF PatchStatus, Catalog, TypeOK
  <2>4. Rest
    BY <1>4, <2>1, <2>2, CatalogAssumption DEF PatchStatus, Rest, TypeOK
  <2>. QED  BY <1>a, <1>c, <1>4, <2>3, <2>4 DEF PatchStatus
<1>5. ASSUME NEW r \in RunIds, ExecuteRun(r) PROVE TypeOK' /\ RequestsLoaded'
  <2>1. Rest
    BY <1>5 DEF ExecuteRun, Rest, TypeOK
  <2>. QED  BY <1>a, <1>c, <1>d, <1>5, <2>1 DEF ExecuteRun
<1>6. ASSUME NEW c \in Clients, NEW r \in Req, Loaded(r), Load(c, r)
      PROVE  TypeOK' /\ RequestsLoaded'
  <2>1. Requests
    BY <1>6, LoadTyped DEF Load, Requests
  <2>. QED  BY <1>a, <1>d, <1>e, <1>6, <2>1 DEF Load
<1>7. ASSUME NEW c \in Clients, NEW b \in RobotIds, LoadCopy(c, b)
      PROVE  TypeOK' /\ RequestsLoaded'
  <2>1. \A v \in LatestPublished(b) \cup LatestVersion(b) : version[v].wf \in Workflows
    BY VersionsTyped DEF LatestPublished, LatestVersion, Newest, Published, VersionsOf
  <2>2. PICK w : /\ w \in Workflows
                 /\ Load(c, [NoReq EXCEPT !.op = "copy", !.robot = b, !.wf = w])
    <3>. DEFINE source == IF LatestPublished(b) # {} THEN LatestPublished(b) ELSE LatestVersion(b)
                texts  == {version[v].wf : v \in source} \cup (IF source = {} THEN {Empty} ELSE {})
    <3>1. \E w \in texts : Load(c, [NoReq EXCEPT !.op = "copy", !.robot = b, !.wf = w])
      BY <1>7 DEF LoadCopy
    <3>2. texts \subseteq Workflows
      BY <2>1, CatalogAssumption
    <3>. QED  BY <3>1, <3>2
  <2>3. [NoReq EXCEPT !.op = "copy", !.robot = b, !.wf = w] \in Req
    BY <2>2, NothingTyped DEF Req
  <2>4. Loaded([NoReq EXCEPT !.op = "copy", !.robot = b, !.wf = w])
    BY <2>2, NothingTyped DEF Loaded, Req
  <2>. QED  BY <1>6, <2>2, <2>3, <2>4
<1>8. ASSUME NEW c \in Clients, LoadCopyFlag(c) PROVE TypeOK' /\ RequestsLoaded'
  <2>. DEFINE flag == Published(req[c].robot) # {}
              r    == [req[c] EXCEPT !.op = "paste", !.flag = flag]
  <2>1. flag \in BOOLEAN /\ req' = [req EXCEPT ![c] = r]
    BY <1>8, <1>b DEF LoadCopyFlag, TypeOK
  <2>. HIDE DEF flag
  <2>2. r \in Req /\ Loaded(r)
    BY <1>8, <1>b, <2>1 DEF LoadCopyFlag, Req, Loaded
  <2>3. Requests
    BY <2>1, <2>2, LoadTyped DEF Requests
  <2>. QED  BY <1>a, <1>d, <1>e, <1>8, <2>3 DEF LoadCopyFlag
<1>9. ASSUME NEW c \in Clients, InsertCopy(c) PROVE TypeOK' /\ RequestsLoaded'
  <2>1. req[c].wf \in Workflows /\ req[c].flag \in BOOLEAN
    BY <1>b DEF Req
  <2>2. Catalog /\ patched' \subseteq RobotIds
    BY <1>9, <2>1, InsertTyped DEF InsertCopy, Catalog
  <2>3. Requests /\ straddled' \in BOOLEAN
    BY <1>9, FinishTyped DEF InsertCopy, Requests
  <2>4. Rest
    BY <1>9, <2>2, <2>3 DEF InsertCopy, Rest, TypeOK
  <2>. QED  BY <1>a, <2>2, <2>3, <2>4
<1>10. ASSUME NEW c \in Clients, NEW b \in RobotIds, LoadVersion(c, b)
       PROVE  TypeOK' /\ RequestsLoaded'
  <2>1. \A v \in LatestVersion(b) : version[v].num + 1 \in Nat \ {0}
    BY VersionsTyped DEF LatestVersion, Newest, VersionsOf
  <2>2. PICK reconfigure \in BOOLEAN, w \in Workflows, n \in Nat \ {0} :
          Load(c, [NoReq EXCEPT !.op = "version", !.robot = b, !.num = n,
                     !.wf = w, !.flag = reconfigure /\ robot[b] # "draft"])
    <3>. DEFINE numbers == {version[v].num + 1 : v \in LatestVersion(b)}
                             \cup (IF LatestVersion(b) = {} THEN {1} ELSE {})
    <3>1. \E reconfigure \in BOOLEAN, w \in Workflows : \E n \in numbers :
            Load(c, [NoReq EXCEPT !.op = "version", !.robot = b, !.num = n,
                       !.wf = w, !.flag = reconfigure /\ robot[b] # "draft"])
      BY <1>10 DEF LoadVersion
    <3>2. numbers \subseteq Nat \ {0}
      BY <2>1
    <3>. HIDE DEF numbers
    <3>. QED  BY <3>1, <3>2
  <2>. DEFINE flag == reconfigure /\ robot[b] # "draft"
              r    == [NoReq EXCEPT !.op = "version", !.robot = b, !.num = n, !.wf = w, !.flag = flag]
  <2>3. flag \in BOOLEAN /\ Load(c, r)
    BY <2>2
  <2>. HIDE DEF flag
  <2>4. r \in Req /\ Loaded(r)
    BY <2>2, <2>3, NothingTyped DEF Req, Loaded
  <2>. QED  BY <1>6, <2>3, <2>4
<1>11. ASSUME NEW c \in Clients, InsertVersion(c) PROVE TypeOK' /\ RequestsLoaded'
  <2>1. CASE Refuse(c)
    <3>1. Requests
      BY <2>1, RefuseTyped DEF Requests
    <3>. QED  BY <1>a, <1>d, <1>e, <2>1, <3>1 DEF Refuse
  <2>2. CASE ~Refuse(c)
    <3>1. PICK v \in VersionIds :
            version' = [version EXCEPT ![v] = Row(req[c].robot, req[c].num, req[c].wf, "draft")]
      BY <1>11, <2>2 DEF InsertVersion
    <3>2. Row(req[c].robot, req[c].num, req[c].wf, "draft") \in VersionRow
      BY <1>11, <1>b, RowTyped DEF InsertVersion, Loaded, Req
    <3>3. /\ robot' = IF req[c].flag THEN [robot EXCEPT ![req[c].robot] = "draft"] ELSE robot
          /\ Finish(c) /\ UNCHANGED <<run, rare, patched, drifted>>
      BY <1>11, <2>2 DEF InsertVersion
    <3>4. Catalog
      BY <3>1, <3>2, <3>3 DEF Catalog, TypeOK
    <3>5. Requests /\ straddled' \in BOOLEAN
      BY <3>3, FinishTyped DEF Requests
    <3>6. Rest
      BY <3>3, <3>5 DEF Rest, TypeOK
    <3>. QED  BY <1>a, <3>4, <3>5, <3>6
  <2>. QED  BY <2>1, <2>2
<1>12. ASSUME NEW c \in Clients, NEW v \in VersionIds, LoadPublish(c, v)
       PROVE  TypeOK' /\ RequestsLoaded'
  <2>. DEFINE q(flag) == [NoReq EXCEPT !.op = "publish", !.robot = version[v].robot, !.ver = v,
                            !.num = version[v].num, !.flag = flag]
  <2>0. PICK flag \in BOOLEAN : Load(c, q(flag)) /\ v \in Versions
    BY <1>12 DEF LoadPublish
  <2>. DEFINE r == q(flag)
  <2>1. Load(c, r) /\ v \in Versions
    BY <2>0
  <2>2. r \in Req /\ Loaded(r)
    BY <2>1, VersionsTyped, NothingTyped DEF Req, Loaded
  <2>. QED  BY <1>6, <2>1, <2>2
<1>13. ASSUME NEW c \in Clients, Publish(c) PROVE TypeOK' /\ RequestsLoaded'
  <2>1. CASE Refuse(c)
    <3>1. Requests
      BY <2>1, RefuseTyped DEF Requests
    <3>. QED  BY <1>a, <1>d, <1>e, <2>1, <3>1 DEF Refuse
  <2>2. CASE ~Refuse(c)
    <3>1. /\ version' = AfterPublish(req[c]) /\ version[req[c].ver] # NoVersion
          /\ robot' \in {robot, [robot EXCEPT ![req[c].robot] = "active"]}
          /\ Finish(c) /\ UNCHANGED <<run, rare, patched, drifted>> /\ req[c].op = "publish"
      BY <1>13, <2>2 DEF Publish
    <3>2. req[c] \in Req /\ req[c].ver \in Versions
      BY <1>b, <3>1 DEF Loaded, Versions
    <3>3. Catalog
      BY <3>1, <3>2, PublishTyped DEF Catalog, TypeOK
    <3>4. Requests /\ straddled' \in BOOLEAN
      BY <3>1, FinishTyped DEF Requests
    <3>5. Rest
      BY <3>1, <3>4 DEF Rest, TypeOK
    <3>. QED  BY <1>a, <3>3, <3>4, <3>5
  <2>. QED  BY <2>1, <2>2
<1>14. ASSUME NEW c \in Clients, NEW b \in RobotIds, LoadDelete(c, b)
       PROVE  TypeOK' /\ RequestsLoaded'
  <2>. DEFINE runs == {r \in RunIds : run[r] # NoRun /\ run[r].version \in VersionsOf(b)}
              r == [NoReq EXCEPT !.op = "delete", !.robot = b, !.runs = runs]
  <2>1. Load(c, r) /\ runs \subseteq RunIds
    BY <1>14 DEF LoadDelete
  <2>. HIDE DEF runs
  <2>2. r \in Req /\ Loaded(r)
    BY <2>1, NothingTyped DEF Req, Loaded
  <2>. QED  BY <1>6, <2>1, <2>2
<1>15. ASSUME NEW c \in Clients, DeleteRobot(c) PROVE TypeOK' /\ RequestsLoaded'
  <2>1. Requests
    BY <1>15, OvertakeTyped DEF DeleteRobot, Requests
  <2>2. Catalog
    BY <1>15 DEF DeleteRobot, Catalog, TypeOK
  <2>3. run' \in [RunIds -> RunRow \cup {NoRun}]
    BY <1>15 DEF DeleteRobot, RunsAfterDelete, TypeOK
  <2>4. rare' \in 0..MaxRare
    BY <1>15, CatalogAssumption DEF DeleteRobot, TypeOK
  <2>5. straddled' \in BOOLEAN
    BY <1>15 DEF DeleteRobot
  <2>6. Rest
    BY <1>15, <2>3, <2>4, <2>5 DEF DeleteRobot, Rest, TypeOK
  <2>. QED  BY <1>a, <2>1, <2>2, <2>6
<1>16. ASSUME NEW c \in Clients, NEW b \in RobotIds, LoadRun(c, b)
       PROVE  TypeOK' /\ RequestsLoaded'
  <2>1. PICK v \in LatestPublished(b) : Load(c, [NoReq EXCEPT !.op = "run", !.robot = b, !.ver = v])
    BY <1>16 DEF LoadRun
  <2>. DEFINE r == [NoReq EXCEPT !.op = "run", !.robot = b, !.ver = v]
  <2>2. v \in VersionIds
    BY <2>1 DEF LatestPublished, Newest, Published, VersionsOf, Versions
  <2>3. r \in Req /\ Loaded(r)
    BY <2>2, NothingTyped DEF Req, Loaded
  <2>. QED  BY <1>6, <2>1, <2>3
<1>17. ASSUME NEW c \in Clients, InsertRun(c) PROVE TypeOK' /\ RequestsLoaded'
  <2>1. Requests
    BY <1>17, OvertakeTyped DEF InsertRun, Requests
  <2>2. PICK r \in RunIds :
          run' = [run EXCEPT ![r] = [version |-> req[c].ver, queued |-> version[req[c].ver].wf]]
    BY <1>17 DEF InsertRun
  <2>3. req[c].ver \in VersionIds /\ version[req[c].ver].wf \in Workflows
    <3>1. req[c].ver \in VersionIds
      BY <1>17, <1>b DEF InsertRun, Loaded
    <3>2. NoVersion.wf \in Workflows
      BY CatalogAssumption DEF NoVersion
    <3>3. \A x \in VersionRow : x.wf \in Workflows
      BY DEF VersionRow
    <3>. QED  BY <3>1, <3>2, <3>3 DEF TypeOK
  <2>4. run' \in [RunIds -> RunRow \cup {NoRun}]
    BY <2>2, <2>3 DEF RunRow, TypeOK
  <2>5. straddled' \in BOOLEAN
    BY <1>17 DEF InsertRun
  <2>6. Rest
    BY <1>17, <2>4, <2>5 DEF InsertRun, Rest, TypeOK
  <2>. QED  BY <1>a, <1>d, <1>17, <2>1, <2>6 DEF InsertRun
<1>. QED
  BY <1>1, <1>2, <1>3, <1>4, <1>5, <1>7, <1>8, <1>9, <1>10, <1>11, <1>12, <1>13, <1>14,
     <1>15, <1>16, <1>17
     DEF Next, Request

(***************************************************************************)
(* Published versions.                                                     *)
(***************************************************************************)
TablesSound == VersionsHaveRobots /\ PublishedIsUnique /\ ActiveHasPublished

\* What has been loaded is still there after a step that removes nothing.
LEMMA NothingRemoved ==
  ASSUME TypeOK, NEW q \in Req, Loaded(q), StillThere(q),
         \A b \in RobotIds : robot[b] # "absent" => robot'[b] # "absent",
         \A v \in Versions : v \in Versions' /\ version'[v].robot = version[v].robot
  PROVE  StillThere(q)'
BY DEF StillThere, Loaded

\* Insert makes a robot out of ids that nothing uses.
LEMMA InsertSound ==
  ASSUME TypeOK, Sound, NEW w \in Workflows, NEW publish \in BOOLEAN, Insert(w, publish)
  PROVE  /\ TablesSound'
         /\ \A b \in RobotIds : robot[b] # "absent" => robot'[b] # "absent"
         /\ \A v \in Versions : v \in Versions' /\ version'[v].robot = version[v].robot
<1>1. PICK b \in RobotIds, v \in VersionIds :
        /\ NewId(b, Robots) /\ NewId(v, Versions)
        /\ robot' = [robot EXCEPT ![b] = IF publish THEN "active" ELSE "draft"]
        /\ version' = [version EXCEPT ![v] = Row(b, 1, w, IF publish THEN "published" ELSE "draft")]
        /\ patched' = patched \ {b}
  BY DEF Insert
<1>. DEFINE st == IF publish THEN "published" ELSE "draft"
<1>2. st \in {"draft", "published", "archived"} /\ (st = "published" <=> publish)
  OBVIOUS
<1>3. version' = [version EXCEPT ![v] = Row(b, 1, w, st)]
  BY <1>1
<1>. HIDE DEF st
<1>4. Row(b, 1, w, st) \in VersionRow /\ Row(b, 1, w, st).robot = b /\ Row(b, 1, w, st).status = st
  BY <1>2, RowTyped
<1>5. b \notin Robots /\ v \notin Versions
  <2>1. b \in Nat /\ v \in Nat
    BY CatalogAssumption
  <2>. QED  BY <1>1, <2>1 DEF NewId
<1>6. robot[b] = "absent" /\ robot'[b] = (IF publish THEN "active" ELSE "draft")
      /\ \A c \in RobotIds \ {b} : robot'[c] = robot[c]
  BY <1>1, <1>5 DEF Robots, TypeOK
<1>7. /\ version'[v] = Row(b, 1, w, st)
      /\ \A u \in VersionIds \ {v} : version'[u] = version[u]
  BY <1>3 DEF TypeOK
<1>8. Versions' = Versions \cup {v}
  BY <1>4, <1>7, NothingTyped DEF Versions
<1>9. \A u \in Versions : version'[u] = version[u] /\ version[u].robot \in RobotIds \ {b}
  <2>. TAKE u \in Versions
  <2>1. version[u].robot \in RobotIds /\ u \in VersionIds
    BY VersionsTyped
  <2>2. version[u].robot # b
    BY <1>6, <2>1 DEF Sound, VersionsHaveRobots
  <2>. QED  BY <1>5, <1>7, <2>1, <2>2
<1>10. VersionsHaveRobots'
  BY <1>4, <1>6, <1>7, <1>8, <1>9 DEF Sound, VersionsHaveRobots
<1>11. PublishedIsUnique'
  BY <1>4, <1>7, <1>8, <1>9 DEF Sound, PublishedIsUnique
<1>12. ActiveHasPublished'
  <2>. SUFFICES ASSUME NEW c \in RobotIds, robot'[c] = "active", c \notin patched'
                PROVE  \E u \in Versions' : version'[u].robot = c /\ version'[u].status = "published"
    BY DEF ActiveHasPublished, Robots
  <2>1. CASE c = b
    <3>1. st = "published"
      BY <1>2, <1>6, <2>1
    <3>. QED  BY <1>4, <1>7, <1>8, <2>1, <3>1
  <2>2. CASE c # b
    <3>1. robot[c] = "active" /\ c \notin patched
      BY <1>1, <1>6, <2>2
    <3>2. PICK u \in Versions : version[u].robot = c /\ version[u].status = "published"
      BY <3>1 DEF Sound, ActiveHasPublished, Robots
    <3>. QED  BY <1>8, <1>9, <3>2
  <2>. QED  BY <2>1, <2>2
<1>13. \A c \in RobotIds : robot[c] # "absent" => robot'[c] # "absent"
  BY <1>6
<1>14. \A u \in Versions : u \in Versions' /\ version'[u].robot = version[u].robot
  BY <1>8, <1>9
<1>. QED  BY <1>10, <1>11, <1>12, <1>13, <1>14 DEF TablesSound

\* The other requests of a step that removes nothing.
LEMMA OthersStillThere ==
  ASSUME TypeOK, RequestsLoaded, Sound, NEW c \in Clients, Others(c),
         \A b \in RobotIds : robot[b] # "absent" => robot'[b] # "absent",
         \A v \in Versions : v \in Versions' /\ version'[v].robot = version[v].robot
  PROVE  \A d \in Clients \ {c} : StillThere(req[d])'
<1>. TAKE d \in Clients \ {c}
<1>1. req[d] \in Req /\ Loaded(req[d]) /\ StillThere(req[d]) /\ req'[d] = req[d]
  BY DEF TypeOK, RequestsLoaded, Sound, Others
<1>2. /\ req[d].op = "version" /\ ~req[d].stale => robot'[req[d].robot] # "absent"
      /\ req[d].op = "publish" /\ ~req[d].stale =>
            /\ req[d].ver \in Versions' /\ version'[req[d].ver].robot = req[d].robot
            /\ robot'[req[d].robot] # "absent"
  BY <1>1 DEF StillThere, Loaded
<1>. QED  BY <1>1, <1>2 DEF StillThere

\* A request that ends has nothing to keep.
LEMMA NothingToKeep == ASSUME NEW c \in Clients, req'[c] = NoReq PROVE StillThere(req[c])'
BY NothingTyped DEF StillThere

\* A deletion takes the versions with the robot and overtakes every request.
LEMMA DeleteSound ==
  ASSUME TypeOK, RequestsLoaded, Sound, NEW c \in Clients, DeleteRobot(c)
  PROVE  Sound'
<1>. DEFINE b == req[c].robot
<1>1. /\ b \in RobotIds
      /\ robot' = [robot EXCEPT ![b] = "absent"]
      /\ version' = [v \in VersionIds |-> IF v \in VersionsOf(b) THEN NoVersion ELSE version[v]]
      /\ req' = [Straddle({"copy", "paste", "version", "publish", "delete", "run"}) EXCEPT ![c] = NoReq]
      /\ patched' = patched
  BY DEF DeleteRobot, RequestsLoaded, Loaded
<1>. HIDE DEF b
<1>2. \A d \in Clients : StillThere(req[d])'
  <2>1. ASSUME NEW d \in Clients \ {c} PROVE StillThere(req[d])'
    <3>1. req[d] \in Req
      BY DEF TypeOK
    <3>2. req'[d] = Overtaken(req[d], {"copy", "paste", "version", "publish", "delete", "run"})
      BY <1>1, OvertakeTyped
    <3>3. req'[d].op = req[d].op
      BY <3>1, <3>2, OvertakenTyped
    <3>4. req'[d].op \in {"version", "publish"} => req'[d].stale
      BY <3>1, <3>2, <3>3, OvertakenTyped
    <3>. QED  BY <3>4 DEF StillThere
  <2>2. req'[c] = NoReq
    BY <1>1, OvertakeTyped
  <2>. QED  BY <2>1, <2>2, NothingToKeep
<1>3. /\ Versions' = {v \in Versions : version[v].robot # b}
      /\ \A v \in Versions' : version'[v] = version[v]
  BY <1>1 DEF Versions, VersionsOf
<1>4. \A x \in RobotIds \ {b} : robot'[x] = robot[x]
  BY <1>1 DEF TypeOK
<1>5. robot'[b] = "absent"
  BY <1>1 DEF TypeOK
<1>6. VersionsHaveRobots'
  BY <1>3, <1>4, VersionsTyped DEF Sound, VersionsHaveRobots
<1>7. PublishedIsUnique'
  BY <1>3 DEF Sound, PublishedIsUnique
<1>8. ActiveHasPublished'
  <2>. SUFFICES ASSUME NEW x \in RobotIds, robot'[x] = "active", x \notin patched'
                PROVE  \E u \in Versions' : version'[u].robot = x /\ version'[u].status = "published"
    BY DEF ActiveHasPublished, Robots
  <2>1. x # b /\ robot[x] = "active" /\ x \notin patched
    BY <1>1, <1>4, <1>5
  <2>2. PICK u \in Versions : version[u].robot = x /\ version[u].status = "published"
    BY <2>1 DEF Sound, ActiveHasPublished, Robots
  <2>. QED  BY <1>3, <2>1, <2>2
<1>. QED  BY <1>2, <1>6, <1>7, <1>8 DEF Sound

\* A publication archives what was published, and activates its robot.
LEMMA PublishSound ==
  ASSUME TypeOK, RequestsLoaded, Sound, NEW c \in Clients, Publish(c), ~straddled'
  PROVE  Sound'
<1>1. CASE Refuse(c)
  <2>1. Others(c) /\ req'[c] = NoReq /\ UNCHANGED <<robot, version, patched>>
    BY <1>1, RefuseTyped DEF Refuse
  <2>2. \A d \in Clients : StillThere(req[d])'
    <3>1. Versions' = Versions
      BY <2>1 DEF Versions
    <3>. QED  BY <2>1, <3>1, NothingToKeep, OthersStillThere
  <2>. QED  BY <2>1, <2>2 DEF Sound, VersionsHaveRobots, PublishedIsUnique, ActiveHasPublished,
                              Versions, Robots
<1>2. CASE ~Refuse(c)
  <2>. DEFINE q == req[c]
  <2>1. /\ q.op = "publish" /\ robot[q.robot] # "absent"
        /\ robot' \in {robot, [robot EXCEPT ![q.robot] = "active"]}
        /\ version' = AfterPublish(q) /\ Finish(c) /\ patched' = patched
    BY <1>2 DEF Publish
  <2>2. ~q.stale /\ Others(c) /\ req'[c] = NoReq
    BY <2>1, FinishTyped
  <2>3. /\ q \in Req /\ q.robot \in RobotIds /\ q.ver \in Versions
        /\ version[q.ver].robot = q.robot
    BY <2>1, <2>2 DEF TypeOK, RequestsLoaded, Loaded, Sound, StillThere
  <2>. HIDE DEF q
  <2>4. /\ Versions' = Versions
        /\ \A u \in Versions :
             /\ version'[u].robot = version[u].robot
             /\ u = q.ver => version'[u].status = "published"
             /\ u # q.ver /\ version[u].robot = q.robot => version'[u].status = "archived"
             /\ version[u].robot # q.robot => version'[u] = version[u]
    BY <2>1, <2>3, PublishTyped DEF Versions, VersionsOf
  <2>5. robot'[q.robot] # "absent" /\ \A x \in RobotIds \ {q.robot} : robot'[x] = robot[x]
    BY <2>1, <2>3 DEF TypeOK
  <2>6. \A d \in Clients : StillThere(req[d])'
    BY <2>2, <2>4, <2>5, NothingToKeep, OthersStillThere
  <2>7. VersionsHaveRobots'
    BY <2>4, <2>5, VersionsTyped DEF Sound, VersionsHaveRobots
  <2>8. PublishedIsUnique'
    <3>1. \A u \in Versions : version[u].robot = q.robot /\ version'[u].status = "published" => u = q.ver
      BY <2>4
    <3>. QED  BY <2>3, <2>4, <3>1 DEF Sound, PublishedIsUnique
  <2>9. ActiveHasPublished'
    <3>. SUFFICES ASSUME NEW x \in RobotIds, robot'[x] = "active", x \notin patched'
                  PROVE  \E u \in Versions' : version'[u].robot = x /\ version'[u].status = "published"
      BY DEF ActiveHasPublished, Robots
    <3>1. CASE x = q.robot
      BY <2>3, <2>4, <3>1
    <3>2. CASE x # q.robot
      <4>1. PICK u \in Versions : version[u].robot = x /\ version[u].status = "published"
        BY <2>1, <2>5, <3>2 DEF Sound, ActiveHasPublished, Robots
      <4>. QED  BY <2>4, <3>2, <4>1
    <3>. QED  BY <3>1, <3>2
  <2>. QED  BY <2>6, <2>7, <2>8, <2>9 DEF Sound
<1>. QED  BY <1>1, <1>2

\* A new version is a draft of a robot that is there.
LEMMA InsertVersionSound ==
  ASSUME TypeOK, RequestsLoaded, Sound, NEW c \in Clients, InsertVersion(c), ~straddled'
  PROVE  Sound'
<1>1. CASE Refuse(c)
  <2>1. Others(c) /\ req'[c] = NoReq /\ UNCHANGED <<robot, version, patched>>
    BY <1>1, RefuseTyped DEF Refuse
  <2>2. \A d \in Clients : StillThere(req[d])'
    <3>1. Versions' = Versions
      BY <2>1 DEF Versions
    <3>. QED  BY <2>1, <3>1, NothingToKeep, OthersStillThere
  <2>. QED  BY <2>1, <2>2 DEF Sound, VersionsHaveRobots, PublishedIsUnique, ActiveHasPublished,
                              Versions, Robots
<1>2. CASE ~Refuse(c)
  <2>. DEFINE q == req[c]
              row == Row(q.robot, q.num, q.wf, "draft")
  <2>1. PICK v \in VersionIds : NewId(v, Versions) /\ version' = [version EXCEPT ![v] = row]
    BY <1>2 DEF InsertVersion
  <2>2. /\ q.op = "version" /\ Finish(c) /\ patched' = patched
        /\ robot' = IF q.flag THEN [robot EXCEPT ![q.robot] = "draft"] ELSE robot
    BY <1>2 DEF InsertVersion
  <2>3. ~q.stale /\ Others(c) /\ req'[c] = NoReq
    BY <2>2, FinishTyped
  <2>4. /\ q.robot \in RobotIds /\ q.num \in Nat \ {0} /\ q.wf \in Workflows
        /\ robot[q.robot] # "absent"
    BY <2>2, <2>3 DEF TypeOK, Req, RequestsLoaded, Loaded, Sound, StillThere
  <2>5. row \in VersionRow /\ row.robot = q.robot /\ row.status = "draft"
    BY <2>4, RowTyped
  <2>. HIDE DEF q, row
  <2>6. v \notin Versions
    <3>1. v \in Nat
      BY CatalogAssumption
    <3>. QED  BY <2>1, <3>1 DEF NewId
  <2>7. /\ version'[v] = row
        /\ \A u \in VersionIds \ {v} : version'[u] = version[u]
    BY <2>1 DEF TypeOK
  <2>8. Versions' = Versions \cup {v}
    BY <2>5, <2>7, NothingTyped DEF Versions
  <2>9. \A u \in Versions : version'[u] = version[u] /\ u # v
    BY <2>6, <2>7 DEF Versions
  <2>10. \A x \in RobotIds : robot'[x] = robot[x] \/ (robot'[x] = "draft" /\ robot[x] # "absent")
    <3>1. CASE robot' = robot
      BY <3>1
    <3>2. CASE robot' = [robot EXCEPT ![q.robot] = "draft"]
      BY <2>4, <3>2 DEF TypeOK
    <3>. QED  BY <2>2, <3>1, <3>2
  <2>11. \A x \in RobotIds : robot[x] # "absent" => robot'[x] # "absent"
    BY <2>10
  <2>12. \A d \in Clients : StillThere(req[d])'
    BY <2>3, <2>8, <2>9, <2>11, NothingToKeep, OthersStillThere
  <2>13. VersionsHaveRobots'
    <3>1. \A u \in Versions : robot'[version'[u].robot] # "absent"
      BY <2>9, <2>11, VersionsTyped DEF Sound, VersionsHaveRobots
    <3>2. robot'[version'[v].robot] # "absent"
      BY <2>4, <2>5, <2>7, <2>11
    <3>. QED  BY <2>8, <3>1, <3>2 DEF VersionsHaveRobots
  <2>14. PublishedIsUnique'
    BY <2>5, <2>7, <2>8, <2>9 DEF Sound, PublishedIsUnique
  <2>15. ActiveHasPublished'
    <3>. SUFFICES ASSUME NEW x \in RobotIds, robot'[x] = "active", x \notin patched'
                  PROVE  \E u \in Versions' : version'[u].robot = x /\ version'[u].status = "published"
      BY DEF ActiveHasPublished, Robots
    <3>1. robot[x] = "active" /\ x \notin patched
      BY <2>2, <2>10
    <3>2. PICK u \in Versions : version[u].robot = x /\ version[u].status = "published"
      BY <3>1 DEF Sound, ActiveHasPublished, Robots
    <3>. QED  BY <2>8, <2>9, <3>2
  <2>. QED  BY <2>12, <2>13, <2>14, <2>15 DEF Sound
<1>. QED  BY <1>1, <1>2

LEMMA StepSound ==
  TypeOK /\ RequestsLoaded /\ (~straddled => Sound) /\ [Next]_vars => (~straddled' => Sound')
<1>. SUFFICES ASSUME TypeOK, RequestsLoaded, ~straddled => Sound, [Next]_vars, ~straddled'
              PROVE  Sound'
  OBVIOUS
\* Nothing unstraddles a history.
<1>a. ASSUME straddled' = straddled PROVE Sound
  BY <1>a
<1>b. ASSUME NEW c \in Clients, straddled' = (straddled \/ req[c].stale) PROVE Sound
  BY <1>b
\* Steps that leave the tables alone.
<1>c. ASSUME UNCHANGED <<robot, version, patched>>, \A c \in Clients : StillThere(req[c])', Sound
      PROVE  Sound'
  BY <1>c DEF Sound, VersionsHaveRobots, PublishedIsUnique, ActiveHasPublished, Versions, Robots
<1>d. ASSUME NEW c \in Clients, NEW r \in Req, req' = [req EXCEPT ![c] = r],
             UNCHANGED <<robot, version, patched, straddled>>, StillThere(r)
      PROVE  Sound'
  <2>1. Sound
    BY <1>a, <1>d
  <2>2. Others(c) /\ req'[c] = r
    BY <1>d DEF Others, TypeOK
  <2>3. Versions' = Versions
    BY <1>d DEF Versions
  <2>4. \A d \in Clients \ {c} : StillThere(req[d])'
    BY <1>d, <2>1, <2>2, <2>3, OthersStillThere
  <2>5. StillThere(req[c])'
    BY <1>d, <2>2, <2>3 DEF StillThere
  <2>. QED  BY <1>c, <1>d, <2>1, <2>4, <2>5
<1>e. ASSUME UNCHANGED <<req, straddled>>, TablesSound',
             \A b \in RobotIds : robot[b] # "absent" => robot'[b] # "absent",
             \A v \in Versions : v \in Versions' /\ version'[v].robot = version[v].robot
      PROVE  Sound'
  <2>1. Sound
    BY <1>a, <1>e
  <2>2. \A c \in Clients : StillThere(req[c])'
    <3>. TAKE c \in Clients
    <3>1. req[c] \in Req /\ Loaded(req[c]) /\ StillThere(req[c]) /\ req'[c] = req[c]
      BY <1>e, <2>1 DEF TypeOK, RequestsLoaded, Sound
    <3>2. /\ req[c].op = "version" /\ ~req[c].stale => robot'[req[c].robot] # "absent"
          /\ req[c].op = "publish" /\ ~req[c].stale =>
                /\ req[c].ver \in Versions' /\ version'[req[c].ver].robot = req[c].robot
                /\ robot'[req[c].robot] # "absent"
      BY <1>e, <3>1 DEF StillThere, Loaded
    <3>. QED  BY <3>1, <3>2 DEF StillThere
  <2>. QED  BY <1>e, <2>2 DEF Sound, TablesSound
<1>1. CASE UNCHANGED vars
  <2>1. Sound
    BY <1>1, <1>a DEF vars
  <2>. QED  BY <1>1, <2>1 DEF vars, Sound, StillThere, VersionsHaveRobots, PublishedIsUnique,
                              ActiveHasPublished, Versions, Robots
<1>2. CASE CreateRobot
  <2>1. PICK w \in Workflows, publish \in BOOLEAN : Insert(w, publish)
    BY <1>2 DEF CreateRobot
  <2>2. Sound /\ UNCHANGED <<req, straddled>>
    BY <1>2, <1>a DEF CreateRobot
  <2>. QED  BY <1>e, <2>1, <2>2, InsertSound
<1>3. CASE UpdateWorkflow
  <2>1. PICK v \in Versions, w \in Workflows : version' = [version EXCEPT ![v].wf = w]
    BY <1>3 DEF UpdateWorkflow
  <2>2. Sound /\ UNCHANGED <<robot, req, straddled, patched>>
    BY <1>3, <1>a DEF UpdateWorkflow
  <2>3. v \in VersionIds /\ version[v] \in VersionRow
    BY VersionsTyped
  <2>4. /\ [version[v] EXCEPT !.wf = w] \in VersionRow
        /\ [version[v] EXCEPT !.wf = w].robot = version[v].robot
        /\ [version[v] EXCEPT !.wf = w].status = version[v].status
    BY <2>3 DEF VersionRow
  <2>5. /\ version'[v] = [version[v] EXCEPT !.wf = w]
        /\ \A u \in VersionIds \ {v} : version'[u] = version[u]
    BY <2>1, <2>3 DEF TypeOK
  <2>6. Versions' = Versions
    BY <2>3, <2>4, <2>5, NothingTyped DEF Versions
  <2>7. \A u \in Versions : version'[u].robot = version[u].robot /\ version'[u].status = version[u].status
    BY <2>4, <2>5 DEF Versions
  <2>8. TablesSound'
    BY <2>2, <2>6, <2>7 DEF TablesSound, Sound, VersionsHaveRobots, PublishedIsUnique,
                            ActiveHasPublished, Robots
  <2>. QED  BY <1>e, <2>2, <2>6, <2>7, <2>8
<1>4. CASE PatchStatus
  <2>1. PICK b \in Robots, st \in {"draft", "active"} :
          robot' = [robot EXCEPT ![b] = st] /\ patched' = patched \cup {b}
    BY <1>4 DEF PatchStatus
  <2>2. Sound /\ UNCHANGED <<version, req, straddled>>
    BY <1>4, <1>a DEF PatchStatus
  <2>3. /\ robot'[b] = st /\ robot[b] # "absent" /\ b \in RobotIds
        /\ \A x \in RobotIds \ {b} : robot'[x] = robot[x]
    BY <2>1 DEF Robots, TypeOK
  <2>4. \A x \in RobotIds : robot[x] # "absent" => robot'[x] # "absent"
    BY <2>3
  <2>5. Versions' = Versions
    BY <2>2 DEF Versions
  <2>6. VersionsHaveRobots' /\ PublishedIsUnique'
    BY <2>2, <2>4, <2>5, VersionsTyped DEF Sound, VersionsHaveRobots, PublishedIsUnique
  <2>7. ActiveHasPublished'
    BY <2>1, <2>2, <2>3, <2>5 DEF Sound, ActiveHasPublished, Robots
  <2>. QED  BY <1>e, <2>2, <2>4, <2>5, <2>6, <2>7 DEF TablesSound
<1>5. ASSUME NEW r \in RunIds, ExecuteRun(r) PROVE Sound'
  <2>1. Sound /\ UNCHANGED <<robot, version, req, patched>>
    BY <1>5, <1>a DEF ExecuteRun
  <2>. QED  BY <2>1 DEF Sound, StillThere, VersionsHaveRobots, PublishedIsUnique,
                        ActiveHasPublished, Versions, Robots
<1>6. ASSUME NEW c \in Clients, NEW op \in {"copy", "delete", "run"}, NEW r, r.op = op, Load(c, r)
      PROVE  Sound'
  <2>1. UNCHANGED <<robot, version, patched, straddled>> /\ req' = [req EXCEPT ![c] = r]
    BY <1>6 DEF Load
  <2>2. StillThere(r) /\ Sound
    BY <1>6, <1>a, <2>1 DEF StillThere
  <2>3. r \in Req
    <3>1. req' \in [Clients -> Req]
      BY StepType DEF TypeOK
    <3>2. req'[c] = r
      BY <2>1 DEF TypeOK
    <3>. QED  BY <3>1, <3>2
  <2>. QED  BY <1>d, <2>1, <2>2, <2>3
<1>7. ASSUME NEW c \in Clients, NEW b \in RobotIds, LoadCopy(c, b) \/ LoadDelete(c, b) \/ LoadRun(c, b)
      PROVE  Sound'
  <2>1. CASE LoadCopy(c, b)
    <3>1. PICK w : Load(c, [NoReq EXCEPT !.op = "copy", !.robot = b, !.wf = w])
      BY <2>1 DEF LoadCopy
    <3>2. [NoReq EXCEPT !.op = "copy", !.robot = b, !.wf = w].op = "copy"
      BY DEF NoReq
    <3>. QED  BY <1>6, <3>1, <3>2
  <2>2. CASE LoadDelete(c, b)
    <3>1. PICK runs : Load(c, [NoReq EXCEPT !.op = "delete", !.robot = b, !.runs = runs])
      BY <2>2 DEF LoadDelete
    <3>2. [NoReq EXCEPT !.op = "delete", !.robot = b, !.runs = runs].op = "delete"
      BY DEF NoReq
    <3>. QED  BY <1>6, <3>1, <3>2
  <2>3. CASE LoadRun(c, b)
    <3>1. PICK v : Load(c, [NoReq EXCEPT !.op = "run", !.robot = b, !.ver = v])
      BY <2>3 DEF LoadRun
    <3>2. [NoReq EXCEPT !.op = "run", !.robot = b, !.ver = v].op = "run"
      BY DEF NoReq
    <3>. QED  BY <1>6, <3>1, <3>2
  <2>. QED  BY <1>7, <2>1, <2>2, <2>3
<1>8. ASSUME NEW c \in Clients, LoadCopyFlag(c) PROVE Sound'
  <2>. DEFINE flag == Published(req[c].robot) # {}
              r    == [req[c] EXCEPT !.op = "paste", !.flag = flag]
  <2>1. flag \in BOOLEAN /\ req[c] \in Req
    BY DEF TypeOK
  <2>2. req' = [req EXCEPT ![c] = r] /\ UNCHANGED <<robot, version, patched, straddled>>
    BY <1>8, <2>1 DEF LoadCopyFlag, TypeOK
  <2>. HIDE DEF flag
  <2>3. r \in Req /\ r.op = "paste"
    BY <2>1 DEF Req
  <2>4. StillThere(r)
    BY <2>3 DEF StillThere
  <2>. HIDE DEF r
  <2>. QED  BY <1>d, <2>2, <2>3, <2>4
<1>9. ASSUME NEW c \in Clients, InsertCopy(c) PROVE Sound'
  <2>1. req[c].wf \in Workflows /\ req[c].flag \in BOOLEAN
    BY DEF TypeOK, Req
  <2>2. Insert(req[c].wf, req[c].flag) /\ Finish(c)
    BY <1>9 DEF InsertCopy
  <2>3. Sound /\ Others(c) /\ req'[c] = NoReq
    BY <1>b, <2>2, FinishTyped
  <2>4. /\ TablesSound'
        /\ \A b \in RobotIds : robot[b] # "absent" => robot'[b] # "absent"
        /\ \A v \in Versions : v \in Versions' /\ version'[v].robot = version[v].robot
    BY <2>1, <2>2, <2>3, InsertSound
  <2>5. \A d \in Clients : StillThere(req[d])'
    BY <2>3, <2>4, NothingToKeep, OthersStillThere
  <2>. QED  BY <2>4, <2>5 DEF Sound, TablesSound
<1>10. ASSUME NEW c \in Clients, NEW b \in RobotIds, LoadVersion(c, b) PROVE Sound'
  <2>1. PICK flag, w, n :
          Load(c, [NoReq EXCEPT !.op = "version", !.robot = b, !.num = n, !.wf = w, !.flag = flag])
    BY <1>10 DEF LoadVersion
  <2>. DEFINE r == [NoReq EXCEPT !.op = "version", !.robot = b, !.num = n, !.wf = w, !.flag = flag]
  <2>2. robot[b] # "absent" /\ r.op = "version" /\ r.robot = b
    BY <1>10 DEF LoadVersion, NoReq
  <2>3. StillThere(r)
    BY <2>2 DEF StillThere
  <2>. HIDE DEF r
  <2>4. req' = [req EXCEPT ![c] = r] /\ UNCHANGED <<robot, version, patched, straddled>>
    BY <2>1 DEF Load, r
  <2>5. r \in Req
    <3>1. req' \in [Clients -> Req]
      BY StepType DEF TypeOK
    <3>2. req'[c] = r
      BY <2>4 DEF TypeOK
    <3>. QED  BY <3>1, <3>2
  <2>. QED  BY <1>d, <2>3, <2>4, <2>5
<1>11. ASSUME NEW c \in Clients, InsertVersion(c) PROVE Sound'
  <2>1. straddled' = straddled \/ straddled' = (straddled \/ req[c].stale)
    BY <1>11 DEF InsertVersion, Refuse, Finish
  <2>2. Sound
    BY <1>a, <1>b, <2>1
  <2>. QED  BY <1>11, <2>2, InsertVersionSound
<1>12. ASSUME NEW c \in Clients, NEW v \in VersionIds, LoadPublish(c, v) PROVE Sound'
  <2>. DEFINE q(flag) == [NoReq EXCEPT !.op = "publish", !.robot = version[v].robot, !.ver = v,
                            !.num = version[v].num, !.flag = flag]
  <2>0. PICK flag \in BOOLEAN : Load(c, q(flag)) /\ v \in Versions
    BY <1>12 DEF LoadPublish
  <2>. DEFINE r == q(flag)
  <2>1. Load(c, r) /\ v \in Versions
    BY <2>0
  <2>2. r.op = "publish" /\ r.robot = version[v].robot /\ r.ver = v
    BY DEF NoReq
  <2>3. r \in Req
    BY <2>1, VersionsTyped, NothingTyped DEF Req
  <2>. HIDE DEF r
  <2>4. req' = [req EXCEPT ![c] = r] /\ UNCHANGED <<robot, version, patched, straddled>>
    BY <2>1 DEF Load
  <2>5. StillThere(r)
    BY <1>a, <2>1, <2>2, <2>4 DEF Sound, VersionsHaveRobots, StillThere
  <2>. QED  BY <1>d, <2>3, <2>4, <2>5
<1>13. ASSUME NEW c \in Clients, Publish(c) PROVE Sound'
  <2>1. straddled' = straddled \/ straddled' = (straddled \/ req[c].stale)
    BY <1>13 DEF Publish, Refuse, Finish
  <2>2. Sound
    BY <1>a, <1>b, <2>1
  <2>. QED  BY <1>13, <2>2, PublishSound
<1>14. ASSUME NEW c \in Clients, DeleteRobot(c) PROVE Sound'
  <2>1. Sound
    BY <1>14, <1>b DEF DeleteRobot
  <2>. QED  BY <1>14, <2>1, DeleteSound
<1>15. ASSUME NEW c \in Clients, InsertRun(c) PROVE Sound'
  <2>1. Sound /\ UNCHANGED <<robot, version, patched>> /\ req' = [Straddle({"delete"}) EXCEPT ![c] = NoReq]
    BY <1>15, <1>b DEF InsertRun
  <2>2. \A d \in Clients \ {c} : StillThere(req[d])'
    <3>. TAKE d \in Clients \ {c}
    <3>1. req[d] \in Req /\ StillThere(req[d])
      BY <2>1 DEF TypeOK, Sound
    <3>2. req'[d] = Overtaken(req[d], {"delete"})
      BY <2>1, OvertakeTyped
    <3>3. /\ req'[d].op = req[d].op /\ req'[d].robot = req[d].robot /\ req'[d].ver = req[d].ver
          /\ ~req'[d].stale => ~req[d].stale
      BY <3>1, <3>2, OvertakenTyped
    <3>. QED  BY <2>1, <3>1, <3>3 DEF StillThere, Versions
  <2>3. StillThere(req[c])'
    BY <2>1, OvertakeTyped, NothingToKeep
  <2>. QED  BY <1>c, <2>1, <2>2, <2>3
<1>. QED
  BY <1>1, <1>2, <1>3, <1>4, <1>5, <1>7, <1>8, <1>9, <1>10, <1>11, <1>12, <1>13, <1>14, <1>15
     DEF Next, Request

(***************************************************************************)
(* The theorem.                                                            *)
(***************************************************************************)
\* What the run button starts is defined: whatever activations, new versions,
\* copies and reconfigurations interleave, a robot has at most one published
\* version, and an active one exactly one, unless PATCH has written its
\* status or a request straddles a deletion.
THEOREM OneIsRun == Spec => []OneToRun
<1>. DEFINE Inv == TypeOK /\ RequestsLoaded /\ (~straddled => Sound)
<1>1. Init => Inv
  BY InitType
<1>2. Inv /\ [Next]_vars => Inv'
  BY StepType, StepSound
<1>3. Inv => OneToRun
  <2>. SUFFICES ASSUME Sound, NEW b \in Robots
                PROVE  /\ Cardinality(Published(b)) <= 1
                       /\ b \notin patched /\ robot[b] = "active" => Published(b) # {}
    BY DEF OneToRun, OnePublished, ActiveIsRunnable
  <2>1. \A u, v \in Published(b) : u = v
    BY DEF Sound, PublishedIsUnique, Published, VersionsOf
  <2>2. Cardinality(Published(b)) <= 1
    <3>1. CASE Published(b) = {}
      BY <3>1, FS_EmptySet
    <3>2. CASE Published(b) # {}
      <4>1. PICK v \in Published(b) : Published(b) = {v}
        BY <2>1, <3>2
      <4>2. Cardinality(Published(b)) = 1
        BY <4>1, FS_Singleton
      <4>. QED  BY <4>2
    <3>. QED  BY <3>1, <3>2
  <2>3. b \notin patched /\ robot[b] = "active" => Published(b) # {}
    BY DEF Sound, ActiveHasPublished, Published, VersionsOf
  <2>. QED  BY <2>2, <2>3
<1>. QED  BY <1>1, <1>2, <1>3, PTL DEF Spec

(***************************************************************************)
(* Workflows of queued runs.  As long as no version is edited in place and *)
(* no robot deleted (rare = 0), a version keeps its workflow.              *)
(***************************************************************************)
RunsHold ==
  /\ \A r \in RunIds : run[r] # NoRun => /\ run[r].version \in Versions
                                        /\ version[run[r].version].wf = run[r].queued
  /\ \A c \in Clients : req[c].op = "run" => req[c].ver \in Versions
  /\ drifted = {}

Kept == \A v \in Versions : v \in Versions' /\ version'[v].wf = version[v].wf

LEMMA NewRowKeeps ==
  ASSUME TypeOK, NEW v \in VersionIds, v \notin Versions, NEW r \in VersionRow,
         version' = [version EXCEPT ![v] = r]
  PROVE  Kept
BY NothingTyped DEF Kept, Versions, TypeOK

LEMMA NewIdIsNew ==
  ASSUME NEW v \in VersionIds, NewId(v, Versions)
  PROVE  v \notin Versions
BY CatalogAssumption DEF NewId

LEMMA InsertKeeps ==
  ASSUME TypeOK, NEW w \in Workflows, NEW publish \in BOOLEAN, Insert(w, publish)
  PROVE  Kept
<1>. DEFINE st == IF publish THEN "published" ELSE "draft"
<1>1. PICK b \in RobotIds, v \in VersionIds :
        NewId(v, Versions) /\ version' = [version EXCEPT ![v] = Row(b, 1, w, st)]
  BY DEF Insert
<1>2. st \in {"draft", "published", "archived"}
  OBVIOUS
<1>. HIDE DEF st
<1>3. Row(b, 1, w, st) \in VersionRow
  BY <1>2, RowTyped
<1>. QED  BY <1>1, <1>3, NewIdIsNew, NewRowKeeps

LEMMA PublishKeeps ==
  ASSUME TypeOK, NEW q \in Req, q.ver \in Versions, version' = AfterPublish(q)
  PROVE  Kept
<1>1. ASSUME NEW r \in VersionRow
      PROVE  /\ [r EXCEPT !.status = "published", !.was = TRUE].wf = r.wf
             /\ [r EXCEPT !.status = "archived"].wf = r.wf
  BY DEF VersionRow
<1>2. ASSUME NEW u \in Versions PROVE version'[u].wf = version[u].wf
  <2>1. version[u] \in VersionRow /\ u \in VersionIds
    BY VersionsTyped
  <2>2. \/ version'[u] = [version[u] EXCEPT !.status = "published", !.was = TRUE]
        \/ version'[u] = [version[u] EXCEPT !.status = "archived"]
        \/ version'[u] = version[u]
    BY <2>1 DEF AfterPublish
  <2>. QED  BY <1>1, <2>1, <2>2
<1>3. Versions' = Versions
  BY PublishTyped DEF Versions
<1>. QED  BY <1>2, <1>3 DEF Kept

LEMMA StepKeeps ==
  ASSUME TypeOK, RequestsLoaded, [Next]_vars, rare' = 0
  PROVE  rare = 0 /\ Kept
<1>0. rare \in Nat
  BY CatalogAssumption DEF TypeOK
<1>b. \A c \in Clients : req[c] \in Req /\ Loaded(req[c])
  BY DEF TypeOK, RequestsLoaded
<1>1. CASE UNCHANGED <<version, rare>>
  BY <1>1 DEF Kept, Versions
<1>2. CASE CreateRobot
  BY <1>2, InsertKeeps DEF CreateRobot
<1>3. CASE UpdateWorkflow \/ PatchStatus
  BY <1>0, <1>3 DEF UpdateWorkflow, PatchStatus
<1>4. ASSUME NEW c \in Clients, InsertCopy(c) PROVE rare = 0 /\ Kept
  BY <1>4, <1>b, InsertKeeps DEF InsertCopy, Req
<1>5. ASSUME NEW c \in Clients, InsertVersion(c) PROVE rare = 0 /\ Kept
  <2>1. CASE Refuse(c)
    BY <1>1, <2>1 DEF Refuse
  <2>2. CASE ~Refuse(c)
    <3>1. PICK v \in VersionIds :
            /\ NewId(v, Versions)
            /\ version' = [version EXCEPT ![v] = Row(req[c].robot, req[c].num, req[c].wf, "draft")]
      BY <1>5, <2>2 DEF InsertVersion
    <3>2. Row(req[c].robot, req[c].num, req[c].wf, "draft") \in VersionRow
      BY <1>5, <1>b, RowTyped DEF InsertVersion, Loaded, Req
    <3>3. rare' = rare
      BY <1>5, <2>2 DEF InsertVersion
    <3>. QED  BY <3>1, <3>2, <3>3, NewIdIsNew, NewRowKeeps
  <2>. QED  BY <2>1, <2>2
<1>6. ASSUME NEW c \in Clients, Publish(c) PROVE rare = 0 /\ Kept
  <2>1. CASE Refuse(c)
    BY <1>1, <2>1 DEF Refuse
  <2>2. CASE ~Refuse(c)
    <3>1. /\ version' = AfterPublish(req[c]) /\ version[req[c].ver] # NoVersion
          /\ rare' = rare /\ req[c].op = "publish"
      BY <1>6, <2>2 DEF Publish
    <3>2. req[c] \in Req /\ req[c].ver \in Versions
      BY <1>b, <3>1 DEF Loaded, Versions
    <3>. QED  BY <3>1, <3>2, PublishKeeps
  <2>. QED  BY <2>1, <2>2
<1>7. ASSUME NEW c \in Clients, DeleteRobot(c) PROVE FALSE
  BY <1>0, <1>7 DEF DeleteRobot
<1>8. ASSUME NEW c \in Clients, NEW b \in RobotIds,
             LoadCopy(c, b) \/ LoadVersion(c, b) \/ LoadDelete(c, b) \/ LoadRun(c, b)
      PROVE  UNCHANGED <<version, rare>>
  BY <1>8 DEF LoadCopy, LoadVersion, LoadDelete, LoadRun, Load
<1>9. ASSUME NEW c \in Clients, NEW v \in VersionIds, LoadPublish(c, v)
       PROVE  UNCHANGED <<version, rare>>
  BY <1>9 DEF LoadPublish, Load
<1>10. ASSUME NEW c \in Clients, LoadCopyFlag(c) \/ InsertRun(c)
       PROVE  UNCHANGED <<version, rare>>
  BY <1>10 DEF LoadCopyFlag, InsertRun
<1>11. ASSUME NEW r \in RunIds, ExecuteRun(r) PROVE UNCHANGED <<version, rare>>
  BY <1>11 DEF ExecuteRun
<1>12. CASE UNCHANGED vars
  BY <1>1, <1>12 DEF vars
<1>. QED
  BY <1>1, <1>2, <1>3, <1>4, <1>5, <1>6, <1>7, <1>8, <1>9, <1>10, <1>11, <1>12
     DEF Next, Request

\* Where the requests to run something, the runs and the drifted come from.
LEMMA StepRuns ==
  ASSUME TypeOK, RequestsLoaded, [Next]_vars, rare' = 0, RunsHold
  PROVE  /\ \A d \in Clients : req'[d].op = "run" => req'[d].ver \in Versions
         /\ \A r \in RunIds :
              run'[r] # NoRun => /\ run'[r].version \in Versions
                                 /\ version[run'[r].version].wf = run'[r].queued
         /\ drifted' = {}
<1>. DEFINE Requests == \A d \in Clients : req'[d].op = "run" => req'[d].ver \in Versions
            Runs     == \A r \in RunIds :
                          run'[r] # NoRun => /\ run'[r].version \in Versions
                                             /\ version[run'[r].version].wf = run'[r].queued
<1>0. rare \in Nat
  BY CatalogAssumption DEF TypeOK
<1>b. \A c \in Clients : req[c] \in Req
  BY DEF TypeOK
<1>c. UNCHANGED req => Requests
  BY DEF RunsHold
<1>d. UNCHANGED run => Runs
  BY DEF RunsHold
<1>e. UNCHANGED drifted => drifted' = {}
  BY DEF RunsHold
<1>f. ASSUME NEW c \in Clients, NEW r, req' = [req EXCEPT ![c] = r], r.op # "run" \/ r.ver \in Versions
      PROVE  Requests
  BY <1>f DEF RunsHold, TypeOK
<1>. HIDE DEF Requests, Runs
<1>. SUFFICES Requests /\ Runs /\ drifted' = {}
  BY DEF Requests, Runs
<1>1. CASE UNCHANGED vars
  BY <1>1, <1>c, <1>d, <1>e DEF vars
<1>2. CASE CreateRobot \/ UpdateWorkflow \/ PatchStatus
  BY <1>2, <1>c, <1>d, <1>e DEF CreateRobot, UpdateWorkflow, PatchStatus
<1>3. ASSUME NEW r \in RunIds, ExecuteRun(r) PROVE Requests /\ Runs /\ drifted' = {}
  BY <1>3, <1>c, <1>d DEF ExecuteRun, RunsHold
<1>4. ASSUME NEW c \in Clients, NEW r, Load(c, r), r.op # "run" \/ r.ver \in Versions
      PROVE  Requests /\ Runs /\ drifted' = {}
  BY <1>4, <1>d, <1>e, <1>f DEF Load
<1>5. ASSUME NEW c \in Clients, NEW b \in RobotIds, LoadCopy(c, b)
      PROVE  Requests /\ Runs /\ drifted' = {}
  <2>1. PICK w : Load(c, [NoReq EXCEPT !.op = "copy", !.robot = b, !.wf = w])
    BY <1>5 DEF LoadCopy
  <2>2. [NoReq EXCEPT !.op = "copy", !.robot = b, !.wf = w].op = "copy"
    BY DEF NoReq
  <2>. QED  BY <1>4, <2>1, <2>2
<1>6. ASSUME NEW c \in Clients, NEW b \in RobotIds, LoadVersion(c, b)
      PROVE  Requests /\ Runs /\ drifted' = {}
  <2>1. PICK flag, w, n :
          Load(c, [NoReq EXCEPT !.op = "version", !.robot = b, !.num = n, !.wf = w, !.flag = flag])
    BY <1>6 DEF LoadVersion
  <2>2. [NoReq EXCEPT !.op = "version", !.robot = b, !.num = n, !.wf = w, !.flag = flag].op = "version"
    BY DEF NoReq
  <2>. QED  BY <1>4, <2>1, <2>2
<1>7. ASSUME NEW c \in Clients, NEW b \in RobotIds, LoadDelete(c, b)
      PROVE  Requests /\ Runs /\ drifted' = {}
  <2>1. PICK runs : Load(c, [NoReq EXCEPT !.op = "delete", !.robot = b, !.runs = runs])
    BY <1>7 DEF LoadDelete
  <2>2. [NoReq EXCEPT !.op = "delete", !.robot = b, !.runs = runs].op = "delete"
    BY DEF NoReq
  <2>. QED  BY <1>4, <2>1, <2>2
<1>8. ASSUME NEW c \in Clients, NEW b \in RobotIds, LoadRun(c, b)
      PROVE  Requests /\ Runs /\ drifted' = {}
  <2>1. PICK v \in LatestPublished(b) : Load(c, [NoReq EXCEPT !.op = "run", !.robot = b, !.ver = v])
    BY <1>8 DEF LoadRun
  <2>2. [NoReq EXCEPT !.op = "run", !.robot = b, !.ver = v].ver = v
    BY DEF NoReq
  <2>3. v \in Versions
    BY <2>1 DEF LatestPublished, Newest, Published, VersionsOf
  <2>. QED  BY <1>4, <2>1, <2>2, <2>3
<1>9. ASSUME NEW c \in Clients, NEW v \in VersionIds, LoadPublish(c, v)
      PROVE  Requests /\ Runs /\ drifted' = {}
  <2>. DEFINE q(flag) == [NoReq EXCEPT !.op = "publish", !.robot = version[v].robot, !.ver = v,
                            !.num = version[v].num, !.flag = flag]
  <2>0. PICK flag \in BOOLEAN : Load(c, q(flag)) /\ v \in Versions
    BY <1>9 DEF LoadPublish
  <2>. DEFINE r == q(flag)
  <2>1. Load(c, r)
    BY <2>0
  <2>2. r.op = "publish"
    BY DEF NoReq
  <2>. QED  BY <1>4, <2>1, <2>2
<1>10. ASSUME NEW c \in Clients, LoadCopyFlag(c) PROVE Requests /\ Runs /\ drifted' = {}
  <2>. DEFINE r == [req[c] EXCEPT !.op = "paste", !.flag = Published(req[c].robot) # {}]
  <2>1. req' = [req EXCEPT ![c] = r]
    BY <1>10, <1>b DEF LoadCopyFlag, TypeOK
  <2>2. r.op = "paste"
    BY <1>b DEF Req
  <2>. QED  BY <1>10, <1>d, <1>e, <1>f, <2>1, <2>2 DEF LoadCopyFlag
<1>11. ASSUME NEW c \in Clients, InsertCopy(c) \/ InsertVersion(c) \/ Publish(c)
       PROVE  Requests /\ Runs /\ drifted' = {}
  <2>1. req' = [req EXCEPT ![c] = NoReq] /\ UNCHANGED <<run, drifted>>
    BY <1>11 DEF InsertCopy, InsertVersion, Publish, Refuse, Finish
  <2>. QED  BY <1>d, <1>e, <1>f, <2>1, NothingTyped
<1>12. ASSUME NEW c \in Clients, DeleteRobot(c) PROVE FALSE
  BY <1>0, <1>12 DEF DeleteRobot
<1>13. ASSUME NEW c \in Clients, InsertRun(c) PROVE Requests /\ Runs /\ drifted' = {}
  <2>1. /\ req[c].op = "run" /\ drifted' = drifted
        /\ req' = [Straddle({"delete"}) EXCEPT ![c] = NoReq]
    BY <1>13 DEF InsertRun
  <2>2. ASSUME NEW d \in Clients \ {c} PROVE req'[d].op = req[d].op /\ req'[d].ver = req[d].ver
    <3>1. req'[d] = Overtaken(req[d], {"delete"})
      BY <2>1, OvertakeTyped
    <3>. QED  BY <1>b, <3>1, OvertakenTyped
  <2>3. req'[c] = NoReq
    BY <2>1, OvertakeTyped
  <2>4. Requests
    BY <2>2, <2>3, NothingTyped DEF Requests, RunsHold
  <2>5. PICK r \in RunIds :
          run' = [run EXCEPT ![r] = [version |-> req[c].ver, queued |-> version[req[c].ver].wf]]
    BY <1>13 DEF InsertRun
  <2>6. /\ run'[r].version = req[c].ver /\ run'[r].queued = version[req[c].ver].wf
        /\ \A s \in RunIds \ {r} : run'[s] = run[s]
    BY <2>5 DEF TypeOK
  <2>7. Runs
    BY <2>1, <2>6 DEF Runs, RunsHold
  <2>. QED  BY <1>e, <2>1, <2>4, <2>7
<1>. QED
  BY <1>1, <1>2, <1>3, <1>5, <1>6, <1>7, <1>8, <1>9, <1>10, <1>11, <1>12, <1>13
     DEF Next, Request

\* A queued run executes the workflow its version held when it was queued, as
\* long as nobody edits a version in place or deletes a robot.
THEOREM QueuedIsExecuted == Spec => []ExecutedIsQueued
<1>. DEFINE Inv == TypeOK /\ RequestsLoaded /\ (rare = 0 => RunsHold)
<1>1. Init => Inv
  <2>. SUFFICES ASSUME Init PROVE Inv
    OBVIOUS
  <2>1. (\A c \in Clients : req[c] = NoReq) /\ (\A r \in RunIds : run[r] = NoRun) /\ drifted = {}
    BY DEF Init
  <2>2. RunsHold
    BY <2>1, NothingTyped DEF RunsHold
  <2>. QED  BY <2>2, InitType
<1>2. Inv /\ [Next]_vars => Inv'
  <2>. SUFFICES ASSUME Inv, [Next]_vars, rare' = 0 PROVE RunsHold'
    BY StepType
  <2>1. rare = 0 /\ Kept /\ RunsHold
    BY StepKeeps
  <2>2. /\ \A d \in Clients : req'[d].op = "run" => req'[d].ver \in Versions
        /\ \A r \in RunIds :
             run'[r] # NoRun => /\ run'[r].version \in Versions
                                /\ version[run'[r].version].wf = run'[r].queued
        /\ drifted' = {}
    BY <2>1, StepRuns
  <2>. QED  BY <2>1, <2>2 DEF RunsHold, Kept
<1>3. Inv => ExecutedIsQueued
  BY DEF ExecutedIsQueued, RunsHold
<1>. QED  BY <1>1, <1>2, <1>3, PTL DEF Spec

(***************************************************************************)
(* The tables and each other.  The definitions and the first lemmas are    *)
(* about any table of versions t and any table of runs x: a step relates   *)
(* those of the state to those of the next one.                            *)
(***************************************************************************)
Filled(t)  == {v \in VersionIds : t[v] # NoVersion}
Of(t, b)   == {v \in VersionIds : t[v] # NoVersion /\ t[v].robot = b}
Count(t, b) == Cardinality(Of(t, b))
RunsIn(t, x, b) == {r \in RunIds : x[r] # NoRun /\ x[r].version \in Of(t, b)}
WasPublished(t, v) == v \in VersionIds /\ t[v] # NoVersion /\ t[v].was

Fits(t, x) ==
  /\ IsFiniteSet(Filled(t))
  /\ \A b \in RobotIds : {t[v].num : v \in Of(t, b)} = 1..Count(t, b)
  /\ \A r \in RunIds : x[r] # NoRun => WasPublished(t, x[r].version)
  /\ \A v \in VersionIds : t[v].status = "published" => t[v].was

\* What a request that no deletion has overtaken relies on: its number is still
\* at most the next one, its list of runs is complete, its version published.
Meets(t, x, q) ==
  /\ q.op = "version" /\ ~q.stale => q.num <= Count(t, q.robot) + 1
  /\ q.op = "delete" /\ ~q.stale => RunsIn(t, x, q.robot) \subseteq q.runs
  /\ q.op = "run" /\ ~q.stale => WasPublished(t, q.ver)

Consistent == Fits(version, run) /\ \A c \in Clients : Meets(version, run, req[c])

LEMMA OfFinite ==
  ASSUME NEW t, IsFiniteSet(Filled(t)), NEW b
  PROVE  IsFiniteSet(Of(t, b)) /\ Count(t, b) \in Nat
<1>1. Of(t, b) \in SUBSET Filled(t)
  BY DEF Of, Filled
<1>2. IsFiniteSet(Of(t, b))
  BY <1>1, FS_Subset
<1>. QED  BY <1>2, FS_CardinalityType DEF Count

\* Rows that keep their robot and number, and stay published once they were.
LEMMA SameRows ==
  ASSUME NEW t, NEW u, NEW x, Fits(t, x),
         \A v \in VersionIds : /\ u[v] = NoVersion <=> t[v] = NoVersion
                               /\ u[v].robot = t[v].robot /\ u[v].num = t[v].num
                               /\ t[v].was => u[v].was
                               /\ u[v].status = "published" => u[v].was
  PROVE  Fits(u, x) /\ \A q : Meets(t, x, q) => Meets(u, x, q)
<1>1. Filled(u) = Filled(t) /\ \A b : Of(u, b) = Of(t, b)
  BY DEF Filled, Of
<1>2. \A b : Count(u, b) = Count(t, b) /\ RunsIn(u, x, b) = RunsIn(t, x, b)
  BY <1>1 DEF Count, RunsIn
<1>3. \A b : {u[v].num : v \in Of(u, b)} = {t[v].num : v \in Of(t, b)}
  BY <1>1 DEF Of
<1>4. \A v : WasPublished(t, v) => WasPublished(u, v)
  BY DEF WasPublished
<1>5. Fits(u, x)
  BY <1>1, <1>2, <1>3, <1>4 DEF Fits
<1>6. ASSUME NEW q, Meets(t, x, q) PROVE Meets(u, x, q)
  BY <1>2, <1>4, <1>6 DEF Meets
<1>. QED  BY <1>5, <1>6

\* A new row that takes the next number of its robot.
LEMMA NextRow ==
  ASSUME NEW t, NEW u, NEW x, Fits(t, x), NEW v \in VersionIds, t[v] = NoVersion,
         NEW b \in RobotIds,
         u[v] \in VersionRow, u[v].robot = b, u[v].num = Count(t, b) + 1,
         u[v].status = "published" => u[v].was,
         \A o \in VersionIds \ {v} : u[o] = t[o]
  PROVE  Fits(u, x) /\ \A q \in Req : Meets(t, x, q) => Meets(u, x, q)
<1>0. u[v] # NoVersion
  BY NothingTyped
<1>1. Filled(u) = Filled(t) \cup {v}
  BY <1>0 DEF Filled
<1>2. Of(u, b) = Of(t, b) \cup {v} /\ v \notin Of(t, b) /\ \A c : c # b => Of(u, c) = Of(t, c)
  BY <1>0 DEF Of
<1>3. IsFiniteSet(Filled(u))
  BY <1>1, FS_AddElement DEF Fits
<1>4. Count(t, b) \in Nat /\ IsFiniteSet(Of(t, b))
  BY OfFinite DEF Fits
<1>5. Count(u, b) = Count(t, b) + 1
  BY <1>2, <1>4, FS_AddElement DEF Count
<1>6. \A c : c # b => Count(u, c) = Count(t, c)
  BY <1>2 DEF Count
<1>7. \A c \in RobotIds : {u[o].num : o \in Of(u, c)} = 1..Count(u, c)
  <2>. TAKE c \in RobotIds
  <2>1. CASE c # b
    <3>1. {u[o].num : o \in Of(u, c)} = {t[o].num : o \in Of(t, c)}
      BY <1>2, <2>1 DEF Of
    <3>. QED  BY <1>6, <2>1, <3>1 DEF Fits
  <2>2. CASE c = b
    <3>1. {u[o].num : o \in Of(u, b)} = {t[o].num : o \in Of(t, b)} \cup {Count(t, b) + 1}
      BY <1>2 DEF Of
    <3>2. {t[o].num : o \in Of(t, b)} = 1..Count(t, b)
      BY DEF Fits
    <3>3. (1..Count(t, b)) \cup {Count(t, b) + 1} = 1..(Count(t, b) + 1)
      BY <1>4
    <3>. QED  BY <1>5, <2>2, <3>1, <3>2, <3>3
  <2>. QED  BY <2>1, <2>2
<1>8. \A o : WasPublished(t, o) => WasPublished(u, o)
  BY DEF WasPublished
<1>9. \A r \in RunIds : x[r] # NoRun => x[r].version # v
  BY DEF Fits, WasPublished
<1>10. \A c : RunsIn(u, x, c) \subseteq RunsIn(t, x, c)
  BY <1>9 DEF RunsIn, Of
<1>11. \A o \in VersionIds : u[o].status = "published" => u[o].was
  BY DEF Fits
<1>12. Fits(u, x)
  BY <1>3, <1>7, <1>8, <1>11 DEF Fits
<1>13. ASSUME NEW q \in Req, Meets(t, x, q) PROVE Meets(u, x, q)
  <2>1. q.op = "version" /\ ~q.stale => q.num <= Count(u, q.robot) + 1
    <3>1. q.num \in Nat
      BY DEF Req
    <3>2. CASE q.robot = b
      <4>1. Count(u, b) = Count(t, b) + 1 /\ Count(t, b) \in Nat
        BY <1>4, <1>5
      <4>. QED  BY <1>13, <3>1, <3>2, <4>1 DEF Meets
    <3>3. CASE q.robot # b
      BY <1>6, <1>13, <3>3 DEF Meets
    <3>. QED  BY <3>2, <3>3
  <2>. QED  BY <1>8, <1>10, <1>13, <2>1 DEF Meets
<1>. QED  BY <1>12, <1>13

\* A robot goes with its versions and all of their runs.
LEMMA RobotGone ==
  ASSUME NEW t, NEW u, NEW x, NEW y, Fits(t, x), NEW b, NEW R, RunsIn(t, x, b) \subseteq R,
         \A v \in VersionIds : u[v] = IF v \in Of(t, b) THEN NoVersion ELSE t[v],
         \A r \in RunIds : y[r] = IF r \in R THEN NoRun ELSE x[r]
  PROVE  Fits(u, y)
<1>1. Filled(u) \in SUBSET Filled(t)
  BY DEF Filled
<1>2. IsFiniteSet(Filled(u))
  BY <1>1, FS_Subset DEF Fits
<1>3. Of(u, b) = {} /\ \A c : c # b => Of(u, c) = Of(t, c)
  BY DEF Of
<1>4. \A c \in RobotIds : {u[v].num : v \in Of(u, c)} = 1..Count(u, c)
  <2>. TAKE c \in RobotIds
  <2>1. CASE c = b
    <3>1. Count(u, c) = 0 /\ 1..0 = {}
      BY <1>3, <2>1, FS_EmptySet DEF Count
    <3>. QED  BY <1>3, <2>1, <3>1
  <2>2. CASE c # b
    <3>1. Of(u, c) = Of(t, c)
      BY <1>3, <2>2
    <3>2. \A v \in Of(t, c) : u[v] = t[v]
      BY <2>2 DEF Of
    <3>3. {u[v].num : v \in Of(u, c)} = {t[v].num : v \in Of(t, c)}
      BY <3>1, <3>2
    <3>. QED  BY <3>1, <3>3 DEF Fits, Count
  <2>. QED  BY <2>1, <2>2
<1>5. \A r \in RunIds : y[r] # NoRun => WasPublished(u, y[r].version)
  BY DEF Fits, WasPublished, RunsIn
<1>6. \A v \in VersionIds : u[v].status = "published" => u[v].was
  BY NothingTyped DEF Fits
<1>. QED  BY <1>2, <1>4, <1>5, <1>6 DEF Fits

\* A new run of a version that was published.
LEMMA RunAdded ==
  ASSUME NEW t, NEW x, NEW y, Fits(t, x), NEW r \in RunIds, WasPublished(t, y[r].version),
         \A s \in RunIds \ {r} : y[s] = x[s]
  PROVE  Fits(t, y)
BY DEF Fits

\* Requests that rely on nothing of the tables.
LEMMA NothingMet ==
  ASSUME NEW t, NEW x, NEW q, q.op \notin {"version", "delete", "run"} \/ q.stale
  PROVE  Meets(t, x, q)
BY DEF Meets

LEMMA TablesOf ==
  /\ Versions = Filled(version)
  /\ \A b : VersionsOf(b) = Of(version, b)
BY DEF Versions, VersionsOf, Filled, Of

LEMMA RowFields ==
  ASSUME NEW b, NEW n, NEW w, NEW st
  PROVE  Row(b, n, w, st).num = n /\ (Row(b, n, w, st).status = "published" => Row(b, n, w, st).was)
BY DEF Row

\* The next state of the tables and of the request that takes the step.
LEMMA OneRequest ==
  ASSUME TypeOK, NEW c \in Clients, Others(c), Consistent, Fits(version', run'),
         \A q \in Req : Meets(version, run, q) => Meets(version', run', q),
         Meets(version', run', req'[c])
  PROVE  Consistent'
<1>1. ASSUME NEW d \in Clients PROVE Meets(version', run', req'[d])
  <2>1. CASE d = c
    BY <2>1
  <2>2. CASE d # c
    BY <2>2 DEF Others, Consistent, TypeOK
  <2>. QED  BY <2>1, <2>2
<1>. QED  BY <1>1 DEF Consistent

\* A robot that is inserted has no versions, and its first one is number 1.
LEMMA InsertFits ==
  ASSUME TypeOK, Sound, Fits(version, run), run' = run,
         NEW w \in Workflows, NEW publish \in BOOLEAN, Insert(w, publish)
  PROVE  /\ Fits(version', run')
         /\ \A q \in Req : Meets(version, run, q) => Meets(version', run', q)
<1>. DEFINE st == IF publish THEN "published" ELSE "draft"
<1>1. PICK b \in RobotIds, v \in VersionIds :
        /\ NewId(b, Robots) /\ NewId(v, Versions)
        /\ version' = [version EXCEPT ![v] = Row(b, 1, w, st)]
  BY DEF Insert
<1>2. st \in {"draft", "published", "archived"}
  OBVIOUS
<1>. HIDE DEF st
<1>3. version[v] = NoVersion
  BY <1>1, NewIdIsNew DEF Versions
<1>4. robot[b] = "absent"
  BY <1>1, CatalogAssumption DEF NewId, Robots
<1>5. Of(version, b) = {}
  BY <1>4, TablesOf DEF Sound, VersionsHaveRobots, VersionsOf
<1>6. Count(version, b) = 0
  BY <1>5, FS_EmptySet DEF Count
<1>7. version'[v] = Row(b, 1, w, st) /\ \A o \in VersionIds \ {v} : version'[o] = version[o]
  BY <1>1 DEF TypeOK
<1>8. /\ version'[v] \in VersionRow /\ version'[v].robot = b /\ version'[v].num = Count(version, b) + 1
      /\ version'[v].status = "published" => version'[v].was
  BY <1>2, <1>6, <1>7, RowTyped, RowFields
<1>. QED  BY <1>3, <1>7, <1>8, NextRow

\* A number that is not taken is the next one.
LEMMA VersionFits ==
  ASSUME TypeOK, RequestsLoaded, Sound, Consistent, NEW c \in Clients, InsertVersion(c),
         ~straddled', ~Refuse(c)
  PROVE  /\ Fits(version', run')
         /\ \A q \in Req : Meets(version, run, q) => Meets(version', run', q)
<1>. DEFINE q == req[c]
            row == Row(q.robot, q.num, q.wf, "draft")
<1>1. PICK v \in VersionIds : NewId(v, Versions) /\ version' = [version EXCEPT ![v] = row]
  BY DEF InsertVersion
<1>2. /\ q.op = "version" /\ Finish(c) /\ run' = run /\ ~NumberTaken(q.robot, q.num)
  BY DEF InsertVersion
<1>3. ~q.stale
  BY <1>2, FinishTyped
<1>4. q.robot \in RobotIds /\ q.num \in Nat \ {0} /\ q.wf \in Workflows
  BY <1>2 DEF TypeOK, Req, RequestsLoaded, Loaded
<1>5. q.num <= Count(version, q.robot) + 1
  BY <1>2, <1>3 DEF Consistent, Meets
<1>6. row \in VersionRow /\ row.robot = q.robot /\ row.num = q.num /\ row.status = "draft"
  BY <1>4, RowTyped, RowFields
<1>. HIDE DEF q, row
<1>7. q.num \notin 1..Count(version, q.robot)
  <2>1. q.num \notin {version[o].num : o \in Of(version, q.robot)}
    BY <1>2, TablesOf DEF NumberTaken
  <2>. QED  BY <1>4, <2>1 DEF Consistent, Fits
<1>8. Count(version, q.robot) \in Nat
  BY OfFinite DEF Consistent, Fits
<1>9. q.num = Count(version, q.robot) + 1
  BY <1>4, <1>5, <1>7, <1>8
<1>10. version[v] = NoVersion
  BY <1>1, NewIdIsNew DEF Versions
<1>11. version'[v] = row /\ \A o \in VersionIds \ {v} : version'[o] = version[o]
  BY <1>1 DEF TypeOK
<1>. QED  BY <1>2, <1>4, <1>6, <1>9, <1>10, <1>11, NextRow DEF Consistent

\* A publication changes statuses only, and remembers that it has.
LEMMA PublishFits ==
  ASSUME TypeOK, Fits(version, run), run' = run, NEW q \in Req, q.ver \in Versions,
         version' = AfterPublish(q)
  PROVE  /\ Fits(version', run')
         /\ \A p : Meets(version, run, p) => Meets(version', run', p)
<1>1. ASSUME NEW r \in VersionRow
      PROVE  /\ [r EXCEPT !.status = "published", !.was = TRUE].num = r.num
             /\ [r EXCEPT !.status = "published", !.was = TRUE].was
             /\ [r EXCEPT !.status = "archived"].num = r.num
             /\ [r EXCEPT !.status = "archived"].was = r.was
             /\ [r EXCEPT !.status = "archived"].status = "archived"
  BY DEF VersionRow
<1>2. ASSUME NEW v \in VersionIds
      PROVE  /\ version'[v] = NoVersion <=> version[v] = NoVersion
             /\ version'[v].robot = version[v].robot /\ version'[v].num = version[v].num
             /\ version[v].was => version'[v].was
             /\ version'[v].status = "published" => version'[v].was
  <2>1. (version'[v] = NoVersion <=> version[v] = NoVersion) /\ version'[v].robot = version[v].robot
    BY PublishTyped
  <2>2. CASE version[v] = NoVersion
    BY <2>1, <2>2, NothingTyped
  <2>3. CASE version[v] # NoVersion
    <3>1. version[v] \in VersionRow
      BY <2>3, VersionsTyped DEF Versions
    <3>2. \/ version'[v] = [version[v] EXCEPT !.status = "published", !.was = TRUE]
          \/ version'[v] = [version[v] EXCEPT !.status = "archived"]
          \/ version'[v] = version[v]
      BY DEF AfterPublish
    <3>3. version[v].status = "published" => version[v].was
      BY DEF Fits
    <3>. QED  BY <1>1, <2>1, <3>1, <3>2, <3>3
  <2>. QED  BY <2>2, <2>3
<1>. QED  BY <1>2, SameRows

\* A robot is deleted with the runs its request has found, which are all there
\* are unless a run has come since.
LEMMA DeleteFits ==
  ASSUME TypeOK, RequestsLoaded, Consistent, NEW c \in Clients, DeleteRobot(c), ~straddled'
  PROVE  Consistent'
<1>. DEFINE b == req[c].robot
            all == {"copy", "paste", "version", "publish", "delete", "run"}
<1>1. /\ req[c].op = "delete" /\ ~req[c].stale
      /\ version' = [v \in VersionIds |-> IF v \in VersionsOf(b) THEN NoVersion ELSE version[v]]
      /\ run' = [r \in RunIds |-> IF r \in req[c].runs THEN NoRun ELSE run[r]]
      /\ req' = [Straddle(all) EXCEPT ![c] = NoReq]
  BY DEF DeleteRobot, RunsAfterDelete
<1>2. RunsIn(version, run, b) \subseteq req[c].runs
  BY <1>1 DEF Consistent, Meets
<1>3. \A v \in VersionIds : version'[v] = IF v \in Of(version, b) THEN NoVersion ELSE version[v]
  BY <1>1, TablesOf
<1>4. \A r \in RunIds : run'[r] = IF r \in req[c].runs THEN NoRun ELSE run[r]
  BY <1>1
<1>5. Fits(version', run')
  BY <1>2, <1>3, <1>4, RobotGone DEF Consistent
<1>6. ASSUME NEW d \in Clients PROVE Meets(version', run', req'[d])
  <2>1. CASE d = c
    BY <1>1, <2>1, OvertakeTyped, NothingTyped, NothingMet
  <2>2. CASE d # c
    <3>1. req[d] \in Req /\ req'[d] = Overtaken(req[d], all)
      BY <1>1, <2>2, OvertakeTyped DEF TypeOK
    <3>2. req'[d].op = req[d].op /\ (~req'[d].stale => req[d].op \notin all)
      BY <3>1, OvertakenTyped
    <3>. QED  BY <3>2, NothingMet
  <2>. QED  BY <2>1, <2>2
<1>. QED  BY <1>5, <1>6 DEF Consistent

\* A new run overtakes the deletions only.
LEMMA RunFits ==
  ASSUME TypeOK, RequestsLoaded, Consistent, NEW c \in Clients, InsertRun(c), ~straddled'
  PROVE  Consistent'
<1>1. /\ req[c].op = "run" /\ ~req[c].stale /\ version' = version
      /\ req' = [Straddle({"delete"}) EXCEPT ![c] = NoReq]
  BY DEF InsertRun
<1>2. PICK r \in RunIds :
        run' = [run EXCEPT ![r] = [version |-> req[c].ver, queued |-> version[req[c].ver].wf]]
  BY DEF InsertRun
<1>3. run'[r].version = req[c].ver /\ \A s \in RunIds \ {r} : run'[s] = run[s]
  BY <1>2 DEF TypeOK
<1>4. WasPublished(version, req[c].ver)
  BY <1>1 DEF Consistent, Meets
<1>5. Fits(version, run')
  BY <1>3, <1>4, RunAdded DEF Consistent
<1>6. ASSUME NEW d \in Clients PROVE Meets(version, run', req'[d])
  <2>1. CASE d = c
    BY <1>1, <2>1, OvertakeTyped, NothingTyped, NothingMet
  <2>2. CASE d # c
    <3>1. req[d] \in Req /\ req'[d] = Overtaken(req[d], {"delete"})
      BY <1>1, <2>2, OvertakeTyped DEF TypeOK
    <3>2. /\ req'[d].op = req[d].op /\ req'[d].robot = req[d].robot
          /\ req'[d].ver = req[d].ver /\ req'[d].num = req[d].num
          /\ ~req'[d].stale => ~req[d].stale /\ req[d].op # "delete"
      BY <3>1, OvertakenTyped
    <3>3. Meets(version, run, req[d])
      BY DEF Consistent
    <3>. QED  BY <3>2, <3>3 DEF Meets
  <2>. QED  BY <2>1, <2>2
<1>. QED  BY <1>1, <1>5, <1>6 DEF Consistent

LEMMA StepConsistent ==
  TypeOK /\ RequestsLoaded /\ (~straddled => Sound /\ Consistent) /\ [Next]_vars
    => (~straddled' => Consistent')
<1>. SUFFICES ASSUME TypeOK, RequestsLoaded, ~straddled => Sound /\ Consistent, [Next]_vars,
                     ~straddled'
              PROVE  Consistent'
  OBVIOUS
<1>a. ASSUME straddled' = straddled PROVE Sound /\ Consistent
  BY <1>a
<1>b. ASSUME NEW c \in Clients, straddled' = (straddled \/ req[c].stale) PROVE Sound /\ Consistent
  BY <1>b
\* A request that reads leaves the tables as they are.
<1>c. ASSUME NEW c \in Clients, NEW r, req' = [req EXCEPT ![c] = r], Meets(version, run, r),
             UNCHANGED <<version, run>>, Consistent
      PROVE  Consistent'
  <2>1. Others(c) /\ req'[c] = r
    BY <1>c DEF Others, TypeOK
  <2>. QED  BY <1>c, <2>1, OneRequest DEF Consistent
<1>d. ASSUME NEW c \in Clients, NEW r, Load(c, r), Consistent => Meets(version, run, r)
      PROVE  Consistent'
  BY <1>a, <1>c, <1>d DEF Load
<1>e. ASSUME NEW c \in Clients, Refuse(c) PROVE Consistent'
  <2>1. Meets(version, run, NoReq)
    BY NothingTyped, NothingMet
  <2>. QED  BY <1>a, <1>c, <1>e, <2>1 DEF Refuse
\* A request that ends and nothing else waits for.
<1>f. ASSUME NEW c \in Clients, Finish(c), Consistent, Fits(version', run'),
             \A q \in Req : Meets(version, run, q) => Meets(version', run', q)
      PROVE  Consistent'
  <2>1. Others(c) /\ req'[c] = NoReq
    BY <1>f, FinishTyped
  <2>2. Meets(version', run', req'[c])
    BY <2>1, NothingTyped, NothingMet
  <2>. QED  BY <1>f, <2>1, <2>2, OneRequest
\* Steps outside of the requests.
<1>g. ASSUME UNCHANGED req, Consistent, Fits(version', run'),
             \A q \in Req : Meets(version, run, q) => Meets(version', run', q)
      PROVE  Consistent'
  <2>1. \A c \in Clients : req'[c] = req[c] /\ req[c] \in Req
    BY <1>g DEF TypeOK
  <2>. QED  BY <1>g, <2>1 DEF Consistent
<1>1. CASE UNCHANGED <<version, run, req, straddled>>
  BY <1>a, <1>1 DEF Consistent
<1>2. CASE CreateRobot
  <2>1. PICK w \in Workflows, publish \in BOOLEAN : Insert(w, publish)
    BY <1>2 DEF CreateRobot
  <2>2. UNCHANGED <<run, req, straddled>> /\ Sound /\ Consistent
    BY <1>2, <1>a DEF CreateRobot
  <2>3. Fits(version', run') /\ \A q \in Req : Meets(version, run, q) => Meets(version', run', q)
    BY <2>1, <2>2, InsertFits DEF Consistent
  <2>. QED  BY <1>g, <2>2, <2>3
<1>3. CASE UpdateWorkflow
  <2>1. PICK v \in Versions, w \in Workflows : version' = [version EXCEPT ![v].wf = w]
    BY <1>3 DEF UpdateWorkflow
  <2>2. UNCHANGED <<run, req, straddled>> /\ Sound /\ Consistent
    BY <1>3, <1>a DEF UpdateWorkflow
  <2>3. v \in VersionIds /\ version[v] \in VersionRow
    BY VersionsTyped
  <2>4. /\ [version[v] EXCEPT !.wf = w] \in VersionRow
        /\ [version[v] EXCEPT !.wf = w].robot = version[v].robot
        /\ [version[v] EXCEPT !.wf = w].num = version[v].num
        /\ [version[v] EXCEPT !.wf = w].was = version[v].was
        /\ [version[v] EXCEPT !.wf = w].status = version[v].status
    BY <2>3 DEF VersionRow
  <2>5. /\ version'[v] = [version[v] EXCEPT !.wf = w]
        /\ \A u \in VersionIds \ {v} : version'[u] = version[u]
    BY <2>1, <2>3 DEF TypeOK
  <2>6. \A u \in VersionIds : version[u].status = "published" => version[u].was
    BY <2>2 DEF Consistent, Fits
  <2>7. \A u \in VersionIds :
          /\ version'[u] = NoVersion <=> version[u] = NoVersion
          /\ version'[u].robot = version[u].robot /\ version'[u].num = version[u].num
          /\ version[u].was => version'[u].was
          /\ version'[u].status = "published" => version'[u].was
    BY <2>3, <2>4, <2>5, <2>6, NothingTyped
  <2>8. Fits(version', run') /\ \A q : Meets(version, run, q) => Meets(version', run', q)
    BY <2>2, <2>7, SameRows DEF Consistent
  <2>. QED  BY <1>g, <2>2, <2>8
<1>4. CASE UNCHANGED vars \/ PatchStatus \/ \E r \in RunIds : ExecuteRun(r)
  BY <1>1, <1>4 DEF PatchStatus, ExecuteRun, vars
<1>5. ASSUME NEW c \in Clients, NEW b \in RobotIds, LoadCopy(c, b) PROVE Consistent'
  <2>1. PICK w : Load(c, [NoReq EXCEPT !.op = "copy", !.robot = b, !.wf = w])
    BY <1>5 DEF LoadCopy
  <2>2. [NoReq EXCEPT !.op = "copy", !.robot = b, !.wf = w].op = "copy"
    BY DEF NoReq
  <2>. QED  BY <1>d, <2>1, <2>2, NothingMet
<1>6. ASSUME NEW c \in Clients, NEW b \in RobotIds, LoadVersion(c, b) PROVE Consistent'
  <2>. DEFINE nums == {version[v].num + 1 : v \in LatestVersion(b)}
                        \cup (IF LatestVersion(b) = {} THEN {1} ELSE {})
  <2>0. PICK reconfigure \in BOOLEAN, w \in Workflows, n \in nums :
          Load(c, [NoReq EXCEPT !.op = "version", !.robot = b, !.num = n, !.wf = w,
                                !.flag = reconfigure /\ robot[b] # "draft"])
    BY <1>6 DEF LoadVersion
  <2>. DEFINE flag == reconfigure /\ robot[b] # "draft"
              r == [NoReq EXCEPT !.op = "version", !.robot = b, !.num = n, !.wf = w, !.flag = flag]
  <2>1. Load(c, r)
    BY <2>0
  <2>. HIDE DEF flag
  <2>2. r.op = "version" /\ r.num = n /\ r.robot = b
    BY DEF NoReq
  <2>3. ASSUME Consistent PROVE n <= Count(version, b) + 1
    <3>1. Count(version, b) \in Nat
      BY <2>3, OfFinite DEF Consistent, Fits
    <3>2. \A v \in LatestVersion(b) : version[v].num \in 1..Count(version, b)
      BY <2>3, TablesOf DEF Consistent, Fits, LatestVersion, Newest
    <3>3. CASE n = 1
      BY <3>1, <3>3
    <3>4. CASE \E v \in LatestVersion(b) : n = version[v].num + 1
      BY <3>1, <3>2, <3>4
    <3>. QED  BY <3>3, <3>4
  <2>. HIDE DEF r
  <2>4. Consistent => Meets(version, run, r)
    BY <2>2, <2>3 DEF Meets
  <2>. QED  BY <1>d, <2>1, <2>4
<1>7. ASSUME NEW c \in Clients, NEW b \in RobotIds, LoadDelete(c, b) PROVE Consistent'
  <2>. DEFINE found == {r \in RunIds : run[r] # NoRun /\ run[r].version \in VersionsOf(b)}
              q == [NoReq EXCEPT !.op = "delete", !.robot = b, !.runs = found]
  <2>1. Load(c, q)
    BY <1>7 DEF LoadDelete
  <2>2. found = RunsIn(version, run, b)
    BY TablesOf DEF RunsIn
  <2>. HIDE DEF found
  <2>3. q.op = "delete" /\ q.robot = b /\ q.runs = found
    BY DEF NoReq
  <2>. HIDE DEF q
  <2>4. Meets(version, run, q)
    BY <2>2, <2>3 DEF Meets
  <2>. QED  BY <1>d, <2>1, <2>4
<1>8. ASSUME NEW c \in Clients, NEW b \in RobotIds, LoadRun(c, b) PROVE Consistent'
  <2>1. PICK v \in LatestPublished(b) : Load(c, [NoReq EXCEPT !.op = "run", !.robot = b, !.ver = v])
    BY <1>8 DEF LoadRun
  <2>. DEFINE r == [NoReq EXCEPT !.op = "run", !.robot = b, !.ver = v]
  <2>2. r.op = "run" /\ r.ver = v
    BY DEF NoReq
  <2>3. v \in Versions /\ v \in VersionIds /\ version[v].status = "published"
    BY <2>1 DEF LatestPublished, Newest, Published, VersionsOf, Versions
  <2>4. Consistent => WasPublished(version, v)
    BY <2>3 DEF Consistent, Fits, WasPublished, Versions
  <2>. HIDE DEF r
  <2>5. Consistent => Meets(version, run, r)
    BY <2>2, <2>4 DEF Meets
  <2>. QED  BY <1>d, <2>1, <2>5 DEF r
<1>9. ASSUME NEW c \in Clients, NEW v \in VersionIds, LoadPublish(c, v) PROVE Consistent'
  <2>. DEFINE q(flag) == [NoReq EXCEPT !.op = "publish", !.robot = version[v].robot, !.ver = v,
                            !.num = version[v].num, !.flag = flag]
  <2>0. PICK flag \in BOOLEAN : Load(c, q(flag)) /\ v \in Versions
    BY <1>9 DEF LoadPublish
  <2>. DEFINE r == q(flag)
  <2>1. Load(c, r)
    BY <2>0
  <2>2. r.op = "publish"
    BY DEF NoReq
  <2>. QED  BY <1>d, <2>1, <2>2, NothingMet
<1>10. ASSUME NEW c \in Clients, LoadCopyFlag(c) PROVE Consistent'
  <2>. DEFINE flag == Published(req[c].robot) # {}
              r    == [req[c] EXCEPT !.op = "paste", !.flag = flag]
  <2>1. req[c] \in Req /\ req' = [req EXCEPT ![c] = r] /\ UNCHANGED <<version, run, straddled>>
    BY <1>10 DEF LoadCopyFlag, TypeOK
  <2>. HIDE DEF flag
  <2>2. r.op = "paste"
    BY <2>1 DEF Req
  <2>. QED  BY <1>a, <1>c, <2>1, <2>2, NothingMet
<1>11. ASSUME NEW c \in Clients, InsertCopy(c) PROVE Consistent'
  <2>1. req[c].wf \in Workflows /\ req[c].flag \in BOOLEAN
    BY DEF TypeOK, Req
  <2>2. Insert(req[c].wf, req[c].flag) /\ Finish(c) /\ run' = run
    BY <1>11 DEF InsertCopy
  <2>3. Sound /\ Consistent
    BY <1>b, <2>2 DEF Finish
  <2>4. Fits(version', run') /\ \A q \in Req : Meets(version, run, q) => Meets(version', run', q)
    BY <2>1, <2>2, <2>3, InsertFits DEF Consistent
  <2>. QED  BY <1>f, <2>2, <2>3, <2>4
<1>12. ASSUME NEW c \in Clients, InsertVersion(c), ~Refuse(c) PROVE Consistent'
  <2>1. Finish(c) /\ Sound /\ Consistent
    BY <1>b, <1>12 DEF InsertVersion, Finish
  <2>. QED  BY <1>f, <1>12, <2>1, VersionFits
<1>13. ASSUME NEW c \in Clients, Publish(c), ~Refuse(c) PROVE Consistent'
  <2>1. /\ Finish(c) /\ version' = AfterPublish(req[c]) /\ run' = run
        /\ req[c].op = "publish" /\ version[req[c].ver] # NoVersion
    BY <1>13 DEF Publish
  <2>2. Sound /\ Consistent
    BY <1>b, <2>1 DEF Finish
  <2>3. req[c] \in Req /\ req[c].ver \in Versions
    BY <2>1 DEF TypeOK, RequestsLoaded, Loaded, Versions
  <2>. QED  BY <1>f, <2>1, <2>2, <2>3, PublishFits DEF Consistent
<1>14. ASSUME NEW c \in Clients, DeleteRobot(c) PROVE Consistent'
  <2>1. Consistent
    BY <1>b, <1>14 DEF DeleteRobot
  <2>. QED  BY <1>14, <2>1, DeleteFits
<1>15. ASSUME NEW c \in Clients, InsertRun(c) PROVE Consistent'
  <2>1. Consistent
    BY <1>b, <1>15 DEF InsertRun
  <2>. QED  BY <1>15, <2>1, RunFits
<1>. QED
  BY <1>e, <1>2, <1>3, <1>4, <1>5, <1>6, <1>7, <1>8, <1>9, <1>10, <1>11, <1>12, <1>13, <1>14, <1>15
     DEF Next, Request

LEMMA InitConsistent == Init => Consistent
<1>. SUFFICES ASSUME Init PROVE Consistent
  OBVIOUS
<1>1. Filled(version) = {} /\ \A b : Of(version, b) = {}
  BY DEF Init, Filled, Of
<1>2. \A b : Count(version, b) = 0
  BY <1>1, FS_EmptySet DEF Count
<1>3. \A b \in RobotIds : {version[v].num : v \in Of(version, b)} = 1..Count(version, b)
  BY <1>1, <1>2
<1>4. (\A r \in RunIds : run[r] = NoRun) /\ \A v \in VersionIds : version[v].status = "absent"
  BY NothingTyped DEF Init
<1>5. Fits(version, run)
  BY <1>1, <1>3, <1>4, FS_EmptySet DEF Fits
<1>6. \A c \in Clients : Meets(version, run, req[c])
  BY NothingTyped, NothingMet DEF Init
<1>. QED  BY <1>5, <1>6 DEF Consistent

\* The three tables agree, whatever requests interleave: the versions of a
\* robot are numbered without gap, nothing is left of a deleted robot, and a
\* run is of a version that was published, unless a request of before a
\* deletion has been answered after it (delete_robot, create_next_version,
\* create_run).
THEOREM CatalogAgrees == Spec => []CatalogIsConsistent
<1>. DEFINE Inv == TypeOK /\ RequestsLoaded /\ (~straddled => Sound /\ Consistent)
<1>1. Init => Inv
  BY InitType, InitConsistent
<1>2. Inv /\ [Next]_vars => Inv'
  BY StepType, StepSound, StepConsistent
<1>3. Inv => CatalogIsConsistent
  <2>. SUFFICES ASSUME Inv PROVE NumbersAreDense /\ NoOrphans /\ RunsUsePublished
    BY DEF CatalogIsConsistent
  <2>1. NumbersAreDense
    BY TablesOf DEF NumbersAreDense, Consistent, Fits, Count, Robots
  <2>2. NoOrphans
    <3>. SUFFICES ASSUME Sound, Consistent
                  PROVE  /\ \A v \in Versions : version[v].robot \in Robots
                         /\ \A r \in RunIds : run[r] # NoRun => run[r].version \in Versions
      BY DEF NoOrphans
    <3>1. \A v \in Versions : version[v].robot \in Robots
      BY VersionsTyped DEF Sound, VersionsHaveRobots, Robots
    <3>2. \A r \in RunIds : run[r] # NoRun => run[r].version \in Versions
      BY DEF Consistent, Fits, WasPublished, Versions
    <3>. QED  BY <3>1, <3>2
  <2>3. RunsUsePublished
    BY DEF RunsUsePublished, Consistent, Fits, WasPublished
  <2>. QED  BY <2>1, <2>2, <2>3
<1>. QED  BY <1>1, <1>2, <1>3, PTL DEF Spec
==============================================================================

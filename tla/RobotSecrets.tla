---------------------------- MODULE RobotSecrets ----------------------------
(***************************************************************************)
(* The links between robots and credentials: the table robot_secrets, the  *)
(* requests that attach, change and detach links while robots are deleted, *)
(* and what two readers make of it: the resolver of an attempt and the     *)
(* readiness check of the panel.  A request reads in one step and writes   *)
(* in the next, as its SELECTs lock nothing (SQLite, external).            *)
(***************************************************************************)
EXTENDS Integers

CONSTANTS
  Callers,             \* requests in progress at once
  RobotIds, LinkIds,   \* 1..n: ids the tables may reach
  Secrets,             \* names of the credentials that exist
  Unreadable,          \* those among them that do not open with the key
  Nicknames,           \* aliases that are not names of credentials
  None,                \* the empty alias
  LeftOut,             \* what a payload does not name
  MaxCalls, MaxDeletions \* bounds

ASSUME LinkAssumption ==
  /\ RobotIds \cup LinkIds \subseteq Nat \ {0}
  /\ Unreadable \subseteq Secrets
  /\ {None, LeftOut} \cap (Secrets \cup Nicknames) = {}
  /\ {MaxCalls, MaxDeletions} \subseteq Nat

VARIABLES
  robots,  \* ids in table robots
  link,    \* table robot_secrets: id -> row, or NoLink
  req,     \* caller -> its request
  served,  \* history: robots with the nicknames they were given and nobody
           \* has asked to take away since
  merged,  \* history: a link was merged with another one
  overlapped, \* history: a request or a deletion wrote while another one
           \* was in progress on the same link or robot
  calls, deletions \* counters

linkVars == <<robots, link, req, served, merged, overlapped, calls, deletions>>

Names   == Secrets \cup Nicknames
Aliases == Names \cup {None}
Link    == [robot : RobotIds, secret : Secrets, alias : Aliases]
NoLink  == [robot |-> 0, secret |-> None, alias |-> None]

Used == {l \in LinkIds : link[l] # NoLink}
LinksOf(b) == {l \in Used : link[l].robot = b}
LinkTo(b, s) == {l \in LinksOf(b) : link[l].secret = s}

\* INTEGER PRIMARY KEY without AUTOINCREMENT: the id behind the last one.
NewId(id, used) == (id = 1 \/ id - 1 \in used) /\ \A u \in used : u < id

\* A request: the link it has read, or 0, with its row, and the link the robot
\* had to the new credential, or 0, with its alias.
Idle == [op |-> "idle", robot |-> 0, id |-> 0, row |-> NoLink,
         other |-> 0, kept |-> None, secret |-> LeftOut, alias |-> LeftOut]

LinksInit ==
  /\ robots = {} /\ link = [l \in LinkIds |-> NoLink]
  /\ req = [c \in Callers |-> Idle] /\ served = {}
  /\ merged = FALSE /\ overlapped = FALSE /\ calls = 0 /\ deletions = 0

(***************************************************************************)
(* What the readers see.                                                   *)
(***************************************************************************)

\* Mutant: the resolver knows names of credentials only.
NoAliases(b, n) == {n}

\* _secret_resolver_for: the map from aliases and names to names, in which
\* the last link wins; the query has no order.
Resolved(b, n) ==
  LET claims == {link[l].secret : l \in {k \in LinksOf(b) : link[k].alias = n}}
                  \cup {s \in {n} : LinkTo(b, s) # {}}
  IN IF claims = {} THEN {n} ELSE claims

CanResolve(s) == s \in Secrets \ Unreadable

\* _missing_secrets of a workflow that names n: no link claims n and the
\* store does not open it.
Missing(b, n) ==
  /\ \A l \in LinksOf(b) : n \notin {link[l].alias, link[l].secret}
  /\ ~CanResolve(n)

(***************************************************************************)
(* Robots.                                                                 *)
(***************************************************************************)
CreateRobot ==
  \E b \in RobotIds :
    /\ NewId(b, robots)
    /\ robots' = robots \cup {b}
    /\ UNCHANGED <<link, req, served, merged, overlapped, calls, deletions>>

Removes(b) ==
  /\ deletions < MaxDeletions
  /\ deletions' = deletions + 1
  /\ robots' = robots \ {b}
  /\ served' = {p \in served : p[1] # b}
  /\ overlapped' = (overlapped \/ \E c \in Callers : req[c].robot = b)
  /\ UNCHANGED <<req, merged, calls>>

\* Mutant: the links of the robot stay.
DeleteRobotOnly == \E b \in robots : Removes(b) /\ UNCHANGED link

DeleteRobot ==
  \E b \in robots :
    /\ Removes(b)
    /\ link' = [l \in LinkIds |-> IF l \in LinksOf(b) THEN NoLink ELSE link[l]]

(***************************************************************************)
(* Requests: what they read.                                               *)
(***************************************************************************)
Starts(c, r) ==
  /\ req[c] = Idle /\ calls < MaxCalls
  /\ calls' = calls + 1
  /\ req' = [req EXCEPT ![c] = r]
  /\ UNCHANGED <<robots, link, served, merged, overlapped, deletions>>

TheId(links) == IF links = {} THEN 0 ELSE CHOOSE l \in links : TRUE
RowOf(l) == IF l = 0 THEN NoLink ELSE link[l]

\* attach_robot_secret.
ReadForAttach(c) ==
  \E b \in robots, s \in Secrets, a \in Aliases :
    LET l == TheId(LinkTo(b, s))
    IN Starts(c, [Idle EXCEPT !.op = "attach", !.robot = b, !.id = l, !.row = RowOf(l),
                              !.secret = s, !.alias = a])

\* Mutant: the link is not compared with the robot of the path.
ReadAnyLink(c) ==
  \E b \in robots, s \in Secrets \cup {LeftOut}, a \in Aliases \cup {LeftOut}, l \in Used :
    Starts(c, [Idle EXCEPT !.op = "update", !.robot = b, !.id = l, !.row = link[l],
                           !.secret = s, !.alias = a])

\* update_robot_secret.
ReadForUpdate(c) ==
  \E b \in robots, s \in Secrets \cup {LeftOut}, a \in Aliases \cup {LeftOut} :
    \E l \in LinksOf(b) :
      LET other == TheId(LinkTo(b, s) \ {l})
      IN Starts(c, [Idle EXCEPT !.op = "update", !.robot = b, !.id = l, !.row = link[l],
                                !.other = other, !.kept = RowOf(other).alias,
                                !.secret = s, !.alias = a])

\* detach_robot_secret.
ReadForDetach(c) ==
  \E b \in robots : \E l \in LinksOf(b) :
    Starts(c, [Idle EXCEPT !.op = "detach", !.robot = b, !.id = l, !.row = link[l]])

(***************************************************************************)
(* Requests: what they write.                                              *)
(***************************************************************************)
LinksRead(c) == {req[c].id, req[c].other} \ {0}

\* The request of c ends; gone are the nicknames it asks to take away.
Write(c, gone) ==
  LET r == req[c]
      given == IF r.alias \in Nicknames /\ link' # link THEN {<<r.robot, r.alias>>} ELSE {}
  IN /\ req' = [req EXCEPT ![c] = Idle]
     /\ served' = (served \ {<<r.robot, a>> : a \in gone}) \cup given
     /\ overlapped' = (overlapped \/ \E d \in Callers \ {c} : LinksRead(c) \cap LinksRead(d) # {})
     /\ UNCHANGED <<robots, calls, deletions>>

\* The alias a request takes from the link it changes.
Replaced(r) == IF r.alias = LeftOut THEN {} ELSE {r.row.alias}

\* An UPDATE sets the columns that differ from the row that was read.  It
\* finds its row by id alone, and raises when there is none.
Changed(r, s) ==
  [link[r.id] EXCEPT !.secret = IF s \in {LeftOut, r.row.secret} THEN @ ELSE s,
                     !.alias  = IF r.alias \in {LeftOut, r.row.alias} THEN @ ELSE r.alias]

\* The unique constraint on robot and credential.
Allowed(l, new) == LinkTo(new.robot, new.secret) \subseteq {l}

Insert(c) ==
  LET r == req[c]
      new == [robot |-> r.robot, secret |-> r.secret, alias |-> r.alias]
  IN /\ r.op = "attach" /\ r.id = 0
     /\ \E l \in LinkIds : /\ NewId(l, Used)
                          /\ link' = IF Allowed(l, new) THEN [link EXCEPT ![l] = new] ELSE link
     /\ Write(c, {}) /\ UNCHANGED merged

UpdateAlias(c) ==
  LET r == req[c]
  IN /\ r.op = "attach" /\ r.id # 0
     /\ link' = IF link[r.id] = NoLink THEN link
                ELSE [link EXCEPT ![r.id] = Changed(r, LeftOut)]
     /\ Write(c, Replaced(r)) /\ UNCHANGED merged

\* Mutant: a payload without alias sets the default of the other payload, "".
UpdateDefault(c) ==
  LET r == req[c]
      new == [Changed(r, r.secret) EXCEPT !.alias = IF r.alias = LeftOut THEN None ELSE @]
  IN /\ r.op = "update" /\ r.other = 0
     /\ link' = IF r.id \in Used /\ Allowed(r.id, new) THEN [link EXCEPT ![r.id] = new] ELSE link
     /\ Write(c, Replaced(r)) /\ UNCHANGED merged

Update(c) ==
  LET r == req[c]
      new == Changed(r, r.secret)
  IN /\ r.op = "update" /\ r.other = 0
     /\ link' = IF r.id \in Used /\ Allowed(r.id, new) THEN [link EXCEPT ![r.id] = new] ELSE link
     /\ Write(c, Replaced(r)) /\ UNCHANGED merged

\* The robot is linked to the new credential already: that link stays, with
\* its own alias unless the payload has one, and the link asked for goes.
\* An UPDATE of the link that stays raises if it has gone; a DELETE of a row
\* that has gone is a warning.
Merge(c) ==
  LET r == req[c]
      renames == r.alias \notin {LeftOut, r.kept}
      stays == IF renames /\ r.other \in Used THEN [link[r.other] EXCEPT !.alias = r.alias]
               ELSE RowOf(r.other)
  IN /\ r.op = "update" /\ r.other # 0
     /\ link' = IF renames /\ r.other \notin Used THEN link
                ELSE [link EXCEPT ![r.other] = stays, ![r.id] = NoLink]
     /\ merged' = TRUE
     /\ Write(c, Replaced(r))

Detach(c) ==
  /\ req[c].op = "detach"
  /\ link' = [link EXCEPT ![req[c].id] = NoLink]
  /\ Write(c, {req[c].row.alias}) /\ UNCHANGED merged

WriteOf(c) == Insert(c) \/ UpdateAlias(c) \/ Update(c) \/ Merge(c) \/ Detach(c)

LinksNext ==
  \/ CreateRobot \/ DeleteRobot
  \/ \E c \in Callers : \/ ReadForAttach(c) \/ ReadForUpdate(c) \/ ReadForDetach(c)
                        \/ WriteOf(c)

LinksSpec == LinksInit /\ [][LinksNext]_linkVars

(***************************************************************************)
(* Properties.                                                             *)
(***************************************************************************)
\* Type invariant; a request holds ids of links, which may be gone by now.
LinksTypeOK ==
  /\ robots \subseteq RobotIds /\ link \in [LinkIds -> Link \cup {NoLink}]
  /\ \A c \in Callers :
       /\ req[c].op \in {"idle", "attach", "update", "detach"}
       /\ {req[c].id, req[c].other} \subseteq LinkIds \cup {0}
       /\ req[c].op # "idle" => req[c].robot \in RobotIds
  /\ served \subseteq RobotIds \X Nicknames
  /\ {merged, overlapped} \subseteq BOOLEAN /\ {calls, deletions} \subseteq Nat

\* A nickname given to a credential of a robot goes on naming one, so the
\* credential is exchanged without touching the workflow, unless somebody takes
\* the nickname away, two requests meet on one link, or a link is merged.
NicknameServed ==
  ~merged /\ ~overlapped => \A p \in served : \E l \in LinksOf(p[1]) : link[l].alias = p[2]

\* Every link is of a robot that exists: a new robot, which may get the id of
\* a deleted one, does not inherit credentials, unless the robot was deleted
\* while a request on it was in progress.
NoInheritedLinks == ~overlapped => \A l \in Used : link[l].robot \in robots

\* The table holds links of robots that exist, and requests what they may hold.
LinksHaveRobots == LinksTypeOK /\ NoInheritedLinks

\* A request changes no link of another robot, unless it lost its own while it
\* was in progress and the id was given again.
OwnLinksOnly ==
  [][\A c \in Callers : req[c] # Idle /\ req'[c] = Idle =>
       \A l \in LinkIds : link'[l] # link[l] =>
         overlapped \/ req[c].robot \in {link[l].robot, link'[l].robot}]_linkVars

\* The panel and the attempt agree: a credential reported missing is resolved
\* by no attempt, and any other name leads to one that exists, whichever link
\* the attempt takes.
ReadinessAgrees ==
  \A b \in robots, n \in Names :
    \A s \in Resolved(b, n) :
      IF Missing(b, n) THEN ~CanResolve(s) ELSE s \in Secrets
=============================================================================

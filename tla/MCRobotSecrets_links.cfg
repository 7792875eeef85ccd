\* Two requests at once on two robots, two credentials, one of which does not
\* open, and one nickname.
SPECIFICATION LinksSpec
CONSTANTS
  Callers = {c1, c2}
  RobotIds = {1, 2}
  LinkIds = {1, 2, 3}
  Secrets = {portal, bank}
  Unreadable = {bank}
  Nicknames = {nick}
  None = None
  LeftOut = LeftOut
  MaxCalls = 3
  MaxDeletions = 1
SYMMETRY Sym
INVARIANTS
  NicknameServed
  LinksHaveRobots
  ReadinessAgrees
PROPERTIES
  OwnLinksOnly
CHECK_DEADLOCK FALSE

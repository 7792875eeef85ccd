\* Two requests at once on two robot ids, three version ids and one run id.
\* The tables of a small instance fill up, so the instance may stop.
SPECIFICATION Spec
SYMMETRY Sym
CONSTRAINT BeforeStraddling
CHECK_DEADLOCK FALSE
CONSTANTS
  Clients = {c1, c2}
  RobotIds = {1, 2}
  VersionIds = {1, 2, 3}
  RunIds = {1}
  Workflows = {"bad", "good"}
  Valid = {"good"}
  Empty = "bad"
  MaxRare = 1
INVARIANTS OneToRun CatalogIsConsistent ExecutedIsQueued

\* A cancel that meets a failing attempt.
SPECIFICATION Spec
SYMMETRY Sym
CONSTANTS
  Runs <- OneRun
  Robots = {robot}
  RobotOf <- MCRobotOf
  Threads = {t1}
  Cancellers = {c1}
  MaxConcurrent = 1
  Asked <- MCAsked
  NSteps = 1
  MaxBoots = 1
  Crashes = FALSE
  Overlap = FALSE
  SlowAlerts = FALSE
INVARIANTS NoStuckCancel

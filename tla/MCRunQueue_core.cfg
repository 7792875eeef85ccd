\* One slot, two runs, a cancel request, power loss, one restart; fair threads
\* and dispatcher, hence no symmetry.
SPECIFICATION FairSpec
CONSTANTS
  Runs <- MCRuns
  Robots = {robot}
  RobotOf <- MCRobotOf
  Threads = {t1}
  Cancellers = {c1}
  MaxConcurrent = 1
  Asked <- EdgeAsked
  NSteps = 2
  MaxBoots = 2
  Crashes = TRUE
  Overlap = FALSE
  SlowAlerts = FALSE
INVARIANTS TypeOK AtMostOneLateStep RunningIsOwned FailureIsReported
PROPERTY EveryRunSettles

\* One slot, a second Hub starts while threads of the first one still execute,
\* alert e-mails outlast the lock timeout: the Hub may have nothing left to do.
SPECIFICATION Spec
SYMMETRY Sym
CHECK_DEADLOCK FALSE
CONSTANTS
  Runs <- MCRuns
  Robots = {robot}
  RobotOf <- MCRobotOf
  Threads = {t1, t2}
  Cancellers = {c1}
  MaxConcurrent = 1
  Asked <- MCAsked
  NSteps = 1
  MaxBoots = 2
  Crashes = FALSE
  Overlap = TRUE
  SlowAlerts = TRUE
INVARIANTS NeverTwice RetryBound
PROPERTY ImplementsLifecycle

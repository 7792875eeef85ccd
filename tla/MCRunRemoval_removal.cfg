\* Two threads, two robots, three runs, one of which gets the id of another.
SPECIFICATION FairSpec
CONSTANTS
  Threads = {t1, t2}
  RobotIds = {1, 2}
  RunIds = {1, 2, 3}
  Queue <- MCQueue
  NSteps = 1
  MaxRetries = 1
  MaxCreated = 3
  MaxDeletions = 1
INVARIANTS
  TablesAgree
  OverIsExecuted
  NoRunWaitsForThread
PROPERTIES
  RunsComeToRest
CHECK_DEADLOCK FALSE

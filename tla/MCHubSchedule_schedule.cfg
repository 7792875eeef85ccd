\* Two requests at once, two schedules, two toggles, a deleted robot, a restart.
SPECIFICATION FairSpec
CHECK_DEADLOCK FALSE
CONSTANTS
  Callers = {c1, c2}
  ScheduleIds = {1, 2}
  RobotIds = {1, 2}
  MaxToggles = 2
  MaxDeletions = 1
  MaxBoots = 2
INVARIANTS NoScheduleForgotten JobsFollowRows
PROPERTY EnabledGetsJob

\* Two stop requests, three actions of the user in two frames.  The recording may be over.
SPECIFICATION FairSpec
CHECK_DEADLOCK FALSE
CONSTANTS
  Clients = {c1, c2}
  Frames = {main, inner}
  Events <- MCEvents
  MaxEvents = 3
INVARIANTS SavedIsWhatWasDone VersionIsUsable CompleteUnlessLate
PROPERTY RecordingEnds

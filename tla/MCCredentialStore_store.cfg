\* Two callers, one credential, two passwords: every overlap of creating the
\* key, saving, resolving and a kill.
SPECIFICATION FairSpec
CONSTANTS
  Callers = {c1, c2}
  Names = {login}
  Values = {first, second}
  NoOne = NoOne
  MaxCalls = 4
  MaxCrashes = 1
INVARIANTS
  StoreIsReadable
  LastSaveWins
PROPERTIES
  LockIsFreed
CHECK_DEADLOCK FALSE

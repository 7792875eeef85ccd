\* Two Hubs, three starts, two of the four columns, a file with two runs.
\* After the last start nothing more may happen.
SPECIFICATION Spec
SYMMETRY Sym
CHECK_DEADLOCK FALSE
CONSTANTS
  Procs = {p1, p2}
  RunColumns = {"retry_count", "worker_name"}
  OldRuns = {1, 2}
  MaxStarts = 3
  MaxNewRuns = 2
INVARIANTS ServesWholeFile StartsUnlessCut
PROPERTIES NoRowLost

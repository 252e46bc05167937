SPECIFICATION Spec
CONSTANTS
  Requests = {r1, r2}
  Lessons = {l1}
  MaxExtractions = 2
  MaxJobs = 2
  MaxRestarts = 1
SYMMETRY RequestSymmetry
INVARIANT LaunchedOnce
INVARIANT IngestionAttended
PROPERTY BookDeletedAtRest
CHECK_DEADLOCK FALSE

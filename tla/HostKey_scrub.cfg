SPECIFICATION FairKeySpec
CONSTANTS
  Procs = {p1, p2}
  Keys = {k1, k2}
  NoKey = NoKey
  MaxCrashes = 1
PROPERTY ScrubExcludesJobs
PROPERTY KeyFollowsAssignment

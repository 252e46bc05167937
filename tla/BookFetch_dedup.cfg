SPECIFICATION FairFetchSpec
CONSTANTS
  p1 = p1
  p2 = p2
  j1 = j1
  j2 = j2
  j3 = j3
  Processes = {p1, p2}
  Fetches = {j1, j2, j3}
  ProcessOf <- TwoAndOne
  SizeKnown = TRUE
  MaxTries = 2
  MaxDeaths = 1
  Nobody = Nobody
INVARIANT OneTransfer
INVARIANT ReturnedIsWhole
PROPERTY LocksComeFree
CHECK_DEADLOCK FALSE

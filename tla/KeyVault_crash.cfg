SPECIFICATION FairSpec
CONSTANTS
  Blobs = {b1, b2}
  Requests = {r1, r2}
  MaxKeys = 3
  MaxCrashes = 2
  MaxFaults = 2
  NoKey = NoKey
  NoBlob = NoBlob
INVARIANT NoKeyLost
INVARIANT AssignedIsServed
PROPERTY HeadComesUp
CHECK_DEADLOCK FALSE

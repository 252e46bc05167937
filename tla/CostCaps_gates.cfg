SPECIFICATION FairGateSpec
CONSTANTS
  Hosts = {h1, h2}
  Caps <- Uneven
  MaxSpend = 3
  MaxJobs = 1
  MaxEvents = 1
  Open = Open
  Unwritten = Unwritten
INVARIANT OneLateClaim
PROPERTY GatesFollowSpend

SPECIFICATION FairSpec
CONSTANTS
  h1 = h1
  Calls = {c1, c2, c3}
  Processes = {h1}
  Home <- OneProcess
  Permits = 2
  Limits = {2}
  Default = 1
  RaceRetries = 0
  NoLimit = NoLimit
INVARIANT AdmittedIsCounted
PROPERTY LimitTakesHold

SPECIFICATION FairSpec
CONSTANTS
  Jobs = {j1}
  Workers = {w1}
  Operators = {o1}
  extract = extract
  practice = practice
  boss = boss
  Phases <- LoneFlow
  Extract = extract
  Deps <- LoneDeps
  MaxAttempts = 1
  MaxReclaims = 1
  Slots = 2
  MaxClaims = 2
  Nobody = Nobody
INVARIANT PendingIsClaimable
INVARIANT LedgerSettledOnce
PROPERTY NoJobStuck

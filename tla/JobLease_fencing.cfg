SPECIFICATION Spec
CONSTANTS
  Jobs = {j1}
  Workers = {w1, w2}
  Operators = {}
  extract = extract
  practice = practice
  boss = boss
  Phases <- ForkFlow
  Extract = extract
  Deps <- ChainDeps
  MaxAttempts = 2
  MaxReclaims = 1
  Slots = 1
  MaxClaims = 2
  Nobody = Nobody
SYMMETRY Symmetry
INVARIANT DoneInv
PROPERTY LostLeaseWritesNothing
PROPERTY NothingIsUndone

SPECIFICATION RegFairSpec
CONSTANTS
  Targets = {t1, t2, t3}
  Canaries = {t1, t2}
  Clerks = {c1}
  Workers = {w1}
  MaxRequests = 3
  MaxRuns = 2
  Nobody = Nobody
  Content = {"p1", "p2", "p3"}
  Deps <- Chain
  Extract = "extract"
  Models <- AllModels
  ApiOnlyModels = {"sol"}
  Unset = Unset
  NoPage = NoPage
  ContainerTitle = "container"
  Lineages = {"l1"}
  Drafts = {d1, d2}
  Desks = {k1, k2}
  Offers <- AllOffers
  Snapshots <- AllSnapshots
  Places <- AllPlaces
  Fleets <- AllFleets
  Openings <- OneOpening
  MaxTargets = 1
  MaxV1 = 2
  MaxEvents = 4
  MaxMoves = 3
INVARIANT ReleaseIsEarned
INVARIANT StatusIsHonest
INVARIANT FrozenServes
INVARIANT PaidAsShown
PROPERTY LifeSpec
PROPERTY TargetsFollow
CHECK_DEADLOCK FALSE

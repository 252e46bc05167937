SPECIFICATION FairSpec
CONSTANTS
  Publishers = {p1, p2}
  t1 = t1
  t2 = t2
  Targets = {t1, t2}
  Declared <- FirstDeclares
  MaxAttempts = 2
  MaxEvents = 2
  MaxPages = 2
  Human = Human
INVARIANT PublishedOnce
PROPERTY WritesOnlyItsOwn
PROPERTY LifeSpec
PROPERTY DeliveryEnds
CHECK_DEADLOCK FALSE

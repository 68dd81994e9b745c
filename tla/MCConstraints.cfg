SPECIFICATION ConstraintsSpec
CONSTANTS
  Relay = {r1, r2}
  Interval = 1
  IndividualLimit = 2
  GlobalLimit = 3
  Lifetime = 3
  MaxTraffic = 3
  MaxSize = 3
SYMMETRY RelaySymmetry
INVARIANTS
  ConstraintsTypeOK
  CountersAreOfLiveRelays
  LifetimeTrafficHolds
  TakenIsBounded
PROPERTIES
  BlockedForGood
  GlobalLimiterWorks

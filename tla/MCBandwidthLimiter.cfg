SPECIFICATION LimiterSpec
CONSTANTS
  Interval = 3
  Limit = 3
  MaxSize = 4
INVARIANTS
  LimiterTypeOK
  WindowIsBounded
  RefusalIsDue

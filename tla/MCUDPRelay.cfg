SPECIFICATION Spec
CONSTANTS
  a1 = a1
  a2 = a2
  a3 = a3
  q1 = q1
  q2 = q2
  q3 = q3
  Unset = Unset
  Addr <- MCAddr
  Port <- MCPort
  Requested <- AllKinds
  Spammed <- OneOwnPort
  Caller = {k1, k2}
  MaxSlots = 2
  RelayTimeout = 2
  TrafficLimits = FALSE
CHECK_DEADLOCK FALSE
INVARIANTS
  TypeOK
  TableIsBounded
  OrderlyRelaysWork
PROPERTIES
  ActiveRelayIsKept
  IdleRelayIsFreed

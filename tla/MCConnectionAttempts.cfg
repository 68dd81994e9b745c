SPECIFICATION AttemptSpec
CONSTANTS
  p1 = p1
  p2 = p2
  p3 = p3
  same = same
  other = other
  Peer <- MCPeer
  Name <- MCName
  PeerName <- MCPeerName
  Attempt = {a1, a2}
CHECK_DEADLOCK FALSE
INVARIANTS
  AttemptTypeOK
  QueueHoldsOpenRaces
  SuccessIsReported
PROPERTIES
  LeavesQueueWhenSettled
  AttemptLeavesQueue
  ImplementsQueue

SPECIFICATION ClientSpec
CONSTANTS
  Peer = {p1}
  SessionId = {s1, s2}
  UserId = {u1, u2}
  Game = {g1, g2}
  Call = {c1, c2}
  LobbyId = {l1, l2}
  Timeout = 0
  None = None
  MaxCalls = 2
SYMMETRY Symmetry
CHECK_DEADLOCK FALSE
INVARIANTS
  ClientTypeOK
  KnownLobbyIsJoined
  NoLobbyIsForgotten

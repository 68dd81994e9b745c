SPECIFICATION ClientSpec
CONSTANTS
  Peer = {p1}
  SessionId = {s1, s2}
  UserId = {u1, u2}
  Game = {g1}
  Call = {c1}
  LobbyId = {l1}
  Timeout = 0
  None = None
  MaxCalls = 1
SYMMETRY Symmetry
CHECK_DEADLOCK FALSE
INVARIANTS
  RemembersJoinedLobby

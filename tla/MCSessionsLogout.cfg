SPECIFICATION SessionSpec
CONSTANTS
  Peer = {p1}
  SessionId = {s1}
  UserId = {u1}
  Game = {g1}
  Call = {c1}
  Timeout = 1
PROPERTIES
  LogoutEndsSession

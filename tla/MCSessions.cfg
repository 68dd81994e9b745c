SPECIFICATION SessionSpec
CONSTANTS
  Peer = {p1, p2}
  SessionId = {s1, s2}
  UserId = {u1, u2}
  Game = {g1}
  Call = {c1, c2}
  Timeout = 1
INVARIANTS
  SessionTypeOK
  SessionsMatchUsers
PROPERTIES
  SessionEndsOnlyForItsOwnReason
  DisconnectReleasesSessions
  AbandonedSessionIsReleased
  SilentSessionExpires

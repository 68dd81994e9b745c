SPECIFICATION LobbySpec
CONSTANTS
  Peer = {p1}
  SessionId = {s1, s2}
  UserId = {u1, u2}
  Game = {g1, g2}
  Call = {c1, c2}
  LobbyId = {l1, l2, l3}
  Timeout = 0
SYMMETRY Symmetry
INVARIANTS
  LobbyTypeOK
  OneLobbyPerGame
  OwnerParticipates
PROPERTIES
  MembershipEndsByOwnLeave
  OrphanedLobbyIsForever
  ImplementsDirectory

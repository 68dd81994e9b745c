SPECIFICATION DiagSpec
CONSTANTS
  Peer = {p1, p2}
  SessionId = {s1, s2}
  UserId = {u1, u2}
  Game = {g1, g2}
  Call = {c1}
  LobbyId = {l1, l2}
  Timeout = 0
  Name <- Peer
  PeerName <- MCPeerName
SYMMETRY Symmetry
INVARIANTS
  DiagTypeOK
  MembersAreIntroduced
  MembersAreInformed
  

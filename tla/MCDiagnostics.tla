--------------------------- MODULE MCDiagnostics ----------------------------
(* Instances of Diagnostics for TLC.  The peers have names of their own, or *)
(* all have one.  The ids are interchangeable, so are the peers, the games  *)
(* and the call slots; nothing checked here is liveness.                    *)
EXTENDS Diagnostics, TLC

MCPeerName == [p \in Peer |-> p]

MCOneName == {"[object Object]"}
MCSameName == [p \in Peer |-> "[object Object]"]

Symmetry ==
  UNION {Permutations(S) : S \in {Peer, SessionId, UserId, Game, Call, LobbyId}}
=============================================================================

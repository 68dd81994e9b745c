----------------------------- MODULE MCLobbies ------------------------------
(* Instance of Lobbies for TLC.  The ids are interchangeable, so are the    *)
(* peers, the games and the call slots; nothing checked here is liveness.   *)
EXTENDS Lobbies, TLC

Symmetry ==
  UNION {Permutations(S) : S \in {Peer, SessionId, UserId, Game, Call, LobbyId}}
=============================================================================

------------------------------ MODULE MCClient ------------------------------
(* Instance of Client for TLC.  The ids are interchangeable, and so are the *)
(* connections, the games and the call slots.                               *)
EXTENDS Client, TLC

Symmetry ==
  UNION {Permutations(S) : S \in {Peer, SessionId, UserId, Game, Call, LobbyId}}
=============================================================================

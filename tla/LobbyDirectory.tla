--------------------------- MODULE LobbyDirectory ---------------------------
(***************************************************************************)
(* What the lobby component promises, without sessions, requests or        *)
(* repositories: a directory of rooms.  A room has one game and one owner, *)
(* who is in it for as long as it is open; nobody is in two rooms of the   *)
(* same game; a closed room is empty.                                      *)
(*                                                                         *)
(* Lobbies implements it (Lobbies!Directory): rooms are the live lobbies   *)
(* and members the participants of live lobbies.                           *)
(***************************************************************************)
CONSTANTS User, Room, Game

VARIABLES
  rooms,    \* open rooms: [id, owner, game]
  members   \* pairs <<user, room id>>

vars == <<rooms, members>>

InGame(u, g) == \E r \in rooms : r.game = g /\ <<u, r.id>> \in members

Init ==
  /\ rooms = {}
  /\ members = {}

Open(u, g, id) ==
  /\ \A r \in rooms : r.id # id
  /\ ~InGame(u, g)
  /\ rooms' = rooms \cup {[id |-> id, owner |-> u, game |-> g]}
  /\ members' = members \cup {<<u, id>>}

Enter(u, r) ==
  /\ ~InGame(u, r.game)
  /\ members' = members \cup {<<u, r.id>>}
  /\ rooms' = rooms

Exit(u, r) ==
  /\ u # r.owner
  /\ <<u, r.id>> \in members
  /\ members' = members \ {<<u, r.id>>}
  /\ rooms' = rooms

Close(r) ==
  /\ rooms' = rooms \ {r}
  /\ members' = {m \in members : m[2] # r.id}

Next ==
  \/ \E u \in User, g \in Game, id \in Room : Open(u, g, id)
  \/ \E u \in User, r \in rooms : Enter(u, r) \/ Exit(u, r)
  \/ \E r \in rooms : Close(r)

Spec == Init /\ [][Next]_vars
=============================================================================

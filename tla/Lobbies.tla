------------------------------ MODULE Lobbies ------------------------------
(***************************************************************************)
(* Natty's lobbies, on top of its sessions: src/src/lobbies.               *)
(*                                                                         *)
(* The lobby subjects are async handlers like those of Sessions: the       *)
(* validators capture a user, a game or a lobby object, the body runs      *)
(* later on what they captured.  So the lobby a join or a delete works on  *)
(* may be gone from the repository by then, and so may the user.           *)
(*                                                                         *)
(* Abstracted: lobby names (whether the length is accepted is a choice),   *)
(* the isPublic flag and lobby/list, which reads only; the notifications   *)
(* and events, which change no lobby state.  LobbyData.state is left out:  *)
(* nothing in the source assigns it, so isLocked is always false.          *)
(* Bound: LobbyId is finite in the instances.                              *)
(***************************************************************************)
EXTENDS Sessions

CONSTANT LobbyId   \* what nanoid() can return for a lobby

VARIABLES
  lobbies,       \* the lobby repository
  participants,  \* the participant repository: pairs <<user, lobby id>>
  issued         \* lobby ids nanoid() has returned

lobbyState == <<lobbies, participants, issued>>
vars == <<sessionVars, lobbyState>>

Lobby == [id : LobbyId, owner : UserId, game : Game]

Participant == UserId \X LobbyId

LobbyCall ==
       [op : {"create", "leave"}, user : UserId, game : Game]
  \cup [op : {"join", "delete"}, user : UserId, lobby : Lobby]

\* The participant repository keys its items by user and lobby together; a
\* nanoid has no ':' in it, so "user::lobby" is no user id.
ASSUME ParticipantKeyAssumption == Participant \cap UserId = {}

\* The variables stay in their types, and every lobby id in use was issued.
LobbyTypeOK ==
  /\ SessionStateOK
  /\ calls \in [Call -> SessionCall \cup LobbyCall]
  /\ lobbies \subseteq Lobby
  /\ participants \subseteq Participant
  /\ issued \subseteq LobbyId
  /\ \A l \in lobbies : l.id \in issued
  /\ \A p \in participants : p[2] \in issued

LobbyInit ==
  /\ SessionInit
  /\ lobbies = {}
  /\ participants = {}
  /\ issued = {}

-----------------------------------------------------------------------------
(* Helpers *)

\* LobbyService.#isUserInLobby: a participation whose lobby is gone from
\* the repository does not count.
IsUserInLobby(u, g) == \E l \in lobbies : l.game = g /\ <<u, l.id>> \in participants

ParticipantsOf(id) == {u \in UserId : <<u, id>> \in participants}

\* Mutant: the participants are matched by user, so that users lose their
\* participation in every lobby when one of them is deleted.
ForgetParticipants(id) ==
  participants' = {p \in participants : p[1] \notin ParticipantsOf(id)}

\* LobbyParticipantRepository.deleteLobby: remove(p.userId) for every
\* participant p of the lobby, in a repository keyed by user and lobby.
DeleteParticipants(id) ==
  participants' = {p \in participants : p \notin ParticipantsOf(id)}

-----------------------------------------------------------------------------
(* Validators: what each subject captures from a live session *)

Authorized(c, s) ==
  /\ calls[c].op = "open"
  /\ s \in sessions
  /\ s.user \in users

ValidateCreate(c, s) ==
  /\ Authorized(c, s)
  /\ Become(c, [op |-> "create", user |-> s.user, game |-> s.game])
  /\ UNCHANGED <<sessionState, lobbyState>>

\* requireLobby captures the lobby object; that its game is the session's
\* is not required.
ValidateJoin(c, s, l) ==
  /\ Authorized(c, s)
  /\ Become(c, [op |-> "join", user |-> s.user, lobby |-> l])
  /\ UNCHANGED <<sessionState, lobbyState>>

ValidateLeave(c, s) ==
  /\ Authorized(c, s)
  /\ Become(c, [op |-> "leave", user |-> s.user, game |-> s.game])
  /\ UNCHANGED <<sessionState, lobbyState>>

ValidateDelete(c, s, l) ==
  /\ Authorized(c, s)
  /\ Become(c, [op |-> "delete", user |-> s.user, lobby |-> l])
  /\ UNCHANGED <<sessionState, lobbyState>>

-----------------------------------------------------------------------------
(* Bodies *)

\* Mutant: whether the user is in a lobby already is left to join(), which
\* create() calls after it has stored the lobby.
CreateChecksInJoin(c) ==
  /\ calls[c].op = "create"
  /\ \E id \in LobbyId \ issued :
       LET l == [id |-> id, owner |-> calls[c].user, game |-> calls[c].game]
       IN  /\ issued' = issued \cup {id}
           /\ lobbies' = lobbies \cup {l}
           /\ participants' = IF IsUserInLobby(l.owner, l.game) THEN participants
                              ELSE participants \cup {<<l.owner, id>>}
  /\ Finish(c)
  /\ UNCHANGED sessionState

\* LobbyService.create, with the join of the owner it ends in.
Create(c) ==
  /\ calls[c].op = "create"
  /\ ~IsUserInLobby(calls[c].user, calls[c].game)
  /\ \E id \in LobbyId \ issued :
       LET l == [id |-> id, owner |-> calls[c].user, game |-> calls[c].game]
       IN  /\ issued' = issued \cup {id}
           /\ lobbies' = lobbies \cup {l}
           /\ participants' = participants \cup {<<l.owner, id>>}
  /\ Finish(c)
  /\ UNCHANGED sessionState

\* create throws: the name is too short or too long, or the user is in a
\* lobby of that game already.
RefuseCreate(c) ==
  /\ calls[c].op = "create"
  /\ Finish(c)
  /\ UNCHANGED <<sessionState, lobbyState>>

\* Mutant: join looks only whether the user is in this lobby.
JoinUnchecked(c) ==
  /\ calls[c].op = "join"
  /\ LET p == <<calls[c].user, calls[c].lobby.id>>
     IN  /\ p \notin participants
         /\ participants' = participants \cup {p}
  /\ Finish(c)
  /\ UNCHANGED <<sessionState, lobbies, issued>>

\* Mutant: the pair is stored the wrong way round.
JoinSwapped(c) ==
  /\ calls[c].op = "join"
  /\ ~IsUserInLobby(calls[c].user, calls[c].lobby.game)
  /\ LET p == <<calls[c].lobby.id, calls[c].user>>
     IN  /\ p \notin participants
         /\ participants' = participants \cup {p}
  /\ Finish(c)
  /\ UNCHANGED <<sessionState, lobbies, issued>>

\* LobbyService.join.  add() throws when the pair is stored already, which
\* a participation left over from a deleted lobby can be.
Join(c) ==
  /\ calls[c].op = "join"
  /\ ~IsUserInLobby(calls[c].user, calls[c].lobby.game)
  /\ LET p == <<calls[c].user, calls[c].lobby.id>>
     IN  /\ p \notin participants
         /\ participants' = participants \cup {p}
  /\ Finish(c)
  /\ UNCHANGED <<sessionState, lobbies, issued>>

\* join throws: AlreadyInLobbyError or IdInUseError
RefuseJoin(c) ==
  /\ calls[c].op = "join"
  /\ \/ IsUserInLobby(calls[c].user, calls[c].lobby.game)
     \/ <<calls[c].user, calls[c].lobby.id>> \in participants
  /\ Finish(c)
  /\ UNCHANGED <<sessionState, lobbyState>>

\* The lobby lobby/leave is about: the first live lobby among the user's
\* participations that is of the session's game.
LobbyToLeave(u, g) == {l \in lobbies : <<u, l.id>> \in participants /\ l.game = g}

\* Mutant: the owner may leave like anyone else.
LeaveEvenIfOwner(c) ==
  /\ calls[c].op = "leave"
  /\ \E l \in LobbyToLeave(calls[c].user, calls[c].game) :
       participants' = participants \ {<<calls[c].user, l.id>>}
  /\ Finish(c)
  /\ UNCHANGED <<sessionState, lobbies, issued>>

\* The body of lobby/leave and LobbyService.leave
Leave(c) ==
  /\ calls[c].op = "leave"
  /\ \E l \in LobbyToLeave(calls[c].user, calls[c].game) :
       /\ l.owner # calls[c].user
       /\ participants' = participants \ {<<calls[c].user, l.id>>}
  /\ Finish(c)
  /\ UNCHANGED <<sessionState, lobbies, issued>>

\* lobby/leave throws: NotInLobbyError or LobbyOwnerError
RefuseLeave(c) ==
  /\ calls[c].op = "leave"
  /\ \A l \in LobbyToLeave(calls[c].user, calls[c].game) : l.owner = calls[c].user
  /\ Finish(c)
  /\ UNCHANGED <<sessionState, lobbyState>>

\* Mutant: anybody may delete a lobby.
DeleteByAnyone(c) ==
  /\ calls[c].op = "delete"
  /\ LET id == calls[c].lobby.id
     IN  /\ DeleteParticipants(id)
         /\ lobbies' = {l \in lobbies : l.id # id}
  /\ Finish(c)
  /\ UNCHANGED <<sessionState, issued>>

\* The body of lobby/delete and LobbyService.delete.  The lobby may have
\* been deleted since it was captured; then there is nothing to remove.
Delete(c) ==
  /\ calls[c].op = "delete"
  /\ calls[c].lobby.owner = calls[c].user
  /\ LET id == calls[c].lobby.id
     IN  /\ DeleteParticipants(id)
         /\ lobbies' = {l \in lobbies : l.id # id}
  /\ Finish(c)
  /\ UNCHANGED <<sessionState, issued>>

\* lobby/delete throws UnauthorizedError
RefuseDelete(c) ==
  /\ calls[c].op = "delete"
  /\ calls[c].lobby.owner # calls[c].user
  /\ Finish(c)
  /\ UNCHANGED <<sessionState, lobbyState>>

LobbyNext ==
  \/ SessionNext /\ UNCHANGED lobbyState
  \/ \E c \in Call, s \in sessions :
       \/ ValidateCreate(c, s)
       \/ ValidateLeave(c, s)
       \/ \E l \in lobbies : ValidateJoin(c, s, l) \/ ValidateDelete(c, s, l)
  \/ \E c \in Call :
       \/ Create(c) \/ RefuseCreate(c)
       \/ Join(c)   \/ RefuseJoin(c)
       \/ Leave(c)  \/ RefuseLeave(c)
       \/ Delete(c) \/ RefuseDelete(c)

LobbySpec == LobbyInit /\ [][LobbyNext]_vars /\ SessionFairness

-----------------------------------------------------------------------------
(* Properties *)

LiveMember(u, l) == l \in lobbies /\ <<u, l.id>> \in participants

\* A user is in at most one live lobby of each game, however many create and
\* join requests of that user interleave and whichever lobbies disappear
\* between a request's validators and its body.
OneLobbyPerGame ==
  \A k, l \in lobbies : \A u \in UserId :
    LiveMember(u, k) /\ LiveMember(u, l) /\ k.game = l.game => k = l

\* The owner of a live lobby takes part in it: create's join never fails
\* half-way, and no leave or delete takes the owner out of a lobby that stays.
OwnerParticipates == \A l \in lobbies : LiveMember(l.owner, l)

\* A membership of a live lobby ends only by that user's own leave request,
\* made in a session of the lobby's game, as it finishes, or with the lobby:
\* no other request of anybody, a leave of another game's lobby included, no
\* deletion of another lobby, disconnect or session cleanup takes anybody out.
MembershipEndsByOwnLeave ==
  [][\A l \in lobbies \cap lobbies', u \in UserId :
       LiveMember(u, l) /\ <<u, l.id>> \notin participants'
         => \E c \in Call : /\ calls[c].op = "leave"
                            /\ calls[c].user = u /\ calls[c].game = l.game
                            /\ calls'[c] = Free]_vars

\* A lobby is orphaned once its owner's session is gone and no delete of
\* the owner is under way.
Orphaned(l) ==
  /\ l \in lobbies
  /\ l.owner \notin users
  /\ \A c \in Call :
       ~(calls[c].op = "delete" /\ calls[c].user = l.owner /\ calls[c].lobby = l)

\* Ending a session takes nothing out of the lobby repositories, a login
\* gives a new user id, and only the owner may delete: an orphaned lobby
\* stays in the repository, and in the list of its game, for ever.
OrphanedLobbyIsForever ==
  [][\A l \in lobbies : Orphaned(l) => Orphaned(l)']_vars

\* The participations that count: those of live lobbies
Memberships == {p \in participants : \E l \in lobbies : l.id = p[2]}

\* The component implements the directory of rooms.
Directory ==
  INSTANCE LobbyDirectory WITH
    User <- UserId, Room <- LobbyId, Game <- Game,
    rooms <- lobbies,
    members <- Memberships

\* Every step of the requests, the sessions and the clock is a step of the
\* directory or changes nothing in it, stale requests included.
ImplementsDirectory == Directory!Spec

-----------------------------------------------------------------------------
(* A claim of the source that the code does not keep *)

\* lobby.service.mjs:183 says of delete "This will also remove all
\* participants."
DeleteRemovesParticipants ==
  [][\A l \in lobbies \ lobbies' : ParticipantsOf(l.id)' = {}]_vars
=============================================================================

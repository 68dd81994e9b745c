---------------------------- MODULE LobbiesProofs ---------------------------
(***************************************************************************)
(* Theorems about Lobbies, over the lemmas of SessionsProofs.              *)
(*                                                                         *)
(* OneLobbyPerGame is not inductive by itself: a join works on the lobby   *)
(* object its validators captured, so that the object be the live lobby of *)
(* its id, if there is one, has to be carried along (LobbyIdentity).       *)
(***************************************************************************)
EXTENDS Lobbies, SessionsProofs

\* The lobby object a request has captured is the live one of its id, or that
\* id is no live lobby's any more: ids are issued once.
LobbyIdentity ==
  /\ \A k, l \in lobbies : k.id = l.id => k = l
  /\ \A c \in Call : calls[c].op \in {"join", "delete"} =>
       /\ calls[c].lobby.id \in issued
       /\ \A l \in lobbies : l.id = calls[c].lobby.id => l = calls[c].lobby

LobbyInvariant ==
  /\ LobbyTypeOK
  /\ SessionsMatchUsers
  /\ LobbyIdentity
  /\ OneLobbyPerGame
  /\ OwnerParticipates

\* What the type of calls says of a request, by its operation.
LEMMA RequestTypes ==
  ASSUME calls \in [Call -> SessionCall \cup LobbyCall], NEW c \in Call
  PROVE  /\ calls[c].op \in {"open", "login"} => calls[c].peer \in Peer
         /\ calls[c].op = "login" => calls[c].game \in Game
         /\ calls[c].op \in {"create", "leave", "join", "delete"}
              => calls[c].user \in UserId
         /\ calls[c].op \in {"create", "leave"} => calls[c].game \in Game
         /\ calls[c].op \in {"join", "delete"} => calls[c].lobby \in Lobby
<1>1. calls[c] \in SessionCall \cup LobbyCall
  OBVIOUS
<1> QED
  BY <1>1 DEF SessionCall, LobbyCall, Free

\* A step that leaves the lobbies alone and ends or begins requests without
\* capturing a lobby keeps the invariant's lobby part.
LEMMA SameLobbies ==
  ASSUME LobbyIdentity, OneLobbyPerGame, OwnerParticipates,
         UNCHANGED lobbyState,
         \A c \in Call : calls'[c] = calls[c] \/ calls'[c].op \notin {"join", "delete"}
  PROVE  LobbyIdentity' /\ OneLobbyPerGame' /\ OwnerParticipates'
  BY DEF LobbyIdentity, OneLobbyPerGame, OwnerParticipates, LiveMember, lobbyState

\* Putting a request in a slot changes that slot only.
LEMMA BecomeCall ==
  ASSUME LobbyTypeOK, NEW c \in Call, NEW r, Become(c, r),
         r \in SessionCall \cup LobbyCall
  PROVE  /\ calls' \in [Call -> SessionCall \cup LobbyCall]
         /\ calls'[c] = r
         /\ \A d \in Call \ {c} : calls'[d] = calls[d]
  BY DEF LobbyTypeOK, Become

\* A request that ends frees its slot.
LEMMA FinishCall ==
  ASSUME LobbyTypeOK, NEW c \in Call, Finish(c)
  PROVE  /\ calls' \in [Call -> SessionCall \cup LobbyCall]
         /\ \A d \in Call : calls'[d] = calls[d] \/ calls'[d].op = "free"
<1>1. Free \in SessionCall \cup LobbyCall /\ Free.op = "free"
  BY DEF SessionCall, Free
<1>2. Become(c, Free)
  BY DEF Finish
<1> QED
  BY <1>1, <1>2, BecomeCall

\* What lobby requests do not touch of the sessions.
LEMMA SessionsUntouched ==
  ASSUME LobbyInvariant, UNCHANGED sessionState
  PROVE  SessionStateOK' /\ SessionsMatchUsers'
  BY DEF LobbyInvariant, LobbyTypeOK, SessionStateOK, SessionsMatchUsers,
         sessionState

\* No session step captures a lobby.
LEMMA SessionsCaptureNothing ==
  ASSUME LobbyTypeOK, [SessionNext]_sessionVars
  PROVE  \A c \in Call : calls'[c] = calls[c] \/ calls'[c].op \notin {"join", "delete"}
<1> SUFFICES ASSUME NEW e \in Call
             PROVE  calls'[e] = calls[e] \/ calls'[e].op \notin {"join", "delete"}
  OBVIOUS
<1>1. ASSUME NEW d \in Call, NEW r, Become(d, r), r.op \notin {"join", "delete"}
      PROVE  calls'[e] = calls[e] \/ calls'[e].op \notin {"join", "delete"}
  BY <1>1 DEF LobbyTypeOK, Become
<1>2. ASSUME NEW c \in Call, NEW p \in Peer, Correspondence(c, p)
      PROVE  calls'[e] = calls[e] \/ calls'[e].op \notin {"join", "delete"}
  BY <1>1, <1>2 DEF Correspondence
<1>3. ASSUME NEW c \in Call, NEW g \in Game, ValidateLogin(c, g)
      PROVE  calls'[e] = calls[e] \/ calls'[e].op \notin {"join", "delete"}
  BY <1>1, <1>3 DEF ValidateLogin
<1>4. ASSUME NEW c \in Call, NEW s \in sessions, ValidateLogout(c, s)
      PROVE  calls'[e] = calls[e] \/ calls'[e].op \notin {"join", "delete"}
  BY <1>1, <1>4 DEF ValidateLogout
<1>5. ASSUME NEW c \in Call, Finish(c)
      PROVE  calls'[e] = calls[e] \/ calls'[e].op \notin {"join", "delete"}
  BY <1>1, <1>5 DEF Finish, Free
<1>6. CASE UNCHANGED calls
  BY <1>6
<1> QED
  BY <1>2, <1>3, <1>4, <1>5, <1>6
  DEF SessionNext, Reject, Login, Logout, Disconnect, Tick, Cleanup,
      Shutdown, sessionVars

\* The sessions' own steps.
LEMMA SessionPart ==
  ASSUME LobbyInvariant, [SessionNext]_sessionVars, UNCHANGED lobbyState
  PROVE  LobbyInvariant'
<1>1. RequestsOK
  BY RequestTypes DEF RequestsOK, LobbyInvariant, LobbyTypeOK
<1>2. SessionStateOK' /\ SessionsMatchUsers'
  BY <1>1, SessionStep DEF LobbyInvariant, LobbyTypeOK
<1>3. calls' \in [Call -> SessionCall \cup LobbyCall]
  BY <1>1, SessionCallsStep DEF LobbyInvariant, LobbyTypeOK
<1>4. LobbyTypeOK'
  BY <1>2, <1>3 DEF LobbyInvariant, LobbyTypeOK, lobbyState
<1> QED
  BY <1>2, <1>4, SessionsCaptureNothing, SameLobbies DEF LobbyInvariant

\* A request that captures a user and a game, or is refused.
LEMMA QuietPart ==
  ASSUME LobbyInvariant, UNCHANGED <<sessionState, lobbyState>>,
         calls' \in [Call -> SessionCall \cup LobbyCall],
         \A c \in Call : calls'[c] = calls[c] \/ calls'[c].op \notin {"join", "delete"}
  PROVE  LobbyInvariant'
<1>1. LobbyTypeOK' /\ SessionsMatchUsers'
  BY SessionsUntouched DEF LobbyInvariant, LobbyTypeOK, lobbyState
<1> QED
  BY <1>1, SameLobbies DEF LobbyInvariant

\* A validator captures a user and the game of the session.
LEMMA CapturesGame ==
  ASSUME LobbyInvariant, NEW c \in Call, NEW s \in sessions,
         ValidateCreate(c, s) \/ ValidateLeave(c, s)
  PROVE  LobbyInvariant'
<1>1. PICK o \in {"create", "leave"} : Become(c, [op |-> o, user |-> s.user, game |-> s.game])
  BY DEF ValidateCreate, ValidateLeave
<1>2. s \in Session
  BY DEF LobbyInvariant, LobbyTypeOK, SessionStateOK
<1>3. [op |-> o, user |-> s.user, game |-> s.game] \in LobbyCall
  BY <1>2 DEF LobbyCall, Session
<1> QED
  BY <1>1, <1>3, BecomeCall, QuietPart
  DEF LobbyInvariant, ValidateCreate, ValidateLeave

\* A validator captures a lobby that is live at that moment.
LEMMA CapturesLobby ==
  ASSUME LobbyInvariant, NEW c \in Call, NEW s \in sessions, NEW l \in lobbies,
         ValidateJoin(c, s, l) \/ ValidateDelete(c, s, l)
  PROVE  LobbyInvariant'
<1>1. PICK o \in {"join", "delete"} : Become(c, [op |-> o, user |-> s.user, lobby |-> l])
  BY DEF ValidateJoin, ValidateDelete
<1> DEFINE r == [op |-> o, user |-> s.user, lobby |-> l]
<1>2. s \in Session /\ l \in Lobby
  BY DEF LobbyInvariant, LobbyTypeOK, SessionStateOK
<1>3. r \in LobbyCall /\ r.lobby = l
  BY <1>2 DEF LobbyCall, Session
<1>4. UNCHANGED <<sessionState, lobbyState>>
  BY DEF ValidateJoin, ValidateDelete
<1> HIDE DEF r
<1>5. /\ calls' \in [Call -> SessionCall \cup LobbyCall]
      /\ calls'[c] = r
      /\ \A d \in Call \ {c} : calls'[d] = calls[d]
  BY <1>1, <1>3, BecomeCall DEF LobbyInvariant, r
<1>6. LobbyTypeOK' /\ SessionsMatchUsers'
  BY <1>4, <1>5, SessionsUntouched DEF LobbyInvariant, LobbyTypeOK, lobbyState
<1>7. LobbyIdentity'
  <2>1. l.id \in issued /\ \A k \in lobbies : k.id = l.id => k = l
    BY DEF LobbyInvariant, LobbyTypeOK, LobbyIdentity
  <2> QED
    BY <1>3, <1>4, <1>5, <2>1 DEF LobbyInvariant, LobbyIdentity, lobbyState
<1>8. OneLobbyPerGame' /\ OwnerParticipates'
  BY <1>4 DEF LobbyInvariant, OneLobbyPerGame, OwnerParticipates, LiveMember, lobbyState
<1> QED
  BY <1>6, <1>7, <1>8 DEF LobbyInvariant

\* A new lobby has an id no other lobby and no request ever had.
LEMMA CreatePart ==
  ASSUME LobbyInvariant, NEW c \in Call, Create(c)
  PROVE  LobbyInvariant'
<1> DEFINE u == calls[c].user
           g == calls[c].game
<1>1. PICK id \in LobbyId \ issued :
        LET l == [id |-> id, owner |-> u, game |-> g]
        IN  /\ issued' = issued \cup {id}
            /\ lobbies' = lobbies \cup {l}
            /\ participants' = participants \cup {<<l.owner, id>>}
  BY DEF Create
<1> DEFINE l == [id |-> id, owner |-> u, game |-> g]
<1>2. u \in UserId /\ g \in Game
  BY RequestTypes DEF LobbyInvariant, LobbyTypeOK, Create
<1>3. /\ l \in Lobby
      /\ l.id = id /\ l.owner = u /\ l.game = g
      /\ <<u, id>> \in Participant
      /\ <<u, id>>[2] = id
  BY <1>2 DEF Lobby, Participant
<1>4. /\ issued' = issued \cup {id}
      /\ lobbies' = lobbies \cup {l}
      /\ participants' = participants \cup {<<u, id>>}
  BY <1>1
<1> HIDE DEF l
<1>5. /\ calls' \in [Call -> SessionCall \cup LobbyCall]
      /\ \A d \in Call : calls'[d] = calls[d] \/ calls'[d].op = "free"
  BY FinishCall DEF LobbyInvariant, Create
<1>6. SessionStateOK' /\ SessionsMatchUsers'
  BY SessionsUntouched DEF Create
<1>7. LobbyTypeOK'
  BY <1>3, <1>4, <1>5, <1>6 DEF LobbyInvariant, LobbyTypeOK
<1>8. \A k \in lobbies : k.id \in issued
  BY DEF LobbyInvariant, LobbyTypeOK
<1>9. LobbyIdentity'
  BY <1>3, <1>4, <1>5, <1>8 DEF LobbyInvariant, LobbyIdentity
<1>10. \A v \in UserId : <<v, id>> \notin participants
  <2> SUFFICES ASSUME NEW v \in UserId, <<v, id>> \in participants
               PROVE  FALSE
    OBVIOUS
  <2>1. <<v, id>>[2] \in issued
    BY DEF LobbyInvariant, LobbyTypeOK
  <2> QED
    BY <2>1
<1>11. \A k \in lobbies' : \A v \in UserId :
         LiveMember(v, k)' => (k = l /\ v = u) \/ (k \in lobbies /\ LiveMember(v, k))
  <2> SUFFICES ASSUME NEW k \in lobbies', NEW v \in UserId, LiveMember(v, k)'
               PROVE  (k = l /\ v = u) \/ (k \in lobbies /\ LiveMember(v, k))
    OBVIOUS
  <2>1. CASE k = l
    BY <1>3, <1>4, <1>10, <2>1 DEF LiveMember
  <2>2. CASE k \in lobbies
    BY <1>3, <1>4, <1>8, <2>2 DEF LiveMember
  <2> QED
    BY <1>4, <2>1, <2>2
<1>12. OneLobbyPerGame'
  <2>1. ~\E k \in lobbies : k.game = g /\ LiveMember(u, k)
    BY DEF Create, IsUserInLobby, LiveMember
  <2> QED
    BY <1>3, <1>11, <2>1 DEF LobbyInvariant, OneLobbyPerGame
<1>13. OwnerParticipates'
  BY <1>3, <1>4 DEF LobbyInvariant, OwnerParticipates, LiveMember
<1> QED
  BY <1>6, <1>7, <1>9, <1>12, <1>13 DEF LobbyInvariant

\* A join counts only in the live lobby of the captured id, which is the
\* captured lobby, so its game is the one join() has checked.
LEMMA JoinPart ==
  ASSUME LobbyInvariant, NEW c \in Call, Join(c)
  PROVE  LobbyInvariant'
<1> DEFINE u == calls[c].user
           l == calls[c].lobby
<1>1. /\ u \in UserId
      /\ l \in Lobby
  BY RequestTypes DEF LobbyInvariant, LobbyTypeOK, Join
<1>2. /\ l.id \in issued
      /\ \A k \in lobbies : k.id = l.id => k = l
  BY DEF LobbyInvariant, LobbyIdentity, Join
<1>3. /\ lobbies' = lobbies /\ issued' = issued
      /\ participants' = participants \cup {<<u, l.id>>}
      /\ ~\E k \in lobbies : k.game = l.game /\ LiveMember(u, k)
  BY DEF Join, IsUserInLobby, LiveMember
<1>4. /\ calls' \in [Call -> SessionCall \cup LobbyCall]
      /\ \A d \in Call : calls'[d] = calls[d] \/ calls'[d].op = "free"
  BY FinishCall DEF LobbyInvariant, Join
<1>5. SessionStateOK' /\ SessionsMatchUsers'
  BY SessionsUntouched DEF Join
<1> HIDE DEF u, l
<1>6. LobbyTypeOK'
  <2>1. <<u, l.id>> \in Participant /\ <<u, l.id>>[2] = l.id
    BY <1>1 DEF Participant, Lobby
  <2> QED
    BY <1>2, <1>3, <1>4, <1>5, <2>1 DEF LobbyInvariant, LobbyTypeOK
<1>7. LobbyIdentity'
  BY <1>3, <1>4 DEF LobbyInvariant, LobbyIdentity
<1>8. \A k \in lobbies' : \A v \in UserId :
        LiveMember(v, k)' => (k = l /\ v = u) \/ LiveMember(v, k)
  BY <1>2, <1>3 DEF LiveMember
<1>9. OneLobbyPerGame'
  BY <1>3, <1>8 DEF LobbyInvariant, OneLobbyPerGame
<1>10. OwnerParticipates'
  BY <1>3 DEF LobbyInvariant, OwnerParticipates, LiveMember
<1> QED
  BY <1>5, <1>6, <1>7, <1>9, <1>10 DEF LobbyInvariant

\* Only one lobby has the id that is left, and it is not its owner who leaves.
LEMMA LeavePart ==
  ASSUME LobbyInvariant, NEW c \in Call, Leave(c)
  PROVE  LobbyInvariant'
<1>1. PICK l \in lobbies :
        /\ l.owner # calls[c].user
        /\ participants' = participants \ {<<calls[c].user, l.id>>}
  BY DEF Leave, LobbyToLeave
<1>2. lobbies' = lobbies /\ issued' = issued
  BY DEF Leave
<1>3. /\ calls' \in [Call -> SessionCall \cup LobbyCall]
      /\ \A d \in Call : calls'[d] = calls[d] \/ calls'[d].op = "free"
  BY FinishCall DEF LobbyInvariant, Leave
<1>4. SessionStateOK' /\ SessionsMatchUsers'
  BY SessionsUntouched DEF Leave
<1>5. LobbyTypeOK'
  BY <1>1, <1>2, <1>3, <1>4 DEF LobbyInvariant, LobbyTypeOK
<1>6. LobbyIdentity'
  BY <1>2, <1>3 DEF LobbyInvariant, LobbyIdentity
<1>7. OneLobbyPerGame'
  BY <1>1, <1>2 DEF LobbyInvariant, OneLobbyPerGame, LiveMember
<1>8. OwnerParticipates'
  BY <1>1, <1>2 DEF LobbyInvariant, OwnerParticipates, LobbyIdentity, LiveMember
<1> QED
  BY <1>4, <1>5, <1>6, <1>7, <1>8 DEF LobbyInvariant

\* No participation is stored under a user id, so deleting removes none.
LEMMA DeleteRemovesNone ==
  ASSUME LobbyTypeOK, NEW c \in Call, Delete(c)
  PROVE  participants' = participants
<1>1. participants \cap UserId = {}
  BY ParticipantKeyAssumption DEF LobbyTypeOK
<1>2. participants' = {x \in participants : x \notin ParticipantsOf(calls[c].lobby.id)}
  BY DEF Delete, DeleteParticipants
<1> QED
  BY <1>1, <1>2 DEF ParticipantsOf

\* A deleted lobby is no more, and all others are as they were.
LEMMA DeletePart ==
  ASSUME LobbyInvariant, NEW c \in Call, Delete(c)
  PROVE  LobbyInvariant'
<1>1. participants' = participants
  BY DeleteRemovesNone DEF LobbyInvariant
<1>2. lobbies' \subseteq lobbies /\ issued' = issued
  BY DEF Delete
<1>3. /\ calls' \in [Call -> SessionCall \cup LobbyCall]
      /\ \A d \in Call : calls'[d] = calls[d] \/ calls'[d].op = "free"
  BY FinishCall DEF LobbyInvariant, Delete
<1>4. SessionStateOK' /\ SessionsMatchUsers'
  BY SessionsUntouched DEF Delete
<1>5. LobbyTypeOK'
  BY <1>1, <1>2, <1>3, <1>4 DEF LobbyInvariant, LobbyTypeOK
<1>6. LobbyIdentity'
  BY <1>2, <1>3 DEF LobbyInvariant, LobbyIdentity
<1>7. OneLobbyPerGame' /\ OwnerParticipates'
  BY <1>1, <1>2 DEF LobbyInvariant, OneLobbyPerGame, OwnerParticipates, LiveMember
<1> QED
  BY <1>4, <1>5, <1>6, <1>7 DEF LobbyInvariant

\* A refused request only frees its slot.
LEMMA RefusePart ==
  ASSUME LobbyInvariant, NEW c \in Call, Finish(c),
         UNCHANGED <<sessionState, lobbyState>>
  PROVE  LobbyInvariant'
<1>1. /\ calls' \in [Call -> SessionCall \cup LobbyCall]
      /\ \A d \in Call : calls'[d] = calls[d] \/ calls'[d].op = "free"
  BY FinishCall DEF LobbyInvariant
<1>2. \A d \in Call : calls'[d] = calls[d] \/ calls'[d].op \notin {"join", "delete"}
  BY <1>1
<1> QED
  BY <1>1, <1>2, QuietPart

\* The lobbies start in order.
LEMMA LobbyInitStep == LobbyInit => LobbyInvariant
<1> SUFFICES ASSUME LobbyInit
             PROVE  LobbyInvariant
  OBVIOUS
<1>1. calls \in [Call -> SessionCall \cup LobbyCall]
  BY DEF LobbyInit, SessionInit, SessionCall
<1>2. SessionStateOK /\ SessionsMatchUsers
  BY TimeoutAssumption
  DEF LobbyInit, SessionInit, SessionStateOK, SessionsMatchUsers
<1>3. LobbyIdentity /\ OneLobbyPerGame /\ OwnerParticipates
  BY DEF LobbyInit, SessionInit, LobbyIdentity, OneLobbyPerGame,
         OwnerParticipates, Free
<1> QED
  BY <1>1, <1>2, <1>3 DEF LobbyInit, LobbyInvariant, LobbyTypeOK

\* Types, the agreement of the repositories and what is said of lobbies, all
\* together: each action's lemma needs several of them.
LEMMA LobbyStep ==
  ASSUME LobbyInvariant, [LobbyNext]_vars
  PROVE  LobbyInvariant'
<1>1. CASE [SessionNext]_sessionVars /\ UNCHANGED lobbyState
  BY <1>1, SessionPart
<1>2. ASSUME NEW c \in Call, NEW s \in sessions,
             ValidateCreate(c, s) \/ ValidateLeave(c, s)
      PROVE  LobbyInvariant'
  BY <1>2, CapturesGame
<1>3. ASSUME NEW c \in Call, NEW s \in sessions, NEW l \in lobbies,
             ValidateJoin(c, s, l) \/ ValidateDelete(c, s, l)
      PROVE  LobbyInvariant'
  BY <1>3, CapturesLobby
<1>4. ASSUME NEW c \in Call, Create(c) \/ Join(c) \/ Leave(c) \/ Delete(c)
      PROVE  LobbyInvariant'
  BY <1>4, CreatePart, JoinPart, LeavePart, DeletePart
<1>5. ASSUME NEW c \in Call,
             RefuseCreate(c) \/ RefuseJoin(c) \/ RefuseLeave(c) \/ RefuseDelete(c)
      PROVE  LobbyInvariant'
  BY <1>5, RefusePart DEF RefuseCreate, RefuseJoin, RefuseLeave, RefuseDelete
<1> QED
  BY <1>1, <1>2, <1>3, <1>4, <1>5 DEF LobbyNext, vars

\* The specification without its fairness.  No theorem below needs any, so all
\* of them hold of whatever takes the steps of Lobbies only.
LobbySafety == LobbyInit /\ [][LobbyNext]_vars

\* The theorems below hold with and without fairness.
LEMMA LobbySpecIsSafe == LobbySpec => LobbySafety
  BY PTL DEF LobbySpec, LobbySafety

\* So all of it holds in every reachable state.
THEOREM LobbiesCorrect == LobbySafety => []LobbyInvariant
  BY LobbyInitStep, LobbyStep, PTL DEF LobbySafety

\* Every variable of the lobbies stays in its type, and no id is used that
\* was not issued.
THEOREM LobbyTypes == LobbySafety => []LobbyTypeOK
<1>1. LobbyInvariant => LobbyTypeOK
  BY DEF LobbyInvariant
<1> QED
  BY <1>1, LobbiesCorrect, PTL

\* No interleaving of requests puts a user in two live lobbies of a game.
THEOREM UsersAreInOneLobbyPerGame == LobbySafety => []OneLobbyPerGame
<1>1. LobbyInvariant => OneLobbyPerGame
  BY DEF LobbyInvariant
<1> QED
  BY <1>1, LobbiesCorrect, PTL

\* The owner of a live lobby is always in it.
THEOREM OwnersParticipate == LobbySafety => []OwnerParticipates
<1>1. LobbyInvariant => OwnerParticipates
  BY DEF LobbyInvariant
<1> QED
  BY <1>1, LobbiesCorrect, PTL

\* Nothing but a user's own leave takes that user out of a lobby that stays.
THEOREM MembershipsEndProperly == LobbySafety => MembershipEndsByOwnLeave
<1> DEFINE Kept ==
      \A l \in lobbies \cap lobbies', u \in UserId :
        LiveMember(u, l) /\ <<u, l.id>> \notin participants'
          => \E c \in Call : /\ calls[c].op = "leave"
                             /\ calls[c].user = u /\ calls[c].game = l.game
                             /\ calls'[c] = Free
<1>1. LobbyInvariant /\ [LobbyNext]_vars => [Kept]_vars
  <2> SUFFICES ASSUME LobbyInvariant, LobbyNext,
                      NEW l \in lobbies, NEW u \in UserId,
                      <<u, l.id>> \in participants,
                      <<u, l.id>> \notin participants'
               PROVE  \E c \in Call : /\ calls[c].op = "leave"
                                     /\ calls[c].user = u /\ calls[c].game = l.game
                                     /\ calls'[c] = Free
    BY DEF LiveMember
  <2>1. ASSUME NEW c \in Call, Leave(c)
        PROVE  /\ calls[c].op = "leave"
               /\ calls[c].user = u /\ calls[c].game = l.game
               /\ calls'[c] = Free
    <3>1. PICK k \in LobbyToLeave(calls[c].user, calls[c].game) :
            participants' = participants \ {<<calls[c].user, k.id>>}
      BY <2>1 DEF Leave
    <3>2. <<u, l.id>> = <<calls[c].user, k.id>>
      BY <3>1
    <3>3. k = l
      BY <3>2 DEF LobbyToLeave, LobbyInvariant, LobbyIdentity
    <3>4. calls'[c] = Free
      BY <2>1 DEF Leave, Finish, Become, LobbyInvariant, LobbyTypeOK
    <3> QED
      BY <2>1, <3>1, <3>2, <3>3, <3>4 DEF Leave, LobbyToLeave
  <2>2. ASSUME NEW c \in Call, Delete(c)
        PROVE  FALSE
    BY <2>2, DeleteRemovesNone DEF LobbyInvariant
  <2>3. ASSUME NEW c \in Call, Create(c) \/ Join(c)
        PROVE  FALSE
    BY <2>3 DEF Create, Join
  <2>4. CASE UNCHANGED participants
    BY <2>4
  <2> QED
    BY <2>1, <2>2, <2>3, <2>4
    DEF LobbyNext, ValidateCreate, ValidateJoin, ValidateLeave, ValidateDelete,
        RefuseCreate, RefuseJoin, RefuseLeave, RefuseDelete, lobbyState
<1> QED
  BY <1>1, LobbiesCorrect, PTL DEF LobbySafety, MembershipEndsByOwnLeave

-----------------------------------------------------------------------------
(* The directory of rooms *)

\* The directory asks about memberships what the code asks about
\* participations and lobbies.
LEMMA InGameIsInLobby ==
  ASSUME NEW u, NEW g
  PROVE  Directory!InGame(u, g) <=> IsUserInLobby(u, g)
<1>1. \A l \in lobbies : <<u, l.id>> \in Memberships <=> <<u, l.id>> \in participants
  BY DEF Memberships
<1> QED
  BY <1>1 DEF Directory!InGame, IsUserInLobby

\* A created lobby is a new room: nobody was in a room of its id.
LEMMA CreateOpens ==
  ASSUME LobbyInvariant, NEW c \in Call, Create(c)
  PROVE  Directory!Next
<1> DEFINE u == calls[c].user
           g == calls[c].game
<1>1. PICK id \in LobbyId \ issued :
        LET l == [id |-> id, owner |-> u, game |-> g]
        IN  /\ issued' = issued \cup {id}
            /\ lobbies' = lobbies \cup {l}
            /\ participants' = participants \cup {<<l.owner, id>>}
  BY DEF Create
<1> DEFINE l == [id |-> id, owner |-> u, game |-> g]
<1>2. /\ u \in UserId /\ g \in Game
      /\ ~IsUserInLobby(u, g)
  BY RequestTypes DEF LobbyInvariant, LobbyTypeOK, Create
<1>3. \A k \in lobbies : k.id # id
  BY DEF LobbyInvariant, LobbyTypeOK
<1>4. \A p \in participants : p[2] # id
  BY DEF LobbyInvariant, LobbyTypeOK
<1>5. /\ lobbies' = lobbies \cup {l}
      /\ participants' = participants \cup {<<u, id>>}
      /\ l.id = id
  BY <1>1
<1> HIDE DEF l
<1>6. Memberships' = Memberships \cup {<<u, id>>}
  <2>1. \A p \in participants :
          (\E k \in lobbies' : k.id = p[2]) <=> (\E k \in lobbies : k.id = p[2])
    BY <1>4, <1>5
  <2>2. \E k \in lobbies' : k.id = <<u, id>>[2]
    BY <1>5
  <2> QED
    BY <1>5, <2>1, <2>2 DEF Memberships
<1>7. Directory!Open(u, g, id)
  BY <1>2, <1>3, <1>5, <1>6, InGameIsInLobby DEF Directory!Open, l
<1> QED
  BY <1>2, <1>7 DEF Directory!Next

\* A join enters the room of the captured lobby or, when that lobby is gone,
\* no room at all.
LEMMA JoinEnters ==
  ASSUME LobbyInvariant, NEW c \in Call, Join(c)
  PROVE  Directory!Next \/ UNCHANGED <<lobbies, Memberships>>
<1> DEFINE u == calls[c].user
           l == calls[c].lobby
<1>1. u \in UserId
  BY RequestTypes DEF LobbyInvariant, LobbyTypeOK, Join
<1>2. \A k \in lobbies : k.id = l.id => k = l
  BY DEF LobbyInvariant, LobbyIdentity, Join
<1>3. /\ lobbies' = lobbies
      /\ participants' = participants \cup {<<u, l.id>>}
      /\ ~IsUserInLobby(u, l.game)
  BY DEF Join
<1> HIDE DEF u, l
<1>4. CASE l \in lobbies
  <2>1. Memberships' = Memberships \cup {<<u, l.id>>}
    BY <1>3, <1>4 DEF Memberships
  <2>2. Directory!Enter(u, l)
    BY <1>3, <2>1, InGameIsInLobby DEF Directory!Enter
  <2> QED
    BY <1>1, <1>4, <2>2 DEF Directory!Next
<1>5. CASE l \notin lobbies
  <2>1. \A k \in lobbies : k.id # <<u, l.id>>[2]
    BY <1>2, <1>5
  <2>2. Memberships' = Memberships
    BY <1>3, <2>1 DEF Memberships
  <2> QED
    BY <1>3, <2>2
<1> QED
  BY <1>4, <1>5

\* leave: the user exits the one room of the game it is in.
LEMMA LeaveExits ==
  ASSUME LobbyInvariant, NEW c \in Call, Leave(c)
  PROVE  Directory!Next
<1>1. PICK l \in LobbyToLeave(calls[c].user, calls[c].game) :
        /\ l.owner # calls[c].user
        /\ participants' = participants \ {<<calls[c].user, l.id>>}
  BY DEF Leave
<1>2. l \in lobbies /\ <<calls[c].user, l.id>> \in participants /\ lobbies' = lobbies
  BY DEF LobbyToLeave, Leave
<1>3. calls[c].user \in UserId
  BY RequestTypes DEF LobbyInvariant, LobbyTypeOK, Leave
<1>4. Memberships' = Memberships \ {<<calls[c].user, l.id>>}
  BY <1>1, <1>2 DEF Memberships
<1>5. <<calls[c].user, l.id>> \in Memberships
  BY <1>2 DEF Memberships
<1>6. Directory!Exit(calls[c].user, l)
  BY <1>1, <1>2, <1>4, <1>5 DEF Directory!Exit
<1> QED
  BY <1>2, <1>3, <1>6 DEF Directory!Next

\* The participations of a deleted lobby stay, but are no memberships.
LEMMA DeleteCloses ==
  ASSUME LobbyInvariant, NEW c \in Call, Delete(c)
  PROVE  Directory!Next \/ UNCHANGED <<lobbies, Memberships>>
<1> DEFINE l == calls[c].lobby
<1>1. participants' = participants
  BY DeleteRemovesNone DEF LobbyInvariant
<1>2. \A k \in lobbies : k.id = l.id => k = l
  BY DEF LobbyInvariant, LobbyIdentity, Delete
<1>3. lobbies' = {k \in lobbies : k.id # l.id}
  BY DEF Delete
<1> HIDE DEF l
<1>4. lobbies' = lobbies \ {l}
  BY <1>2, <1>3
<1>5. CASE l \in lobbies
  <2>1. Memberships' = {m \in Memberships : m[2] # l.id}
    BY <1>1, <1>3 DEF Memberships
  <2>2. Directory!Close(l)
    BY <1>4, <2>1 DEF Directory!Close
  <2> QED
    BY <1>5, <2>2 DEF Directory!Next
<1>6. CASE l \notin lobbies
  BY <1>1, <1>4, <1>6 DEF Memberships
<1> QED
  BY <1>5, <1>6

\* The component implements the directory, for any number of users, lobbies
\* and requests.
THEOREM DirectoryIsImplemented == LobbySafety => ImplementsDirectory
<1>1. LobbyInit => Directory!Init
  BY DEF LobbyInit, Directory!Init, Memberships
<1>2. LobbyInvariant /\ [LobbyNext]_vars => [Directory!Next]_(Directory!vars)
  <2> SUFFICES ASSUME LobbyInvariant, [LobbyNext]_vars
               PROVE  Directory!Next \/ UNCHANGED <<lobbies, Memberships>>
    BY DEF Directory!vars
  <2>1. ASSUME NEW c \in Call, Create(c) \/ Join(c) \/ Leave(c) \/ Delete(c)
        PROVE  Directory!Next \/ UNCHANGED <<lobbies, Memberships>>
    BY <2>1, CreateOpens, JoinEnters, LeaveExits, DeleteCloses
  <2>2. CASE UNCHANGED lobbyState
    BY <2>2 DEF lobbyState, Memberships
  <2> QED
    BY <2>1, <2>2
    DEF LobbyNext, ValidateCreate, ValidateJoin, ValidateLeave, ValidateDelete,
        RefuseCreate, RefuseJoin, RefuseLeave, RefuseDelete, vars
<1> QED
  BY <1>1, <1>2, LobbiesCorrect, PTL DEF LobbySafety, ImplementsDirectory, Directory!Spec

-----------------------------------------------------------------------------
(* The sessions under the lobbies *)

Lobbying == {"create", "join", "leave", "delete"}

\* The requests as Sessions knows them: while a slot serves a lobby request
\* it is free, as far as the sessions go.
SessionCalls == [c \in Call |-> IF calls[c].op \in Lobbying THEN Free ELSE calls[c]]

Requests == INSTANCE SessionsProofs WITH calls <- SessionCalls

\* To the sessions, a lobby request is one that ended when it was validated.
ImplementsSessions == Requests!SessionSafety

\* What Sessions sees of a request that enters a slot.
LEMMA SlotSeen ==
  ASSUME LobbyTypeOK, NEW c \in Call, NEW r, Become(c, r)
  PROVE  /\ r.op \notin Lobbying => Requests!Become(c, r)
         /\ r.op \in Lobbying => Requests!Become(c, Free)
<1> DEFINE Seen(q) == IF q.op \in Lobbying THEN Free ELSE q
<1>1. calls \in [Call -> SessionCall \cup LobbyCall] /\ calls' = [calls EXCEPT ![c] = r]
  BY DEF LobbyTypeOK, Become
<1>2. \A d \in Call : calls'[d] = IF d = c THEN r ELSE calls[d]
  BY <1>1
<1>3. SessionCalls' = [d \in Call |-> IF d = c THEN Seen(r) ELSE Seen(calls[d])]
  BY <1>2 DEF SessionCalls
<1>4. SessionCalls' = [SessionCalls EXCEPT ![c] = Seen(r)]
  BY <1>3 DEF SessionCalls
<1> QED
  BY <1>4 DEF Requests!Become

\* A slot whose request ends is free afterwards, and nothing has happened in it
\* if it served a lobby.
LEMMA EndSeen ==
  ASSUME LobbyTypeOK, NEW c \in Call, Finish(c)
  PROVE  /\ Requests!Finish(c)
         /\ calls[c].op \in Lobbying => SessionCalls' = SessionCalls
<1>1. Free.op \notin Lobbying
  BY DEF Free, Lobbying
<1>2. Requests!Become(c, Free)
  BY <1>1, SlotSeen DEF Finish
<1>3. calls[c].op \in Lobbying => SessionCalls[c] = Free
  BY DEF SessionCalls
<1>4. SessionCalls \in [Call -> {SessionCalls[d] : d \in Call}]
  BY DEF SessionCalls
<1>5. calls[c].op \in Lobbying => [SessionCalls EXCEPT ![c] = Free] = SessionCalls
  BY <1>3, <1>4
<1>6. Free = Requests!Free
  BY DEF Free, Requests!Free
<1> QED
  BY <1>2, <1>5, <1>6 DEF Requests!Finish, Requests!Become

\* Each step of the sessions is one of the same kind under the mapping.
LEMMA SessionStepSeen ==
  ASSUME LobbyTypeOK, SessionNext
  PROVE  Requests!SessionNext
<1> USE DEF Lobbying
<1>0. \A c \in Call : calls[c].op \notin Lobbying => SessionCalls[c] = calls[c]
  BY DEF SessionCalls
<1>a. Free = Requests!Free /\ Free.op = "free"
  BY DEF Free, Requests!Free
<1>1. ASSUME NEW c \in Call, NEW p \in Peer, Correspondence(c, p)
      PROVE  Requests!Correspondence(c, p)
  <2>1. SessionCalls[c] = Free
    BY <1>0, <1>1, <1>a DEF Correspondence
  <2>2. Requests!Become(c, [op |-> "open", peer |-> p])
    BY <1>1, SlotSeen DEF Correspondence
  <2> QED
    BY <1>1, <1>a, <2>1, <2>2 DEF Correspondence, Requests!Correspondence
<1>2. ASSUME NEW c \in Call, Reject(c)
      PROVE  Requests!Reject(c)
  BY <1>0, <1>2, EndSeen DEF Reject, Requests!Reject, Requests!sessionState, sessionState
<1>3. ASSUME NEW c \in Call, NEW g \in Game, ValidateLogin(c, g)
      PROVE  Requests!ValidateLogin(c, g)
  <2>1. SessionCalls[c] = calls[c]
    BY <1>0, <1>3 DEF ValidateLogin
  <2>2. Requests!Become(c, [op |-> "login", peer |-> calls[c].peer, game |-> g])
    BY <1>3, SlotSeen DEF ValidateLogin
  <2> QED
    BY <1>3, <2>1, <2>2
    DEF ValidateLogin, Requests!ValidateLogin, Requests!sessionState, sessionState
<1>4. ASSUME NEW c \in Call, Login(c)
      PROVE  Requests!Login(c)
  <2>1. SessionCalls[c] = calls[c] /\ Requests!Finish(c)
    BY <1>0, <1>4, EndSeen DEF Login
  <2> QED
    BY <1>4, <2>1
    DEF Login, FreshSessionId, FreshUserId,
        Requests!Login, Requests!FreshSessionId, Requests!FreshUserId
<1>5. ASSUME NEW c \in Call, NEW s \in sessions, ValidateLogout(c, s)
      PROVE  Requests!ValidateLogout(c, s)
  <2>1. SessionCalls[c] = calls[c]
    BY <1>0, <1>5 DEF ValidateLogout
  <2>2. Requests!Become(c, [op |-> "logout", session |-> s])
    BY <1>5, SlotSeen DEF ValidateLogout
  <2> QED
    BY <1>5, <2>1, <2>2
    DEF ValidateLogout, Requests!ValidateLogout, Requests!sessionState, sessionState
<1>b. ASSUME NEW keys, Destroy(keys)
      PROVE  Requests!Destroy(keys)
  BY <1>b DEF Destroy, Find, Requests!Destroy, Requests!Find
<1>c. UNCHANGED calls => UNCHANGED SessionCalls
  BY DEF SessionCalls
<1>d. \A s : Expired(s) <=> Requests!Expired(s)
  BY DEF Expired, Requests!Expired
<1>6. ASSUME NEW c \in Call, Logout(c)
      PROVE  Requests!Logout(c)
  <2>1. SessionCalls[c] = calls[c] /\ Requests!Finish(c)
    BY <1>0, <1>6, EndSeen DEF Logout
  <2>2. Requests!Destroy({calls[c].session})
    BY <1>6, <1>b DEF Logout
  <2> QED
    BY <1>6, <2>1, <2>2 DEF Logout, Requests!Logout
<1>7. ASSUME NEW p \in Peer, Disconnect(p)
      PROVE  Requests!Disconnect(p)
  <2>1. Requests!Destroy({s.id : s \in {t \in listeners : t.peer = p}})
    BY <1>7, <1>b DEF Disconnect
  <2> QED
    BY <1>7, <1>c, <2>1 DEF Disconnect, Requests!Disconnect
<1>8. CASE Tick
  BY <1>8, <1>c DEF Tick, Find, Requests!SessionNext, Requests!Tick, Requests!Find
<1>9. CASE Cleanup
  <2>1. Requests!Destroy({s.id : s \in {t \in sessions : Expired(t)}})
    BY <1>9, <1>b DEF Cleanup
  <2>2. {t \in sessions : Expired(t)} = {t \in sessions : Requests!Expired(t)}
    BY <1>d
  <2> QED
    BY <1>9, <1>c, <2>1, <2>2 DEF Cleanup, Requests!SessionNext, Requests!Cleanup
<1>10. CASE Shutdown
  BY <1>10, <1>c DEF Shutdown, Requests!SessionNext, Requests!Shutdown
<1> QED
  BY <1>1, <1>2, <1>3, <1>4, <1>5, <1>6, <1>7, <1>8, <1>9, <1>10
  DEF SessionNext, Requests!SessionNext

\* To the sessions a validated lobby request is a rejected one, and its body
\* is no step at all.
LEMMA LobbyStepSeen ==
  ASSUME LobbyTypeOK, [LobbyNext]_vars
  PROVE  [Requests!SessionNext]_(Requests!sessionVars)
<1>1. CASE SessionNext
  BY <1>1, SessionStepSeen
<1>2. ASSUME NEW c \in Call, calls[c].op = "open", NEW r, Become(c, r),
             r.op \in Lobbying, UNCHANGED sessionState
      PROVE  Requests!SessionNext
  <2>1. Requests!Finish(c)
    BY <1>2, SlotSeen DEF Requests!Finish, Requests!Free, Free
  <2>2. SessionCalls[c].op = "open"
    BY <1>2 DEF SessionCalls, Lobbying
  <2> QED
    BY <1>2, <2>1, <2>2
    DEF Requests!SessionNext, Requests!Reject, Requests!sessionState, sessionState
<1>3. ASSUME NEW c \in Call, NEW s \in sessions,
             \/ ValidateCreate(c, s) \/ ValidateLeave(c, s)
             \/ \E l \in lobbies : ValidateJoin(c, s, l) \/ ValidateDelete(c, s, l)
      PROVE  Requests!SessionNext
  BY <1>2, <1>3
  DEF ValidateCreate, ValidateLeave, ValidateJoin, ValidateDelete, Authorized, Lobbying
<1>4. ASSUME NEW c \in Call, Finish(c), calls[c].op \in Lobbying, UNCHANGED sessionState
      PROVE  UNCHANGED Requests!sessionVars
  BY <1>4, EndSeen DEF Requests!sessionVars, Requests!sessionState, sessionState
<1>5. ASSUME NEW c \in Call,
             \/ Create(c) \/ RefuseCreate(c) \/ Join(c) \/ RefuseJoin(c)
             \/ Leave(c) \/ RefuseLeave(c) \/ Delete(c) \/ RefuseDelete(c)
      PROVE  UNCHANGED Requests!sessionVars
  BY <1>4, <1>5
  DEF Create, RefuseCreate, Join, RefuseJoin, Leave, RefuseLeave, Delete, RefuseDelete,
      Lobbying
<1>6. CASE UNCHANGED vars
  BY <1>6 DEF vars, sessionVars, sessionState, SessionCalls,
              Requests!sessionVars, Requests!sessionState
<1> QED
  BY <1>1, <1>3, <1>5, <1>6 DEF LobbyNext

\* The lobbies are an addition to the sessions that leaves them as they were:
\* with lobby requests mapped to rejected ones, every behaviour is one of
\* Sessions, and what is proved there of sessions holds here.
THEOREM SessionsAreImplemented == LobbySafety => ImplementsSessions
<1>1. LobbyInit => Requests!SessionInit
  <2> SUFFICES ASSUME LobbyInit PROVE Requests!SessionInit
    OBVIOUS
  <2>1. SessionCalls = [c \in Call |-> Requests!Free]
    BY DEF LobbyInit, SessionInit, SessionCalls, Free, Requests!Free
  <2> QED
    BY <2>1 DEF LobbyInit, SessionInit, Requests!SessionInit
<1>2. LobbyInvariant /\ [LobbyNext]_vars => [Requests!SessionNext]_(Requests!sessionVars)
  BY LobbyStepSeen DEF LobbyInvariant
<1> QED
  BY <1>1, <1>2, LobbiesCorrect, PTL DEF LobbySafety, ImplementsSessions, Requests!SessionSafety

\* What is proved of Sessions holds of its image.
LEMMA SessionTheoremsSeen ==
  ImplementsSessions => /\ Requests!SessionEndsByDisconnectOrExpiry
                        /\ Requests!DisconnectReleasesSessions
<1>1. Requests!Session \cap SessionId = {}
  BY KeyAssumption DEF Session, Requests!Session
<1>2. Requests!SessionSafety => Requests!SessionEndsByDisconnectOrExpiry
  BY <1>1, TimeoutAssumption, Requests!LogoutsEndNothing
<1>3. Requests!SessionSafety => Requests!DisconnectReleasesSessions
  BY <1>1, TimeoutAssumption, Requests!DisconnectIsComplete
<1> QED
  BY <1>2, <1>3 DEF ImplementsSessions

\* Nothing about lobbies ends a session or keeps one alive: requests do not,
\* and a disconnect releases what its peer has logged in, even in the middle
\* of a create or a join.
THEOREM LobbiesEndNoSessions ==
  LobbySafety => SessionEndsByDisconnectOrExpiry /\ DisconnectReleasesSessions
<1> DEFINE Ended == \A s \in sessions \ sessions' :
                      \/ s.peer \in connected \ connected'
                      \/ Expired(s) /\ cleanupJob
           Released == \A s \in sessions' : s.peer \notin connected \ connected'
<1>1. \A s : Requests!Expired(s) <=> Expired(s)
  BY DEF Requests!Expired, Expired
<1>2. [\A s \in sessions \ sessions' :
          \/ s.peer \in connected \ connected'
          \/ Requests!Expired(s) /\ cleanupJob]_(Requests!sessionVars)
        => [Ended]_sessionVars
  BY <1>1 DEF Requests!sessionVars, Requests!sessionState
<1>3. [Released]_(Requests!sessionVars) => [Released]_sessionVars
  BY DEF Requests!sessionVars, Requests!sessionState
<1> QED
  BY <1>2, <1>3, SessionsAreImplemented, SessionTheoremsSeen, PTL
  DEF SessionEndsByDisconnectOrExpiry, DisconnectReleasesSessions,
      Requests!SessionEndsByDisconnectOrExpiry, Requests!DisconnectReleasesSessions

-----------------------------------------------------------------------------
(* Orphaned lobbies *)

KnownUser(u) == \E s \in listeners : s.user = u

\* Whoever owns a lobby, and whoever a request has captured, has logged in:
\* no later login can be given that user's id.
UsersAreKnown ==
  /\ \A l \in lobbies : KnownUser(l.owner)
  /\ \A c \in Call : calls[c].op \in {"create", "join", "leave", "delete"}
       => KnownUser(calls[c].user)

\* What a step does to the requests: it leaves a slot alone, ends or begins a
\* request there, or captures a user with a live session.
CallStep(c) ==
  \/ calls'[c] = calls[c]
  \/ calls'[c].op \notin {"create", "join", "leave", "delete"}
  \/ \E s \in sessions : calls'[c].user = s.user

\* A step of the sessions captures no user in a lobby request.
LEMMA SessionCallStep ==
  ASSUME LobbyInvariant, [SessionNext]_sessionVars
  PROVE  \A c \in Call : CallStep(c)
<1> SUFFICES ASSUME NEW e \in Call
             PROVE  CallStep(e)
  OBVIOUS
<1> USE DEF Lobbying
<1>1. ASSUME NEW d \in Call, NEW r, Become(d, r), r.op \notin Lobbying
      PROVE  CallStep(e)
  BY <1>1 DEF LobbyInvariant, LobbyTypeOK, Become, CallStep
<1>2. ASSUME NEW c \in Call, NEW p \in Peer, Correspondence(c, p)
      PROVE  CallStep(e)
  BY <1>1, <1>2 DEF Correspondence
<1>3. ASSUME NEW c \in Call, NEW g \in Game, ValidateLogin(c, g)
      PROVE  CallStep(e)
  BY <1>1, <1>3 DEF ValidateLogin
<1>4. ASSUME NEW c \in Call, NEW s \in sessions, ValidateLogout(c, s)
      PROVE  CallStep(e)
  BY <1>1, <1>4 DEF ValidateLogout
<1>5. ASSUME NEW c \in Call, Finish(c)
      PROVE  CallStep(e)
  BY <1>1, <1>5 DEF Finish, Free
<1>6. CASE UNCHANGED calls
  BY <1>6 DEF CallStep
<1> QED
  BY <1>2, <1>3, <1>4, <1>5, <1>6
  DEF SessionNext, Reject, Login, Logout, Disconnect, Tick, Cleanup,
      Shutdown, sessionVars

\* The validators capture the user of a live session; the rest captures none.
LEMMA LobbyCallStep ==
  ASSUME LobbyInvariant, [LobbyNext]_vars
  PROVE  \A c \in Call : CallStep(c)
<1> SUFFICES ASSUME NEW e \in Call
             PROVE  CallStep(e)
  OBVIOUS
<1>1. CASE [SessionNext]_sessionVars
  BY <1>1, SessionCallStep
<1>2. ASSUME NEW c \in Call, NEW s \in sessions, NEW r, Become(c, r), r.user = s.user
      PROVE  CallStep(e)
  BY <1>2 DEF LobbyInvariant, LobbyTypeOK, Become, CallStep
<1>3. ASSUME NEW c \in Call, NEW s \in sessions, ValidateCreate(c, s) \/ ValidateLeave(c, s)
      PROVE  CallStep(e)
  BY <1>2, <1>3 DEF ValidateCreate, ValidateLeave
<1>4. ASSUME NEW c \in Call, NEW s \in sessions, NEW l \in lobbies,
             ValidateJoin(c, s, l) \/ ValidateDelete(c, s, l)
      PROVE  CallStep(e)
  BY <1>2, <1>4 DEF ValidateJoin, ValidateDelete
<1>5. ASSUME NEW c \in Call, Finish(c)
      PROVE  CallStep(e)
  <2>1. calls'[e] = calls[e] \/ calls'[e].op = "free"
    BY <1>5, FinishCall DEF LobbyInvariant
  <2> QED
    BY <2>1 DEF CallStep
<1> QED
  BY <1>1, <1>3, <1>4, <1>5
  DEF LobbyNext, Create, Join, Leave, Delete, RefuseCreate, RefuseJoin,
      RefuseLeave, RefuseDelete, vars, sessionVars

\* Listeners are for ever, and only a login adds users: with an id that no
\* listener's user has.
LEMMA ListenersGrow ==
  ASSUME [LobbyNext]_vars
  PROVE  /\ listeners \subseteq listeners'
         /\ \A u \in users' : u \in users \/ ~KnownUser(u)
<1>1. ASSUME NEW c \in Call, Login(c)
      PROVE  /\ listeners \subseteq listeners'
             /\ \A u \in users' : u \in users \/ ~KnownUser(u)
  BY <1>1 DEF Login, FreshUserId, KnownUser
<1>2. CASE listeners' = listeners /\ users' \subseteq users
  BY <1>2
<1>3. UNCHANGED sessionState => listeners' = listeners /\ users' = users
  BY DEF sessionState
<1>4. CASE [SessionNext]_sessionVars
  BY <1>1, <1>2, <1>3, <1>4
  DEF SessionNext, sessionVars, Correspondence, Reject, ValidateLogin,
      ValidateLogout, Logout, Disconnect, Tick, Cleanup, Shutdown, Destroy
<1> QED
  BY <1>2, <1>3, <1>4
  DEF LobbyNext, ValidateCreate, ValidateJoin, ValidateLeave, ValidateDelete,
      Create, Join, Leave, Delete, RefuseCreate, RefuseJoin, RefuseLeave,
      RefuseDelete, vars, sessionVars

\* A new lobby belongs to the user of the request that created it.
LEMMA NewOwners ==
  ASSUME [LobbyNext]_vars, NEW l \in lobbies' \ lobbies
  PROVE  \E c \in Call : calls[c].op = "create" /\ calls[c].user = l.owner
<1>1. ASSUME NEW c \in Call, Create(c)
      PROVE  calls[c].op = "create" /\ calls[c].user = l.owner
  BY <1>1 DEF Create
<1> QED
  BY <1>1
  DEF LobbyNext, ValidateCreate, ValidateJoin, ValidateLeave, ValidateDelete,
      Join, Leave, Delete, RefuseCreate, RefuseJoin, RefuseLeave,
      RefuseDelete, vars, lobbyState

\* Users are known in every reachable state.
LEMMA KnownUsers == LobbySafety => []UsersAreKnown
<1>1. LobbyInit => UsersAreKnown
  BY DEF LobbyInit, SessionInit, UsersAreKnown, Free
<1>2. LobbyInvariant /\ UsersAreKnown /\ [LobbyNext]_vars => UsersAreKnown'
  <2> SUFFICES ASSUME LobbyInvariant, UsersAreKnown, [LobbyNext]_vars
               PROVE  UsersAreKnown'
    OBVIOUS
  <2>1. \A u : KnownUser(u) => KnownUser(u)'
    BY ListenersGrow DEF KnownUser
  <2>2. \A s \in sessions : KnownUser(s.user)
    BY DEF LobbyInvariant, LobbyTypeOK, SessionStateOK, KnownUser
  <2>3. \A l \in lobbies' : KnownUser(l.owner)'
    BY <2>1, NewOwners DEF UsersAreKnown
  <2>4. ASSUME NEW c \in Call, calls'[c].op \in {"create", "join", "leave", "delete"}
        PROVE  KnownUser(calls[c].user)'
    <3>1. KnownUser(calls'[c].user)
      BY <2>2, <2>4, LobbyCallStep DEF CallStep, UsersAreKnown
    <3> QED
      BY <3>1, ListenersGrow DEF KnownUser
  <2> QED
    BY <2>3, <2>4 DEF UsersAreKnown
<1> QED
  BY <1>1, <1>2, LobbiesCorrect, PTL DEF LobbySafety

\* Nobody can delete an orphaned lobby: its owner is logged out for good, and
\* a delete of anybody else is refused.
THEOREM OrphansStay == LobbySafety => OrphanedLobbyIsForever
<1> DEFINE Stay == \A l \in lobbies : Orphaned(l) => Orphaned(l)'
<1>1. LobbyInvariant /\ UsersAreKnown /\ [LobbyNext]_vars => [Stay]_vars
  <2> SUFFICES ASSUME LobbyInvariant, UsersAreKnown, [LobbyNext]_vars,
                      NEW l \in lobbies, Orphaned(l)
               PROVE  Orphaned(l)'
    OBVIOUS
  <2>1. l.owner \notin users'
    BY ListenersGrow DEF UsersAreKnown, Orphaned
  <2>2. l \in lobbies'
    <3>1. ASSUME NEW c \in Call, Delete(c)
          PROVE  l \in lobbies'
      <4>1. calls[c].lobby.id # l.id
        BY <3>1 DEF Delete, Orphaned, LobbyInvariant, LobbyIdentity
      <4> QED
        BY <3>1, <4>1 DEF Delete
    <3> QED
      BY <3>1
      DEF LobbyNext, ValidateCreate, ValidateJoin, ValidateLeave,
          ValidateDelete, Create, Join, Leave, RefuseCreate, RefuseJoin,
          RefuseLeave, RefuseDelete, vars, lobbyState
  <2>3. ASSUME NEW c \in Call, calls'[c].op = "delete", calls'[c].user = l.owner,
               calls'[c].lobby = l
        PROVE  FALSE
    <3>1. calls'[c] # calls[c]
      BY <2>3 DEF Orphaned
    <3>2. PICK s \in sessions : s.user = l.owner
      BY <2>3, <3>1, LobbyCallStep DEF CallStep
    <3>3. s.user \in users
      BY DEF LobbyInvariant, SessionsMatchUsers
    <3> QED
      BY <3>2, <3>3 DEF Orphaned
  <2> QED
    BY <2>1, <2>2, <2>3 DEF Orphaned
<1> QED
  BY <1>1, LobbiesCorrect, KnownUsers, PTL DEF LobbySafety, OrphanedLobbyIsForever

-----------------------------------------------------------------------------
(* Participations of deleted lobbies *)

\* The participation in a lobby that is no more.
Ghost(x) == x \in participants /\ \A l \in lobbies : l.id # x[2]

\* delete() takes no participation out of the repository, and nothing else will:
\* neither a leave, which is about live lobbies, nor a later lobby of that id.
\* So every lobby that was ever deleted leaves its members behind for ever.
GhostsAreForever ==
  [][/\ \A l \in lobbies \ lobbies' : participants' = participants
     /\ \A x \in participants : Ghost(x) => Ghost(x)']_vars

\* The repository of participants only grows but for leaves, and it never
\* forgets those of deleted lobbies.
THEOREM DeletedLobbiesLeaveGhosts == LobbySafety => GhostsAreForever
<1>1. LobbyInvariant /\ [LobbyNext]_vars
        => [/\ \A l \in lobbies \ lobbies' : participants' = participants
            /\ \A x \in participants : Ghost(x) => Ghost(x)']_vars
  <2> SUFFICES ASSUME LobbyInvariant, LobbyNext
               PROVE  /\ \A l \in lobbies \ lobbies' : participants' = participants
                      /\ \A x \in participants : Ghost(x) => Ghost(x)'
    OBVIOUS
  <2>1. ASSUME NEW c \in Call, Create(c)
        PROVE  /\ lobbies \subseteq lobbies'
               /\ \A x \in participants : Ghost(x) => Ghost(x)'
    <3>1. PICK l : /\ l.id \notin issued
                   /\ lobbies' = lobbies \cup {l}
                   /\ participants \subseteq participants'
      <4>1. PICK id \in LobbyId \ issued :
              LET l == [id |-> id, owner |-> calls[c].user, game |-> calls[c].game]
              IN  /\ lobbies' = lobbies \cup {l}
                  /\ participants' = participants \cup {<<l.owner, id>>}
        BY <2>1 DEF Create
      <4> DEFINE l == [id |-> id, owner |-> calls[c].user, game |-> calls[c].game]
      <4>2. l.id \notin issued /\ lobbies' = lobbies \cup {l} /\ participants \subseteq participants'
        BY <4>1
      <4> QED
        BY <4>2
    <3>2. \A x \in participants : x[2] # l.id
      BY <3>1 DEF LobbyInvariant, LobbyTypeOK
    <3> QED
      BY <3>1, <3>2 DEF Ghost
  <2>2. ASSUME NEW c \in Call, Join(c)
        PROVE  lobbies' = lobbies /\ participants \subseteq participants'
    BY <2>2 DEF Join
  <2>3. ASSUME NEW c \in Call, Leave(c)
        PROVE  /\ lobbies' = lobbies
               /\ \A x \in participants : Ghost(x) => x \in participants'
    <3>1. PICK l \in lobbies : participants' = participants \ {<<calls[c].user, l.id>>}
      BY <2>3 DEF Leave, LobbyToLeave
    <3>2. \A x \in participants : Ghost(x) => x # <<calls[c].user, l.id>>
      BY DEF Ghost
    <3> QED
      BY <2>3, <3>1, <3>2 DEF Leave
  <2>4. ASSUME NEW c \in Call, Delete(c)
        PROVE  lobbies' \subseteq lobbies /\ participants' = participants
    BY <2>4, DeleteRemovesNone DEF LobbyInvariant, Delete
  <2>5. CASE UNCHANGED lobbyState
    BY <2>5 DEF lobbyState, Ghost
  <2>6. ASSUME lobbies' \subseteq lobbies, \A x \in participants : Ghost(x) => x \in participants'
        PROVE  \A x \in participants : Ghost(x) => Ghost(x)'
    BY <2>6 DEF Ghost
  <2> QED
    BY <2>1, <2>2, <2>3, <2>4, <2>5, <2>6
    DEF LobbyNext, ValidateCreate, ValidateJoin, ValidateLeave, ValidateDelete,
        RefuseCreate, RefuseJoin, RefuseLeave, RefuseDelete, lobbyState
<1> QED
  BY <1>1, LobbiesCorrect, PTL DEF LobbySafety, GhostsAreForever
=============================================================================

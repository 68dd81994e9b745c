------------------------------- MODULE Client -------------------------------
(***************************************************************************)
(* The client library on top of the server: client.mjs, natty.client.mjs   *)
(* and the session and lobby clients.                                      *)
(*                                                                         *)
(* The clients of one connection share a context, { authorization,         *)
(* lobbyId }.  A call reads it into the header of its request, awaits the  *)
(* answer and only then writes what it has learnt back into the context;   *)
(* the server and the other clients go on meanwhile.  The server is that   *)
(* of Lobbies, step by step, with the requests that the library sends.     *)
(*                                                                         *)
(* Its users may log in as often as they like, and start calls while others *)
(* are under way.                                                          *)
(*                                                                         *)
(* A request arrives when it is sent: what may happen on its way may just  *)
(* as well happen between its arrival and its validators.  Its answer      *)
(* travels on the one stream of the connection: answers are heard in the   *)
(* order in which they were given.  Left out are lobby/list, which writes  *)
(* nothing, and the shutdown, after which there is no Cleanup and no other *)
(* difference.                                                             *)
(* Bound: MaxCalls calls of a connection are under way at once.            *)
(***************************************************************************)
EXTENDS Lobbies, FiniteSets, Sequences

CONSTANTS
  None,     \* undefined
  MaxCalls

ASSUME ClientAssumption == None \notin SessionId \cup LobbyId

VARIABLES
  authorization,  \* context.authorization of each connection's clients
  lobbyId,        \* context.lobbyId
  request,        \* the library calls being served, by slot
  inbox,          \* per connection, the calls that were answered and the answers
  learnt          \* history: the authorization of the call that wrote lobbyId

context == <<authorization, lobbyId>>
clientVars == <<context, request, inbox, learnt>>

NoRequest == [op |-> "none"]

Request == [peer : Peer, op : {"login"}, game : Game]
      \cup [peer : Peer, op : {"logout", "create", "leave"},
            authorization : SessionId \cup {None}]
      \cup [peer : Peer, op : {"join", "delete"},
            authorization : SessionId \cup {None}, lobby : LobbyId]

Answer == [to : Request, value : SessionId \cup LobbyId \cup {None}]

ClientTypeOK ==
  /\ LobbyTypeOK
  /\ authorization \in [Peer -> SessionId \cup {None}]
  /\ lobbyId \in [Peer -> LobbyId \cup {None}]
  /\ request \in [Call -> {NoRequest} \cup Request]
  /\ inbox \in [Peer -> Seq(Answer)]
  /\ learnt \in [Peer -> SessionId \cup {None}]

ClientInit ==
  /\ LobbyInit
  /\ authorization = [p \in Peer |-> None]
  /\ lobbyId = [p \in Peer |-> None]
  /\ request = [c \in Call |-> NoRequest]
  /\ inbox = [p \in Peer |-> <<>>]
  /\ learnt = [p \in Peer |-> None]

-----------------------------------------------------------------------------
(* The calls of the library *)

Served(p) == {c \in Call : request[c] # NoRequest /\ request[c].peer = p}

MayCall(p) == Cardinality(Served(p)) + Len(inbox[p]) < MaxCalls

\* Mutant: join() writes the lobby id down when it asks for the lobby.
SendHopefully(c, r) ==
  /\ request[c] = NoRequest
  /\ MayCall(r.peer)
  /\ Correspondence(c, r.peer)
  /\ request' = [request EXCEPT ![c] = r]
  /\ lobbyId' = IF r.op = "join" THEN [lobbyId EXCEPT ![r.peer] = r.lobby] ELSE lobbyId
  /\ learnt' = IF r.op = "join" THEN [learnt EXCEPT ![r.peer] = r.authorization] ELSE learnt
  /\ UNCHANGED <<lobbyState, authorization, inbox>>

\* A method of the library builds the message from the context and sends it.
Send(c, r) ==
  /\ request[c] = NoRequest
  /\ MayCall(r.peer)
  /\ Correspondence(c, r.peer)
  /\ request' = [request EXCEPT ![c] = r]
  /\ UNCHANGED <<lobbyState, context, inbox, learnt>>

CallLogin(c, p, g) == Send(c, [peer |-> p, op |-> "login", game |-> g])

CallOnSession(c, p, op) ==
  Send(c, [peer |-> p, op |-> op, authorization |-> authorization[p]])

\* The caller may know any lobby id that was ever handed out.
CallOnLobby(c, p, op, id) ==
  Send(c, [peer |-> p, op |-> op, authorization |-> authorization[p], lobby |-> id])

\* Mutant: the two fields are mixed up.
LearnSwapped(p, auth, id) ==
  /\ authorization' = [authorization EXCEPT ![p] = id]
  /\ lobbyId' = [lobbyId EXCEPT ![p] = auth]

\* Mutant: logging out clears the whole context.
LearnNothingLoggedOut(p, auth, id) ==
  /\ authorization' = [authorization EXCEPT ![p] = auth]
  /\ lobbyId' = [lobbyId EXCEPT ![p] = IF auth = None THEN None ELSE id]

\* A method writes to the context of its connection.
Learn(p, auth, id) ==
  /\ authorization' = [authorization EXCEPT ![p] = auth]
  /\ lobbyId' = [lobbyId EXCEPT ![p] = id]

WritesLobbyId == {"create", "join", "leave"}

\* What follows the await of each method.  (The call that last wrote lobbyId
\* is remembered as history.)
Remember(r, value) ==
  LET p == r.peer
  IN  /\ CASE r.op = "login"  -> Learn(p, value, lobbyId[p])
           [] r.op = "logout" -> Learn(p, None, lobbyId[p])
           [] r.op = "create" -> Learn(p, authorization[p], value)
           [] r.op = "join"   -> Learn(p, authorization[p], r.lobby)
           [] r.op = "leave"  -> Learn(p, authorization[p], None)
           [] r.op = "delete" -> UNCHANGED context
      /\ learnt' = IF r.op \in WritesLobbyId
                   THEN [learnt EXCEPT ![p] = r.authorization] ELSE learnt

\* Mutant: answers that have piled up are heard last one first.
ReturnLatest(p) ==
  /\ inbox[p] # <<>>
  /\ LET n == Len(inbox[p])
     IN  /\ IF p \in connected
            THEN Remember(inbox[p][n].to, inbox[p][n].value)
            ELSE UNCHANGED <<context, learnt>>
         /\ inbox' = [inbox EXCEPT ![p] = SubSeq(@, 1, n - 1)]
  /\ UNCHANGED <<vars, request>>

\* The next answer reaches its caller, unless the connection is gone and the
\* await throws.
Return(p) ==
  /\ inbox[p] # <<>>
  /\ IF p \in connected
     THEN Remember(Head(inbox[p]).to, Head(inbox[p]).value)
     ELSE UNCHANGED <<context, learnt>>
  /\ inbox' = [inbox EXCEPT ![p] = Tail(@)]
  /\ UNCHANGED <<vars, request>>

-----------------------------------------------------------------------------
(* The server, serving those requests *)

\* The validators of each subject, on the header and the body of the request
Validate(c) ==
  LET r == request[c]
  IN  /\ calls[c].op = "open"
      /\ \/ r.op = "login" /\ ValidateLogin(c, r.game) /\ UNCHANGED lobbyState
         \/ r.op # "login" /\ \E s \in Find({r.authorization}) :
              \/ r.op = "logout" /\ ValidateLogout(c, s) /\ UNCHANGED lobbyState
              \/ r.op = "create" /\ ValidateCreate(c, s)
              \/ r.op = "leave"  /\ ValidateLeave(c, s)
              \/ r.op \in {"join", "delete"} /\ \E l \in lobbies :
                   /\ l.id = r.lobby
                   /\ \/ r.op = "join"   /\ ValidateJoin(c, s, l)
                      \/ r.op = "delete" /\ ValidateDelete(c, s, l)
      /\ UNCHANGED clientVars

\* The handler answers as it finishes, and is done.
Respond(c, value) ==
  /\ inbox' = [inbox EXCEPT ![request[c].peer] =
                 Append(@, [to |-> request[c], value |-> value])]
  /\ request' = [request EXCEPT ![c] = NoRequest]
  /\ UNCHANGED <<context, learnt>>

\* The bodies, and what they answer
Serve(c) ==
  \/ /\ Login(c)
     /\ \E s \in sessions' \ sessions : Respond(c, s.id)
     /\ UNCHANGED lobbyState
  \/ /\ Create(c)
     /\ \E l \in lobbies' \ lobbies : Respond(c, l.id)
  \/ Logout(c) /\ UNCHANGED lobbyState /\ Respond(c, None)
  \/ (Join(c) \/ Leave(c) \/ Delete(c)) /\ Respond(c, None)

\* A validator or a body throws, and with it the caller's await: the call
\* writes nothing, so when it hears of the error makes no difference.
Refuse(c) ==
  /\ \/ Reject(c) /\ UNCHANGED lobbyState
     \/ RefuseCreate(c) \/ RefuseJoin(c) \/ RefuseLeave(c) \/ RefuseDelete(c)
  /\ request' = [request EXCEPT ![c] = NoRequest]
  /\ UNCHANGED <<context, inbox, learnt>>

ClientNext ==
  \/ \E c \in Call, p \in Peer :
       \/ \E g \in Game : CallLogin(c, p, g)
       \/ \E op \in {"logout", "create", "leave"} : CallOnSession(c, p, op)
       \/ \E op \in {"join", "delete"}, id \in issued : CallOnLobby(c, p, op, id)
  \/ \E c \in Call : Validate(c) \/ Serve(c) \/ Refuse(c)
  \/ \E p \in Peer : Return(p)
  \/ /\ (\E p \in Peer : Disconnect(p)) \/ Tick \/ Cleanup
     /\ UNCHANGED <<lobbyState, clientVars>>

ClientSpec == ClientInit /\ [][ClientNext]_<<vars, clientVars>>

-----------------------------------------------------------------------------
(* Properties *)

\* Connections that have heard all they were answered
CaughtUp == {p \in connected : inbox[p] = <<>>}

\* The lobby a client remembers, if it still exists, is one that the user it
\* was learnt for takes part in: no order in which overlapping calls of one
\* connection are served, no login or logout in between, no call that fails,
\* no request of others and no session that ends makes the two disagree.
KnownLobbyIsJoined ==
  \A p \in CaughtUp : \A l \in lobbies :
    l.id = lobbyId[p] =>
      \E s \in listeners : s.id = learnt[p] /\ LiveMember(s.user, l)

\* And a client that remembers no lobby since a leave() left the only one of
\* its session's game, and has not got into another since.
NoLobbyIsForgotten ==
  \A p \in CaughtUp : \A s \in listeners : \A l \in lobbies :
    (lobbyId[p] = None /\ s.id = learnt[p] /\ l.game = s.game)
      => ~LiveMember(s.user, l)

-----------------------------------------------------------------------------
(* Claims of the source that the code does not keep *)

\* "Currently joined lobby" (lobbies.client.mjs:118): the user who is logged
\* in takes part in the lobby that is remembered.
RemembersJoinedLobby ==
  \A p \in CaughtUp : \A s \in sessions : \A l \in lobbies :
    (s.id = authorization[p] /\ l.id = lobbyId[p]) => LiveMember(s.user, l)

\* "Leave the currently joined lobby." (lobbies.client.mjs:80)
LeavesKnownLobby ==
  [][\A p \in connected : \A s \in sessions : \A l \in lobbies :
       (s.id = authorization[p] /\ l.id = lobbyId[p] /\ lobbyId'[p] = None)
         => ~LiveMember(s.user, l)]_<<vars, clientVars>>
=============================================================================

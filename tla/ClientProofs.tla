---------------------------- MODULE ClientProofs ----------------------------
(***************************************************************************)
(* Theorems about Client, for any number of connections, calls and ids.    *)
(*                                                                         *)
(* What a client that is caught up remembers is right because of what it   *)
(* would remember if it were never told anything again: the last of the    *)
(* answers on their way that writes lobbyId decides, and that one is true  *)
(* at any moment (MemoryIsTrue).  This holds because each slot serves the  *)
(* request that holds it for the user whose session the request names, and *)
(* because only the clients of its own connection know a session's id.     *)
(***************************************************************************)
EXTENDS Client, LobbiesProofs, SequenceTheorems

\* The id of a session, known to a client of p, is that of p's own session.
OwnSession(p, auth) == auth # None => \E s \in listeners : s.peer = p /\ s.id = auth

Called(c) == request[c] # NoRequest

\* A slot serves the request that holds it, for the user of its session.
Serves(c) ==
  LET r == request[c]
      k == calls[c]
  IN  /\ k.op \in {"open", r.op}
      /\ k.op \in {"open", "login"} => k.peer = r.peer
      /\ k.op \in {"create", "leave", "join", "delete"} =>
           \E s \in listeners :
             /\ s.peer = r.peer /\ s.id = r.authorization /\ k.user = s.user
             /\ k.op \in {"create", "leave"} => k.game = s.game
      /\ k.op \in {"join", "delete"} => k.lobby.id = r.lobby

SlotsMatch ==
  \A c \in Call : /\ Called(c) => Serves(c)
                  /\ ~Called(c) => calls[c] = Free

\* An answer is for a call of its connection and tells what is that
\* connection's own.
Genuine(p, m) ==
  /\ m.to.peer = p
  /\ m.to.op # "login" => OwnSession(p, m.to.authorization)
  /\ m.to.op = "login" => OwnSession(p, m.value)
  /\ m.to.op = "create" => m.value \in issued
  /\ m.to.op = "join" => m.to.lobby \in issued

\* Only its own clients know a session, and lobby ids that anybody knows
\* have been handed out.
KnowledgeIsOwn ==
  /\ \A p \in Peer : /\ OwnSession(p, authorization[p])
                     /\ OwnSession(p, learnt[p])
                     /\ lobbyId[p] \in issued \cup {None}
                     /\ \A i \in DOMAIN inbox[p] : Genuine(p, inbox[p][i])
  /\ \A c \in Call : Called(c) =>
       /\ request[c].op # "login" => OwnSession(request[c].peer, request[c].authorization)
       /\ request[c].op \in {"join", "delete"} => request[c].lobby \in issued

\* The lobby of this id, if it exists, is one that the session's user is in.
InLobby(id, auth) ==
  \A l \in lobbies : l.id = id =>
    \E s \in listeners : s.id = auth /\ <<s.user, l.id>> \in participants

\* The session's user is in no lobby of the session's game.
InNoLobby(auth) ==
  \A s \in listeners : \A l \in lobbies :
    (s.id = auth /\ l.game = s.game) => <<s.user, l.id>> \notin participants

\* What lobbyId says when the call that wrote it was one of this session.
MemoryHolds(id, auth) == IF id = None THEN InNoLobby(auth) ELSE InLobby(id, auth)

\* Answers whose calls write lobbyId, and what they will write
Writer(m) == m.to.op \in WritesLobbyId

Belief(m) == << CASE m.to.op = "create" -> m.value
                  [] m.to.op = "join"   -> m.to.lobby
                  [] OTHER              -> None,
                m.to.authorization >>

LastWrites(q) ==
  {i \in DOMAIN q : Writer(q[i]) /\ \A j \in DOMAIN q : j > i => ~Writer(q[j])}

\* What is remembered once all of q has been heard: the last writer decides,
\* or there is none and it is still b.
Finals(q, b) ==
  {Belief(q[i]) : i \in LastWrites(q)}
    \cup {x \in {b} : \A i \in DOMAIN q : ~Writer(q[i])}

Remembered(p) == <<lobbyId[p], learnt[p]>>

MemoryIsTrue ==
  \A p \in connected : \A x \in Finals(inbox[p], Remembered(p)) : MemoryHolds(x[1], x[2])

ClientInvariant ==
  /\ LobbyInvariant
  /\ ClientTypeOK
  /\ SlotsMatch
  /\ KnowledgeIsOwn
  /\ MemoryIsTrue

-----------------------------------------------------------------------------
(* The answers on their way *)

\* Nothing on its way: what is remembered stays.
LEMMA FinalsEmpty ==
  ASSUME NEW b
  PROVE  Finals(<<>>, b) = {b}
  BY DEF Finals, LastWrites

\* One more answer: it decides if it writes, and changes nothing otherwise.
LEMMA FinalsAppend ==
  ASSUME NEW S, NEW q \in Seq(S), NEW m \in S, NEW b
  PROVE  Finals(Append(q, m), b) \subseteq
           IF Writer(m) THEN {Belief(m)} ELSE Finals(q, b)
<1> DEFINE a == Append(q, m)
           n == Len(q)
<1>1. /\ n \in Nat /\ DOMAIN q = 1 .. n
      /\ DOMAIN a = 1 .. n + 1
      /\ \A i \in 1 .. n : a[i] = q[i]
      /\ a[n + 1] = m
  BY AppendProperties
<1> HIDE DEF a, n
<1>2. CASE Writer(m)
  <2>1. \A i \in LastWrites(a) : i = n + 1
    BY <1>1, <1>2 DEF LastWrites
  <2>2. ~\A i \in DOMAIN a : ~Writer(a[i])
    BY <1>1, <1>2
  <2> QED
    BY <1>1, <1>2, <2>1, <2>2 DEF Finals, a
<1>3. CASE ~Writer(m)
  <2>1. \A i \in LastWrites(a) : i \in LastWrites(q) /\ a[i] = q[i]
    BY <1>1, <1>3 DEF LastWrites
  <2>2. (\A i \in DOMAIN a : ~Writer(a[i])) => \A i \in DOMAIN q : ~Writer(q[i])
    BY <1>1
  <2> QED
    BY <1>3, <2>1, <2>2 DEF Finals, a
<1> QED
  BY <1>2, <1>3

\* One less: hearing the first answer does not change what will be remembered.
LEMMA FinalsTail ==
  ASSUME NEW S, NEW q \in Seq(S), q # <<>>, NEW b
  PROVE  Finals(Tail(q), IF Writer(Head(q)) THEN Belief(Head(q)) ELSE b) \subseteq Finals(q, b)
<1> DEFINE t == Tail(q)
           n == Len(q)
           h == IF Writer(Head(q)) THEN Belief(Head(q)) ELSE b
<1>1. /\ n \in Nat \ {0} /\ DOMAIN q = 1 .. n
      /\ DOMAIN t = 1 .. n - 1
      /\ \A i \in 1 .. n - 1 : t[i] = q[i + 1]
      /\ Head(q) = q[1]
  BY HeadTailProperties, EmptySeq
<1> HIDE DEF t, n
<1>2. \A i \in LastWrites(t) : i + 1 \in LastWrites(q) /\ t[i] = q[i + 1]
  <2> SUFFICES ASSUME NEW i \in LastWrites(t)
               PROVE  i + 1 \in LastWrites(q) /\ t[i] = q[i + 1]
    OBVIOUS
  <2>1. i \in 1 .. n - 1 /\ t[i] = q[i + 1] /\ Writer(q[i + 1]) /\ i + 1 \in 1 .. n
    BY <1>1 DEF LastWrites
  <2>2. ASSUME NEW j \in 1 .. n, j > i + 1 PROVE ~Writer(q[j])
    <3>1. j - 1 \in 1 .. n - 1 /\ j - 1 > i
      BY <1>1, <2>1, <2>2
    <3>2. t[j - 1] = q[(j - 1) + 1] /\ (j - 1) + 1 = j
      BY <1>1, <3>1
    <3> QED
      BY <1>1, <3>1, <3>2 DEF LastWrites
  <2> QED
    BY <1>1, <2>1, <2>2 DEF LastWrites
<1>3. ASSUME \A i \in DOMAIN t : ~Writer(t[i])
      PROVE  h \in Finals(q, b)
  <2>1. \A j \in 1 .. n : j > 1 => ~Writer(q[j])
    <3> SUFFICES ASSUME NEW j \in 1 .. n, j > 1 PROVE ~Writer(q[j])
      OBVIOUS
    <3>1. j - 1 \in 1 .. n - 1 /\ (j - 1) + 1 = j
      BY <1>1
    <3> QED
      BY <1>1, <1>3, <3>1
  <2>2. CASE Writer(q[1])
    BY <1>1, <2>1, <2>2 DEF Finals, LastWrites
  <2>3. CASE ~Writer(q[1])
    <3>1. \A i \in DOMAIN q : ~Writer(q[i])
      BY <1>1, <2>1, <2>3
    <3> QED
      BY <1>1, <2>3, <3>1 DEF Finals
  <2> QED
    BY <2>2, <2>3
<1>4. Finals(t, h) \subseteq Finals(q, b)
  <2> HIDE DEF h
  <2> SUFFICES ASSUME NEW x \in Finals(t, h) PROVE x \in Finals(q, b)
    OBVIOUS
  <2>1. CASE \E i \in LastWrites(t) : x = Belief(t[i])
    BY <1>2, <2>1 DEF Finals
  <2>2. CASE x = h /\ \A i \in DOMAIN t : ~Writer(t[i])
    BY <1>3, <2>2
  <2> QED
    BY <2>1, <2>2 DEF Finals
<1> QED
  BY <1>4 DEF t

-----------------------------------------------------------------------------
(* What is the same before and after a step *)

\* A slot that has a server-side request is called.
LEMMA SlotIsCalled ==
  ASSUME ClientInvariant, NEW c \in Call, calls[c] # Free
  PROVE  Called(c) /\ Serves(c) /\ request[c] \in Request
  BY DEF ClientInvariant, SlotsMatch, ClientTypeOK, Called

\* Calls whose slot is left alone are served as before, for the listeners
\* are never removed.
LEMMA ServesStays ==
  ASSUME NEW d \in Call, Serves(d), listeners \subseteq listeners',
         calls'[d] = calls[d], request'[d] = request[d]
  PROVE  Serves(d)'
  BY DEF Serves

\* A session that is known stays known, and so do ids and answers.
LEMMA GenuineStays ==
  ASSUME listeners \subseteq listeners', issued \subseteq issued'
  PROVE  /\ \A p, auth : OwnSession(p, auth) => OwnSession(p, auth)'
         /\ \A p, m : Genuine(p, m) => Genuine(p, m)'
  BY DEF Genuine, OwnSession

\* The session with an id that p knows is one of p.
LEMMA OwnedIsOwn ==
  ASSUME ClientInvariant, NEW p, NEW s \in listeners, OwnSession(p, s.id)
  PROVE  s.peer = p
<1>1. s.id # None
  BY ClientAssumption
  DEF ClientInvariant, LobbyInvariant, LobbyTypeOK, SessionStateOK, Session
<1> QED
  BY <1>1 DEF OwnSession, ClientInvariant, LobbyInvariant, SessionsMatchUsers

\* Two connections have two users.
LEMMA UsersAreDistinct ==
  ASSUME ClientInvariant, NEW s \in listeners, NEW t \in listeners, s.user = t.user
  PROVE  s = t
  BY DEF ClientInvariant, LobbyInvariant, SessionsMatchUsers

\* Free is no request, and the operations of requests tell them apart.
LEMMA FreeIsFree == Free.op = "free" /\ NoRequest.op = "none"
  BY DEF Free, NoRequest

\* The session and the lobby a memory is about are the connection's own.
LEMMA BeliefsAreOwn ==
  ASSUME ClientInvariant, NEW p \in Peer, NEW x \in Finals(inbox[p], Remembered(p))
  PROVE  OwnSession(p, x[2]) /\ x[1] \in issued \cup {None}
<1>1. CASE x = Remembered(p)
  BY <1>1 DEF Remembered, ClientInvariant, KnowledgeIsOwn
<1>2. CASE \E i \in LastWrites(inbox[p]) : x = Belief(inbox[p][i])
  <2>1. PICK m : Genuine(p, m) /\ Writer(m) /\ x = Belief(m)
    BY <1>2 DEF LastWrites, ClientInvariant, KnowledgeIsOwn
  <2> QED
    BY <2>1 DEF Genuine, Writer, WritesLobbyId, Belief
<1> QED
  BY <1>1, <1>2 DEF Finals

\* Nothing that a client remembers or is told changes, nor what it is about.
LEMMA SameMemories ==
  ASSUME KnowledgeIsOwn, MemoryIsTrue, connected' \subseteq connected,
         listeners' = listeners, UNCHANGED <<lobbyState, context, inbox, learnt>>
  PROVE  /\ MemoryIsTrue'
         /\ \A p \in Peer : /\ OwnSession(p, authorization[p])'
                            /\ OwnSession(p, learnt[p])'
                            /\ (lobbyId[p] \in issued \cup {None})'
                            /\ \A i \in DOMAIN inbox'[p] : Genuine(p, inbox[p][i])'
<1> USE DEF lobbyState, context
<1>1. MemoryIsTrue'
  BY DEF MemoryIsTrue, MemoryHolds, InLobby, InNoLobby, Remembered
<1>2. \A p \in Peer : /\ OwnSession(p, authorization[p])'
                      /\ OwnSession(p, learnt[p])'
                      /\ (lobbyId[p] \in issued \cup {None})'
  BY DEF KnowledgeIsOwn, OwnSession
<1>3. \A p \in Peer : \A i \in DOMAIN inbox'[p] : Genuine(p, inbox[p][i])'
  BY DEF KnowledgeIsOwn, Genuine, OwnSession
<1> QED
  BY <1>1, <1>2, <1>3

-----------------------------------------------------------------------------
(* The steps that serve nothing *)

\* The clock, the cleanup job and a connection that is lost change nothing a
\* client knows or is told.
LEMMA EventStep ==
  ASSUME ClientInvariant, connected' \subseteq connected, listeners' = listeners,
         calls' = calls, UNCHANGED <<lobbyState, clientVars>>,
         LobbyInvariant'
  PROVE  ClientInvariant'
<1> USE DEF ClientInvariant, clientVars
<1>1. ClientTypeOK'
  BY DEF ClientTypeOK, LobbyInvariant, context
<1>2. SlotsMatch'
  BY DEF SlotsMatch, Called, Serves
<1>3. MemoryIsTrue' /\ KnowledgeIsOwn'
  BY SameMemories DEF KnowledgeIsOwn, OwnSession, Called, lobbyState
<1> QED
  BY <1>1, <1>2, <1>3

\* A validator works for the session that the header names, and that is one
\* of its connection.
LEMMA ValidateStep ==
  ASSUME ClientInvariant, NEW c \in Call, Validate(c), LobbyInvariant'
  PROVE  ClientInvariant'
<1> USE DEF ClientInvariant
<1>1. /\ calls[c] # Free
      /\ UNCHANGED <<sessionState, lobbyState, clientVars>>
      /\ \A d \in Call \ {c} : calls'[d] = calls[d]
  BY FreeIsFree
  DEF Validate, ValidateLogin, ValidateLogout, ValidateCreate, ValidateLeave, ValidateJoin,
      ValidateDelete, Become, LobbyInvariant, LobbyTypeOK
<1>2. Called(c) /\ Serves(c)
  BY <1>1, SlotIsCalled
<1>3. calls[c].op = "open" /\ calls[c].peer = request[c].peer
  BY <1>2 DEF Validate, Serves
<1>4. ASSUME NEW r, Become(c, r) PROVE calls'[c] = r
  BY <1>4 DEF Become, LobbyInvariant, LobbyTypeOK
<1>5. ASSUME NEW s \in Find({request[c].authorization}), request[c].op # "login"
      PROVE  s \in listeners /\ s.peer = request[c].peer /\ s.id = request[c].authorization
  <2>1. s \in listeners /\ s.id = request[c].authorization
    BY <1>5 DEF Find, LobbyInvariant, LobbyTypeOK, SessionStateOK
  <2>2. OwnSession(request[c].peer, s.id)
    BY <1>2, <1>5, <2>1 DEF KnowledgeIsOwn
  <2> QED
    BY <2>1, <2>2, OwnedIsOwn
<1>6. Serves(c)'
  <2> DEFINE r == request[c]
  <2>1. request' = request /\ listeners' = listeners
    BY <1>1 DEF clientVars, sessionState
  <2>2. CASE r.op = "login"
    <3>1. PICK g : calls'[c] = [op |-> "login", peer |-> calls[c].peer, game |-> g]
      BY <1>4, <2>2 DEF Validate, ValidateLogin
    <3> QED
      BY <1>3, <2>1, <2>2, <3>1 DEF Serves
  <2>3. CASE r.op # "login"
    <3>1. PICK s \in Find({r.authorization}) :
            \/ r.op = "logout" /\ ValidateLogout(c, s)
            \/ r.op = "create" /\ ValidateCreate(c, s)
            \/ r.op = "leave"  /\ ValidateLeave(c, s)
            \/ r.op \in {"join", "delete"} /\ \E l \in lobbies :
                 /\ l.id = r.lobby
                 /\ \/ r.op = "join"   /\ ValidateJoin(c, s, l)
                    \/ r.op = "delete" /\ ValidateDelete(c, s, l)
      BY <2>3 DEF Validate
    <3>2. s \in listeners /\ s.peer = r.peer /\ s.id = r.authorization
      BY <1>5, <2>3
    <3>3. CASE r.op = "logout"
      BY <1>4, <2>1, <3>1, <3>3 DEF ValidateLogout, Serves
    <3>4. CASE r.op \in {"create", "leave"}
      <4>1. calls'[c] = [op |-> r.op, user |-> s.user, game |-> s.game]
        BY <1>4, <3>1, <3>4 DEF ValidateCreate, ValidateLeave
      <4> QED
        BY <2>1, <3>2, <3>4, <4>1 DEF Serves
    <3>5. CASE r.op \in {"join", "delete"}
      <4>1. PICK l \in lobbies : l.id = r.lobby /\ calls'[c] = [op |-> r.op, user |-> s.user, lobby |-> l]
        BY <1>4, <3>1, <3>5 DEF ValidateJoin, ValidateDelete
      <4> QED
        BY <2>1, <3>2, <3>5, <4>1 DEF Serves
    <3> QED
      BY <3>1, <3>3, <3>4, <3>5
  <2> QED
    BY <2>2, <2>3
<1>7. SlotsMatch'
  <2> SUFFICES ASSUME NEW d \in Call
               PROVE  (Called(d)' => Serves(d)') /\ (~Called(d)' => calls'[d] = Free)
    BY DEF SlotsMatch
  <2>1. request'[d] = request[d] /\ listeners' = listeners
    BY <1>1 DEF clientVars, sessionState
  <2>2. CASE d = c
    BY <1>2, <1>6, <2>1, <2>2 DEF Called
  <2>3. CASE d # c
    BY <1>1, <2>1, <2>3, ServesStays DEF SlotsMatch, Called
  <2> QED
    BY <2>2, <2>3
<1>8. ClientTypeOK'
  BY <1>1 DEF ClientTypeOK, LobbyInvariant, clientVars, context
<1>9. MemoryIsTrue' /\ KnowledgeIsOwn'
  BY <1>1, SameMemories
  DEF KnowledgeIsOwn, OwnSession, Called, lobbyState, sessionState, clientVars
<1> QED
  BY <1>7, <1>8, <1>9

\* A call that is refused is forgotten.
LEMMA RefuseStep ==
  ASSUME ClientInvariant, NEW c \in Call, Refuse(c), LobbyInvariant'
  PROVE  ClientInvariant'
<1> USE DEF ClientInvariant
<1>1. /\ UNCHANGED <<sessionState, lobbyState, context, inbox, learnt>>
      /\ Finish(c)
      /\ request' = [request EXCEPT ![c] = NoRequest]
  BY DEF Refuse, Reject, RefuseCreate, RefuseJoin, RefuseLeave, RefuseDelete
<1>2. /\ calls'[c] = Free /\ \A d \in Call \ {c} : calls'[d] = calls[d]
      /\ ~Called(c)' /\ \A d \in Call \ {c} : request'[d] = request[d]
  BY <1>1 DEF Finish, Become, LobbyInvariant, LobbyTypeOK, ClientTypeOK, Called
<1>3. listeners' = listeners /\ connected' = connected
  BY <1>1 DEF sessionState
<1>4. SlotsMatch'
  <2> SUFFICES ASSUME NEW d \in Call
               PROVE  (Called(d)' => Serves(d)') /\ (~Called(d)' => calls'[d] = Free)
    BY DEF SlotsMatch
  <2>1. CASE d = c
    BY <1>2, <2>1
  <2>2. CASE d # c
    BY <1>2, <1>3, <2>2, ServesStays DEF SlotsMatch, Called
  <2> QED
    BY <2>1, <2>2
<1>5. ClientTypeOK'
  BY <1>1 DEF ClientTypeOK, LobbyInvariant, context
<1>6. MemoryIsTrue' /\ KnowledgeIsOwn'
  BY <1>1, <1>2, <1>3, SameMemories DEF KnowledgeIsOwn, OwnSession, Called, lobbyState
<1> QED
  BY <1>4, <1>5, <1>6

\* A call starts with what the context holds.
LEMMA SendStep ==
  ASSUME ClientInvariant, NEW c \in Call, NEW r \in Request, Send(c, r), LobbyInvariant',
         r.op # "login" => OwnSession(r.peer, r.authorization),
         r.op \in {"join", "delete"} => r.lobby \in issued
  PROVE  ClientInvariant'
<1> USE DEF ClientInvariant
<1>1. /\ request'[c] = r /\ \A d \in Call \ {c} : request'[d] = request[d]
      /\ calls'[c] = [op |-> "open", peer |-> r.peer]
      /\ \A d \in Call \ {c} : calls'[d] = calls[d]
      /\ UNCHANGED <<lobbyState, context, inbox, learnt>>
  BY DEF Send, Correspondence, Become, LobbyInvariant, LobbyTypeOK, ClientTypeOK
<1>2. listeners' = listeners /\ connected' = connected
  BY DEF Send, Correspondence
<1>3. SlotsMatch'
  <2> SUFFICES ASSUME NEW d \in Call
               PROVE  (Called(d)' => Serves(d)') /\ (~Called(d)' => calls'[d] = Free)
    BY DEF SlotsMatch
  <2>1. CASE d = c
    <3>1. r # NoRequest
      BY FreeIsFree DEF Request
    <3> QED
      BY <1>1, <2>1, <3>1 DEF Serves, Called
  <2>2. CASE d # c
    BY <1>1, <1>2, <2>2, ServesStays DEF SlotsMatch, Called
  <2> QED
    BY <2>1, <2>2
<1>4. ClientTypeOK'
  BY <1>1 DEF ClientTypeOK, LobbyInvariant, Send, context
<1>5. MemoryIsTrue' /\ KnowledgeIsOwn'
  BY <1>1, <1>2, SameMemories DEF KnowledgeIsOwn, OwnSession, Called, lobbyState
<1> QED
  BY <1>3, <1>4, <1>5

\* A client of p calls a method of the library.
Asks(c, p) ==
  \/ \E g \in Game : CallLogin(c, p, g)
  \/ \E op \in {"logout", "create", "leave"} : CallOnSession(c, p, op)
  \/ \E op \in {"join", "delete"}, id \in issued : CallOnLobby(c, p, op, id)

\* A call of the library carries what its connection knows.
LEMMA AskStep ==
  ASSUME ClientInvariant, LobbyInvariant', NEW c \in Call, NEW p \in Peer,
         Asks(c, p)
  PROVE  ClientInvariant'
<1>1. authorization[p] \in SessionId \cup {None} /\ OwnSession(p, authorization[p])
  BY DEF ClientInvariant, ClientTypeOK, KnowledgeIsOwn
<1>2. issued \subseteq LobbyId
  BY DEF ClientInvariant, LobbyInvariant, LobbyTypeOK
<1>3. CASE \E g \in Game : CallLogin(c, p, g)
  <2> PICK g \in Game : CallLogin(c, p, g)
    BY <1>3
  <2> DEFINE r == [peer |-> p, op |-> "login", game |-> g]
  <2>1. r \in Request /\ r.peer = p /\ r.op = "login" /\ Send(c, r)
    BY DEF Request, CallLogin
  <2> HIDE DEF r
  <2> QED
    BY <2>1, SendStep
<1>4. CASE \E op \in {"logout", "create", "leave"} : CallOnSession(c, p, op)
  <2> PICK op \in {"logout", "create", "leave"} : CallOnSession(c, p, op)
    BY <1>4
  <2> DEFINE r == [peer |-> p, op |-> op, authorization |-> authorization[p]]
  <2>1. r \in Request /\ r.peer = p /\ r.op = op /\ r.authorization = authorization[p]
    BY <1>1 DEF Request
  <2>2. Send(c, r)
    BY DEF CallOnSession
  <2> HIDE DEF r
  <2> QED
    BY <1>1, <2>1, <2>2, SendStep
<1>5. CASE \E op \in {"join", "delete"}, id \in issued : CallOnLobby(c, p, op, id)
  <2> PICK op \in {"join", "delete"}, id \in issued : CallOnLobby(c, p, op, id)
    BY <1>5
  <2> DEFINE r == [peer |-> p, op |-> op, authorization |-> authorization[p], lobby |-> id]
  <2>1. /\ r \in Request /\ r.peer = p /\ r.op = op
        /\ r.authorization = authorization[p] /\ r.lobby = id
    BY <1>1, <1>2 DEF Request
  <2>2. Send(c, r)
    BY DEF CallOnLobby
  <2> HIDE DEF r
  <2> QED
    BY <1>1, <2>1, <2>2, SendStep
<1> QED
  BY <1>3, <1>4, <1>5 DEF Asks

\* What is learnt is what would have been learnt in the end.
LEMMA ReturnStep ==
  ASSUME ClientInvariant, NEW p \in Peer, Return(p), LobbyInvariant'
  PROVE  ClientInvariant'
<1> USE DEF ClientInvariant
<1> DEFINE q == inbox[p]
           h == Head(q)
           b == IF Writer(h) THEN Belief(h) ELSE Remembered(p)
<1>1. /\ q \in Seq(Answer) /\ q # <<>>
      /\ UNCHANGED vars /\ request' = request
      /\ inbox' = [inbox EXCEPT ![p] = Tail(q)]
  BY DEF Return, ClientTypeOK
<1>2. /\ h \in Answer /\ Tail(q) \in Seq(Answer)
      /\ 1 \in DOMAIN q /\ h = q[1]
      /\ \A i \in DOMAIN Tail(q) : i + 1 \in DOMAIN q /\ Tail(q)[i] = q[i + 1]
  BY <1>1, HeadTailProperties, EmptySeq, LenProperties
<1>3. /\ listeners' = listeners /\ connected' = connected /\ UNCHANGED lobbyState
      /\ calls' = calls
  BY <1>1 DEF vars, sessionVars, sessionState
<1>4. Genuine(p, h)
  BY <1>2 DEF KnowledgeIsOwn
<1>5. h.to \in Request /\ h.to.peer = p
  BY <1>2, <1>4 DEF Genuine, Answer
<1>6. h.to.op \in {"login", "logout", "create", "join", "leave", "delete"}
  BY <1>5 DEF Request
<1> HIDE DEF h
<1>7. PICK auth, id, by :
        /\ authorization' = [authorization EXCEPT ![p] = auth]
        /\ lobbyId' = [lobbyId EXCEPT ![p] = id]
        /\ learnt' = [learnt EXCEPT ![p] = by]
        /\ OwnSession(p, auth) /\ OwnSession(p, by) /\ id \in issued \cup {None}
        /\ p \in connected => <<id, by>> = b
  <2>1. /\ OwnSession(p, authorization[p]) /\ OwnSession(p, None)
        /\ OwnSession(p, learnt[p]) /\ lobbyId[p] \in issued \cup {None}
    BY DEF KnowledgeIsOwn, OwnSession
  <2>2. /\ h.to.op = "login" => OwnSession(p, h.value)
        /\ h.to.op # "login" => OwnSession(p, h.to.authorization)
        /\ h.to.op = "create" => h.value \in issued
        /\ h.to.op = "join" => h.to.lobby \in issued
    BY <1>4 DEF Genuine
  <2>3. CASE p \in connected
    <3>1. Remember(h.to, h.value)
      BY <2>3 DEF Return, h
    <3>2. learnt' = [learnt EXCEPT ![p] = IF Writer(h) THEN h.to.authorization ELSE learnt[p]]
      BY <1>5, <3>1 DEF Remember, Writer, ClientTypeOK
    <3>3. CASE h.to.op \in {"login", "logout", "delete"}
      <4>1. ~Writer(h)
        BY <3>3 DEF Writer, WritesLobbyId
      <4>2. PICK auth : /\ authorization' = [authorization EXCEPT ![p] = auth]
                        /\ OwnSession(p, auth)
        <5>1. CASE h.to.op = "login"
          BY <1>5, <2>2, <3>1, <5>1 DEF Remember, Learn
        <5>2. CASE h.to.op = "logout"
          BY <1>5, <2>1, <3>1, <5>2 DEF Remember, Learn
        <5>3. CASE h.to.op = "delete"
          <6>1. authorization' = [authorization EXCEPT ![p] = authorization[p]]
            BY <3>1, <5>3 DEF Remember, context, ClientTypeOK
          <6> QED
            BY <2>1, <6>1
        <5> QED
          BY <3>3, <5>1, <5>2, <5>3
      <4>3. lobbyId' = [lobbyId EXCEPT ![p] = lobbyId[p]]
        BY <1>5, <3>1, <3>3 DEF Remember, Learn, context, ClientTypeOK
      <4> QED
        BY <2>1, <3>2, <4>1, <4>2, <4>3 DEF Remembered
    <3>4. CASE h.to.op \in WritesLobbyId
      <4>1. Writer(h)
        BY <3>4 DEF Writer
      <4>2. authorization' = [authorization EXCEPT ![p] = authorization[p]]
        BY <1>5, <3>1, <3>4 DEF Remember, Learn, WritesLobbyId
      <4>3. lobbyId' = [lobbyId EXCEPT ![p] = Belief(h)[1]]
        BY <1>5, <3>1, <3>4 DEF Remember, Learn, WritesLobbyId, Belief
      <4>4. Belief(h)[1] \in issued \cup {None} /\ Belief(h)[2] = h.to.authorization
        BY <2>2, <3>4 DEF Belief, WritesLobbyId
      <4>5. <<Belief(h)[1], Belief(h)[2]>> = Belief(h) /\ h.to.op # "login"
        BY <3>4 DEF Belief, WritesLobbyId
      <4> QED
        BY <2>1, <2>2, <3>2, <4>1, <4>2, <4>3, <4>4, <4>5
    <3> QED
      BY <1>6, <3>3, <3>4 DEF WritesLobbyId
  <2>4. CASE p \notin connected
    <3>1. /\ authorization' = [authorization EXCEPT ![p] = authorization[p]]
          /\ lobbyId' = [lobbyId EXCEPT ![p] = lobbyId[p]]
          /\ learnt' = [learnt EXCEPT ![p] = learnt[p]]
      BY <2>4 DEF Return, context, ClientTypeOK
    <3> QED
      BY <2>1, <2>4, <3>1
  <2> QED
    BY <2>3, <2>4
<1>8. /\ authorization'[p] = auth /\ lobbyId'[p] = id /\ learnt'[p] = by
      /\ inbox'[p] = Tail(q)
      /\ \A r \in Peer \ {p} : /\ authorization'[r] = authorization[r]
                               /\ lobbyId'[r] = lobbyId[r] /\ learnt'[r] = learnt[r]
                               /\ inbox'[r] = inbox[r]
  BY <1>1, <1>7 DEF ClientTypeOK
<1>9. SlotsMatch'
  BY <1>1, <1>3 DEF SlotsMatch, Serves, Called
<1>10. ClientTypeOK'
  <2>1. /\ auth \in SessionId \cup {None} /\ by \in SessionId \cup {None}
        /\ id \in LobbyId \cup {None}
    BY <1>7 DEF OwnSession, LobbyInvariant, LobbyTypeOK, SessionStateOK, Session
  <2>2. /\ authorization' \in [Peer -> SessionId \cup {None}]
        /\ lobbyId' \in [Peer -> LobbyId \cup {None}]
        /\ learnt' \in [Peer -> SessionId \cup {None}]
    BY <1>7, <2>1 DEF ClientTypeOK
  <2>3. inbox' \in [Peer -> Seq(Answer)]
    BY <1>1, <1>2 DEF ClientTypeOK
  <2> QED
    BY <1>1, <2>2, <2>3 DEF ClientTypeOK, LobbyInvariant
<1>11. KnowledgeIsOwn'
  <2>1. listeners' = listeners /\ issued' = issued
    BY <1>3 DEF lobbyState
  <2>2. \A r \in Peer : /\ OwnSession(r, authorization'[r])
                        /\ OwnSession(r, learnt'[r])
                        /\ lobbyId'[r] \in issued \cup {None}
    BY <1>7, <1>8 DEF KnowledgeIsOwn
  <2>3. \A r \in Peer : \A i \in DOMAIN inbox'[r] : Genuine(r, inbox'[r][i])
    <3>1. \A i \in DOMAIN Tail(q) : Genuine(p, Tail(q)[i])
      BY <1>2 DEF KnowledgeIsOwn
    <3> QED
      BY <1>8, <3>1 DEF KnowledgeIsOwn
  <2> QED
    BY <1>1, <2>1, <2>2, <2>3 DEF KnowledgeIsOwn, Genuine, OwnSession, Called
<1>12. MemoryIsTrue'
  <2>1. ASSUME NEW r \in connected, NEW x \in Finals(inbox[r], Remembered(r))'
        PROVE  x \in Finals(inbox[r], Remembered(r))
    <3>1. r \in Peer
      BY <2>1 DEF LobbyInvariant, LobbyTypeOK, SessionStateOK
    <3>2. CASE r = p
      <4>1. Remembered(p)' = b
        BY <1>7, <1>8, <2>1, <3>2 DEF Remembered
      <4>2. Finals(Tail(q), b) \subseteq Finals(q, Remembered(p))
        BY <1>1, FinalsTail DEF h
      <4> QED
        BY <1>8, <2>1, <3>2, <4>1, <4>2
    <3>3. CASE r # p
      BY <1>8, <2>1, <3>1, <3>3 DEF Remembered
    <3> QED
      BY <3>2, <3>3
  <2> QED
    BY <1>3, <2>1 DEF MemoryIsTrue, MemoryHolds, InLobby, InNoLobby, lobbyState
<1> QED
  BY <1>9, <1>10, <1>11, <1>12

-----------------------------------------------------------------------------
(* The bodies of the requests *)

\* What the clients of q remember stays true.
Keeps(q) ==
  \A id \in issued \cup {None} : \A auth :
    OwnSession(q, auth) /\ MemoryHolds(id, auth) => MemoryHolds(id, auth)'

\* A body frees its slot and answers.  The invariant holds on if the answer is
\* true, and if the memories of all others, or its own when it does not decide
\* about it, stay so.
LEMMA ServeFrame ==
  ASSUME ClientInvariant, LobbyInvariant', NEW c \in Call, calls[c] # Free, Finish(c),
         NEW value \in SessionId \cup LobbyId \cup {None}, Respond(c, value),
         listeners \subseteq listeners', issued \subseteq issued', connected' = connected,
         NEW m, m = [to |-> request[c], value |-> value],
         m.to.op = "login" => OwnSession(m.to.peer, value)',
         m.to.op = "create" => value \in issued',
         \A q \in connected : Keeps(q) \/ (q = m.to.peer /\ Writer(m)),
         Writer(m) => MemoryHolds(Belief(m)[1], Belief(m)[2])'
  PROVE  ClientInvariant'
<1> USE DEF ClientInvariant
<1>1. /\ Called(c) /\ m.to \in Request /\ m.to.peer \in Peer
      /\ m \in Answer
  BY SlotIsCalled DEF Request, Answer
<1>2. /\ calls'[c] = Free /\ \A d \in Call \ {c} : calls'[d] = calls[d]
      /\ ~Called(c)' /\ \A d \in Call \ {c} : request'[d] = request[d]
      /\ UNCHANGED <<context, learnt>>
  BY DEF Finish, Become, Respond, LobbyInvariant, LobbyTypeOK, ClientTypeOK, Called
<1>3. /\ inbox' = [inbox EXCEPT ![m.to.peer] = Append(inbox[m.to.peer], m)]
      /\ inbox[m.to.peer] \in Seq(Answer)
  BY <1>1 DEF Respond, ClientTypeOK
<1>4. /\ inbox'[m.to.peer] = Append(inbox[m.to.peer], m)
      /\ \A q \in Peer \ {m.to.peer} : inbox'[q] = inbox[q]
  BY <1>1, <1>3 DEF ClientTypeOK
<1>5. SlotsMatch'
  <2> SUFFICES ASSUME NEW d \in Call
               PROVE  (Called(d)' => Serves(d)') /\ (~Called(d)' => calls'[d] = Free)
    BY DEF SlotsMatch
  <2>1. CASE d = c
    BY <1>2, <2>1
  <2>2. CASE d # c
    BY <1>2, <2>2, ServesStays DEF SlotsMatch, Called
  <2> QED
    BY <2>1, <2>2
<1>6. ClientTypeOK'
  <2>1. inbox' \in [Peer -> Seq(Answer)]
    BY <1>1, <1>3, AppendProperties DEF ClientTypeOK
  <2> QED
    BY <1>2, <2>1 DEF Respond, context, ClientTypeOK, LobbyInvariant
<1>7. KnowledgeIsOwn'
  <2>1. \A p \in Peer : /\ OwnSession(p, authorization[p])'
                        /\ OwnSession(p, learnt[p])'
                        /\ (lobbyId[p] \in issued \cup {None})'
    BY <1>2 DEF KnowledgeIsOwn, OwnSession, context
  <2>2. Genuine(m.to.peer, m)'
    BY <1>1, GenuineStays DEF KnowledgeIsOwn, Genuine
  <2>3. ASSUME NEW p \in Peer, NEW i \in DOMAIN inbox'[p]
        PROVE  Genuine(p, inbox[p][i])'
    <3> PICK y : y = inbox'[p][i]
      OBVIOUS
    <3> SUFFICES Genuine(p, y)'
      BY DEF Genuine, OwnSession
    <3>1. CASE p # m.to.peer
      <4>1. Genuine(p, y)
        BY <1>4, <2>3, <3>1 DEF KnowledgeIsOwn
      <4> QED
        BY <4>1, GenuineStays
    <3>2. CASE p = m.to.peer
      <4>1. CASE i \in DOMAIN inbox[p]
        <5>1. y = inbox[p][i]
          BY <1>1, <1>3, <1>4, <3>2, <4>1, AppendProperties
        <5>2. Genuine(p, y)
          BY <4>1, <5>1 DEF KnowledgeIsOwn
        <5> QED
          BY <5>2, GenuineStays
      <4>2. CASE i \notin DOMAIN inbox[p]
        <5>1. y = m
          BY <1>1, <1>3, <1>4, <2>3, <3>2, <4>2, AppendProperties
        <5> QED
          BY <2>2, <3>2, <5>1
      <4> QED
        BY <4>1, <4>2
    <3> QED
      BY <3>1, <3>2
  <2>4. \A d \in Call : Called(d)' =>
          /\ request'[d].op # "login" =>
               OwnSession(request[d].peer, request[d].authorization)'
          /\ request'[d].op \in {"join", "delete"} => request'[d].lobby \in issued'
    <3> SUFFICES ASSUME NEW d \in Call, Called(d)'
                 PROVE  /\ request'[d].op # "login" =>
                             OwnSession(request[d].peer, request[d].authorization)'
                        /\ request'[d].op \in {"join", "delete"} =>
                             request'[d].lobby \in issued'
      OBVIOUS
    <3>1. Called(d) /\ request'[d] = request[d]
      BY <1>2 DEF Called
    <3> QED
      BY <3>1 DEF KnowledgeIsOwn, OwnSession
  <2> QED
    BY <2>1, <2>3, <2>4 DEF KnowledgeIsOwn, Genuine, OwnSession
<1>8. MemoryIsTrue'
  <2> SUFFICES ASSUME NEW q \in connected, NEW x \in Finals(inbox[q], Remembered(q))'
               PROVE  MemoryHolds(x[1], x[2])'
    BY DEF MemoryIsTrue
  <2>1. q \in Peer /\ Remembered(q)' = Remembered(q)
    BY <1>2 DEF Remembered, context, LobbyInvariant, LobbyTypeOK, SessionStateOK
  <2>2. CASE q = m.to.peer /\ Writer(m)
    <3>1. Finals(Append(inbox[q], m), Remembered(q)) \subseteq {Belief(m)}
      BY <1>1, <1>3, <2>2, FinalsAppend
    <3>2. x = Belief(m)
      BY <1>4, <2>1, <2>2, <3>1
    <3> QED
      BY <2>2, <3>2
  <2>3. CASE ~(q = m.to.peer /\ Writer(m))
    <3>1. x \in Finals(inbox[q], Remembered(q))
      <4>1. CASE q # m.to.peer
        BY <1>4, <2>1, <4>1
      <4>2. CASE q = m.to.peer
        <5>1. Finals(Append(inbox[q], m), Remembered(q)) \subseteq Finals(inbox[q], Remembered(q))
          BY <1>1, <1>3, <2>3, <4>2, FinalsAppend
        <5> QED
          BY <1>4, <2>1, <4>2, <5>1
      <4> QED
        BY <4>1, <4>2
    <3>2. MemoryHolds(x[1], x[2])
      BY <3>1 DEF MemoryIsTrue
    <3>3. OwnSession(q, x[2]) /\ x[1] \in issued \cup {None}
      BY <2>1, <3>1, BeliefsAreOwn
    <3>4. Keeps(q)
      BY <2>3
    <3> QED
      BY <3>2, <3>3, <3>4 DEF Keeps
  <2> QED
    BY <2>2, <2>3
<1> QED
  BY <1>5, <1>6, <1>7, <1>8

\* What the slot of a request about lobbies says of its caller; and that user
\* is nobody of another connection.
LEMMA ServedUser ==
  ASSUME ClientInvariant, NEW c \in Call, calls[c].op \in {"create", "leave", "join", "delete"}
  PROVE  /\ calls[c] # Free
         /\ request[c].op = calls[c].op
         /\ calls[c].op \in {"join", "delete"} => calls[c].lobby.id = request[c].lobby
         /\ \E s \in listeners :
              /\ s.id = request[c].authorization /\ s.user = calls[c].user
              /\ calls[c].op \in {"create", "leave"} => s.game = calls[c].game
         /\ \A q, auth : \A t \in listeners :
              (q # request[c].peer /\ OwnSession(q, auth) /\ t.id = auth)
                => t.user # calls[c].user
<1>1. calls[c] # Free
  BY FreeIsFree
<1>2. Serves(c)
  BY <1>1, SlotIsCalled
<1>3. PICK s \in listeners :
        /\ s.peer = request[c].peer /\ s.id = request[c].authorization
        /\ s.user = calls[c].user
        /\ calls[c].op \in {"create", "leave"} => s.game = calls[c].game
  BY <1>2 DEF Serves
<1>4. ASSUME NEW q, NEW t \in listeners, q # request[c].peer, OwnSession(q, t.id)
      PROVE  t.user # calls[c].user
  BY <1>3, <1>4, OwnedIsOwn, UsersAreDistinct
<1> QED
  BY <1>1, <1>2, <1>3, <1>4 DEF Serves

\* login: the session is new, so no memory is about it.
LEMMA LoginServed ==
  ASSUME ClientInvariant, NEW c \in Call, Login(c), UNCHANGED lobbyState,
         NEW x \in sessions' \ sessions, Respond(c, x.id), LobbyInvariant'
  PROVE  ClientInvariant'
<1> DEFINE m == [to |-> request[c], value |-> x.id]
<1>1. PICK s : /\ sessions' = sessions \cup {s}
               /\ listeners' = listeners \cup {s}
               /\ s.id \in FreshSessionId
               /\ s.peer = calls[c].peer
  <2>1. PICK i \in FreshSessionId, u \in FreshUserId :
          LET s == [id |-> i, user |-> u, game |-> calls[c].game, peer |-> calls[c].peer]
          IN  /\ sessions' = sessions \cup {s}
              /\ listeners' = listeners \cup {s}
    BY DEF Login
  <2> DEFINE s == [id |-> i, user |-> u, game |-> calls[c].game, peer |-> calls[c].peer]
  <2>2. s.id = i /\ s.peer = calls[c].peer
    OBVIOUS
  <2>3. sessions' = sessions \cup {s} /\ listeners' = listeners \cup {s}
    BY <2>1
  <2> HIDE DEF s
  <2> QED
    BY <2>2, <2>3
<1>2. x = s /\ s.id \in SessionId /\ s.id # None
  BY <1>1, ClientAssumption DEF FreshSessionId
<1>3. /\ calls[c] # Free /\ calls[c].op = "login" /\ Finish(c) /\ connected' = connected
  BY FreeIsFree DEF Login
<1>4. request[c].op = "login" /\ calls[c].peer = request[c].peer
  BY <1>3, SlotIsCalled DEF Serves
<1>5. ASSUME NEW q, NEW id, NEW auth, OwnSession(q, auth), MemoryHolds(id, auth)
      PROVE  MemoryHolds(id, auth)'
  <2>1. auth # s.id
    BY <1>1, <1>2, <1>5 DEF OwnSession, FreshSessionId
  <2> QED
    BY <1>1, <1>5, <2>1 DEF MemoryHolds, InLobby, InNoLobby, lobbyState
<1>6. \A q \in connected : Keeps(q)
  BY <1>5 DEF Keeps
<1>7. /\ m.to.op = "login" /\ m.to.peer = request[c].peer
      /\ m = [to |-> request[c], value |-> x.id]
  BY <1>4
<1>8. PICK p : p = m.to.peer
  OBVIOUS
<1>9. OwnSession(p, x.id)'
  BY <1>1, <1>2, <1>4, <1>7, <1>8 DEF OwnSession
<1>10. ~Writer(m)
  BY <1>7 DEF Writer, WritesLobbyId
<1> PICK n : n = m
  OBVIOUS
<1>11. PICK value : value = x.id
  OBVIOUS
<1>12. OwnSession(n.to.peer, value)'
  BY <1>8, <1>9, <1>11 DEF OwnSession
<1>13. listeners \subseteq listeners' /\ issued \subseteq issued'
  BY <1>1 DEF lobbyState
<1> HIDE DEF m
<1> QED
  BY <1>2, <1>3, <1>6, <1>7, <1>10, <1>11, <1>12, <1>13, ServeFrame

\* logout: nothing about lobbies changes.
LEMMA LogoutServed ==
  ASSUME ClientInvariant, NEW c \in Call, Logout(c), UNCHANGED lobbyState,
         Respond(c, None), LobbyInvariant'
  PROVE  ClientInvariant'
<1>1. /\ calls[c] # Free /\ calls[c].op = "logout" /\ Finish(c)
      /\ listeners' = listeners /\ connected' = connected
  BY FreeIsFree DEF Logout
<1>2. PICK m : m = [to |-> request[c], value |-> None]
  OBVIOUS
<1>3. m.to.op = "logout"
  BY <1>1, <1>2, SlotIsCalled DEF Serves
<1>4. ~Writer(m)
  BY <1>3 DEF Writer, WritesLobbyId
<1>5. \A q \in connected : Keeps(q)
  BY <1>1 DEF Keeps, MemoryHolds, InLobby, InNoLobby, lobbyState
<1>6. listeners \subseteq listeners' /\ issued \subseteq issued'
  BY <1>1 DEF lobbyState
<1> QED
  BY <1>1, <1>2, <1>3, <1>4, <1>5, <1>6, ServeFrame

\* create: the id is new, so no memory is about it but the one to come.
LEMMA CreateServed ==
  ASSUME ClientInvariant, NEW c \in Call, Create(c),
         NEW x \in lobbies' \ lobbies, Respond(c, x.id), LobbyInvariant'
  PROVE  ClientInvariant'
<1>1. PICK l : /\ l.id \in LobbyId \ issued /\ l.owner = calls[c].user
               /\ issued' = issued \cup {l.id}
               /\ lobbies' = lobbies \cup {l}
               /\ participants' = participants \cup {<<l.owner, l.id>>}
  <2>1. PICK id \in LobbyId \ issued :
          LET l == [id |-> id, owner |-> calls[c].user, game |-> calls[c].game]
          IN  /\ issued' = issued \cup {id}
              /\ lobbies' = lobbies \cup {l}
              /\ participants' = participants \cup {<<l.owner, id>>}
    BY DEF Create
  <2> DEFINE l == [id |-> id, owner |-> calls[c].user, game |-> calls[c].game]
  <2>2. l.id = id /\ l.owner = calls[c].user
    OBVIOUS
  <2>3. /\ issued' = issued \cup {l.id}
        /\ lobbies' = lobbies \cup {l}
        /\ participants' = participants \cup {<<l.owner, l.id>>}
    BY <2>1, <2>2
  <2> HIDE DEF l
  <2> QED
    BY <2>2, <2>3
<1>2. PICK value : value = x.id /\ value = l.id
  BY <1>1
<1>3. calls[c].op = "create" /\ Finish(c) /\ UNCHANGED sessionState
  BY DEF Create
<1>4. listeners' = listeners /\ connected' = connected
  BY <1>3 DEF sessionState
<1>5. PICK s \in listeners : s.id = request[c].authorization /\ s.user = l.owner
  BY <1>1, <1>3, ServedUser
<1>6. value \in LobbyId /\ value \notin issued /\ value # None
  BY <1>1, <1>2, ClientAssumption
<1>7. PICK m : m = [to |-> request[c], value |-> value]
  OBVIOUS
<1>8. calls[c] # Free /\ m.to.op = "create"
  BY <1>3, <1>7, ServedUser
<1>9. ASSUME NEW q \in connected, q # m.to.peer
      PROVE  Keeps(q)
  <2> SUFFICES ASSUME NEW id \in issued \cup {None}, NEW auth,
                      OwnSession(q, auth), MemoryHolds(id, auth)
               PROVE  MemoryHolds(id, auth)'
    BY DEF Keeps
  <2>1. id # value
    BY <1>6
  <2>2. \A t \in listeners : t.id = auth => t.user # l.owner
    <3>1. \A t \in listeners : t.id = auth => t.user # calls[c].user
      BY <1>3, <1>7, <1>9, ServedUser
    <3> QED
      BY <1>1, <3>1
  <2>3. InLobby(id, auth) => InLobby(id, auth)'
    BY <1>1, <1>2, <1>4, <2>1 DEF InLobby
  <2>4. InNoLobby(auth) => InNoLobby(auth)'
    <3>1. ASSUME NEW u, <<u, l.id>> \in participants PROVE FALSE
      <4>1. <<u, l.id>>[2] \in issued
        BY <3>1 DEF ClientInvariant, LobbyInvariant, LobbyTypeOK
      <4> QED
        BY <1>1, <4>1
    <3> QED
      BY <1>1, <1>4, <2>2, <3>1 DEF InNoLobby
  <2> QED
    BY <2>3, <2>4 DEF MemoryHolds
<1>10. MemoryHolds(Belief(m)[1], Belief(m)[2])'
  <2>1. PICK auth : auth = m.to.authorization
    OBVIOUS
  <2>2. Belief(m) = <<value, auth>>
    BY <1>7, <1>8, <2>1 DEF Belief
  <2>3. InLobby(value, auth)'
    <3>1. \A k \in lobbies : k.id # value
      BY <1>6 DEF ClientInvariant, LobbyInvariant, LobbyTypeOK
    <3> QED
      BY <1>1, <1>2, <1>4, <1>5, <1>7, <2>1, <3>1 DEF InLobby
  <2> QED
    BY <1>6, <2>2, <2>3 DEF MemoryHolds, InLobby, InNoLobby
<1>11. Writer(m)
  BY <1>8 DEF Writer, WritesLobbyId
<1>12. issued \subseteq issued' /\ value \in issued'
  BY <1>1, <1>2
<1> QED
  BY <1>2, <1>3, <1>4, <1>6, <1>7, <1>8, <1>9, <1>10, <1>11, <1>12, ServeFrame

\* join: whatever has become of the lobby, the user takes part in what has
\* its id.
LEMMA JoinServed ==
  ASSUME ClientInvariant, NEW c \in Call, Join(c), Respond(c, None), LobbyInvariant'
  PROVE  ClientInvariant'
<1>1. /\ calls[c].op = "join" /\ Finish(c) /\ UNCHANGED sessionState
      /\ participants' = participants \cup {<<calls[c].user, calls[c].lobby.id>>}
      /\ lobbies' = lobbies /\ issued' = issued
  BY DEF Join
<1>2. listeners' = listeners /\ connected' = connected
  BY <1>1 DEF sessionState
<1>3. PICK s \in listeners : s.id = request[c].authorization /\ s.user = calls[c].user
  BY <1>1, ServedUser
<1>4. PICK m : m = [to |-> request[c], value |-> None]
  OBVIOUS
<1>5. /\ calls[c] # Free /\ m.to.op = "join"
      /\ calls[c].lobby.id = m.to.lobby /\ Called(c)
  BY <1>1, <1>4, ServedUser, SlotIsCalled
<1>6. ASSUME NEW q \in connected, q # m.to.peer
      PROVE  Keeps(q)
  <2> SUFFICES ASSUME NEW id \in issued \cup {None}, NEW auth,
                      OwnSession(q, auth), MemoryHolds(id, auth)
               PROVE  MemoryHolds(id, auth)'
    BY DEF Keeps
  <2>1. \A t \in listeners : t.id = auth => t.user # calls[c].user
    BY <1>1, <1>4, <1>6, ServedUser
  <2>2. InLobby(id, auth) => InLobby(id, auth)'
    BY <1>1, <1>2 DEF InLobby
  <2>3. InNoLobby(auth) => InNoLobby(auth)'
    BY <1>1, <1>2, <2>1 DEF InNoLobby
  <2> QED
    BY <2>2, <2>3 DEF MemoryHolds
<1>7. MemoryHolds(Belief(m)[1], Belief(m)[2])'
  <2>1. PICK id, auth : id = m.to.lobby /\ auth = m.to.authorization
    OBVIOUS
  <2>2. Belief(m) = <<id, auth>>
    BY <1>5, <2>1 DEF Belief
  <2>3. id # None
    <3>1. id \in issued
      BY <1>4, <1>5, <2>1 DEF ClientInvariant, KnowledgeIsOwn
    <3> QED
      BY <3>1, ClientAssumption DEF ClientInvariant, LobbyInvariant, LobbyTypeOK
  <2>4. InLobby(id, auth)'
    BY <1>1, <1>2, <1>3, <1>4, <1>5, <2>1 DEF InLobby
  <2> QED
    BY <2>2, <2>3, <2>4 DEF MemoryHolds, InLobby, InNoLobby
<1>8. Writer(m)
  BY <1>5 DEF Writer, WritesLobbyId
<1> QED
  BY <1>1, <1>2, <1>4, <1>5, <1>6, <1>7, <1>8, ServeFrame

\* leave: the user was in one lobby of the game only.
LEMMA LeaveServed ==
  ASSUME ClientInvariant, NEW c \in Call, Leave(c), Respond(c, None), LobbyInvariant'
  PROVE  ClientInvariant'
<1>1. PICK l \in LobbyToLeave(calls[c].user, calls[c].game) :
        participants' = participants \ {<<calls[c].user, l.id>>}
  BY DEF Leave
<1>2. /\ calls[c].op = "leave" /\ Finish(c) /\ UNCHANGED sessionState
      /\ lobbies' = lobbies /\ issued' = issued
  BY DEF Leave
<1>3. listeners' = listeners /\ connected' = connected
  BY <1>2 DEF sessionState
<1>4. PICK s \in listeners : /\ s.id = request[c].authorization
                             /\ s.user = calls[c].user /\ s.game = calls[c].game
  BY <1>2, ServedUser
<1>5. PICK m : m = [to |-> request[c], value |-> None]
  OBVIOUS
<1>6. calls[c] # Free /\ m.to.op = "leave"
  BY <1>2, <1>5, ServedUser
<1>7. ASSUME NEW q \in connected, q # m.to.peer
      PROVE  Keeps(q)
  <2> SUFFICES ASSUME NEW id \in issued \cup {None}, NEW auth,
                      OwnSession(q, auth), MemoryHolds(id, auth)
               PROVE  MemoryHolds(id, auth)'
    BY DEF Keeps
  <2>1. \A t \in listeners : t.id = auth => t.user # calls[c].user
    BY <1>2, <1>5, <1>7, ServedUser
  <2>2. InLobby(id, auth) => InLobby(id, auth)'
    BY <1>1, <1>2, <1>3, <2>1 DEF InLobby
  <2>3. InNoLobby(auth) => InNoLobby(auth)'
    BY <1>1, <1>2, <1>3 DEF InNoLobby
  <2> QED
    BY <2>2, <2>3 DEF MemoryHolds
<1>8. MemoryHolds(Belief(m)[1], Belief(m)[2])'
  <2>1. PICK auth : auth = m.to.authorization
    OBVIOUS
  <2>2. Belief(m) = <<None, auth>>
    BY <1>6, <2>1 DEF Belief
  <2>3. \A t \in listeners : t.id = auth => t = s
    BY <1>4, <1>5, <2>1 DEF ClientInvariant, LobbyInvariant, SessionsMatchUsers
  <2>4. s.user \in UserId
    BY DEF ClientInvariant, LobbyInvariant, LobbyTypeOK, SessionStateOK, Session
  <2>5. \A k \in lobbies : k.game = s.game /\ <<s.user, k.id>> \in participants => k = l
    BY <1>1, <1>4, <2>4
    DEF LobbyToLeave, ClientInvariant, LobbyInvariant, OneLobbyPerGame, LiveMember
  <2>6. InNoLobby(auth)'
    BY <1>1, <1>2, <1>3, <1>4, <2>3, <2>5 DEF InNoLobby
  <2> QED
    BY <2>2, <2>6 DEF MemoryHolds, InLobby, InNoLobby
<1>9. Writer(m)
  BY <1>6 DEF Writer, WritesLobbyId
<1> QED
  BY <1>2, <1>3, <1>5, <1>6, <1>7, <1>8, <1>9, ServeFrame

\* delete: fewer lobbies, the same participations.
LEMMA DeleteServed ==
  ASSUME ClientInvariant, NEW c \in Call, Delete(c), Respond(c, None), LobbyInvariant'
  PROVE  ClientInvariant'
<1>1. /\ calls[c].op = "delete" /\ Finish(c) /\ UNCHANGED sessionState
      /\ lobbies' \subseteq lobbies /\ issued' = issued
  BY DEF Delete
<1>2. participants' = participants
  BY DeleteRemovesNone DEF ClientInvariant, LobbyInvariant
<1>3. listeners' = listeners /\ connected' = connected
  BY <1>1 DEF sessionState
<1>4. PICK m : m = [to |-> request[c], value |-> None]
  OBVIOUS
<1>5. calls[c] # Free /\ m.to.op = "delete"
  BY <1>1, <1>4, ServedUser
<1>6. \A q \in connected : Keeps(q)
  BY <1>1, <1>2, <1>3 DEF Keeps, MemoryHolds, InLobby, InNoLobby
<1>7. ~Writer(m)
  BY <1>5 DEF Writer, WritesLobbyId
<1> QED
  BY <1>1, <1>3, <1>4, <1>5, <1>6, <1>7, ServeFrame

-----------------------------------------------------------------------------
(* All steps together *)

\* The server under the library is that of Lobbies: every step is one of its
\* steps or leaves it alone.
LEMMA ServerStep ==
  ASSUME ClientInvariant, ClientNext
  PROVE  [LobbyNext]_vars
<1>1. ASSUME NEW c \in Call, NEW r, r.peer \in Peer, Send(c, r)
      PROVE  LobbyNext
  BY <1>1 DEF Send, LobbyNext, SessionNext
<1>2. ASSUME NEW c \in Call, NEW p \in Peer, NEW g \in Game, CallLogin(c, p, g)
      PROVE  LobbyNext
  BY <1>1, <1>2 DEF CallLogin
<1>3. ASSUME NEW c \in Call, NEW p \in Peer, NEW op, CallOnSession(c, p, op)
      PROVE  LobbyNext
  BY <1>1, <1>3 DEF CallOnSession
<1>4. ASSUME NEW c \in Call, NEW p \in Peer, NEW op, NEW id, CallOnLobby(c, p, op, id)
      PROVE  LobbyNext
  BY <1>1, <1>4 DEF CallOnLobby
<1>5. ASSUME NEW c \in Call, Validate(c)
      PROVE  LobbyNext
  <2> DEFINE r == request[c]
  <2>1. CASE r.op = "login" /\ ValidateLogin(c, r.game) /\ UNCHANGED lobbyState
    <3>1. calls[c] # Free
      BY <2>1, FreeIsFree DEF ValidateLogin
    <3>2. r \in Request
      BY <3>1, SlotIsCalled
    <3>3. r.game \in Game
      BY <2>1, <3>2 DEF Request
    <3> QED
      BY <2>1, <3>3 DEF LobbyNext, SessionNext
  <2>2. CASE r.op # "login"
    <3>1. Find({r.authorization}) \subseteq sessions
      BY DEF Find
    <3>2. PICK s \in sessions :
            \/ ValidateLogout(c, s) /\ UNCHANGED lobbyState
            \/ ValidateCreate(c, s) \/ ValidateLeave(c, s)
            \/ \E l \in lobbies : ValidateJoin(c, s, l) \/ ValidateDelete(c, s, l)
      BY <1>5, <2>2, <3>1 DEF Validate
    <3> QED
      BY <3>2 DEF LobbyNext, SessionNext
  <2> QED
    BY <1>5, <2>1, <2>2 DEF Validate
<1>6. ASSUME NEW c \in Call, Serve(c) \/ Refuse(c)
      PROVE  LobbyNext
  BY <1>6 DEF Serve, Refuse, LobbyNext, SessionNext
<1>7. ASSUME NEW p \in Peer, Return(p)
      PROVE  UNCHANGED vars
  BY <1>7 DEF Return
<1>8. CASE ((\E p \in Peer : Disconnect(p)) \/ Tick \/ Cleanup) /\ UNCHANGED lobbyState
  BY <1>8 DEF LobbyNext, SessionNext
<1> QED
  BY <1>2, <1>3, <1>4, <1>5, <1>6, <1>7, <1>8 DEF ClientNext

\* At first nobody is called and nothing is known.
LEMMA ClientInitStep == ClientInit => ClientInvariant
<1> SUFFICES ASSUME ClientInit PROVE ClientInvariant
  OBVIOUS
<1>1. LobbyInvariant
  BY LobbyInitStep DEF ClientInit
<1>2. listeners = {} /\ lobbies = {} /\ participants = {} /\ calls = [c \in Call |-> Free]
  BY DEF ClientInit, LobbyInit, SessionInit
<1>3. \A c \in Call : ~Called(c)
  BY DEF ClientInit, Called
<1>4. ClientTypeOK
  BY <1>1, EmptySeq DEF ClientInit, ClientTypeOK, LobbyInvariant
<1>5. SlotsMatch
  BY <1>2, <1>3 DEF SlotsMatch
<1>6. /\ \A p \in Peer : /\ authorization[p] = None /\ lobbyId[p] = None
                         /\ learnt[p] = None /\ inbox[p] = <<>>
      /\ connected \subseteq Peer
  BY <1>1 DEF ClientInit, LobbyInvariant, LobbyTypeOK, SessionStateOK
<1>7. KnowledgeIsOwn
  BY <1>3, <1>6 DEF KnowledgeIsOwn, OwnSession
<1>8. MemoryIsTrue
  <2> SUFFICES ASSUME NEW p \in connected, NEW x \in Finals(inbox[p], Remembered(p))
               PROVE  MemoryHolds(x[1], x[2])
    BY DEF MemoryIsTrue
  <2>1. x = <<None, None>>
    BY <1>6, FinalsEmpty DEF Remembered
  <2> QED
    BY <1>2, <2>1 DEF MemoryHolds, InNoLobby
<1> QED
  BY <1>1, <1>4, <1>5, <1>7, <1>8 DEF ClientInvariant

\* A body, whichever it is, keeps the invariant.
LEMMA ServeStep ==
  ASSUME ClientInvariant, LobbyInvariant', NEW c \in Call, Serve(c)
  PROVE  ClientInvariant'
<1>1. CASE Login(c) /\ UNCHANGED lobbyState /\ \E s \in sessions' \ sessions : Respond(c, s.id)
  BY <1>1, LoginServed
<1>2. CASE Create(c) /\ \E l \in lobbies' \ lobbies : Respond(c, l.id)
  BY <1>2, CreateServed
<1>3. CASE Logout(c) /\ UNCHANGED lobbyState /\ Respond(c, None)
  BY <1>3, LogoutServed
<1>4. CASE (Join(c) \/ Leave(c) \/ Delete(c)) /\ Respond(c, None)
  BY <1>4, JoinServed, LeaveServed, DeleteServed
<1> QED
  BY <1>1, <1>2, <1>3, <1>4 DEF Serve

\* Each step of the clients, the server, the connections and the clock.
LEMMA ClientStep ==
  ASSUME ClientInvariant, [ClientNext]_<<vars, clientVars>>
  PROVE  ClientInvariant'
<1>1. LobbyInvariant'
  <2>1. [LobbyNext]_vars
    BY ServerStep
  <2> QED
    BY <2>1, LobbyStep DEF ClientInvariant
<1>2. CASE UNCHANGED <<vars, clientVars>>
  BY <1>1, <1>2, EventStep DEF vars, sessionVars, sessionState
<1>3. ASSUME NEW c \in Call, NEW p \in Peer, Asks(c, p)
      PROVE  ClientInvariant'
  BY <1>1, <1>3, AskStep
<1>4. ASSUME NEW c \in Call, Validate(c) \/ Serve(c) \/ Refuse(c)
      PROVE  ClientInvariant'
  BY <1>1, <1>4, ValidateStep, ServeStep, RefuseStep
<1>6. ASSUME NEW p \in Peer, Return(p)
      PROVE  ClientInvariant'
  BY <1>1, <1>6, ReturnStep
<1>5. CASE /\ (\E p \in Peer : Disconnect(p)) \/ Tick \/ Cleanup
           /\ UNCHANGED <<lobbyState, clientVars>>
  <2>1. connected' \subseteq connected /\ listeners' = listeners /\ calls' = calls
    BY <1>5 DEF Disconnect, Tick, Cleanup
  <2> QED
    BY <1>1, <1>5, <2>1, EventStep
<1> QED
  BY <1>2, <1>3, <1>4, <1>5, <1>6 DEF ClientNext, Asks

\* A client that has heard all its answers remembers what holds.
LEMMA CaughtUpRemembers ==
  ASSUME ClientInvariant, NEW p \in CaughtUp
  PROVE  MemoryHolds(lobbyId[p], learnt[p])
<1>1. p \in connected /\ inbox[p] = <<>>
  BY DEF CaughtUp
<1>2. Remembered(p) \in Finals(inbox[p], Remembered(p))
  BY <1>1, FinalsEmpty
<1>3. MemoryHolds(Remembered(p)[1], Remembered(p)[2])
  BY <1>1, <1>2 DEF ClientInvariant, MemoryIsTrue
<1> QED
  BY <1>3 DEF Remembered

\* The types, the slots and their requests, the ids that are known and the
\* memory that the answers on their way add up to, in every reachable state.
THEOREM ClientCorrect == ClientSpec => []ClientInvariant
  BY ClientInitStep, ClientStep, PTL DEF ClientSpec

\* Every variable of the library stays in its type.
THEOREM ClientTypes == ClientSpec => []ClientTypeOK
<1>1. ClientInvariant => ClientTypeOK
  BY DEF ClientInvariant
<1> QED
  BY <1>1, ClientCorrect, PTL

\* Whatever the calls of a connection that overlap, and whoever has logged in
\* since, a client that has heard all its answers knows a lobby only if the
\* user it was learnt for takes part in it or it is gone.
THEOREM KnownLobbiesAreJoined == ClientSpec => []KnownLobbyIsJoined
<1>1. ClientInvariant => KnownLobbyIsJoined
  <2> SUFFICES ASSUME ClientInvariant, NEW p \in CaughtUp, NEW l \in lobbies,
                      l.id = lobbyId[p]
               PROVE  \E s \in listeners : s.id = learnt[p] /\ LiveMember(s.user, l)
    BY DEF KnownLobbyIsJoined
  <2>1. MemoryHolds(lobbyId[p], learnt[p])
    BY CaughtUpRemembers
  <2>2. lobbyId[p] # None
    BY ClientAssumption DEF ClientInvariant, LobbyInvariant, LobbyTypeOK, Lobby
  <2> QED
    BY <2>1, <2>2 DEF MemoryHolds, InLobby, LiveMember
<1> QED
  BY <1>1, ClientCorrect, PTL

\* And one that knows none since its user's leave() has that user in none of
\* the session's game.
THEOREM NoLobbiesAreForgotten == ClientSpec => []NoLobbyIsForgotten
<1>1. ClientInvariant => NoLobbyIsForgotten
  <2> SUFFICES ASSUME ClientInvariant, NEW p \in CaughtUp, NEW s \in listeners,
                      NEW l \in lobbies,
                      lobbyId[p] = None, s.id = learnt[p], l.game = s.game
               PROVE  ~LiveMember(s.user, l)
    BY DEF NoLobbyIsForgotten
  <2>1. MemoryHolds(lobbyId[p], learnt[p])
    BY CaughtUpRemembers
  <2> QED
    BY <2>1 DEF MemoryHolds, InNoLobby, LiveMember
<1> QED
  BY <1>1, ClientCorrect, PTL

-----------------------------------------------------------------------------
(* The server under the library *)

\* The composition of the library and the server is one of Lobbies and
\* Sessions: the contexts and the answers only narrow what the server goes
\* through, they never take it where Lobbies does not go.
THEOREM ClientRefinesLobbies == ClientSpec => LobbySafety
<1>1. ClientInit => LobbyInit
  BY DEF ClientInit
<1>2. ClientInvariant /\ [ClientNext]_<<vars, clientVars>> => [LobbyNext]_vars
  BY ServerStep
<1> QED
  BY <1>1, <1>2, ClientCorrect, PTL DEF ClientSpec, LobbySafety

\* Through the library, too, a participation ends by the user's own leave()
\* only, a lobby whose owner has gone stays, and the lobbies are those of the
\* abstract directory.
THEOREM ClientLobbiesEndProperly ==
  ClientSpec => /\ MembershipEndsByOwnLeave
                /\ OrphanedLobbyIsForever
                /\ ImplementsDirectory
  BY ClientRefinesLobbies, MembershipsEndProperly, OrphansStay, DirectoryIsImplemented, PTL

\* Nor does a call of logout() through the library end a session: sessions end
\* with their connection or by expiring, as many as there may be.
THEOREM ClientSessionsEndProperly ==
  ClientSpec => SessionEndsByDisconnectOrExpiry /\ DisconnectReleasesSessions
  BY ClientRefinesLobbies, LobbiesEndNoSessions, PTL

\* The id of a session is known to the clients of its own connection only, in
\* their contexts, in the requests under way and in the answers to them, through
\* any logins, logouts and calls that overlap.
THEOREM SessionIdsStayPrivate == ClientSpec => []KnowledgeIsOwn
<1>1. ClientInvariant => KnowledgeIsOwn
  BY DEF ClientInvariant
<1> QED
  BY <1>1, ClientCorrect, PTL
=============================================================================

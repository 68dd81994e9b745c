-------------------------- MODULE DiagnosticsProofs -------------------------
(***************************************************************************)
(* Theorems about Diagnostics, over the invariant of LobbiesProofs.        *)
(*                                                                         *)
(* What the members were told is inductive only together with the fact     *)
(* that only users who have logged in take part or are told anything: a     *)
(* new session is that of a user nobody knows.                             *)
(***************************************************************************)
EXTENDS Diagnostics, LobbiesProofs

\* Who takes part in a lobby, or was told anything, has logged in.
PartiesAreKnown ==
  /\ \A p \in participants : KnownUser(p[1])
  /\ \A n \in news : KnownUser(n[1])

DiagInvariant ==
  /\ DiagTypeOK
  /\ PartiesAreKnown
  /\ MembersAreIntroduced
  /\ MembersAreInformed
  /\ NewsIsTrue

\* The composition does to sessions and lobbies what Lobbies does.
LEMMA DiagIsLobbies ==
  ASSUME [DiagNext]_<<vars, diagVars>>
  PROVE  [LobbyNext]_vars
  BY DEF DiagNext, Quiet, LobbyNext, CreateAndTell, JoinAndTell, LeaveAndTell,
         DeleteAndTell, AttemptEnds

\* Every behaviour of the composition is one of the lobbies and sessions, so
\* that all that is proved of these holds in it.
THEOREM DiagRefinesLobbies == DiagSpec => LobbySpec
<1>1. DiagInit => LobbyInit
  BY DEF DiagInit
<1>2. [DiagNext]_<<vars, diagVars>> => [LobbyNext]_vars
  BY DiagIsLobbies
<1> QED
  BY <1>1, <1>2, PTL DEF DiagSpec, LobbySpec

\* A session that appears is that of a user nobody has seen before.
LEMMA NewSessions ==
  ASSUME LobbyInvariant, [LobbyNext]_vars
  PROVE  \A s \in sessions' : s \in sessions \/ (s.user \in UserId /\ ~KnownUser(s.user))
<1>1. ASSUME NEW c \in Call, Login(c)
      PROVE  \A s \in sessions' : s \in sessions \/ (s.user \in UserId /\ ~KnownUser(s.user))
  BY <1>1 DEF Login, FreshUserId, KnownUser
<1>2. CASE sessions' \subseteq sessions
  BY <1>2
<1>3. UNCHANGED sessionState => sessions' = sessions
  BY DEF sessionState
<1>4. CASE [SessionNext]_sessionVars
  BY <1>1, <1>2, <1>3, <1>4
  DEF SessionNext, sessionVars, Correspondence, Reject, ValidateLogin,
      ValidateLogout, Logout, Disconnect, Tick, Cleanup, Shutdown, Destroy
<1> QED
  BY <1>2, <1>3, <1>4
  DEF LobbyNext, ValidateCreate, ValidateJoin, ValidateLeave, ValidateDelete,
      Create, Join, Leave, Delete, RefuseCreate, RefuseJoin, RefuseLeave,
      RefuseDelete, vars, sessionVars

\* Whoever is known stays known.
LEMMA StillKnown ==
  ASSUME [LobbyNext]_vars, NEW u, KnownUser(u)
  PROVE  KnownUser(u)'
  BY ListenersGrow DEF KnownUser

\* Live sessions are those of users who have logged in.
LEMMA SessionUsers ==
  ASSUME LobbyInvariant
  PROVE  \A s \in sessions : /\ s.user \in UserId
                             /\ s.peer \in Peer
                             /\ KnownUser(s.user)
  BY DEF LobbyInvariant, LobbyTypeOK, SessionStateOK, Session, KnownUser

\* Steps of the sessions, validators, refusals and ends of attempts
LEMMA QuietStep ==
  ASSUME LobbyInvariant, LobbyInvariant', DiagInvariant, [LobbyNext]_vars,
         UNCHANGED <<lobbyState, checked, sent, news>>, pending' \subseteq pending
  PROVE  DiagInvariant'
<1>1. UNCHANGED <<lobbies, participants, checked, sent, news>>
  BY DEF lobbyState
<1>2. \A s \in sessions' : s \in sessions \/ ~KnownUser(s.user)
  BY NewSessions
<1>3. DiagTypeOK'
  BY <1>1 DEF LobbyInvariant, DiagInvariant, DiagTypeOK
<1>4. PartiesAreKnown'
  BY <1>1, StillKnown DEF DiagInvariant, PartiesAreKnown
<1>5. \A s \in sessions' : \A l \in lobbies : LiveMember(s.user, l) => s \in sessions
  <2> SUFFICES ASSUME NEW s \in sessions', NEW l \in lobbies, LiveMember(s.user, l)
               PROVE  s \in sessions
    OBVIOUS
  <2>1. KnownUser(<<s.user, l.id>>[1])
    BY DEF DiagInvariant, PartiesAreKnown, LiveMember
  <2> QED
    BY <1>2, <2>1
<1>6. \A u, l : LiveMember(u, l)' <=> LiveMember(u, l)
  BY <1>1 DEF LiveMember
<1>7. MembersAreIntroduced'
  BY <1>1, <1>5, <1>6
  DEF DiagInvariant, MembersAreIntroduced, Together, AttemptsFor
<1>8. MembersAreInformed'
  BY <1>1, <1>5, <1>6 DEF DiagInvariant, MembersAreInformed, Together
<1>9. NewsIsTrue'
  <2> SUFFICES ASSUME NEW s \in sessions', NEW u \in UserId, <<s.user, u>> \in news
               PROVE  \E id \in LobbyId :
                        {<<s.user, id>>, <<u, id>>} \subseteq participants
    BY <1>1 DEF NewsIsTrue
  <2>1. KnownUser(<<s.user, u>>[1])
    BY DEF DiagInvariant, PartiesAreKnown
  <2>2. s \in sessions
    BY <1>2, <2>1
  <2> QED
    BY <2>2 DEF DiagInvariant, NewsIsTrue
<1> QED
  BY <1>3, <1>4, <1>7, <1>8, <1>9 DEF DiagInvariant

\* A link handed to the queue has an attempt of its id under way.
LEMMA EnqueuedLinks ==
  ASSUME DiagTypeOK, NEW L, L \subseteq Queue!Link, EnqueueAll(L)
  PROVE  /\ pending' \subseteq Peer \X Peer
         /\ \A k \in L : \E m \in pending' : Queue!IdOfLink(m) = Queue!IdOfLink(k)
<1>1. PICK N \in SUBSET L : Queue!Take(N) /\ \A k \in L : Queue!IsPending(k)'
  BY DEF EnqueueAll
<1> QED
  BY <1>1 DEF Queue!Take, Queue!IsPending, Queue!IdOfLink, Queue!Link, DiagTypeOK

\* A user enters a lobby, new or not.
LEMMA EnterStep ==
  ASSUME LobbyInvariant, LobbyInvariant', DiagInvariant, [LobbyNext]_vars,
         NEW u \in UserId, NEW l \in Lobby, KnownUser(u),
         sessions' = sessions,
         <<u, l.id>> \notin participants,
         participants' = participants \cup {<<u, l.id>>},
         lobbies' \subseteq lobbies \cup {l},
         \A k \in lobbies' : k.id = l.id => k = l,
         \A v \in UserId :
           <<v, l.id>> \in participants /\ l \in lobbies' => l \in lobbies,
         Entered(u, l)
  PROVE  DiagInvariant'
<1>1. EnqueueAll(Links(u, l)) /\ TellJoined(u, l)
  BY DEF Entered
<1>2. checked' = checked \cup UnderWay(u, l)
  BY DEF Entered
<1>3. /\ pending' \subseteq Peer \X Peer
      /\ \A k \in Links(u, l) : \E m \in pending' : Queue!IdOfLink(m) = Queue!IdOfLink(k)
  <2>1. Links(u, l) \subseteq Queue!Link
    BY SessionUsers DEF Links, SessionsByGame, Queue!Link
  <2> QED
    BY <1>1, <2>1, EnqueuedLinks DEF DiagInvariant
<1> DEFINE told == Told(NowParticipantsOf(l.id))
<1>4. /\ sent' = sent \cup {<<v, u, l.id>> : v \in told}
      /\ news' = news \cup {<<v, u>> : v \in told}
  BY <1>1 DEF TellJoined
<1>5. /\ \A s \in sessions : <<s.user, l.id>> \in participants' => s.user \in told
      /\ \A v \in told : /\ <<v, l.id>> \in participants'
                         /\ v \in UserId /\ KnownUser(v)
  BY SessionUsers DEF Told, NowParticipantsOf
<1> HIDE DEF told
<1>6. \A v \in UserId : \A k \in lobbies' :
        LiveMember(v, k)' => (v = u /\ k = l) \/ (k \in lobbies /\ LiveMember(v, k))
  <2> SUFFICES ASSUME NEW v \in UserId, NEW k \in lobbies', LiveMember(v, k)'
               PROVE  (v = u /\ k = l) \/ (k \in lobbies /\ LiveMember(v, k))
    OBVIOUS
  <2>1. CASE <<v, k.id>> \in participants
    <3>1. k \in lobbies
      BY <2>1
    <3> QED
      BY <2>1, <3>1 DEF LiveMember
  <2>2. CASE <<v, k.id>> = <<u, l.id>>
    BY <2>2
  <2> QED
    BY <2>1, <2>2 DEF LiveMember
<1>7. l.id \in LobbyId
  BY DEF Lobby
<1>8. DiagTypeOK'
  <2>1. UnderWay(u, l) \subseteq UserId \X UserId \X LobbyId \X (Peer \X Peer)
    <3>1. \A h \in UnderWay(u, l) :
            h \in UserId \X {u} \X {l.id} \X pending'
      BY DEF UnderWay, NowParticipantsOf
    <3> QED
      BY <1>3, <1>7, <3>1
  <2>2. {<<v, u, l.id>> : v \in told} \subseteq UserId \X UserId \X LobbyId
    <3>1. \A v \in told : <<v, u, l.id>> \in UserId \X UserId \X LobbyId
      BY <1>5, <1>7
    <3> QED
      BY <3>1
  <2>3. {<<v, u>> : v \in told} \subseteq UserId \X UserId
    <3>1. \A v \in told : <<v, u>> \in UserId \X UserId
      BY <1>5
    <3> QED
      BY <3>1
  <2> QED
    BY <1>2, <1>3, <1>4, <2>1, <2>2, <2>3 DEF LobbyInvariant, DiagInvariant, DiagTypeOK
<1>9. PartiesAreKnown'
  <2>1. \A p \in participants' : KnownUser(p[1])
    BY DEF DiagInvariant, PartiesAreKnown
  <2>2. \A n \in news' : KnownUser(n[1])
    <3>1. \A v \in told : KnownUser(<<v, u>>[1])
      BY <1>5
    <3> QED
      BY <1>4, <3>1 DEF DiagInvariant, PartiesAreKnown
  <2> QED
    BY <2>1, <2>2, StillKnown DEF PartiesAreKnown
<1>10. MembersAreIntroduced'
  <2> SUFFICES ASSUME NEW k \in lobbies', NEW s \in sessions, NEW t \in sessions,
                      Together(s.user, t.user, k)', s.game = k.game, t.game = k.game
               PROVE  \E h \in checked' : h[3] = k.id /\ {h[1], h[2]} = {s.user, t.user}
    BY DEF MembersAreIntroduced, AttemptsFor
  <2>1. /\ s.user # t.user
        /\ LiveMember(s.user, k)' /\ LiveMember(t.user, k)'
    BY DEF Together
  <2>2. ASSUME NEW x \in sessions, NEW y \in sessions, x.user = u, y.user # u,
               x.game = l.game, y.game = l.game, <<y.user, l.id>> \in participants
        PROVE  \E h \in checked' : h[3] = l.id /\ {h[1], h[2]} = {x.user, y.user}
    <3>1. x \in SessionsByGame(l.game, {u})
      BY <2>2 DEF SessionsByGame
    <3>2. y \in SessionsByGame(l.game, ParticipantsOf(l.id) \ {u})
      BY <2>2, SessionUsers DEF SessionsByGame, ParticipantsOf
    <3>3. <<y.peer, x.peer>> \in Links(u, l)
      BY <3>1, <3>2 DEF Links
    <3>4. PICK m \in pending' : Queue!IdOfLink(m) = Queue!IdOfLink(<<y.peer, x.peer>>)
      BY <1>3, <3>3
    <3> DEFINE h == <<y.user, u, l.id, m>>
    <3>5. y.user \in NowParticipantsOf(l.id) \ {u}
      BY <2>2, SessionUsers DEF NowParticipantsOf
    <3>6. h \in UnderWay(u, l)
      BY <2>2, <3>4, <3>5 DEF UnderWay
    <3>7. h[3] = l.id /\ {h[1], h[2]} = {x.user, y.user}
      BY <2>2
    <3> QED
      BY <1>2, <3>6, <3>7
  <2>3. CASE LiveMember(s.user, k) /\ LiveMember(t.user, k)
    <3>1. \E h \in checked : h[3] = k.id /\ {h[1], h[2]} = {s.user, t.user}
      BY <2>1, <2>3 DEF DiagInvariant, MembersAreIntroduced, AttemptsFor, Together, LiveMember
    <3> QED
      BY <1>2, <3>1
  <2>4. CASE s.user = u /\ k = l
    BY <1>6, <2>1, <2>2, <2>4, SessionUsers DEF LiveMember
  <2>5. CASE t.user = u /\ k = l
    <3>1. <<s.user, l.id>> \in participants
      BY <1>6, <2>1, <2>5, SessionUsers DEF LiveMember
    <3>2. \E h \in checked' : h[3] = l.id /\ {h[1], h[2]} = {t.user, s.user}
      BY <2>1, <2>2, <2>5, <3>1
    <3> QED
      BY <2>5, <3>2
  <2> QED
    BY <1>6, <2>1, <2>3, <2>4, <2>5, SessionUsers
<1>11. MembersAreInformed'
  <2> SUFFICES ASSUME NEW k \in lobbies', NEW s \in sessions, NEW t \in sessions,
                      Together(s.user, t.user, k)'
               PROVE  \E v, w \in {s.user, t.user} :
                        v # w /\ <<v, w, k.id>> \in sent'
    BY DEF MembersAreInformed
  <2>1. /\ s.user # t.user
        /\ LiveMember(s.user, k)' /\ LiveMember(t.user, k)'
    BY DEF Together
  <2>2. CASE LiveMember(s.user, k) /\ LiveMember(t.user, k)
    BY <1>4, <2>1, <2>2 DEF DiagInvariant, MembersAreInformed, Together, LiveMember
  <2>3. CASE s.user = u /\ k = l
    BY <1>4, <1>5, <2>1, <2>3 DEF LiveMember
  <2>4. CASE t.user = u /\ k = l
    BY <1>4, <1>5, <2>1, <2>4 DEF LiveMember
  <2> QED
    BY <1>6, <2>1, <2>2, <2>3, <2>4, SessionUsers
<1>12. NewsIsTrue'
  <2> SUFFICES ASSUME NEW s \in sessions, NEW w \in UserId, <<s.user, w>> \in news'
               PROVE  \E id \in LobbyId :
                        {<<s.user, id>>, <<w, id>>} \subseteq participants'
    BY DEF NewsIsTrue
  <2>1. CASE <<s.user, w>> \in news
    BY <2>1 DEF DiagInvariant, NewsIsTrue
  <2>2. CASE s.user \in told /\ w = u
    BY <1>5, <1>7, <2>2
  <2> QED
    BY <1>4, <2>1, <2>2
<1> QED
  BY <1>8, <1>9, <1>10, <1>11, <1>12 DEF DiagInvariant

\* create: the owner enters a lobby nobody takes part in.
LEMMA CreateEnters ==
  ASSUME LobbyInvariant, LobbyInvariant', UsersAreKnown, DiagInvariant,
         [LobbyNext]_vars, NEW c \in Call, CreateAndTell(c)
  PROVE  DiagInvariant'
<1>1. Create(c)
  BY DEF CreateAndTell
<1>2. PICK id \in LobbyId \ issued :
        LET l == [id |-> id, owner |-> calls[c].user, game |-> calls[c].game]
        IN  /\ lobbies' = lobbies \cup {l}
            /\ participants' = participants \cup {<<l.owner, id>>}
  BY <1>1 DEF Create
<1> DEFINE l == [id |-> id, owner |-> calls[c].user, game |-> calls[c].game]
<1>3. l.owner = calls[c].user /\ l.id = id
  OBVIOUS
<1>4. /\ lobbies' = lobbies \cup {l}
      /\ participants' = participants \cup {<<l.owner, l.id>>}
  BY <1>2
<1>5. \A k \in lobbies : k.id # id
  BY DEF LobbyInvariant, LobbyTypeOK
<1>6. \A v \in UserId : <<v, id>> \notin participants
  <2> SUFFICES ASSUME NEW v \in UserId, <<v, id>> \in participants
               PROVE  FALSE
    OBVIOUS
  <2>1. <<v, id>>[2] \in issued
    BY DEF LobbyInvariant, LobbyTypeOK
  <2> QED
    BY <2>1
<1>7. calls[c].user \in UserId /\ calls[c].game \in Game
  BY <1>1, RequestTypes DEF LobbyInvariant, LobbyTypeOK, Create
<1>8. l \in Lobby
  BY <1>7 DEF Lobby
<1>9. KnownUser(l.owner)
  BY <1>1 DEF UsersAreKnown, Create
<1> HIDE DEF l
<1>10. Entered(l.owner, l)
  <2>1. lobbies' \ lobbies = {l}
    BY <1>3, <1>4, <1>5
  <2> QED
    BY <2>1 DEF CreateAndTell
<1>11. sessions' = sessions
  BY <1>1 DEF Create, sessionState
<1>12. \A k \in lobbies' : k.id = l.id => k = l
  BY <1>3, <1>4, <1>5
<1> QED
  BY <1>3, <1>4, <1>6, <1>7, <1>8, <1>9, <1>10, <1>11, <1>12, EnterStep

\* The captured lobby may be gone; then the joining user enters none.
LEMMA JoinEntersLobby ==
  ASSUME LobbyInvariant, LobbyInvariant', UsersAreKnown, DiagInvariant,
         [LobbyNext]_vars, NEW c \in Call, JoinAndTell(c)
  PROVE  DiagInvariant'
<1> DEFINE u == calls[c].user
           l == calls[c].lobby
<1>1. Join(c) /\ Entered(u, l)
  BY DEF JoinAndTell
<1>2. u \in UserId /\ l \in Lobby
  BY <1>1, RequestTypes DEF LobbyInvariant, LobbyTypeOK, Join
<1>3. KnownUser(u)
  BY <1>1 DEF UsersAreKnown, Join
<1>4. /\ lobbies' = lobbies
      /\ sessions' = sessions
      /\ <<u, l.id>> \notin participants
      /\ participants' = participants \cup {<<u, l.id>>}
  BY <1>1 DEF Join, sessionState
<1>5. \A k \in lobbies : k.id = l.id => k = l
  BY <1>1 DEF LobbyInvariant, LobbyIdentity, Join
<1> HIDE DEF u, l
<1> QED
  BY <1>1, <1>2, <1>3, <1>4, <1>5, EnterStep

\* leave: whoever is reachable and shared this lobby with the user hears of it.
LEMMA LeaveStep ==
  ASSUME LobbyInvariant, LobbyInvariant', DiagInvariant,
         [LobbyNext]_vars, NEW c \in Call, LeaveAndTell(c)
  PROVE  DiagInvariant'
<1>1. Leave(c)
  BY DEF LeaveAndTell
<1>2. PICK l \in LobbyToLeave(calls[c].user, calls[c].game) :
        participants' = participants \ {<<calls[c].user, l.id>>}
  BY <1>1 DEF Leave
<1> DEFINE u == calls[c].user
<1>3. /\ l \in lobbies
      /\ <<u, l.id>> \in participants
      /\ lobbies' = lobbies /\ sessions' = sessions
      /\ UNCHANGED pending
  BY <1>1 DEF LobbyToLeave, Leave, LeaveAndTell, sessionState
<1>4. u \in UserId
  BY <1>1, RequestTypes DEF LobbyInvariant, LobbyTypeOK, Leave
<1> HIDE DEF u
<1>5. participants' = participants \ {<<u, l.id>>}
  BY <1>2 DEF u
<1>6. /\ TellLeft(u, l.id)
      /\ checked' = {h \in checked : ~(h[3] = l.id /\ u \in {h[1], h[2]})}
  <2>1. participants \ participants' = {<<u, l.id>>}
    BY <1>3, <1>5
  <2> QED
    BY <2>1 DEF LeaveAndTell
<1> DEFINE told == Told({u} \cup NowParticipantsOf(l.id))
<1>7. /\ sent' = {h \in sent : ~(h[3] = l.id /\ u \in {h[1], h[2]})}
      /\ news' = {n \in news : ~(n[1] \in told /\ u \in {n[1], n[2]})}
  BY <1>6 DEF TellLeft
<1>8. \A s \in sessions :
        s.user = u \/ <<s.user, l.id>> \in participants' => s.user \in told
  BY SessionUsers DEF Told, NowParticipantsOf
<1> HIDE DEF told
<1>9. \A v \in UserId, k \in lobbies :
        LiveMember(v, k)' <=> (LiveMember(v, k) /\ <<v, k.id>> # <<u, l.id>>)
  BY <1>3, <1>5 DEF LiveMember
<1>10. DiagTypeOK'
  BY <1>3, <1>6, <1>7 DEF LobbyInvariant, DiagInvariant, DiagTypeOK
<1>11. PartiesAreKnown'
  BY <1>5, <1>7, StillKnown DEF DiagInvariant, PartiesAreKnown
<1>12. \A s, t \in sessions, k \in lobbies :
         Together(s.user, t.user, k)' =>
           /\ Together(s.user, t.user, k)
           /\ ~(k.id = l.id /\ u \in {s.user, t.user})
  BY <1>9, SessionUsers DEF Together
<1>13. MembersAreIntroduced'
  <2> SUFFICES ASSUME NEW k \in lobbies, NEW s \in sessions, NEW t \in sessions,
                      Together(s.user, t.user, k)', s.game = k.game, t.game = k.game
               PROVE  \E h \in checked' : h[3] = k.id /\ {h[1], h[2]} = {s.user, t.user}
    BY <1>3 DEF MembersAreIntroduced, AttemptsFor
  <2>1. PICK h \in checked : h[3] = k.id /\ {h[1], h[2]} = {s.user, t.user}
    BY <1>12 DEF DiagInvariant, MembersAreIntroduced, AttemptsFor
  <2>2. h \in checked'
    BY <1>6, <1>12, <2>1
  <2> QED
    BY <2>1, <2>2
<1>14. MembersAreInformed'
  <2> SUFFICES ASSUME NEW k \in lobbies, NEW s \in sessions, NEW t \in sessions,
                      Together(s.user, t.user, k)'
               PROVE  \E v, w \in {s.user, t.user} :
                        v # w /\ <<v, w, k.id>> \in sent'
    BY <1>3 DEF MembersAreInformed
  <2>1. PICK v \in {s.user, t.user}, w \in {s.user, t.user} :
          v # w /\ <<v, w, k.id>> \in sent
    BY <1>12 DEF DiagInvariant, MembersAreInformed
  <2>2. <<v, w, k.id>> \in sent'
    BY <1>7, <1>12, <2>1
  <2> QED
    BY <2>1, <2>2
<1>15. NewsIsTrue'
  <2> SUFFICES ASSUME NEW s \in sessions, NEW w \in UserId, <<s.user, w>> \in news'
               PROVE  \E id \in LobbyId :
                        {<<s.user, id>>, <<w, id>>} \subseteq participants'
    BY <1>3 DEF NewsIsTrue
  <2>1. <<s.user, w>> \in news /\ ~(s.user \in told /\ u \in {s.user, w})
    BY <1>7
  <2>2. PICK id \in LobbyId : {<<s.user, id>>, <<w, id>>} \subseteq participants
    BY <2>1 DEF DiagInvariant, NewsIsTrue
  <2>3. ~(id = l.id /\ u \in {s.user, w})
    BY <1>5, <1>8, <2>1, <2>2
  <2> QED
    BY <1>5, <2>2, <2>3
<1> QED
  BY <1>10, <1>11, <1>13, <1>14, <1>15 DEF DiagInvariant

\* No participation goes, and what is said of other lobbies stays.
LEMMA DeleteStep ==
  ASSUME LobbyInvariant, LobbyInvariant', DiagInvariant,
         [LobbyNext]_vars, NEW c \in Call, DeleteAndTell(c)
  PROVE  DiagInvariant'
<1> DEFINE id == calls[c].lobby.id
<1>1. /\ Delete(c) /\ TellDeleted(id) /\ UNCHANGED pending
      /\ checked' = {h \in checked : h[3] # id}
  BY DEF DeleteAndTell
<1>2. participants' = participants
  <2>1. participants \cap UserId = {}
    BY ParticipantKeyAssumption DEF LobbyInvariant, LobbyTypeOK
  <2>2. participants' = {p \in participants : p \notin ParticipantsOf(id)}
    BY <1>1 DEF Delete, DeleteParticipants
  <2> QED
    BY <2>1, <2>2 DEF ParticipantsOf
<1>3. lobbies' = {k \in lobbies : k.id # id} /\ sessions' = sessions
  BY <1>1 DEF Delete, sessionState
<1>4. sent' = {h \in sent : h[3] # id} /\ news' \subseteq news
  BY <1>1 DEF TellDeleted
<1> HIDE DEF id
<1>5. \A u, v, k : Together(u, v, k)' => Together(u, v, k) /\ k.id # id
  BY <1>2, <1>3 DEF LiveMember, Together
<1>6. DiagTypeOK'
  BY <1>1, <1>4 DEF LobbyInvariant, DiagInvariant, DiagTypeOK
<1>7. PartiesAreKnown'
  BY <1>2, <1>4, StillKnown DEF DiagInvariant, PartiesAreKnown
<1>8. MembersAreIntroduced'
  <2> SUFFICES ASSUME NEW k \in lobbies', NEW s \in sessions, NEW t \in sessions,
                      Together(s.user, t.user, k)', s.game = k.game, t.game = k.game
               PROVE  \E h \in checked' : h[3] = k.id /\ {h[1], h[2]} = {s.user, t.user}
    BY <1>3 DEF MembersAreIntroduced, AttemptsFor
  <2>1. k \in lobbies /\ k.id # id /\ Together(s.user, t.user, k)
    BY <1>3, <1>5
  <2>2. PICK h \in checked : h[3] = k.id /\ {h[1], h[2]} = {s.user, t.user}
    BY <2>1 DEF DiagInvariant, MembersAreIntroduced, AttemptsFor
  <2> QED
    BY <1>1, <2>1, <2>2
<1>9. MembersAreInformed'
  <2> SUFFICES ASSUME NEW k \in lobbies', NEW s \in sessions, NEW t \in sessions,
                      Together(s.user, t.user, k)'
               PROVE  \E v, w \in {s.user, t.user} :
                        v # w /\ <<v, w, k.id>> \in sent'
    BY <1>3 DEF MembersAreInformed
  <2>1. k \in lobbies /\ k.id # id /\ Together(s.user, t.user, k)
    BY <1>3, <1>5
  <2>2. PICK v \in {s.user, t.user}, w \in {s.user, t.user} :
          v # w /\ <<v, w, k.id>> \in sent
    BY <2>1 DEF DiagInvariant, MembersAreInformed
  <2>3. <<v, w, k.id>> \in sent'
    BY <1>4, <2>1, <2>2
  <2> QED
    BY <2>2, <2>3
<1>10. NewsIsTrue'
  BY <1>2, <1>3, <1>4 DEF DiagInvariant, NewsIsTrue
<1> QED
  BY <1>6, <1>7, <1>8, <1>9, <1>10 DEF DiagInvariant

\* The invariant of the composition, for any number of everything.
THEOREM DiagnosticsCorrect == DiagSpec => []DiagInvariant
<1>1. DiagInit => DiagInvariant
  <2> SUFFICES ASSUME DiagInit
               PROVE  DiagInvariant
    OBVIOUS
  <2>1. LobbyTypeOK
    <3>1. calls \in [Call -> SessionCall \cup LobbyCall]
      BY DEF DiagInit, LobbyInit, SessionInit, SessionCall
    <3>2. SessionStateOK
      BY TimeoutAssumption DEF DiagInit, LobbyInit, SessionInit, SessionStateOK
    <3> QED
      BY <3>1, <3>2 DEF DiagInit, LobbyInit, LobbyTypeOK
  <2> QED
    BY <2>1
    DEF DiagInit, LobbyInit, SessionInit, Queue!QueueInit, DiagInvariant,
        DiagTypeOK, PartiesAreKnown, MembersAreIntroduced, MembersAreInformed,
        NewsIsTrue
<1>2. /\ LobbyInvariant /\ LobbyInvariant' /\ UsersAreKnown /\ DiagInvariant
      /\ [DiagNext]_<<vars, diagVars>>
      => DiagInvariant'
  <2> SUFFICES ASSUME LobbyInvariant, LobbyInvariant', UsersAreKnown, DiagInvariant,
                      [DiagNext]_<<vars, diagVars>>
               PROVE  DiagInvariant'
    OBVIOUS
  <2>1. [LobbyNext]_vars
    BY DiagIsLobbies
  <2>2. ASSUME NEW c \in Call,
               CreateAndTell(c) \/ JoinAndTell(c) \/ LeaveAndTell(c) \/ DeleteAndTell(c)
        PROVE  DiagInvariant'
    BY <2>1, <2>2, CreateEnters, JoinEntersLobby, LeaveStep, DeleteStep
  <2>3. ASSUME NEW k \in pending, AttemptEnds(k)
        PROVE  DiagInvariant'
    BY <2>1, <2>3, QuietStep DEF AttemptEnds, Queue!End, vars
  <2>4. CASE Quiet /\ UNCHANGED diagVars
    <3>1. UNCHANGED lobbyState
      BY <2>4 DEF Quiet, ValidateCreate, ValidateJoin, ValidateLeave,
                  ValidateDelete, RefuseCreate, RefuseJoin, RefuseLeave, RefuseDelete
    <3> QED
      BY <2>1, <2>4, <3>1, QuietStep DEF diagVars
  <2>5. CASE UNCHANGED <<vars, diagVars>>
    BY <2>1, <2>5, QuietStep DEF vars, diagVars
  <2> QED
    BY <2>2, <2>3, <2>4, <2>5 DEF DiagNext
<1> QED
  BY <1>1, <1>2, DiagRefinesLobbies, LobbySpecIsSafe, LobbiesCorrect, KnownUsers, PTL DEF DiagSpec

\* Every variable of the composition stays in its type.
THEOREM DiagTypes == DiagSpec => []DiagTypeOK
<1>1. DiagInvariant => DiagTypeOK
  BY DEF DiagInvariant
<1> QED
  BY <1>1, DiagnosticsCorrect, PTL

\* No order of requests and no attempt that is still pending makes the
\* diagnostics miss a pair of members: an attempt of their id was under way
\* when the later of them joined, however peers are named.
THEOREM PairsAreIntroduced == DiagSpec => []MembersAreIntroduced
<1>1. DiagInvariant => MembersAreIntroduced
  BY DEF DiagInvariant
<1> QED
  BY <1>1, DiagnosticsCorrect, PTL

\* Of two reachable members the first was sent that the other joined.
THEOREM PairsAreInformed == DiagSpec => []MembersAreInformed
<1>1. DiagInvariant => MembersAreInformed
  BY DEF DiagInvariant
<1> QED
  BY <1>1, DiagnosticsCorrect, PTL

\* Whom a reader of the notifications takes to be with it is with it, although
\* they do not say where.
THEOREM NewsStaysTrue == DiagSpec => []NewsIsTrue
<1>1. DiagInvariant => NewsIsTrue
  BY DEF DiagInvariant
<1> QED
  BY <1>1, DiagnosticsCorrect, PTL

-----------------------------------------------------------------------------
(* The queue *)

\* A step takes up links, or ends one attempt, or leaves the queue alone.
LEMMA PendingSteps ==
  ASSUME DiagTypeOK, [DiagNext]_<<vars, diagVars>>
  PROVE  [Queue!QueueNext]_pending
<1>1. ASSUME NEW L, EnqueueAll(L)
      PROVE  Queue!QueueNext
  <2>1. PICK N \in SUBSET L : Queue!Take(N)
    BY <1>1 DEF EnqueueAll
  <2>2. pending' \ pending = N
    BY <2>1 DEF Queue!Take, Queue!IsPending
  <2> QED
    BY <2>1, <2>2 DEF Queue!QueueNext
<1>2. ASSUME NEW k \in pending, Queue!End(k)
      PROVE  Queue!QueueNext
  BY <1>2 DEF DiagTypeOK, Queue!QueueNext, Queue!Link
<1>3. ASSUME NEW c \in Call,
             CreateAndTell(c) \/ JoinAndTell(c) \/ LeaveAndTell(c) \/ DeleteAndTell(c)
      PROVE  [Queue!QueueNext]_pending
  BY <1>1, <1>3 DEF CreateAndTell, JoinAndTell, LeaveAndTell, DeleteAndTell, Entered
<1> QED
  BY <1>2, <1>3 DEF DiagNext, AttemptEnds, diagVars

\* The composition keeps to the queue's abstraction: each step takes up only
\* links whose ids are free, at most one per id, or ends one attempt.
THEOREM DiagImplementsQueue == DiagSpec => Queue!QueueSpec
<1>1. DiagInit => Queue!QueueInit
  BY DEF DiagInit
<1>2. DiagTypeOK /\ [DiagNext]_<<vars, diagVars>> => [Queue!QueueNext]_pending
  BY PendingSteps
<1> QED
  BY <1>1, <1>2, DiagTypes, PTL DEF DiagSpec, Queue!QueueSpec

\* Of the attempts that are being made no two have the same id.
PendingIdsDiffer ==
  \A k, m \in pending : Queue!IdOfLink(k) = Queue!IdOfLink(m) => k = m

\* Two attempts that run at once never share an id, so that an answer of a
\* peer is that to one attempt: however lobby events overlap with attempts
\* that have not ended.
THEOREM AttemptsAreToldApart == DiagSpec => []PendingIdsDiffer
<1>1. Queue!QueueInit => PendingIdsDiffer
  BY DEF Queue!QueueInit, PendingIdsDiffer
<1>2. PendingIdsDiffer /\ [Queue!QueueNext]_pending => PendingIdsDiffer'
  <2> SUFFICES ASSUME PendingIdsDiffer, [Queue!QueueNext]_pending
               PROVE  PendingIdsDiffer'
    OBVIOUS
  <2> DEFINE Id(k) == Queue!IdOfLink(k)
             N == pending' \ pending
  <2>1. CASE Queue!Take(pending' \ pending)
    <3>1. /\ \A k \in N, m \in pending : Id(m) # Id(k)
          /\ \A k, m \in N : Id(k) = Id(m) => k = m
          /\ pending' = pending \cup N
      BY <2>1 DEF Queue!Take, Queue!IsPending
    <3>2. \A k, m \in pending' : Id(k) = Id(m) => k = m
      <4> HIDE DEF Id, N
      <4>1. \A k, m \in pending : Id(k) = Id(m) => k = m
        BY DEF PendingIdsDiffer, Id
      <4> QED
        BY <3>1, <4>1
    <3> QED
      BY <3>2 DEF PendingIdsDiffer, Queue!IdOfLink
  <2>2. CASE pending' \subseteq pending
    BY <2>2 DEF PendingIdsDiffer, Queue!IdOfLink
  <2> QED
    BY <2>1, <2>2 DEF Queue!QueueNext, Queue!End
<1> QED
  BY <1>1, <1>2, DiagImplementsQueue, PTL DEF Queue!QueueSpec

-----------------------------------------------------------------------------
(* Who is introduced *)

\* The peers of two users who have logged in to the same game
Acquaintances(k) ==
  \E s, t \in listeners : /\ s.user # t.user /\ s.game = t.game
                          /\ k = <<s.peer, t.peer>>

StrangersStayApart == \A k \in pending : Acquaintances(k)

\* The peers that are asked to shake hands are always those of two different
\* users of one game: no request that finishes after its session or its lobby
\* has gone, and no rejoin, makes the server connect a user to itself or to
\* the players of another game.
THEOREM NoStrangersAreIntroduced == DiagSpec => []StrangersStayApart
<1>1. DiagInit => StrangersStayApart
  BY DEF DiagInit, Queue!QueueInit, StrangersStayApart
<1>2. (/\ LobbyInvariant /\ DiagTypeOK /\ StrangersStayApart
       /\ [DiagNext]_<<vars, diagVars>>)
      => StrangersStayApart'
  <2> SUFFICES ASSUME LobbyInvariant, DiagTypeOK, StrangersStayApart,
                      [DiagNext]_<<vars, diagVars>>
               PROVE  StrangersStayApart'
    OBVIOUS
  <2>1. listeners \subseteq listeners'
    BY DiagIsLobbies, ListenersGrow
  <2>2. \A k : Acquaintances(k) => Acquaintances(k)'
    BY <2>1 DEF Acquaintances
  <2>3. ASSUME NEW u, NEW l, EnqueueAll(Links(u, l))
        PROVE  StrangersStayApart'
    <3>1. PICK N \in SUBSET Links(u, l) : Queue!Take(N)
      BY <2>3 DEF EnqueueAll
    <3>2. pending' = pending \cup N
      BY <3>1 DEF Queue!Take
    <3>3. sessions \subseteq listeners
      BY DEF LobbyInvariant, LobbyTypeOK, SessionStateOK
    <3>4. \A k \in Links(u, l) : Acquaintances(k)
      BY <3>3 DEF Links, SessionsByGame, Acquaintances
    <3> QED
      BY <2>2, <3>1, <3>2, <3>4 DEF StrangersStayApart
  <2>4. CASE pending' \subseteq pending
    BY <2>2, <2>4 DEF StrangersStayApart
  <2>5. ASSUME NEW c \in Call,
               CreateAndTell(c) \/ JoinAndTell(c) \/ LeaveAndTell(c) \/ DeleteAndTell(c)
        PROVE  StrangersStayApart'
    BY <2>3, <2>4, <2>5
    DEF CreateAndTell, JoinAndTell, LeaveAndTell, DeleteAndTell, Entered
  <2> QED
    BY <2>4, <2>5 DEF DiagNext, AttemptEnds, Queue!End, diagVars
<1> QED
  BY <1>1, <1>2, DiagRefinesLobbies, LobbySpecIsSafe, LobbiesCorrect, DiagTypes, PTL DEF DiagSpec

\* The directory of lobbies that the notifications tell of is the abstract one.
THEOREM DiagImplementsDirectory == DiagSpec => ImplementsDirectory
  BY DiagRefinesLobbies, LobbySpecIsSafe, DirectoryIsImplemented, PTL
=============================================================================

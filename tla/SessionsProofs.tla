--------------------------- MODULE SessionsProofs ---------------------------
(***************************************************************************)
(* Theorems about Sessions.  The lemmas about a step of SessionNext say    *)
(* nothing of how calls is typed beyond the session requests themselves,   *)
(* so that they also serve Lobbies, where calls holds other requests too.  *)
(***************************************************************************)
EXTENDS Sessions, TLAPS

\* What the session actions rely on in the requests: an open or validated
\* login request knows its peer and game.
RequestsOK ==
  \A c \in Call :
    /\ calls[c].op \in {"open", "login"} => calls[c].peer \in Peer
    /\ calls[c].op = "login" => calls[c].game \in Game

\* Destroying sessions keeps the two repositories in step.
LEMMA DestroyStep ==
  ASSUME NEW keys,
         SessionStateOK, SessionsMatchUsers,
         Destroy(keys), listeners' = listeners
  PROVE  /\ sessions' \subseteq sessions
         /\ users' \subseteq users
         /\ SessionsMatchUsers'
  BY DEF SessionStateOK, SessionsMatchUsers, Destroy, Find

\* A login creates one new session with one new user.
LEMMA LoginStep ==
  ASSUME SessionStateOK, SessionsMatchUsers, RequestsOK,
         NEW c \in Call, Login(c)
  PROVE  SessionStateOK' /\ SessionsMatchUsers'
<1> PICK i \in FreshSessionId, u \in FreshUserId :
      LET s == [id |-> i, user |-> u, game |-> calls[c].game, peer |-> calls[c].peer]
      IN  /\ sessions' = sessions \cup {s}
          /\ listeners' = listeners \cup {s}
          /\ users' = users \cup {u}
          /\ idle' = [idle EXCEPT ![i] = 0]
  BY DEF Login
<1> DEFINE s == [id |-> i, user |-> u, game |-> calls[c].game, peer |-> calls[c].peer]
<1>1. s \in Session
  BY DEF RequestsOK, Login, Session, FreshSessionId, FreshUserId
<1>2. \A t \in listeners : t.id # i /\ t.user # u
  BY DEF FreshSessionId, FreshUserId
<1>3. SessionStateOK'
  <2>1. idle' \in [SessionId -> 0 .. Timeout + 1]
    BY TimeoutAssumption DEF SessionStateOK, FreshSessionId
  <2>2. listeners' \subseteq Session /\ sessions' \subseteq listeners'
    BY <1>1 DEF SessionStateOK
  <2>3. users' \subseteq UserId
    BY DEF SessionStateOK, FreshUserId
  <2>4. connected' \subseteq Peer /\ cleanupJob' \in BOOLEAN
    BY DEF SessionStateOK, Login
  <2> QED
    BY <2>1, <2>2, <2>3, <2>4 DEF SessionStateOK
<1>4. users' = {t.user : t \in sessions'}
  <2> HIDE DEF s
  <2>1. {t.user : t \in sessions \cup {s}} = {t.user : t \in sessions} \cup {s.user}
    OBVIOUS
  <2>2. s.user = u
    BY DEF s
  <2>3. sessions' = sessions \cup {s} /\ users' = users \cup {u}
    BY DEF s
  <2> QED
    BY <2>1, <2>2, <2>3 DEF SessionsMatchUsers
<1>5. SessionsMatchUsers'
  <2> SUFFICES ASSUME NEW t \in listeners', NEW r \in listeners',
                      t.id = r.id \/ t.user = r.user
               PROVE  t = r
    BY <1>4 DEF SessionsMatchUsers
  <2> s.id = i /\ s.user = u
    OBVIOUS
  <2> QED
    BY <1>2 DEF SessionsMatchUsers
<1> QED
  BY <1>3, <1>5

\* Every step of the sessions keeps their types and keeps the session and
\* user repositories in step.
LEMMA SessionStep ==
  ASSUME SessionStateOK, SessionsMatchUsers, RequestsOK,
         [SessionNext]_sessionVars
  PROVE  SessionStateOK' /\ SessionsMatchUsers'
<1> USE DEF SessionStateOK, SessionsMatchUsers
<1>1. ASSUME NEW c \in Call, NEW p \in Peer, Correspondence(c, p)
      PROVE  SessionStateOK' /\ SessionsMatchUsers'
  BY <1>1, TimeoutAssumption DEF Correspondence
<1>2. ASSUME NEW c \in Call, Login(c)
      PROVE  SessionStateOK' /\ SessionsMatchUsers'
  BY <1>2, LoginStep
<1>3. ASSUME NEW c \in Call, Logout(c)
      PROVE  SessionStateOK' /\ SessionsMatchUsers'
  BY <1>3, DestroyStep DEF Logout
<1>4. ASSUME NEW p \in Peer, Disconnect(p)
      PROVE  SessionStateOK' /\ SessionsMatchUsers'
  BY <1>4, DestroyStep DEF Disconnect
<1>5. CASE Tick
  <2>1. idle' \in [SessionId -> 0 .. Timeout + 1]
    BY <1>5, TimeoutAssumption DEF Tick
  <2> QED
    BY <1>5, <2>1 DEF Tick
<1>6. CASE Cleanup
  BY <1>6, DestroyStep DEF Cleanup
<1>7. CASE Shutdown
  BY <1>7 DEF Shutdown
<1>8. CASE UNCHANGED sessionState
  BY <1>8 DEF sessionState
<1> QED
  BY <1>1, <1>2, <1>3, <1>4, <1>5, <1>6, <1>7, <1>8
  DEF SessionNext, Reject, ValidateLogin, ValidateLogout, sessionVars

\* The session actions keep calls typed, whatever else it may hold.
LEMMA SessionCallsStep ==
  ASSUME NEW C, SessionCall \subseteq C, calls \in [Call -> C],
         SessionStateOK, RequestsOK, [SessionNext]_sessionVars
  PROVE  calls' \in [Call -> C]
<1>1. Free \in C
  BY DEF SessionCall
<1>2. ASSUME NEW c \in Call, NEW p \in Peer, Correspondence(c, p)
      PROVE  calls' \in [Call -> C]
  <2>1. [op |-> "open", peer |-> p] \in C
    BY DEF SessionCall
  <2> QED
    BY <1>2, <2>1 DEF Correspondence, Become
<1>3. ASSUME NEW c \in Call, NEW g \in Game, ValidateLogin(c, g)
      PROVE  calls' \in [Call -> C]
  <2>1. [op |-> "login", peer |-> calls[c].peer, game |-> g] \in C
    BY <1>3 DEF SessionCall, RequestsOK, ValidateLogin
  <2> QED
    BY <1>3, <2>1 DEF ValidateLogin, Become
<1>4. ASSUME NEW c \in Call, NEW s \in sessions, ValidateLogout(c, s)
      PROVE  calls' \in [Call -> C]
  <2>1. [op |-> "logout", session |-> s] \in C
    BY DEF SessionCall, SessionStateOK
  <2> QED
    BY <1>4, <2>1 DEF ValidateLogout, Become
<1>5. ASSUME NEW c \in Call, Finish(c)
      PROVE  calls' \in [Call -> C]
  BY <1>1, <1>5 DEF Finish, Become
<1>6. CASE UNCHANGED calls
  BY <1>6
<1> QED
  BY <1>2, <1>3, <1>4, <1>5, <1>6
  DEF SessionNext, Reject, Login, Logout, Disconnect, Tick, Cleanup,
      Shutdown, sessionVars

\* The requests of Sessions on its own are what the lemmas ask for.
LEMMA CallsGiveRequests ==
  ASSUME calls \in [Call -> SessionCall]
  PROVE  RequestsOK
  BY DEF RequestsOK, SessionCall, Free

\* Types and the agreement of the repositories, together: the induction
\* needs both, for the freshness of a login's ids comes from the listeners.
SessionInvariant == SessionTypeOK /\ SessionsMatchUsers

\* The specification without its fairness.  No theorem below needs any, so all
\* of them hold of whatever takes the steps of Sessions only.
SessionSafety == SessionInit /\ [][SessionNext]_sessionVars

\* The theorems below hold with and without fairness.
LEMMA SessionSpecIsSafe == SessionSpec => SessionSafety
  BY PTL DEF SessionSpec, SessionSafety

\* Types and the agreement of the repositories hold in every reachable state.
THEOREM SessionsCorrect == SessionSafety => []SessionInvariant
<1>1. SessionInit => SessionInvariant
  BY TimeoutAssumption
  DEF SessionInit, SessionInvariant, SessionTypeOK, SessionStateOK,
      SessionsMatchUsers, SessionCall
<1>2. SessionInvariant /\ [SessionNext]_sessionVars => SessionInvariant'
  <2> SUFFICES ASSUME SessionInvariant, [SessionNext]_sessionVars
               PROVE  SessionInvariant'
    OBVIOUS
  <2> USE DEF SessionInvariant, SessionTypeOK
  <2>1. RequestsOK
    BY CallsGiveRequests
  <2>2. SessionStateOK' /\ SessionsMatchUsers'
    BY <2>1, SessionStep
  <2>3. calls' \in [Call -> SessionCall]
    BY <2>1, SessionCallsStep
  <2> QED
    BY <2>2, <2>3
<1> QED
  BY <1>1, <1>2, PTL DEF SessionSafety

\* Every variable of the sessions stays in its type, for any number of
\* peers, ids and requests.
THEOREM SessionTypes == SessionSafety => []SessionTypeOK
<1>1. SessionInvariant => SessionTypeOK
  BY DEF SessionInvariant
<1> QED
  BY <1>1, SessionsCorrect, PTL

\* The session and the user repository never disagree, and ids are unique.
THEOREM RepositoriesAgree == SessionSafety => []SessionsMatchUsers
<1>1. SessionInvariant => SessionsMatchUsers
  BY DEF SessionInvariant
<1> QED
  BY <1>1, SessionsCorrect, PTL

\* What a set of keys finds is what shares an id with it, and ids are unique.
LEMMA FoundById ==
  ASSUME SessionStateOK, SessionsMatchUsers,
         NEW S, S \subseteq listeners,
         NEW s \in sessions, Destroy({t.id : t \in S}), s \notin sessions'
  PROVE  s \in S
<1>1. s.id \in {t.id : t \in S}
  BY DEF Destroy, Find
<1> QED
  BY <1>1 DEF SessionStateOK, SessionsMatchUsers

\* The body of a logout looks for a session under a session object, and no
\* session is stored under one.
LEMMA LogoutFindsNothing ==
  ASSUME SessionStateOK, NEW c \in Call, Logout(c), calls[c].session \in Session
  PROVE  sessions' = sessions /\ users' = users
<1>1. Find({calls[c].session}) = {}
  BY KeyAssumption DEF Find, SessionStateOK, Session
<1> QED
  BY <1>1 DEF Logout, Destroy

\* What ends a session in fact: its peer's disconnect or its own expiry.
\* Requests end none, a logout of that very session included.
SessionEndsByDisconnectOrExpiry ==
  [][\A s \in sessions \ sessions' :
       \/ s.peer \in connected \ connected'
       \/ Expired(s) /\ cleanupJob]_sessionVars

\* Each action that ends a session, logout() not among them.
LEMMA EndStep ==
  ASSUME SessionInvariant, SessionNext, NEW s \in sessions, s \notin sessions'
  PROVE  \/ s.peer \in connected \ connected'
         \/ Expired(s) /\ cleanupJob
<1>0. SessionStateOK /\ SessionsMatchUsers
  BY DEF SessionInvariant, SessionTypeOK
<1>1. ASSUME NEW c \in Call, Logout(c)
      PROVE  FALSE
  <2>1. calls[c].session \in Session
    BY <1>1 DEF SessionInvariant, SessionTypeOK, SessionCall, Free, Logout
  <2> QED
    BY <1>0, <1>1, <2>1, LogoutFindsNothing
<1>2. ASSUME NEW p \in Peer, Disconnect(p)
      PROVE  s.peer \in connected \ connected'
  <2>1. s \in {t \in listeners : t.peer = p}
    BY <1>0, <1>2, FoundById DEF Disconnect
  <2> QED
    BY <1>2, <2>1 DEF Disconnect
<1>3. CASE Cleanup
  <2>1. s \in {t \in sessions : Expired(t)}
    BY <1>0, <1>3, FoundById DEF Cleanup, SessionStateOK
  <2> QED
    BY <1>3, <2>1 DEF Cleanup
<1>4. CASE sessions \subseteq sessions'
  BY <1>4
<1> QED
  BY <1>1, <1>2, <1>3, <1>4
  DEF SessionNext, Correspondence, Reject, ValidateLogin, Login,
      ValidateLogout, Tick, Shutdown, sessionState

\* Sessions end by disconnect and expiry alone, so that the session of a client
\* that has logged out lives on until then.
THEOREM LogoutsEndNothing == SessionSafety => SessionEndsByDisconnectOrExpiry
<1>1. SessionInvariant /\ [SessionNext]_sessionVars
        => [\A s \in sessions \ sessions' :
              \/ s.peer \in connected \ connected'
              \/ Expired(s) /\ cleanupJob]_sessionVars
  BY EndStep
<1> QED
  BY <1>1, SessionsCorrect, PTL DEF SessionSafety, SessionEndsByDisconnectOrExpiry

\* No client, peer or job ends a session that is not its own or not expired.
THEOREM SessionsEndProperly == SessionSafety => SessionEndsOnlyForItsOwnReason
<1>1. SessionInvariant /\ [SessionNext]_sessionVars
        => [\A s \in sessions \ sessions' :
              \/ s.peer \in connected \ connected'
              \/ Expired(s) /\ cleanupJob
              \/ \E c \in Call :
                   calls[c].op = "logout" /\ calls[c].session = s /\ calls'[c] = Free]_sessionVars
  BY EndStep
<1> QED
  BY <1>1, SessionsCorrect, PTL DEF SessionSafety, SessionEndsOnlyForItsOwnReason

\* A disconnect leaves none of the peer's sessions behind.
THEOREM DisconnectIsComplete == SessionSafety => DisconnectReleasesSessions
<1>1. SessionInvariant /\ [SessionNext]_sessionVars
        => [\A s \in sessions' : s.peer \notin connected \ connected']_sessionVars
  <2> SUFFICES ASSUME SessionInvariant, SessionNext,
                      NEW s \in sessions', s.peer \in connected \ connected'
               PROVE  FALSE
    OBVIOUS
  <2>1. PICK p \in Peer : Disconnect(p)
    BY DEF SessionNext, Correspondence, Reject, ValidateLogin, Login, Logout,
           ValidateLogout, Tick, Cleanup, Shutdown, sessionState
  <2>2. s.peer = p
    BY <2>1 DEF Disconnect
  <2>3. s \in sessions /\ s.id \notin {t.id : t \in {r \in listeners : r.peer = p}}
    BY <2>1 DEF Disconnect, Destroy, Find
  <2> QED
    BY <2>2, <2>3 DEF SessionInvariant, SessionTypeOK, SessionStateOK
<1> QED
  BY <1>1, SessionsCorrect, PTL DEF SessionSafety, DisconnectReleasesSessions

-----------------------------------------------------------------------------
(* Abandoned sessions *)

Abandoned(s) == s \in sessions /\ s.peer \notin connected

\* What makes the cleanup job get every abandoned session in the end: nobody
\* refreshes one, each tick brings it closer to its expiry, and a cleanup after
\* that removes it, whatever requests run between validators and body.
AbandonedSessionsOnlyAge ==
  [][\A s \in sessions : Abandoned(s) =>
       /\ s \in sessions' => Abandoned(s)' /\ idle'[s.id] >= idle[s.id]
       /\ Tick /\ ~Expired(s) => idle'[s.id] = idle[s.id] + 1
       /\ Cleanup /\ Expired(s) => s \notin sessions']_sessionVars

\* Each action, seen from a session whose connection is gone.
LEMMA AbandonedStep ==
  ASSUME SessionInvariant, SessionNext, NEW s \in sessions, s.peer \notin connected
  PROVE  /\ s.peer \notin connected'
         /\ idle'[s.id] >= idle[s.id]
         /\ Tick /\ ~Expired(s) => idle'[s.id] = idle[s.id] + 1
         /\ Cleanup /\ Expired(s) => s \notin sessions'
<1>0. /\ s \in listeners /\ s.id \in SessionId
      /\ idle \in [SessionId -> 0 .. Timeout + 1]
      /\ \A t \in listeners : t.id = s.id => t = s
  BY DEF SessionInvariant, SessionTypeOK, SessionStateOK, SessionsMatchUsers, Session
<1>1. connected' \subseteq connected
  BY DEF SessionNext, Correspondence, Reject, ValidateLogin, Login, ValidateLogout,
         Logout, Disconnect, Tick, Cleanup, Shutdown, sessionState
<1>2. ASSUME NEW c \in Call, NEW p \in Peer, Correspondence(c, p)
      PROVE  idle'[s.id] = idle[s.id]
  <2>1. ~\E t \in listeners : t.id = s.id /\ t.peer = p
    BY <1>0, <1>2 DEF Correspondence
  <2> QED
    BY <1>0, <1>2, <2>1 DEF Correspondence
<1>3. ASSUME NEW c \in Call, Login(c)
      PROVE  idle'[s.id] = idle[s.id]
  BY <1>0, <1>3 DEF Login, FreshSessionId
<1>4. ASSUME Tick
      PROVE  idle'[s.id] = IF idle[s.id] <= Timeout THEN idle[s.id] + 1 ELSE idle[s.id]
  <2>1. Find({s.id}) # {}
    BY DEF Find
  <2> QED
    BY <1>0, <1>4, <2>1 DEF Tick
<1>5. idle'[s.id] = idle[s.id] \/ Tick
  BY <1>2, <1>3
  DEF SessionNext, Reject, ValidateLogin, ValidateLogout, Logout, Disconnect,
      Cleanup, Shutdown, sessionState
<1>6. Cleanup /\ Expired(s) => s \notin sessions'
  BY <1>0 DEF Cleanup, Destroy, Find
<1>7. idle[s.id] \in Nat
  BY <1>0, TimeoutAssumption
<1>8. idle'[s.id] >= idle[s.id]
  BY <1>4, <1>5, <1>7
<1>9. Tick /\ ~Expired(s) => idle'[s.id] = idle[s.id] + 1
  BY <1>4, <1>7, TimeoutAssumption DEF Expired
<1> QED
  BY <1>1, <1>6, <1>8, <1>9

\* An abandoned session runs out, tick by tick, until a cleanup removes it.
THEOREM AbandonedSessionsRunOut == SessionSafety => AbandonedSessionsOnlyAge
<1>1. SessionInvariant /\ [SessionNext]_sessionVars
        => [\A s \in sessions : Abandoned(s) =>
              /\ s \in sessions' => Abandoned(s)' /\ idle'[s.id] >= idle[s.id]
              /\ Tick /\ ~Expired(s) => idle'[s.id] = idle[s.id] + 1
              /\ Cleanup /\ Expired(s) => s \notin sessions']_sessionVars
  BY AbandonedStep DEF Abandoned
<1> QED
  BY <1>1, SessionsCorrect, PTL DEF SessionSafety, AbandonedSessionsOnlyAge
=============================================================================

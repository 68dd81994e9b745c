------------------------------ MODULE Sessions ------------------------------
(***************************************************************************)
(* Natty's login sessions: src/src/sessions and the repositories under it. *)
(*                                                                         *)
(* A client is known by its connection, an nlon Peer.  It opens            *)
(* correspondences; each one is served by an async handler that awaits the *)
(* first message, runs a chain of validators over it and, once the await   *)
(* returns, runs its body on what the validators captured.  A handler is   *)
(* therefore three steps here: the 'correspondence' event, the validators, *)
(* the body.  Anything may run between two of them.                        *)
(*                                                                         *)
(* Abstracted: user names, message bodies, the schema check, logging.      *)
(* Bounds: SessionId, UserId and Call are finite in the instances (so many *)
(* logins, so many requests served at once); idle saturates one second     *)
(* past Timeout, where the code can no longer tell ages apart.             *)
(***************************************************************************)
EXTENDS Naturals

CONSTANTS
  Peer,       \* connections; one that is lost never comes back
  SessionId,  \* what nanoid() can return for a session
  UserId,     \* what nanoid() can return for a user
  Game,       \* ids of the configured games
  Call,       \* slots for requests being served at the same time
  Timeout     \* config.session.timeout, in clock ticks

VARIABLES
  connected,   \* peers whose connection is up (or still to be opened)
  listeners,   \* sessions whose 'disconnect'/'correspondence' listeners
               \* hang on their peer; listeners are never removed
  sessions,    \* the session repository
  users,       \* ids in the user repository
  idle,        \* time() - lastMessage of a live session, saturating
  cleanupJob,  \* the setInterval of the cleanup job is armed
  calls        \* what each request being served has captured so far

sessionState == <<connected, listeners, sessions, users, idle, cleanupJob>>
sessionVars  == <<sessionState, calls>>

Session == [id : SessionId, user : UserId, game : Game, peer : Peer]

Free == [op |-> "free"]

SessionCall ==
       {Free}
  \cup [op : {"open"}, peer : Peer]
  \cup [op : {"login"}, peer : Peer, game : Game]
  \cup [op : {"logout"}, session : Session]

ASSUME TimeoutAssumption == Timeout \in Nat

\* A session object is not the id of a session: Map keys are compared by
\* identity, so the repository finds nothing under it.
ASSUME KeyAssumption == Session \cap SessionId = {}

SessionStateOK ==
  /\ connected \subseteq Peer
  /\ listeners \subseteq Session
  /\ sessions \subseteq listeners
  /\ users \subseteq UserId
  /\ idle \in [SessionId -> 0 .. Timeout + 1]
  /\ cleanupJob \in BOOLEAN

\* The variables stay in their types, and every stored session was created
\* by create(), which hangs the two listeners on its peer.
SessionTypeOK ==
  /\ SessionStateOK
  /\ calls \in [Call -> SessionCall]

SessionInit ==
  /\ connected = Peer
  /\ listeners = {}
  /\ sessions = {}
  /\ users = {}
  /\ idle = [i \in SessionId |-> 0]
  /\ cleanupJob = TRUE
  /\ calls = [c \in Call |-> Free]

-----------------------------------------------------------------------------
(* Helpers *)

FreshSessionId == SessionId \ {s.id : s \in listeners}
FreshUserId    == UserId \ {s.user : s \in listeners}

Become(c, call) == calls' = [calls EXCEPT ![c] = call]
Finish(c)       == Become(c, Free)

\* SessionRepository.find for each of the keys
Find(keys) == {s \in sessions : s.id \in keys}

\* Mutant: the user is left behind in its repository.
DestroyKeepsUser(keys) ==
  /\ sessions' = sessions \ Find(keys)
  /\ users' = users

\* SessionService.destroy for each of the keys: an unknown key is ignored,
\* a known one takes the session and its user out of their repositories.
Destroy(keys) ==
  /\ sessions' = sessions \ Find(keys)
  /\ users' = users \ {s.user : s \in Find(keys)}

Expired(s) == idle[s.id] > Timeout

-----------------------------------------------------------------------------
(* Requests *)

\* Mutant: any traffic refreshes every session of the same game.
CorrespondenceRefreshesGame(c, p) ==
  /\ p \in connected
  /\ calls[c] = Free
  /\ Become(c, [op |-> "open", peer |-> p])
  /\ idle' = [i \in SessionId |->
                IF \E s, t \in listeners : /\ s.id = i
                                           /\ t.peer = p
                                           /\ s.game = t.game
                THEN 0 ELSE idle[i]]
  /\ UNCHANGED <<connected, listeners, sessions, users, cleanupJob>>

\* A peer opens a correspondence: every session created on that peer is
\* refreshed before the handler sees the first message.
Correspondence(c, p) ==
  /\ p \in connected
  /\ calls[c] = Free
  /\ Become(c, [op |-> "open", peer |-> p])
  /\ idle' = [i \in SessionId |->
                IF \E s \in listeners : s.id = i /\ s.peer = p
                THEN 0 ELSE idle[i]]
  /\ UNCHANGED <<connected, listeners, sessions, users, cleanupJob>>

\* A validator throws (no body, wrong schema, no authorization, unknown
\* session or game): the handler ends there.
Reject(c) ==
  /\ calls[c].op = "open"
  /\ Finish(c)
  /\ UNCHANGED sessionState

\* session/login: requireBody, requireSchema, requireGame
ValidateLogin(c, g) ==
  /\ calls[c].op = "open"
  /\ Become(c, [op |-> "login", peer |-> calls[c].peer, game |-> g])
  /\ UNCHANGED sessionState

\* Mutant: create() does not listen to its peer.
LoginWithoutListeners(c) ==
  /\ calls[c].op = "login"
  /\ \E i \in FreshSessionId, u \in FreshUserId :
       LET s == [id |-> i, user |-> u,
                 game |-> calls[c].game, peer |-> calls[c].peer]
       IN  /\ sessions' = sessions \cup {s}
           /\ users' = users \cup {u}
           /\ idle' = [idle EXCEPT ![i] = 0]
  /\ Finish(c)
  /\ UNCHANGED <<connected, listeners, cleanupJob>>

\* The body of session/login: SessionService.create.  It does not ask
\* whether the peer is still connected.
Login(c) ==
  /\ calls[c].op = "login"
  /\ \E i \in FreshSessionId, u \in FreshUserId :
       LET s == [id |-> i, user |-> u,
                 game |-> calls[c].game, peer |-> calls[c].peer]
       IN  /\ sessions' = sessions \cup {s}
           /\ listeners' = listeners \cup {s}
           /\ users' = users \cup {u}
           /\ idle' = [idle EXCEPT ![i] = 0]
  /\ Finish(c)
  /\ UNCHANGED <<connected, cleanupJob>>

\* session/logout: requireAuthorization, requireSession.  The header may
\* name any live session, whichever peer sends it.
ValidateLogout(c, s) ==
  /\ calls[c].op = "open"
  /\ s \in sessions
  /\ Become(c, [op |-> "logout", session |-> s])
  /\ UNCHANGED sessionState

\* The body of session/logout: destroy(session).  The argument is the
\* session object where destroy expects an id.
Logout(c) ==
  /\ calls[c].op = "logout"
  /\ Destroy({calls[c].session})
  /\ Finish(c)
  /\ UNCHANGED <<connected, listeners, idle, cleanupJob>>

-----------------------------------------------------------------------------
(* Events *)

\* The peer's 'disconnect' event: each of its listeners destroys its session.
Disconnect(p) ==
  /\ p \in connected
  /\ connected' = connected \ {p}
  /\ Destroy({s.id : s \in {t \in listeners : t.peer = p}})
  /\ UNCHANGED <<listeners, idle, cleanupJob, calls>>

\* The clock moves; only the age of a live session is ever read.
Tick ==
  /\ idle' = [i \in SessionId |->
                IF Find({i}) # {} /\ idle[i] <= Timeout
                THEN idle[i] + 1 ELSE idle[i]]
  /\ UNCHANGED <<connected, listeners, sessions, users, cleanupJob, calls>>

\* Mutant: expiry is tested with >= instead of >.
CleanupTooEarly ==
  /\ cleanupJob
  /\ Destroy({s.id : s \in {t \in sessions : idle[t.id] >= Timeout}})
  /\ UNCHANGED <<connected, listeners, idle, cleanupJob, calls>>

\* Mutant: cleanup leaves sessions alone whose peer is gone, taking them to
\* be the disconnect listener's job.
CleanupSkipsDisconnected ==
  /\ cleanupJob
  /\ Destroy({s.id : s \in {t \in sessions : Expired(t) /\ t.peer \in connected}})
  /\ UNCHANGED <<connected, listeners, idle, cleanupJob, calls>>

\* cleanupSessions, run by the interval timer
Cleanup ==
  /\ cleanupJob
  /\ Destroy({s.id : s \in {t \in sessions : Expired(t)}})
  /\ UNCHANGED <<connected, listeners, idle, cleanupJob, calls>>

\* Natty.shutdown emits 'close', which cancels the job; peers that are
\* connected are still served.
Shutdown ==
  /\ cleanupJob
  /\ cleanupJob' = FALSE
  /\ UNCHANGED <<connected, listeners, sessions, users, idle, calls>>

SessionNext ==
  \/ \E c \in Call, p \in Peer : Correspondence(c, p)
  \/ \E c \in Call : Reject(c)
  \/ \E c \in Call, g \in Game : ValidateLogin(c, g)
  \/ \E c \in Call : Login(c)
  \/ \E c \in Call, s \in sessions : ValidateLogout(c, s)
  \/ \E c \in Call : Logout(c)
  \/ \E p \in Peer : Disconnect(p)
  \/ Tick
  \/ Cleanup
  \/ Shutdown

\* Time passes, and the interval timer keeps firing while it is armed.
\* Nothing is assumed of clients, nor of the handlers.
SessionFairness ==
  /\ WF_sessionVars(Tick)
  /\ WF_sessionVars(Cleanup)

SessionSpec == SessionInit /\ [][SessionNext]_sessionVars /\ SessionFairness

-----------------------------------------------------------------------------
(* Safety *)

\* The two repositories agree: every live session has its user and every
\* user a live session, no two sessions share an id, and none shares a user.
\* Logins that overlap, expiry and disconnects must keep them so.
SessionsMatchUsers ==
  /\ users = {s.user : s \in sessions}
  /\ \A s, t \in listeners : s.id = t.id \/ s.user = t.user => s = t

\* A session leaves the repository only when its own peer disconnects, when
\* it has been idle for longer than the timeout, or as its own logout ends: no
\* request of another client, no disconnect of another peer and no early
\* cleanup can end it.
SessionEndsOnlyForItsOwnReason ==
  [][\A s \in sessions \ sessions' :
       \/ s.peer \in connected \ connected'
       \/ Expired(s) /\ cleanupJob
       \/ \E c \in Call :
            calls[c].op = "logout" /\ calls[c].session = s /\ calls'[c] = Free]_sessionVars

\* When a peer disconnects, all the sessions it has logged in are released
\* at once, whatever else is in flight.
DisconnectReleasesSessions ==
  [][\A s \in sessions' : s.peer \notin connected \ connected']_sessionVars

\* A client that logs out has no session any more.  The client library says
\* so (session.client.mjs:36, "Terminate session by logging out.") and drops
\* its authorization; the handler hands destroy() the wrong key.
LogoutEndsSession ==
  [][\A c \in Call :
       calls[c].op = "logout" /\ calls'[c] = Free
         => calls[c].session \notin sessions']_sessionVars

-----------------------------------------------------------------------------
(* Liveness *)

Live(i) == Find({i}) # {}

\* A login whose handler finishes after its peer disconnected leaves a
\* session no disconnect event will ever release: the cleanup job must get
\* it, as long as the server has not been shut down.
AbandonedSessionIsReleased ==
  \A i \in SessionId :
    (Live(i) /\ \A s \in Find({i}) : s.peer \notin connected)
      ~> (~Live(i) \/ ~cleanupJob)

\* No session stays silent and alive for ever: time and again it is
\* refreshed, or it has been released (or the job is cancelled).
SilentSessionExpires ==
  \A i \in SessionId : []<>(~Live(i) \/ idle[i] = 0 \/ ~cleanupJob)
=============================================================================

---------------------------- MODULE Diagnostics ----------------------------
(***************************************************************************)
(* What the lobbies set off: the connectivity checks between members       *)
(* (src/src/connection/connections.mjs) and the notifications              *)
(* (src/src/notifications).                                                *)
(*                                                                         *)
(* Both turn user ids into peers at the moment they are needed, through    *)
(* whatever sessions are live then.  The joining user may have lost its    *)
(* session since the request was validated, the lobby may have been        *)
(* deleted, and a deleted lobby keeps its participants.                    *)
(*                                                                         *)
(* The queue of connection attempts appears as its abstraction             *)
(* HandshakeQueue, which ConnectionAttempts implements.  What has been set  *)
(* off is kept in histories, which no action reads: the notifications sent, *)
(* what a reader could make of them, and the attempts at each join.        *)
(***************************************************************************)
EXTENDS Lobbies

CONSTANTS Name, PeerName   \* see ConnectionAttempts

ASSUME PeerNameAssumption == PeerName \in [Peer -> Name]

VARIABLES
  pending,  \* links being checked
  checked,  \* history, <<v, u, id, k>>: as u joined lobby id, attempt k was
            \* under way, which has the id of the link from v to u
  sent,     \* history, <<v, u, id>>: v was sent that u joined, as it joined id
  news      \* history, <<v, u>>: what v can read from the notifications, that
            \* u is with it in some lobby

diagVars == <<pending, checked, sent, news>>

Queue == INSTANCE HandshakeQueue

DiagTypeOK ==
  /\ LobbyTypeOK
  /\ pending \subseteq Peer \X Peer
  /\ checked \subseteq UserId \X UserId \X LobbyId \X (Peer \X Peer)
  /\ sent \subseteq UserId \X UserId \X LobbyId
  /\ news \subseteq UserId \X UserId

DiagInit ==
  /\ LobbyInit
  /\ Queue!QueueInit
  /\ checked = {}
  /\ sent = {}
  /\ news = {}

-----------------------------------------------------------------------------
(* Helpers *)

\* SessionRepository.findSessionsByGameFor
SessionsByGame(g, U) == {s \in sessions : s.game = g /\ s.user \in U}

\* Mutant: session ids are taken for user ids.
ToldById(U) == {s.id : s \in {t \in sessions : t.user \in U}}

\* NotificationService.send: those of the users who have a session are told.
Told(U) == {s.user : s \in {t \in sessions : t.user \in U}}

\* getParticipantsOf() after the request has changed the repository
NowParticipantsOf(id) == {u \in UserId : <<u, id>> \in participants'}

\* Mutant: the owner, who is there from the start, is not checked against.
LinksButOwners(u, l) ==
  {<<t.peer, s.peer>> : s \in SessionsByGame(l.game, {u}),
                        t \in SessionsByGame(l.game, ParticipantsOf(l.id) \ {u, l.owner})}

\* The links the 'join' listener of the diagnostics wants checked: every
\* session of the joining user connects to every session of the others.
Links(u, l) ==
  {<<t.peer, s.peer>> : s \in SessionsByGame(l.game, {u}),
                        t \in SessionsByGame(l.game, ParticipantsOf(l.id) \ {u})}

\* History: as u has joined l, the attempts whose id is that of a link between
\* u and another member.
UnderWay(u, l) ==
  {h \in (NowParticipantsOf(l.id) \ {u}) \X {u} \X {l.id} \X pending' :
     \E s, t \in sessions :
       /\ s.user = u /\ t.user = h[1]
       /\ Queue!IdOfLink(<<t.peer, s.peer>>) = Queue!IdOfLink(h[4])}

\* enqueue() for each of the links, in one go: it ignores those whose id is
\* pending, so of several with one id it takes the first.
EnqueueAll(L) ==
  \E N \in SUBSET L : Queue!Take(N) /\ \A k \in L : Queue!IsPending(k)'

\* Mutant: only the joining user is told.
TellJoiner(u, l) ==
  /\ sent' = sent \cup {<<v, u, l.id>> : v \in Told({u})}
  /\ news' = news \cup {<<v, u>> : v \in Told({u})}

\* join() notifies all participants, including the joining user.  The message
\* names the user and no lobby.
TellJoined(u, l) ==
  LET told == Told(NowParticipantsOf(l.id))
  IN  /\ sent' = sent \cup {<<v, u, l.id>> : v \in told}
      /\ news' = news \cup {<<v, u>> : v \in told}

\* Mutant: only the leaving user is told.
TellLeaver(u, id) ==
  /\ sent' = {h \in sent : ~(h[3] = id /\ u \in {h[1], h[2]})}
  /\ news' = {n \in news : ~(n[1] \in Told({u}) /\ u \in {n[1], n[2]})}

\* leave() notifies the user who left and those who are still there.  The
\* message names the user and no lobby: a reader has to take it that u is
\* with it no more, and if u is the reader, that nobody is.
TellLeft(u, id) ==
  LET told == Told({u} \cup NowParticipantsOf(id))
  IN  /\ sent' = {h \in sent : ~(h[3] = id /\ u \in {h[1], h[2]})}
      /\ news' = {n \in news : ~(n[1] \in told /\ u \in {n[1], n[2]})}

\* delete() notifies those who took part in the lobby.  The message names the
\* lobby and no users, of whom no notification has said where they are.
TellDeleted(id) ==
  /\ sent' = {h \in sent : h[3] # id}
  /\ news' = {n \in news : n[1] \notin Told(ParticipantsOf(id))}

-----------------------------------------------------------------------------
(* Actions *)

\* Each body of a lobby request runs to its end in one go: it emits the
\* event, whose listeners run at once, and then sends the notifications.
Entered(u, l) ==
  /\ EnqueueAll(Links(u, l))
  /\ checked' = checked \cup UnderWay(u, l)
  /\ TellJoined(u, l)

CreateAndTell(c) ==
  /\ Create(c)
  /\ \E l \in lobbies' \ lobbies : Entered(l.owner, l)

JoinAndTell(c) ==
  /\ Join(c)
  /\ Entered(calls[c].user, calls[c].lobby)

LeaveAndTell(c) ==
  /\ Leave(c)
  /\ \E p \in participants \ participants' :
       /\ checked' = {h \in checked : ~(h[3] = p[2] /\ p[1] \in {h[1], h[2]})}
       /\ TellLeft(p[1], p[2])
  /\ UNCHANGED pending

DeleteAndTell(c) ==
  /\ Delete(c)
  /\ checked' = {h \in checked : h[3] # calls[c].lobby.id}
  /\ TellDeleted(calls[c].lobby.id)
  /\ UNCHANGED pending

\* An attempt is over, one way or the other.
AttemptEnds(k) ==
  /\ Queue!End(k)
  /\ UNCHANGED <<vars, checked, sent, news>>

Quiet ==
  \/ SessionNext /\ UNCHANGED lobbyState
  \/ \E c \in Call, s \in sessions :
       \/ ValidateCreate(c, s)
       \/ ValidateLeave(c, s)
       \/ \E l \in lobbies : ValidateJoin(c, s, l) \/ ValidateDelete(c, s, l)
  \/ \E c \in Call : \/ RefuseCreate(c) \/ RefuseJoin(c)
                     \/ RefuseLeave(c)  \/ RefuseDelete(c)

DiagNext ==
  \/ \E c \in Call : \/ CreateAndTell(c) \/ JoinAndTell(c)
                     \/ LeaveAndTell(c)  \/ DeleteAndTell(c)
  \/ \E k \in pending : AttemptEnds(k)
  \/ Quiet /\ UNCHANGED diagVars

DiagSpec ==
  /\ DiagInit
  /\ [][DiagNext]_<<vars, diagVars>>
  /\ SessionFairness
  /\ \A k \in Queue!Link : WF_pending(Queue!End(k))

-----------------------------------------------------------------------------
(* Properties *)

\* Two users who take part in one live lobby
Together(u, v, l) == u # v /\ LiveMember(u, l) /\ LiveMember(v, l)

\* The attempts that were under way for two users, when the one who came later
\* into the lobby last joined it
AttemptsFor(u, v, id) ==
  {h[4] : h \in {g \in checked : g[3] = id /\ {g[1], g[2]} = {u, v}}}

\* Whoever is together in a live lobby, with sessions of its game: when the
\* later of the two joined, an attempt of their id was under way.  No order of
\* logins, joins, leaves and rejoins, no request that finishes late and no
\* attempt that is still pending makes the diagnostics miss a pair's id,
\* however the peers are named.
MembersAreIntroduced ==
  \A l \in lobbies : \A s, t \in sessions :
    (Together(s.user, t.user, l) /\ s.game = l.game /\ t.game = l.game)
      => AttemptsFor(s.user, t.user, l.id) # {}

\* Of two members of a live lobby with a session, of whatever game, the one
\* who came first was sent that the other joined, and joined this lobby the
\* last time: the notifications sent to those who are reachable at each moment
\* keep up with the lobby.
MembersAreInformed ==
  \A l \in lobbies : \A s, t \in sessions :
    Together(s.user, t.user, l) =>
      \E u, v \in {s.user, t.user} : u # v /\ <<u, v, l.id>> \in sent

\* A user with a session who goes by what the notifications say, which is not
\* in which lobby, takes nobody to be there with whom it shares none, be it
\* in lobbies of several games: whoever must hear of a leave or a delete does.
\* (The lobby may be a deleted one, whose participations count for those who
\* are told of a late join.)
NewsIsTrue ==
  \A s \in sessions : \A u \in UserId :
    <<s.user, u>> \in news =>
      \E id \in LobbyId : {<<s.user, id>>, <<u, id>>} \subseteq participants

-----------------------------------------------------------------------------
(* Claims of the source that the code does not keep *)

\* "Return id unique to connection attempt." (connection.attempt.queue.mjs:85)
\* So a pair's own link would be under way, not just one of the same id.
AttemptsAreThePairsOwn ==
  \A l \in lobbies : \A s, t \in sessions :
    (Together(s.user, t.user, l) /\ s.game = l.game /\ t.game = l.game)
      => {<<s.peer, t.peer>>, <<t.peer, s.peer>>} \cap AttemptsFor(s.user, t.user, l.id) # {}

\* "Generate a new connection attempt for each missing link", n of them for
\* n + 1 players (docs/connection-orchestration.md:40).
EachLinkIsChecked ==
  \A l \in lobbies : \A s, t \in sessions :
    Together(s.user, t.user, l) => AttemptsFor(s.user, t.user, l.id) # {}

\* "When someone leaves a lobby", "Delete all connection attempts that affect
\* the leaving player" (docs/connection-orchestration.md:49).
LeaveEndsAttempts ==
  [][\A l \in lobbies \cap lobbies' : \A s \in sessions :
       (/\ LiveMember(s.user, l) /\ <<s.user, l.id>> \notin participants'
        /\ \A t \in sessions \ {s} : t.peer # s.peer)
         => \A k \in pending' : s.peer \notin {k[1], k[2]}]_<<vars, diagVars>>
=============================================================================

# Natty in TLA+

Natty is a lobby and relay server for games: clients log in over a JSON
protocol (nlon), gather in lobbies, are checked pairwise for connectivity, and
have their game traffic relayed over UDP when they cannot reach each other.
This directory models its stateful core and the client library that talks to
it, checks the models with TLC and proves the safety properties with TLAPS.
Paths below are relative to `src/src/` unless they begin with `docs/` or `test/`.

Everything runs in one Node process. Nothing is persisted, so there is no crash
recovery to model. The hard behaviour comes from async handlers that act on what
they captured before an `await`, from connections and timers that end things in
between, from promises that nobody cancels, and from listeners that throw after
earlier ones have done their work.

## Inventory

| component | state | operations | talks to |
|---|---|---|---|
| sessions (`sessions`) | session and user repositories, listeners hung on each peer, the cleanup interval | login, logout, `disconnect`, `correspondence` (refresh), cleanup, shutdown | everything authorises through it |
| lobbies (`lobbies`) | lobby and participant repositories | create, join, leave, delete, list | sessions (who asks), notifications, `join` event |
| connection attempts (`connection`) | the queue of attempts, each attempt's outcome | enqueue, processor, timeout, conclude | peers |
| connection diagnostics (`connection/connections.mjs`) | none of its own | the `join` listener | lobbies, sessions, the queue |
| notifications (`notifications`) | none | send to the peers of users | sessions |
| UDP relay (`relay`) | relay table, socket pool, cleanup interval | createRelay, allocatePort, relay (packet), freeRelay, clear, cleanup, registration | sessions (registrar), constraints |
| constraints (`relay/constraints.mjs`) | limiter and traffic counter of each relay, the global limiter | on `create`, `transmit`, `destroy` | relay events |
| bandwidth limiter (`relay/bandwidth.limiter.mjs`) | counter and start of a slice | validate | constraints |
| client library (`client.mjs`, `natty.client.mjs`, `*.client.mjs`) | the context of a connection: session id and lobby id | login, logout, create, join, leave, delete, list | the server |
| repositories, validators | the maps under all of it; what a request has captured | add, find, remove; validate | sessions, lobbies |
| games, configuration, logging, utilities | read once, or pure | | |

What makes each correct, and what is hard about it:

* **Sessions.** Session and user repository agree; a session ends for its own
  reason only; the sessions of a peer go when it disconnects; none survives in
  silence. Hard: a login may finish after its peer is gone; traffic, expiry and
  disconnect race; logout uses the wrong key.
* **Lobbies.** At most one live lobby per user and game; the owner is always in
  it; memberships end by the member's own leave or with the lobby. Hard: join and delete work on lobby objects captured earlier;
  users whose session is gone; participations left behind by `delete`.
* **Connection attempts.** The queue holds what is under way, once per id; a
  success was reported by both sides; every attempt leaves. Hard: the timeout
  does not stop the processor, ids may collide, the same pair comes back.
* **Diagnostics and notifications.** A pair in a lobby is taken up by the queue
  when the later one joins; members are told of each other, and what can be made
  of the notifications is so. Hard: users are turned into peers only when
  something is sent, after the lobby has changed; notifications of joins and
  leaves name no lobby; attempts of different pairs may have one id.
* **Relay.** Bounded table; a relay that is in use works; an idle one is freed.
  Hard: `createRelay` checks before its `await` and pushes after it.
* **Constraints.** Limits hold per relay, for all relays, and for a relay's
  life. Hard: a packet that a later constraint refuses has been charged by the
  earlier ones; counters come and go with relays.
* **Limiter.** Any window as long as a slice carries a bounded amount, and nothing
  is refused before it must be. Hard: slices begin with packets, not with the
  clock, and the first packet is not looked at.
* **Client library.** What the context says of the client's lobby is so. Hard:
  it is written after an `await`, and the server, other clients and other calls
  of the same client go on; it outlives the login it was learnt under.

## Modules

```
LobbyDirectory        what lobbies promise (abstract)
Sessions              sessions and users             <- SessionsProofs
Lobbies               EXTENDS Sessions,              <- LobbiesProofs
                      refines LobbyDirectory
HandshakeQueue        what the queue promises (abstract)
ConnectionAttempts    queue and processor,           <- AttemptsProofs
                      refines HandshakeQueue
Diagnostics           EXTENDS Lobbies, with a        <- DiagnosticsProofs
                      HandshakeQueue and the notifications
Client                EXTENDS Lobbies, with the      <- ClientProofs
                      client library
UDPRelay              relay, pool, cleanup           <- RelayProofs
BandwidthLimiter      one limiter                    <- LimiterProofs
Constraints           all four, over relays that     <- ConstraintsProofs
                      come and go; its global part
                      refines BandwidthLimiter
MC*                   instances for TLC
```

**Sessions.** A handler is three steps: `Correspondence` (the peer's event,
which refreshes every session created on that peer), `Validate*` (the awaited
`corr.next` with its validators; what they put into `corr.context` is stored in
the request's slot of `calls`), and the body (`Login`, `Logout`), which works on
the slot whatever has happened since. `Reject` is a validator that throws.
`Disconnect` runs the listeners of `SessionService.create`; `listeners` keeps
every session ever created, since listeners are never removed. `Cleanup` is
`cleanupSessions`; `Shutdown` cancels its interval. `idle` is
`time() - lastMessage`.

**Lobbies** adds the four handlers that change lobbies, in the same form.
`Create` contains the `join` it ends in; `Delete` contains `deleteLobby`, with
the key it uses. `LobbyData.state` is never assigned in the source, so
`isLocked` and its error path are unreachable and left out.

**LobbyDirectory** is a directory of rooms: `Open`, `Enter`, `Exit`, `Close`.
The refinement maps rooms to live lobbies and members to the participations in
live lobbies. Joins of lobbies that are gone, left-over participations and
sessions that end are stuttering steps.

**ConnectionAttempts.** Per attempt: its fields, the reports, where the
processor is, who has settled `withTimeout`'s race. `ProcessorReturns` may come
long after `Conclude`. `PeerName` is what a Peer becomes in the template literal
of `#getAttemptId`; nlon decides that, so it is a constant, and the instance lets
two of three peers share a name.

**HandshakeQueue** is what the rest of the server sees of that queue: a set of
links with distinct ids, to which `Take` adds and from which `End` removes.

**Diagnostics** composes lobbies, that queue and the notifications. `CreateAndTell`,
`JoinAndTell`, `LeaveAndTell` and `DeleteAndTell` are the bodies of Lobbies with
everything they set off synchronously: the `NotificationService.send`, and for a
join the `join` event, on which the diagnostics look up sessions and enqueue an
attempt per pair. Of several links with one id `enqueue` takes the first
(`EnqueueAll`). Three histories record what was set off: `checked` (as a user
joined, the attempts under way that have the id of its pair with each member;
a leave, a rejoin and a delete begin anew), `sent` (who was sent which join), and
`news`. `news` knows only what the messages say (`lobbies/message.templates.mjs`):
a join and a leave name the user and no lobby, so a reader has to take one who
leaves for gone, wherever else they may be together; a delete names the lobby and
no users.

**Client** puts the library's calls on top of the server of Lobbies: `Send`
reads the context into the request and takes a slot, `Validate` and `Serve` are
the handler on that request, `Respond` leaves the answer, and `Return` is what
follows the method's `await`, which writes the context. The slot that serves a
request and the request share an index. Users of the library may log in again
whenever they like, as `test/e2e/session.test.mjs` does, and have up to
`MaxCalls` calls of a connection under way at once. `inbox` holds the answers of
a connection in the order in which they were given: they come on one stream.
`learnt` is a history: the session of the call that last wrote `lobbyId`.

**UDPRelay.** `CreateRelay` runs to the `await`, `BindSocket` or `BindFails` is
the socket's event, `FinishCreate` or `CreateThrows` the rest. `NextEvent` says
that promise reactions run before the event loop takes up the next event: no
packet, timer or socket event comes between a call that has its socket and the
rest of that call, while several calls may. `Cleanup` contains the `freeRelay`
of each idle entry, by equality and in table order; `Clear` empties the table.
What is asked for is an assumption on the environment: `Requested` are the relays
`createRelay` is called with, `Spammed` those of them that may be asked for while
a request for the same relay is under way (`MayRequest`). `Registration` is what
the registrar asks for, an entry without a port. `TrafficLimits` says whether `relay.mjs` has wired the
traffic constraints (FALSE is the handler alone, as in its tests).

**BandwidthLimiter.** `validate` in a new slice, within a slice and over the
limit (`Refused`). `passed` is a history: what was let through in this tick and the t before
it.

**Constraints.** `Transmit` is one packet through the four listeners in the
order of `relay.mjs`; the first that refuses ends it, and what the earlier ones
have counted stays. `CreateRelay` and `FreeRelay` begin and end counters.
It models the listeners of `constraints.mjs` as their own tests
(`test/spec/relay/constraints.test.mjs`) call them: `transmit` carries the message, as it is
documented to. That the handler leaves it out, and that a listener's throw then
ends the process, is the run `relay_traffic`, on the handler's own model. `sent`, `taken` and `passed` are
histories.

Definitions whose comment begins with "Mutant" are faulty variants of the
definition that follows. They are not part of any specification; they exist to
show that each property can fail.

## What the runs check

| run | bounds | shows |
|---|---|---|
| `sessions` | 2 peers, session ids, user ids and request slots, 1 game, timeout of 1 tick | `SessionsMatchUsers`, `SessionEndsOnlyForItsOwnReason`, `DisconnectReleasesSessions`; liveness: `AbandonedSessionIsReleased`, `SilentSessionExpires` |
| `lobbies` | 1 peer, 2 sessions, users, games and request slots, 3 lobby ids, timeout 0, symmetry | `OneLobbyPerGame`, `OwnerParticipates`, `MembershipEndsByOwnLeave`, `OrphanedLobbyIsForever`, refinement `ImplementsDirectory` |
| `attempts` | 2 attempts, 3 peers of which two share a name | `QueueHoldsOpenRaces`, `SuccessIsReported`, `LeavesQueueWhenSettled`, refinement `ImplementsQueue`; liveness: `AttemptLeavesQueue` |
| `diagnostics` | 2 peers with names of their own, 2 sessions, users, games and lobby ids, 1 request slot, timeout 0, symmetry | `MembersAreIntroduced`, `MembersAreInformed`, `NewsIsTrue` |
| `clients` | 1 connection with 2 calls at once, 2 sessions, users, games, request slots and lobby ids, timeout 0, symmetry | `KnownLobbyIsJoined`, `NoLobbyIsForgotten` |
| `relay` | 3 addresses and ports, 2 overlapping calls, 2 slots, timeout of 2 ticks; one relay is spammed, one request has no port | `TableIsBounded`, `OrderlyRelaysWork`, `ActiveRelayIsKept`; liveness: `IdleRelayIsFreed` |
| `limiter` | interval and limit 3, packets of up to 4 | `WindowIsBounded`, `RefusalIsDue` |
| `constraints` | 2 relays, interval 1, individual limit 2, global limit, lifetime, lifetime traffic and largest packet 3, symmetry | `CountersAreOfLiveRelays`, `LifetimeTrafficHolds`, `TakenIsBounded`, `BlockedForGood`, refinement `GlobalLimiterWorks` |

Each also checks the type invariant of its module.

Why the bounds are enough: two request slots let any request overtake any
other between its validators and its body, which is the only way requests
interact; two users and two games distinguish one's own lobby from another's and
a lobby of the session's game from one of another game; three lobby ids let a
lobby come, go and be followed by others while a request still holds it, and two
do where the diagnostics and the clients are the subject. Notifications that name
no lobby take two lobbies, which are of two games, since one game gives a user
one lobby. With two connections besides, the diagnostics are left with one
request slot: sessions still end between a request's validators and its body, and
requests that overtake each other are the subject of `lobbies`. Names that
collide are the subject of `attempts`; there is a theorem for the diagnostics
with any names, and a claim below that then fails. The clients have
one connection, whose requests do overtake each other, with a second login among
them; that clients of other connections do not matter is proved
(`SessionIdsStayPrivate`), not checked. Two attempts with a
shared name include the pair that comes back while the older processor waits.
Two slots and two calls reach a table that overshoots. Packets larger than the
limit and slices longer than one tick are the limiter's edges; for the
constraints the individual limit is smaller and the global limit not larger
than the largest packet, and two relays exhaust the global limit together. The
theorems below drop the bounds for safety.

`WindowIsBounded` allows what the code lets through, a full slice beyond the limit
(`SliceMax` is the larger of the limit and one packet); that one packet may exceed
the limit contradicts the source's own words, which are listed below.
`OrderlyRelaysWork` is about a process that lives: two calls that race for one
port end it (`BindFails`), and every relay with it.

Where the timeout is 0 sessions may end at any moment, by disconnect and by
cleanup; how they end is the subject of `sessions`. The lobbies instance has a
single peer, since requests are authorised by session and not by peer. Symmetry
is over model values that the specification treats alike, and only safety is
checked under it.

The relay, the attempts and the clients may stop: the process ends on an uncaught
error, there are finitely many attempt objects, and when all connections are
gone no client calls. Deadlock is not checked in their runs.

### Where the code does not do what it says

Each is a run that TLC must refute; the counterexample is the evidence.

| run | claim | what happens |
|---|---|---|
| `logout` | "Terminate session by logging out." (`sessions/session.client.mjs:36`) | `destroy` receives the session object instead of its id (`sessions/session.subjects.mjs:54`) and finds nothing; the session lives on |
| `late_success` | "its state will be updated and outcome set to failure" (`connection/connection.attempt.queue.mjs:33`) | the processor resumes later and sets `isSuccess` (`connection/connection.attempt.processor.mjs:67`) |
| `relay_traffic` | `transmit` carries the message (`relay/udp.relay.handler.mjs:188`) | it is emitted without (line 135); the listener that reads its length throws inside the socket's event |
| `stale_lobby` | "Currently joined lobby" (`lobbies/lobbies.client.mjs:118`) | a second login keeps the `lobbyId` of the first (`sessions/session.client.mjs:30`) |

These further claims have no run in `PROJECT.json`, which keeps to the ones above,
but a cfg each, with one property, that TLC refutes in seconds (the module is
that of the name: `tlc -config MCClientLeave.cfg MCClient`):

| cfg | claim | what happens |
|---|---|---|
| `MCLobbies_DeleteRemovesParticipants.cfg` | "This will also remove all participants." (`lobbies/lobby.service.mjs:183`) | `deleteLobby` removes by user id (`lobbies/lobby.participant.repository.mjs:90`), the keys are `user::lobby`: nothing is removed |
| `MCBandwidthLimiterSlice.cfg` | "Every time slice is allocated a certain amount of data transfer" (`relay/bandwidth.limiter.mjs:9`), "@throws if traffic is over limit" (line 40) | the packet that starts a slice is not looked at (line 44): one larger than the limit passes |
| `MCUDPRelayRegistration.cfg` | "it will create a new relay for that player" (`relay/udp.remote.registrar.mjs:18`) | the entry it passes has no port (line 88): `createRelay` throws, and leaves a bound socket behind |
| `MCUDPRelayDuplicates.cfg` | "True if the entry was created, false if it already exists" (`relay/udp.relay.handler.mjs:49`); the registrar "will not create duplicate relays" (`relay/udp.remote.registrar.mjs:21`) | two overlapping calls both pass the check (line 53) and both push |
| `MCUDPRelaySharedPort.cfg` | the pool "ensures that these sockets are always available" (`relay/udp.socket.pool.mjs:7`) | freeing one of two relays on a port closes the other's socket (`relay/udp.relay.handler.mjs:98`) |
| `MCUDPRelayTableSize.cfg` | "Limit the relay table size to a given maximum." (`relay/constraints.mjs:9`) | `<=` before the push (line 16) lets one more in |
| `MCDiagnosticsSharedNames.cfg` | "Return id unique to connection attempt." (`connection/connection.attempt.queue.mjs:85`) | if Peer objects read the same in a template literal (line 92), a pair is dropped as a duplicate of another |
| `MCDiagnosticsCrossGame.cfg` | "Generate a new connection attempt for each missing link" (`docs/connection-orchestration.md:40`) | members whose session is of another game than the lobby's are not looked up (`connection/connections.mjs:20`) |
| `MCDiagnosticsLeftAttempts.cfg` | when someone leaves, "Delete all connection attempts that affect the leaving player" (`docs/connection-orchestration.md:50`) | the diagnostics listen to joins only (`connection/connections.mjs:15`) |
| `MCClientLeave.cfg` | "Leave the currently joined lobby." (`lobbies/lobbies.client.mjs:80`) | the server leaves the lobby of the session's game (`lobbies/subjects/leave.lobby.mjs:45`); the client forgets the one it remembered |

Met while modelling and kept in the models without a property of their own:

* The lifetime constraint of "relays" (`relay/constraints.mjs:64`) looks at the
  source of a packet only (line 70): an old relay goes on receiving.
* `delete()` of the client library leaves `context.lobbyId` where `leave()`
  clears it, and the one who joined it may be another user by now; what
  `KnownLobbyIsJoined` says is therefore about lobbies that still exist and about
  the login that learnt the id, and it holds for those.
* A lobby whose owner's session has ended can never be deleted
  (`OrphanedLobbyIsForever` states it as a property that holds).
* A port that is taken ends the process (`BindFails`), also when it is two calls
  of `createRelay` that race for it.
* A reader of the notifications may take somebody for gone with whom it still
  shares another lobby, since a leave does not say which one was left. `NewsIsTrue`
  is the other direction, and the only one that holds.
* Those that a deleted lobby has left behind are told of a join that was validated
  before the deletion; for `NewsIsTrue` such a lobby counts as shared.

## Fairness

* Sessions: weak fairness of the clock and of the cleanup interval while it is
  armed. None for clients or handlers: a client may stay silent, and a message
  that is awaited may never come.
* Connection attempts: timers go off and promise reactions run. None for reports.
* Relay: promise reactions run (weak). The clock and the interval are strongly
  fair: a call that has its socket makes them wait, again and again, but the
  event loop always comes back to its timers. `IdleRelayIsFreed` speaks of a
  process that lives and was not shut down.
* The limiter, the constraints, the diagnostics and the clients have only safety
  properties.

## What is proved

Every safety property that a passing run checks is a theorem, for every value
of the constants. The assumptions are those the modules name:
`TimeoutAssumption`, `RelayAssumption` and the like give constants their types;
`KeyAssumption` (a session object is not a session id) and
`ParticipantKeyAssumption` (`user::lobby` is no user id) say under which keys
repositories find nothing; `ClientAssumption` says that `undefined` is no id.
No theorem uses fairness: those of `SessionsProofs` and `LobbiesProofs` are over
`SessionSafety` and `LobbySafety`, the specifications without it, so that a
composition that refines the steps alone inherits them.

* **`SessionsProofs`**: `SessionTypes`, `RepositoriesAgree`,
  `SessionsEndProperly`, `DisconnectIsComplete`. The invariant is
  `SessionTypeOK /\ SessionsMatchUsers`, which compares all sessions ever
  created, not just the live ones: an id is fresh if no listener has it, and
  that makes it inductive. `SessionsEndProperly` rests on the ids being unique:
  what the listeners of a peer find under their ids are the peer's own sessions.
  `LogoutsEndNothing` says what is left of the reasons a session may end for:
  `logout()` looks a session object up where ids are keys (`LogoutFindsNothing`),
  so only disconnects and expiry remain. `AbandonedSessionsRunOut` is the safety
  half of `AbandonedSessionIsReleased`: nothing refreshes a session whose peer is
  gone, each tick ages it, and the first cleanup after the timeout removes it;
  that ticks and cleanups come is the fairness TLC assumes.
* **`LobbiesProofs`**: `LobbyTypes`, `UsersAreInOneLobbyPerGame`, `OwnersParticipate`, `MembershipsEndProperly`,
  `OrphansStay`, `DirectoryIsImplemented`. `OneLobbyPerGame` alone is not
  inductive: a join checks the game of the lobby object it captured and stores a
  participation under that object's id. If the id could mean another live lobby,
  of another game, the check would have been about the wrong one.
  `LobbyIdentity`, a part of the invariant, rules it out given that nanoid does
  not repeat itself, and needs in turn that ids in use have been
  issued, which is in the type invariant. The session steps are taken over from
  `SessionsProofs`, whose lemmas ask nothing of `calls` beyond the session
  requests. `OrphansStay` needs besides that owners, and users in slots, have
  logged in once (`UsersAreKnown`), so that no later login is given their id.
  `SessionsAreImplemented` is a second refinement: with each lobby request seen
  as one that ended when it was validated (`SessionCalls`), the lobbies are a
  behaviour of Sessions, and the theorems about sessions hold here by instance
  (`LobbiesEndNoSessions`). `DeletedLobbiesLeaveGhosts` says how far the claim
  about `delete()` fails: the participations it leaves are never removed, and no
  later lobby has that id.
* **`AttemptsProofs`**: `AttemptTypes`, `QueueIsRight`, `SuccessIsReal`,
  `LeavingIsOrderly`, `QueueIsImplemented`, for any `PeerName`. The
  strengthening ties each race to its processor and says that neither starts
  before the attempt is made. `OutcomesAreFinal` bounds the finding about late
  processors: after the timeout a failure may still become a success, but only
  through the attempt's own processor, which returns once, and a success is never
  taken back.
* **`DiagnosticsProofs`**: `DiagTypes`, `PairsAreIntroduced`, `PairsAreInformed`,
  `NewsStaysTrue`, and `DiagRefinesLobbies`, through which `LobbyInvariant` is
  inherited (and `DiagImplementsDirectory` follows). `PairsAreIntroduced` is for
  any `PeerName`: an attempt of the pair's id was under way, which is all that the
  queue's duplicate check gives, and is the pair's own only if names differ
  (`MCDiagnosticsSharedNames.cfg`). `DiagImplementsQueue` shows that the
  composition uses the abstract queue as `QueueIsImplemented` provides it, and
  gives `AttemptsAreToldApart`; `NoStrangersAreIntroduced` is the converse of
  `PairsAreIntroduced`: what is under way is always between peers of two different
  users of one game. What the members can read is inductive only together with
  `PartiesAreKnown`: those who take part or were told anything have logged in, so
  that a new user has no past.
* **`ClientProofs`**: `ClientTypes`, `KnownLobbiesAreJoined`,
  `NoLobbiesAreForgotten`, for any number of logins and of calls that overlap.
  What a client that is caught up remembers is right because of what it would
  remember if it were never told anything again: among its memory and the answers
  on their way, the last that writes `lobbyId` decides, and that one is true at
  every moment (`MemoryIsTrue`). Any earlier one may be false by then, which is
  why the order of the answers matters (one mutant hears them last one first). A slot works for the user of the connection whose request
  it serves (`SlotsMatch`), since only its own clients know a session's id
  (`KnowledgeIsOwn`, stated as `SessionIdsStayPrivate`). A step of the library is
  a step of Lobbies or leaves the server alone, so that `LobbyStep` gives the
  rest; leaving makes the right memory true because of `OneLobbyPerGame`.
  `ClientRefinesLobbies` is the refinement as a theorem; with it the lobbies' and
  sessions' theorems hold through the library (`ClientLobbiesEndProperly`,
  `ClientSessionsEndProperly`).
* **`RelayProofs`**: `RelayTypes`, `TableStaysBounded`, and what holds of a relay
  that is asked for once at a time whatever is asked for besides:
  it is in the table once and is kept while it is active (`ActiveRelaysAreKept`),
  one run of the job frees it when it is stale (`CleanupFreesStaleRelays`, the
  safety half of `IdleRelayIsFreed`), and, if no other relay names its port, it
  works as long as the process lives (`UndisturbedRelaysWork`, which is the run's
  `OrderlyRelaysWork`). Without the hypothesis on its port it fails, as
  `MCUDPRelaySharedPort.cfg` shows, and others who race for a port of theirs can end the
  process. The invariant says in addition that a port with listeners has an
  entry (`NoListenersAreLeft`), and that no two calls are under way for a relay
  that is asked for once at a time (`CallsAreOrderly`). Of a relay that is
  spammed, `SpamIsBounded` counts the copies: with the calls that are to add to
  them they are no more than the calls at once, since a call begins only when
  there is no copy.
* **`LimiterProofs`**: `LimiterTypes`, `WindowsAreBounded`, `RefusalsAreDue`. A
  window no longer than the slice has lasted holds only what the slice counted;
  a longer one also holds the end of the slice before (`WindowsBySlice`, with
  `SliceIsBounded` for what one slice holds).
  `RefusalsAreDue` is the other direction, that the limiter does not refuse too
  early: the counter is exactly what passed since the slice began
  (`CounterIsExact`), which a window of a slice's length contains (`WindowsGrow`).
* **`ConstraintsProofs`**: `ConstraintsTypes`, `NothingOutlivesItsRelay`,
  `LifetimeTrafficIsHeld`, `SharesAreBounded`, `BlockedRelaysStayBlocked`, and
  the refinement `GlobalLimiterIsALimiter`, from which `GlobalWindowsAreBounded`
  and `GlobalRefusalsAreDue` follow by instantiating `LimiterProofs`.
  `TakenIsCovered` is the form of `WindowsBySlice` for a limiter kept in a map.

Only model-checked: the liveness properties (`AbandonedSessionIsReleased`,
`SilentSessionExpires`, `AttemptLeavesQueue`, `IdleRelayIsFreed`), since the
prover has no support for fairness and ENABLED. Not proved either: how many
entries one run of the cleanup job takes out when a relay has copies, which needs
induction over the table.

## Not modelled

* `lobby/list`, which reads only, and with it the visibility of lobbies.
* Names, schemas, message bodies and their formatting. That a name is too short
  or too long is a choice of `RefuseCreate`.
* How the registrar reads and answers its packets; the request it makes of the
  relay is modelled.
* Parsing of the configuration and the games, and logging: read once at start, or
  not part of the state.
* `combine`, `chunks`, `range` and the other pure helpers of `utils.mjs`. The
  pairs that `combine` builds appear as a set in `Links`.
* Ports held by other programs other than through `BindFails`.
* Answers of one connection that overtake each other: nlon sends them on one
  stream, and the model hears them in order.

## Plan

In this order; the list is complete but for the last item.

1. `Sessions`, with proofs.
2. `LobbyDirectory`, `Lobbies`, with proofs and the refinement.
3. `ConnectionAttempts`, `HandshakeQueue`, with proofs and the refinement.
4. `UDPRelay`, with proofs.
5. `BandwidthLimiter`, `Constraints`, with proofs and the refinement.
6. `Diagnostics`: lobbies, notifications and the queue composed, with proofs.
7. `Client`: the library on the server, with proofs.
8. Left: `combine`, `chunks` and `range` as functions against reference
   definitions; relay and constraints in one module once the handler passes the
   message to `transmit`.

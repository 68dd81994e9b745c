------------------------------ MODULE UDPRelay ------------------------------
(***************************************************************************)
(* The UDP relay: the relay table, the socket pool and the cleanup job of  *)
(* src/src/relay.                                                          *)
(*                                                                         *)
(* createRelay() checks the table, then awaits the bind of a socket, then  *)
(* pushes the entry; several calls may be between check and push at once.  *)
(*                                                                         *)
(* Abstracted: packet contents; an entry's two timestamps become the time  *)
(* since the later one, the only thing that is read of them.  Ports that   *)
(* other programs hold are not modelled.                                   *)
(* Bounds: Caller is the number of createRelay() calls under way at once;  *)
(* idle saturates one tick past RelayTimeout.                              *)
(***************************************************************************)
EXTENDS Naturals, Sequences, FiniteSets

CONSTANTS
  Addr,          \* remote addresses (host and port)
  Port,          \* local UDP ports
  Unset,         \* the port of a RelayEntry made without one: undefined
  Requested,     \* relays that createRelay() is called with
  Caller,        \* createRelay() calls under way at the same time
  MaxSlots,      \* config.udpRelay.maxSlots
  RelayTimeout,  \* config.udpRelay.timeout, in clock ticks
  Spammed,       \* those of them a client requests again before it is answered
  TrafficLimits  \* TRUE: relay.mjs has wired the constraints on 'transmit'

Relay == [addr : Addr, port : Port \cup {Unset}]

ASSUME RelayAssumption ==
  /\ Unset \notin Port
  /\ Requested \subseteq Relay
  /\ IsFiniteSet(Caller)
  /\ MaxSlots \in Nat
  /\ RelayTimeout \in Nat
  /\ Spammed \subseteq Requested
  /\ TrafficLimits \in BOOLEAN

VARIABLES
  table,      \* UDPRelayHandler's relay table, in order of insertion
  sockets,    \* ports with a socket in the pool; these are the bound ones
  listeners,  \* 'message' listeners on the socket of each port
  cleanupJob, \* the setInterval of the cleanup job is armed
  creating,   \* how far each createRelay() call has got
  crashed     \* an exception nobody catches has ended the process

vars == <<table, sockets, listeners, cleanupJob, creating, crashed>>

Entry == [relay : Relay, idle : 0 .. RelayTimeout + 1]

NoCall == [at |-> "none"]
Creation == {NoCall} \cup [at : {"binding", "ready"}, relay : Relay]

\* Sockets that are not in the pool have no listeners.
TypeOK ==
  /\ table \in Seq(Entry)
  /\ sockets \subseteq Port
  /\ listeners \in [Port -> Nat]
  /\ cleanupJob \in BOOLEAN
  /\ creating \in [Caller -> Creation]
  /\ crashed \in BOOLEAN
  /\ \A p \in Port \ sockets : listeners[p] = 0

Init ==
  /\ table = << >>
  /\ sockets = {}
  /\ listeners = [p \in Port |-> 0]
  /\ cleanupJob = TRUE
  /\ creating = [k \in Caller |-> NoCall]
  /\ crashed = FALSE

-----------------------------------------------------------------------------
(* Helpers *)

HasRelay(r) == \E i \in DOMAIN table : table[i].relay = r

InFlight(k) == creating[k] # NoCall

\* Mutant: one slot too many.
TableHasRoomLate == Len(table) <= MaxSlots + 1

\* constrainRelayTableSize, the listener of 'create'
TableHasRoom == Len(table) <= MaxSlots

\* A createRelay() whose await is over goes on before the event loop takes up
\* the next event: promise reactions come first.
NextEvent ==
  /\ ~crashed
  /\ \A k \in Caller : creating[k].at # "ready"

\* Array.find: the first index that satisfies the test, if there is one
First(I) == {i \in I : \A j \in I : i <= j}

\* filter(): the entries whose index is in I stay, in their order.
Keep(I) ==
  \E n \in 0 .. Len(table) : \E at \in [1 .. n -> I] :
    /\ \A j, k \in 1 .. n : j < k => at[j] < at[k]
    /\ \A i \in I : \E k \in 1 .. n : at[k] = i
    /\ table' = [k \in 1 .. n |-> table[at[k]]]

\* Mutant: the socket is forgotten and not closed.
FreePortsUnclosed(P) ==
  /\ sockets' = sockets \ P
  /\ listeners' = listeners

\* freePort closes the socket, and its listeners go with it.
FreePorts(P) ==
  /\ sockets' = sockets \ P
  /\ listeners' = [p \in Port |-> IF p \in P THEN 0 ELSE listeners[p]]

\* Mutant: freeRelay() forgets the entry.
FreePortsOnly(I) ==
  /\ table' = table
  /\ FreePorts({table[i].relay.port : i \in I})

\* freeRelay() for each of the entries at I: each call removes the first
\* entry that equals its argument, which need not be the argument, and
\* frees the port.
FreeRelays(I) ==
  LET Equal(i, J) == {j \in J : table[j].relay = table[i].relay}
      Before(i)   == {j \in Equal(i, DOMAIN table) : j < i}
  IN  /\ Keep({i \in DOMAIN table : Cardinality(Before(i)) >= Cardinality(Equal(i, I))})
      /\ FreePorts({table[i].relay.port : i \in I})

-----------------------------------------------------------------------------
(* createRelay *)

\* allocatePort() on its own, for a caller that will name the port in the
\* relay it creates next.  The system picks a free port, and none that a
\* bind under way has named.
AllocatePort(p) ==
  /\ NextEvent
  /\ p \notin sockets
  /\ \A k \in Caller : creating[k].at = "binding" => creating[k].relay.port # p
  /\ sockets' = sockets \cup {p}
  /\ UNCHANGED <<table, listeners, cleanupJob, creating, crashed>>

BeginAt(k, r, at) == creating' = [creating EXCEPT ![k] = [at |-> at, relay |-> r]]

\* What the registrar calls createRelay() with, once it has found the session
\* of a packet: the sender's address and no port.
Registration == [addr : Addr, port : {Unset}]

\* Those who call createRelay(): but for the spammed relays, a relay is not
\* asked for again before the answer.
MayRequest(k, r) ==
  /\ ~crashed
  /\ ~InFlight(k)
  /\ r \in Spammed \/ \A j \in Caller : InFlight(j) => creating[j].relay # r

\* Mutant: the relay is not looked up.
CreateRelayUnchecked(k, r) ==
  /\ MayRequest(k, r)
  /\ TableHasRoom
  /\ BeginAt(k, r, IF r.port \in sockets THEN "ready" ELSE "binding")
  /\ UNCHANGED <<table, sockets, listeners, cleanupJob, crashed>>

\* createRelay() up to its await: the relay is not in the table, the
\* 'create' listener finds the table small enough, and #ensurePort starts
\* to bind a socket unless the pool has one.  Otherwise the call returns
\* false or throws, and nothing changes.
CreateRelay(k, r) ==
  /\ MayRequest(k, r)
  /\ ~HasRelay(r)
  /\ TableHasRoom
  /\ BeginAt(k, r, IF r.port \in sockets THEN "ready" ELSE "binding")
  /\ UNCHANGED <<table, sockets, listeners, cleanupJob, crashed>>

\* The socket is bound to its port, or to one the system picks.
BindSocket(k) ==
  /\ NextEvent
  /\ creating[k].at = "binding"
  /\ creating[k].relay.port \notin sockets
  /\ \E p \in Port \ sockets :
       /\ creating[k].relay.port \in {p, Unset}
       /\ sockets' = sockets \cup {p}
  /\ creating' = [creating EXCEPT ![k].at = "ready"]
  /\ UNCHANGED <<table, listeners, cleanupJob, crashed>>

\* A port that is taken makes the socket emit 'error', for which there is
\* no listener.
BindFails(k) ==
  /\ NextEvent
  /\ creating[k].at = "binding"
  /\ creating[k].relay.port \in sockets
  /\ crashed' = TRUE
  /\ UNCHANGED <<table, sockets, listeners, cleanupJob, creating>>

\* The rest of createRelay(), once its port has a socket.
FinishCreate(k) ==
  /\ ~crashed
  /\ creating[k].at = "ready"
  /\ LET r == creating[k].relay
     IN  /\ r.port \in sockets
         /\ listeners' = [listeners EXCEPT ![r.port] = @ + 1]
         /\ table' = Append(table, [relay |-> r, idle |-> 0])
  /\ creating' = [creating EXCEPT ![k] = NoCall]
  /\ UNCHANGED <<sockets, cleanupJob, crashed>>

\* The pool has no socket for a port that is unset: createRelay() throws, and
\* the socket it has bound stays in the pool.
CreateThrows(k) ==
  /\ ~crashed
  /\ creating[k].at = "ready"
  /\ creating[k].relay.port \notin sockets
  /\ creating' = [creating EXCEPT ![k] = NoCall]
  /\ UNCHANGED <<table, sockets, listeners, cleanupJob, crashed>>

-----------------------------------------------------------------------------
(* Traffic, time and cleanup *)

Senders(a) == First({i \in DOMAIN table : table[i].relay.addr = a})
Targets(p) == First({i \in DOMAIN table : table[i].relay.port = p})

\* A packet from address a arrives on port p.  It is passed on if both ends
\* have a relay and the sender's has a socket, and dropped otherwise.
\* 'transmit' is emitted without the message, whose length the constraints
\* go on to read: the exception leaves through the socket's event.
Packet(a, p) ==
  /\ NextEvent
  /\ p \in sockets /\ listeners[p] > 0
  /\ \E s \in Senders(a), t \in Targets(p) :
       /\ table[s].relay.port \in sockets
       /\ IF TrafficLimits
          THEN crashed' = TRUE /\ table' = table
          ELSE /\ crashed' = crashed
               /\ table' = [i \in DOMAIN table |->
                              IF i \in {s, t} THEN [table[i] EXCEPT !.idle = 0]
                              ELSE table[i]]
  /\ UNCHANGED <<sockets, listeners, cleanupJob, creating>>

Tick ==
  /\ NextEvent
  /\ table' = [i \in DOMAIN table |->
                 [table[i] EXCEPT !.idle = IF @ <= RelayTimeout THEN @ + 1 ELSE @]]
  /\ UNCHANGED <<sockets, listeners, cleanupJob, creating, crashed>>

\* Mutant: the cutoff is a tick too late in time.
CleanupTooEarly ==
  /\ NextEvent
  /\ cleanupJob
  /\ FreeRelays({i \in DOMAIN table : table[i].idle + 1 >= RelayTimeout})
  /\ UNCHANGED <<cleanupJob, creating, crashed>>

Stale(e) == e.idle >= RelayTimeout

\* cleanupUdpRelayTable, run by the interval timer
Cleanup ==
  /\ NextEvent
  /\ cleanupJob
  /\ FreeRelays({i \in DOMAIN table : Stale(table[i])})
  /\ UNCHANGED <<cleanupJob, creating, crashed>>

\* clear(), which the tests end with
Clear ==
  /\ NextEvent
  /\ FreeRelays(DOMAIN table)
  /\ UNCHANGED <<cleanupJob, creating, crashed>>

\* Natty.shutdown emits 'close', which cancels the job; the sockets of the
\* pool stay open.
Shutdown ==
  /\ NextEvent
  /\ cleanupJob
  /\ cleanupJob' = FALSE
  /\ UNCHANGED <<table, sockets, listeners, creating, crashed>>

Next ==
  \/ \E p \in Port : AllocatePort(p)
  \/ \E k \in Caller, r \in Requested : CreateRelay(k, r)
  \/ \E k \in Caller : BindSocket(k)
  \/ \E k \in Caller : BindFails(k)
  \/ \E k \in Caller : FinishCreate(k)
  \/ \E k \in Caller : CreateThrows(k)
  \/ \E a \in Addr, p \in Port : Packet(a, p)
  \/ Tick
  \/ Cleanup
  \/ Clear
  \/ Shutdown

\* Promise reactions run.  Time passes and the interval timer keeps firing:
\* the event loop comes back to its timers again and again, between the
\* other events (hence strong fairness: a call that has its socket makes
\* them wait).
Fairness ==
  /\ \A k \in Caller : WF_vars(FinishCreate(k)) /\ WF_vars(CreateThrows(k))
  /\ SF_vars(Tick)
  /\ SF_vars(Cleanup)

Spec == Init /\ [][Next]_vars /\ Fairness

-----------------------------------------------------------------------------
(* Properties *)

\* The table outgrows maxSlots, but by no more than the number of calls
\* that can be between the size check and the push (and the check lets a
\* call in at maxSlots entries, one too late).
TableIsBounded ==
  Len(table) + Cardinality({k \in Caller : InFlight(k)}) <= MaxSlots + Cardinality(Caller)

\* Nobody else asks for a relay on the port of r, nor for r before the answer.
Undisturbed(r) ==
  /\ r \notin Spammed
  /\ \A q \in Requested : q.port = r.port => q = r

\* A relay that is requested once at a time is in the table at most once, and
\* if it does not share its port, then the port has a socket that hands each
\* packet to the handler once: relays that are spammed, that share another
\* port or have none, and the cleanup of any relays, do not touch it.  That is
\* as long as the process lives, which such relays can end (BindFails).
OrderlyRelaysWork ==
  ~crashed =>
    \A i \in DOMAIN table :
      LET r == table[i].relay
      IN  /\ r \notin Spammed => \A j \in DOMAIN table : table[j].relay = r => i = j
          /\ Undisturbed(r) => r.port \in sockets /\ listeners[r.port] = 1

\* Nor does cleanup take it out of the table while it is in use: only clear()
\* does.
ActiveRelayIsKept ==
  [][\/ Clear
     \/ \A i \in DOMAIN table :
          ~Stale(table[i]) /\ table[i].relay \notin Spammed =>
            \E j \in DOMAIN table' : table'[j].relay = table[i].relay]_vars

\* A relay nobody uses any more is freed in the end, and each of its
\* duplicates with it, as long as the process lives and is not shut down.
IdleRelayIsFreed ==
  \A r \in Requested :
    []<>(\/ crashed \/ ~cleanupJob
         \/ \A i \in DOMAIN table : table[i].relay = r => ~Stale(table[i]))

-----------------------------------------------------------------------------
(* Claims of the source that the code does not keep *)

\* 'transmit' carries the message (udp.relay.handler.mjs:188), and relaying a
\* packet does not end the process.
DoesNotCrash == ~crashed

\* The registrar "will create a new relay for that player and reply a packet
\* saying 'OK'" (udp.remote.registrar.mjs:18): a call it makes ends with the
\* relay in the table.
RegistrationCreatesRelay ==
  [][\A k \in Caller :
       InFlight(k) /\ ~InFlight(k)' /\ creating[k].relay \in Registration
         => \E i \in DOMAIN table' : table'[i].relay.addr = creating[k].relay.addr]_vars

\* "True if the entry was created, false if it already exists"
\* (udp.relay.handler.mjs:49), on which the registrar relies to "not create
\* duplicate relays" however much it is spammed.
NoDuplicates ==
  \A i, j \in DOMAIN table : table[i].relay = table[j].relay => i = j

\* "The socket pool ensures that these sockets are always available."
\* (udp.socket.pool.mjs:7)
SocketsAreAvailable == \A i \in DOMAIN table : table[i].relay.port \in sockets

\* "Limit the relay table size to a given maximum." (constraints.mjs:9)
TableIsLimited == Len(table) <= MaxSlots
=============================================================================

----------------------------- MODULE Constraints -----------------------------
(***************************************************************************)
(* The traffic constraints of src/src/relay/constraints.mjs, wired to the  *)
(* events of the relay handler in the order of relay.mjs: each 'transmit'  *)
(* passes the individual limiter, the global one, the lifetime and the     *)
(* lifetime traffic; the first that throws keeps the later ones and the    *)
(* packet from going on, but what the earlier ones have counted stays.     *)
(*                                                                         *)
(* 'transmit' carries the message here, as its documentation says and as   *)
(* the tests of the constraints emit it, and whoever emits it survives a   *)
(* refusal.  That the handler leaves the message out, and that nobody      *)
(* catches what a listener throws, is shown with UDPRelay.                 *)
(*                                                                         *)
(* A relay is its id; the table holds it once.  Bounds: ages saturate at   *)
(* Lifetime, the traffic counters at MaxTraffic, both for good.            *)
(***************************************************************************)
EXTENDS Naturals, Sequences

CONSTANTS
  Relay,            \* relay ids, address and port
  Interval,         \* config.udpRelay.trafficInterval, in ticks
  IndividualLimit,  \* maxIndividualTraffic * trafficInterval, in bytes
  GlobalLimit,      \* maxGlobalTraffic * trafficInterval, in bytes
  Lifetime,         \* config.udpRelay.maxLifetimeDuration, in ticks
  MaxTraffic,       \* config.udpRelay.maxLifetimeTraffic, in bytes
  MaxSize           \* size of the largest packet

ASSUME ConstraintsAssumption ==
  /\ Interval \in Nat
  /\ IndividualLimit \in Nat
  /\ GlobalLimit \in Nat
  /\ Lifetime \in Nat
  /\ MaxTraffic \in Nat
  /\ MaxSize \in Nat

VARIABLES
  age,            \* the relay table: time() - created of each relay
  limiters,       \* constrainIndividualBandwidth: limiter of each relay
  globalLimiter,  \* constrainGlobalBandwidth
  relayTraffic,   \* constrainTraffic: bytes counted for each relay
  sent,           \* history: bytes forwarded for each relay in the table
  taken,          \* history: what each relay has taken of the global limit,
                  \* in this tick and the t ticks before it
  passed          \* history: the same for all relays together

constraintVars ==
  <<age, limiters, globalLimiter, relayTraffic, sent, taken, passed>>

\* The global limiter is a BandwidthLimiter.
Global == INSTANCE BandwidthLimiter
            WITH Limit   <- GlobalLimit,
                 elapsed <- globalLimiter.elapsed,
                 traffic <- globalLimiter.traffic

Limiter == [elapsed : 0 .. Interval + 1, traffic : Nat]
Windows == [0 .. Interval -> Nat]

ConstraintsTypeOK ==
  /\ DOMAIN age \subseteq Relay
  /\ age \in [DOMAIN age -> 0 .. Lifetime]
  /\ limiters \in [DOMAIN limiters -> Limiter]
  /\ globalLimiter \in Limiter
  /\ relayTraffic \in [DOMAIN relayTraffic -> 0 .. MaxTraffic]
  /\ sent \in [DOMAIN age -> Nat]
  /\ taken \in [DOMAIN age -> Windows]
  /\ passed \in Windows

FreshLimiter == [elapsed |-> 0, traffic |-> 0]
NoBytes == [t \in 0 .. Interval |-> 0]

ConstraintsInit ==
  /\ age = << >>
  /\ limiters = << >>
  /\ globalLimiter = FreshLimiter
  /\ relayTraffic = << >>
  /\ sent = << >>
  /\ taken = << >>
  /\ passed = NoBytes

-----------------------------------------------------------------------------
(* Maps, and the limiters of BandwidthLimiter as values *)

Put(map, r, value) == [x \in DOMAIN map \cup {r} |-> IF x = r THEN value ELSE map[x]]
Drop(map, r) == [x \in DOMAIN map \ {r} |-> map[x]]

Validates(l, size, limit) == l.elapsed > Interval \/ l.traffic + size <= limit

\* Mutant: the packet that starts a slice is not counted in it.
ChargedUncounted(l, size) ==
  IF l.elapsed > Interval THEN FreshLimiter ELSE [l EXCEPT !.traffic = @ + size]

\* Mutant: the sign of the counter is mixed up.
ChargedDown(l, size) ==
  IF l.elapsed > Interval THEN [elapsed |-> 0, traffic |-> size]
  ELSE [l EXCEPT !.traffic = @ - size]

Charged(l, size) ==
  IF l.elapsed > Interval THEN [elapsed |-> 0, traffic |-> size]
  ELSE [l EXCEPT !.traffic = @ + size]

Later(l) == [l EXCEPT !.elapsed = IF @ <= Interval THEN @ + 1 ELSE @]

Count(windows, size) == [t \in 0 .. Interval |-> windows[t] + size]
Shift(windows) == [t \in 0 .. Interval |-> IF t = 0 THEN 0 ELSE windows[t - 1]]

Capped(n) == IF n <= MaxTraffic THEN n ELSE MaxTraffic

-----------------------------------------------------------------------------
(* The listeners of 'transmit' *)

\* A relay gets its limiter with its first packet.
LimiterOf(r) == IF r \in DOMAIN limiters THEN limiters[r] ELSE FreshLimiter

TrafficOf(r) == IF r \in DOMAIN relayTraffic THEN relayTraffic[r] ELSE 0

WithinIndividual(r, size) == Validates(LimiterOf(r), size, IndividualLimit)

WithinGlobal(size) == Validates(globalLimiter, size, GlobalLimit)

\* Mutant: a relay may send at the moment its lifetime ends, and so ever after.
WithinLifetimeLate(r) == age[r] <= Lifetime

WithinLifetime(r) == age[r] < Lifetime

\* Mutant: the test is made before the packet is counted.
WithinTrafficLate(r, size) == TrafficOf(r) < MaxTraffic

WithinTraffic(r, size) == TrafficOf(r) + size < MaxTraffic

\* Mutant: the global limiter is wired first.
TransmitGlobalFirst(s, size) ==
  LET global     == WithinGlobal(size)
      individual == global /\ WithinIndividual(s, size)
      lifetime   == individual /\ WithinLifetime(s)
      through    == lifetime /\ WithinTraffic(s, size)
  IN  /\ s \in DOMAIN age
      /\ limiters' = Put(limiters, s, IF individual THEN Charged(LimiterOf(s), size)
                                      ELSE LimiterOf(s))
      /\ globalLimiter' = IF global THEN Charged(globalLimiter, size) ELSE globalLimiter
      /\ taken' = IF global THEN [taken EXCEPT ![s] = Count(@, size)] ELSE taken
      /\ passed' = IF global THEN Count(passed, size) ELSE passed
      /\ relayTraffic' = IF lifetime
                         THEN Put(relayTraffic, s, Capped(TrafficOf(s) + size))
                         ELSE relayTraffic
      /\ sent' = IF through THEN [sent EXCEPT ![s] = @ + size] ELSE sent
      /\ UNCHANGED age

\* 'transmit' is emitted with a message from relay s, as the constraints and
\* their tests take it: each listener looks at the source and the size, and is
\* called only if none before it has thrown.
Transmit(s, size) ==
  LET individual == WithinIndividual(s, size)
      global     == individual /\ WithinGlobal(size)
      lifetime   == global /\ WithinLifetime(s)
      through    == lifetime /\ WithinTraffic(s, size)
  IN  /\ s \in DOMAIN age
      /\ limiters' = Put(limiters, s, IF individual THEN Charged(LimiterOf(s), size)
                                      ELSE LimiterOf(s))
      /\ globalLimiter' = IF global THEN Charged(globalLimiter, size) ELSE globalLimiter
      /\ taken' = IF global THEN [taken EXCEPT ![s] = Count(@, size)] ELSE taken
      /\ passed' = IF global THEN Count(passed, size) ELSE passed
      /\ relayTraffic' = IF lifetime
                         THEN Put(relayTraffic, s, Capped(TrafficOf(s) + size))
                         ELSE relayTraffic
      /\ sent' = IF through THEN [sent EXCEPT ![s] = @ + size] ELSE sent
      /\ UNCHANGED age

-----------------------------------------------------------------------------
(* The relay table and the clock *)

\* createRelay() has pushed the relay.
CreateRelay(r) ==
  /\ r \notin DOMAIN age
  /\ age' = Put(age, r, 0)
  /\ sent' = Put(sent, r, 0)
  /\ taken' = Put(taken, r, NoBytes)
  /\ UNCHANGED <<limiters, globalLimiter, relayTraffic, passed>>

\* Mutant: the individual limiter does not listen to 'destroy'.
FreeRelayKeepsLimiter(r) ==
  /\ r \in DOMAIN age
  /\ age' = Drop(age, r)
  /\ relayTraffic' = Drop(relayTraffic, r)
  /\ sent' = Drop(sent, r)
  /\ taken' = Drop(taken, r)
  /\ UNCHANGED <<limiters, globalLimiter, passed>>

\* freeRelay() emits 'destroy', and two of the constraints forget the relay.
FreeRelay(r) ==
  /\ r \in DOMAIN age
  /\ age' = Drop(age, r)
  /\ limiters' = Drop(limiters, r)
  /\ relayTraffic' = Drop(relayTraffic, r)
  /\ sent' = Drop(sent, r)
  /\ taken' = Drop(taken, r)
  /\ UNCHANGED <<globalLimiter, passed>>

Tick ==
  /\ age' = [r \in DOMAIN age |-> IF age[r] < Lifetime THEN age[r] + 1 ELSE Lifetime]
  /\ limiters' = [r \in DOMAIN limiters |-> Later(limiters[r])]
  /\ globalLimiter' = Later(globalLimiter)
  /\ taken' = [r \in DOMAIN taken |-> Shift(taken[r])]
  /\ passed' = Shift(passed)
  /\ UNCHANGED <<relayTraffic, sent>>

ConstraintsNext ==
  \/ \E r \in Relay : CreateRelay(r)
  \/ \E r \in Relay : FreeRelay(r)
  \/ \E s \in Relay, size \in 0 .. MaxSize : Transmit(s, size)
  \/ Tick

ConstraintsSpec == ConstraintsInit /\ [][ConstraintsNext]_constraintVars

-----------------------------------------------------------------------------
(* Properties *)

\* The maps of the constraints hold nothing of a relay that has been freed:
\* they do not grow for ever, and a relay of the same id starts anew.
CountersAreOfLiveRelays ==
  /\ DOMAIN limiters \subseteq DOMAIN age
  /\ DOMAIN relayTraffic \subseteq DOMAIN limiters

\* What a relay has sent stays below its lifetime traffic, and is what the
\* constraint has counted, until the packet that reaches the limit: that one
\* is counted and not sent.
LifetimeTrafficHolds ==
  \A r \in DOMAIN age :
    /\ sent[r] = 0 \/ sent[r] < MaxTraffic
    /\ TrafficOf(r) \in {sent[r], MaxTraffic}

Blocked(r) == age[r] = Lifetime \/ TrafficOf(r) = MaxTraffic

\* A relay that has hit a lifetime limit sends nothing until it is freed, no
\* matter what the clock and the other counters do.
BlockedForGood ==
  [][\A r \in DOMAIN age \cap DOMAIN age' :
       Blocked(r) => Blocked(r)' /\ sent'[r] = sent[r]]_constraintVars

\* Packets that are refused after the global limiter has counted them take
\* from what the others may send; but a relay, blocked or not, can take no
\* more in any window than its own limiter lets through.
TakenIsBounded ==
  \A r \in DOMAIN age :
    taken[r][Interval] <= IndividualLimit + Global!Larger(IndividualLimit, MaxSize)

\* Among all the relays, with limiters that come and go, the global limiter
\* is still one BandwidthLimiter (whose windows are bounded).
GlobalLimiterWorks == Global!LimiterSpec
=============================================================================

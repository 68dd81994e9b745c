-------------------------- MODULE ConstraintsProofs --------------------------
(***************************************************************************)
(* Theorems about Constraints, for any relays, limits and packets.         *)
(***************************************************************************)
EXTENDS Constraints, TLAPS

\* What the window of every length holds, for a limiter l that has let the
\* bytes of the windows w through, or more: see WindowInvariant of
\* LimiterProofs, of which this is the form for a limiter that is a value.
Covers(l, w) ==
  /\ l.traffic <= Global!Larger(IndividualLimit, MaxSize)
  /\ \A t \in 0 .. Interval :
       /\ t <= l.elapsed => w[t] <= l.traffic
       /\ t > l.elapsed => w[t] <= l.traffic + IndividualLimit
       /\ t < l.elapsed => w[t] <= IndividualLimit
  /\ l.elapsed > Interval => w[0] = 0

TakenIsCovered == \A r \in DOMAIN age : Covers(LimiterOf(r), taken[r])

ConstraintsInvariant ==
  /\ ConstraintsTypeOK
  /\ CountersAreOfLiveRelays
  /\ LifetimeTrafficHolds
  /\ TakenIsCovered

\* What is proved of a BandwidthLimiter holds for the global limiter.
GlobalProofs == INSTANCE LimiterProofs
                  WITH Limit   <- GlobalLimit,
                       elapsed <- globalLimiter.elapsed,
                       traffic <- globalLimiter.traffic

-----------------------------------------------------------------------------
(* Limiters *)

\* Charging and the clock keep a limiter a limiter.
LEMMA LimiterTyped ==
  ASSUME NEW l \in Limiter, NEW size \in Nat
  PROVE  /\ Charged(l, size) \in Limiter
         /\ Later(l) \in Limiter
         /\ FreshLimiter \in Limiter
  BY ConstraintsAssumption DEF Limiter, Charged, Later, FreshLimiter

\* Counting and the clock keep windows windows.
LEMMA WindowsTyped ==
  ASSUME NEW w \in Windows, NEW size \in Nat
  PROVE  /\ Count(w, size) \in Windows
         /\ Shift(w) \in Windows
         /\ NoBytes \in Windows
  BY ConstraintsAssumption DEF Windows, Count, Shift, NoBytes

\* A packet the limiter lets through is covered, whether or not it is
\* counted in the windows.
LEMMA ChargedCovers ==
  ASSUME NEW l \in Limiter, NEW w \in Windows, NEW size \in 0 .. MaxSize,
         Covers(l, w), Validates(l, size, IndividualLimit)
  PROVE  Covers(Charged(l, size), Count(w, size)) /\ Covers(Charged(l, size), w)
<1> USE ConstraintsAssumption DEF Limiter, Windows, Global!Larger
<1>1. Count(w, size) \in Windows /\ \A t \in 0 .. Interval : Count(w, size)[t] = w[t] + size
  BY DEF Count
<1>2. CASE l.elapsed > Interval
  <2>1. Charged(l, size) = [elapsed |-> 0, traffic |-> size]
    BY <1>2 DEF Charged
  <2>2. w[0] = 0 /\ \A t \in 0 .. Interval : w[t] <= IndividualLimit
    BY <1>2 DEF Covers
  <2> QED
    BY <1>1, <2>1, <2>2 DEF Covers
<1>3. CASE ~(l.elapsed > Interval)
  <2>1. Charged(l, size) = [l EXCEPT !.traffic = @ + size]
    BY <1>3 DEF Charged
  <2>2. l.traffic + size <= IndividualLimit
    BY <1>3 DEF Validates
  <2>3. /\ Charged(l, size).elapsed = l.elapsed
        /\ Charged(l, size).traffic = l.traffic + size
    BY <2>1
  <2>4. ASSUME NEW t \in 0 .. Interval
        PROVE  /\ w[t] \in Nat
               /\ t <= l.elapsed => w[t] <= l.traffic
               /\ t > l.elapsed => w[t] <= l.traffic + IndividualLimit
               /\ t < l.elapsed => w[t] <= IndividualLimit
    BY DEF Covers
  <2>5. l.traffic + size <= Global!Larger(IndividualLimit, MaxSize)
    BY <2>2
  <2>6. Covers(Charged(l, size), Count(w, size))
    <3>1. \A t \in 0 .. Interval :
            /\ t <= l.elapsed => w[t] + size <= l.traffic + size
            /\ t > l.elapsed => w[t] + size <= l.traffic + size + IndividualLimit
            /\ t < l.elapsed => w[t] + size <= IndividualLimit
      <4> SUFFICES ASSUME NEW t \in 0 .. Interval
                   PROVE  /\ t <= l.elapsed => w[t] + size <= l.traffic + size
                          /\ t > l.elapsed => w[t] + size <= l.traffic + size + IndividualLimit
                          /\ t < l.elapsed => w[t] + size <= IndividualLimit
        OBVIOUS
      <4> QED
        BY <2>2, <2>4
    <3> QED
      BY <1>1, <1>3, <2>3, <2>5, <3>1 DEF Covers
  <2>7. Covers(Charged(l, size), w)
    <3>1. \A t \in 0 .. Interval :
            /\ t <= l.elapsed => w[t] <= l.traffic + size
            /\ t > l.elapsed => w[t] <= l.traffic + size + IndividualLimit
            /\ t < l.elapsed => w[t] <= IndividualLimit
      <4> SUFFICES ASSUME NEW t \in 0 .. Interval
                   PROVE  /\ t <= l.elapsed => w[t] <= l.traffic + size
                          /\ t > l.elapsed => w[t] <= l.traffic + size + IndividualLimit
                          /\ t < l.elapsed => w[t] <= IndividualLimit
        OBVIOUS
      <4> QED
        BY <2>4
    <3> QED
      BY <1>3, <2>3, <2>5, <3>1 DEF Covers
  <2> QED
    BY <2>6, <2>7
<1> QED
  BY <1>2, <1>3

\* Time shifts the windows; a limiter that has not been made yet does not
\* feel it.
LEMMA LaterCovers ==
  ASSUME NEW l \in Limiter, NEW w \in Windows, Covers(l, w)
  PROVE  /\ Covers(Later(l), Shift(w))
         /\ l = FreshLimiter => Covers(l, Shift(w))
<1> USE ConstraintsAssumption DEF Limiter, Windows, Global!Larger
<1>1. Shift(w) \in Windows /\ Shift(w)[0] = 0
  BY DEF Shift
<1>2. \A t \in 1 .. Interval : Shift(w)[t] = w[t - 1] /\ t - 1 \in 0 .. Interval
  BY DEF Shift
<1>3. Later(l).traffic = l.traffic
      /\ Later(l).elapsed = IF l.elapsed <= Interval THEN l.elapsed + 1 ELSE l.elapsed
  BY DEF Later
<1>4. Covers(Later(l), Shift(w))
  <2>1. ASSUME NEW t \in 0 .. Interval
        PROVE  /\ t <= Later(l).elapsed => Shift(w)[t] <= l.traffic
               /\ t > Later(l).elapsed => Shift(w)[t] <= l.traffic + IndividualLimit
               /\ t < Later(l).elapsed => Shift(w)[t] <= IndividualLimit
    <3>1. CASE t = 0
      BY <3>1, <1>1
    <3>2. CASE t # 0
      <4>1. t - 1 \in 0 .. Interval /\ Shift(w)[t] = w[t - 1]
        BY <3>2, <1>2
      <4>2. /\ t - 1 <= l.elapsed => w[t - 1] <= l.traffic
            /\ t - 1 > l.elapsed => w[t - 1] <= l.traffic + IndividualLimit
            /\ t - 1 < l.elapsed => w[t - 1] <= IndividualLimit
        BY <4>1 DEF Covers
      <4> QED
        BY <4>1, <4>2, <1>3, <3>2
    <3> QED
      BY <3>1, <3>2
  <2> QED
    BY <1>1, <1>3, <2>1 DEF Covers
<1>5. ASSUME l = FreshLimiter PROVE Covers(l, Shift(w))
  <2>1. l.elapsed = 0 /\ l.traffic = 0
    BY <1>5 DEF FreshLimiter
  <2>2. ASSUME NEW t \in 1 .. Interval PROVE Shift(w)[t] <= IndividualLimit
    <3>1. w[0] = 0
      BY <2>1 DEF Covers
    <3> QED
      BY <3>1, <2>1, <1>2 DEF Covers
  <2> QED
    BY <1>1, <2>1, <2>2 DEF Covers
<1> QED
  BY <1>4, <1>5

\* Nothing taken is covered by a limiter that has not been made yet.
LEMMA FreshCovers == Covers(FreshLimiter, NoBytes)
  BY ConstraintsAssumption DEF Covers, FreshLimiter, NoBytes, Global!Larger

-----------------------------------------------------------------------------
(* The invariant *)

\* The limiter a relay has or would get is a limiter.
LEMMA LimiterOfTyped ==
  ASSUME ConstraintsTypeOK, NEW r
  PROVE  LimiterOf(r) \in Limiter
  BY LimiterTyped DEF ConstraintsTypeOK, LimiterOf

\* A packet, forwarded or refused by any of the listeners.
LEMMA TransmitKeeps ==
  ASSUME ConstraintsInvariant, NEW s \in Relay,
         NEW size \in 0 .. MaxSize, Transmit(s, size)
  PROVE  ConstraintsInvariant'
<1> USE ConstraintsAssumption DEF ConstraintsInvariant
<1> DEFINE l       == LimiterOf(s)
           charged == IF WithinIndividual(s, size) THEN Charged(l, size) ELSE l
           counted == Capped(TrafficOf(s) + size)
<1>a. size \in Nat /\ s \in DOMAIN age /\ age' = age
  BY DEF Transmit
<1>b. limiters' = Put(limiters, s, charged)
  BY DEF Transmit
<1>c. globalLimiter' \in {globalLimiter, Charged(globalLimiter, size)}
  BY DEF Transmit
<1>d. passed' \in {passed, Count(passed, size)}
  BY DEF Transmit
<1>e. \/ taken' = taken
      \/ WithinIndividual(s, size) /\ taken' = [taken EXCEPT ![s] = Count(@, size)]
  BY DEF Transmit
<1>f. \/ /\ relayTraffic' = relayTraffic
         /\ sent' = sent
      \/ /\ relayTraffic' = Put(relayTraffic, s, counted)
         /\ ~WithinTraffic(s, size)
         /\ sent' = sent
      \/ /\ relayTraffic' = Put(relayTraffic, s, counted)
         /\ WithinTraffic(s, size)
         /\ sent' = [sent EXCEPT ![s] = @ + size]
  BY DEF Transmit
<1>g. /\ sent \in [DOMAIN age -> Nat]
      /\ taken \in [DOMAIN age -> Windows]
      /\ passed \in Windows
      /\ globalLimiter \in Limiter
      /\ limiters \in [DOMAIN limiters -> Limiter]
      /\ relayTraffic \in [DOMAIN relayTraffic -> 0 .. MaxTraffic]
  BY DEF ConstraintsTypeOK
<1>2. l \in Limiter /\ charged \in Limiter
  BY <1>a, LimiterOfTyped, LimiterTyped
<1>3. TrafficOf(s) \in 0 .. MaxTraffic /\ counted \in 0 .. MaxTraffic
  BY <1>a, <1>g DEF TrafficOf, Capped
<1>4. WithinIndividual(s, size) => Validates(l, size, IndividualLimit)
                                   /\ charged = Charged(l, size)
  BY DEF WithinIndividual
<1>5. ~WithinIndividual(s, size) => charged = l
  OBVIOUS
<1> HIDE DEF charged, counted
<1>6. /\ DOMAIN limiters' = DOMAIN limiters \cup {s}
      /\ \A r : LimiterOf(r)' = IF r = s THEN charged ELSE LimiterOf(r)
  BY <1>b DEF LimiterOf, Put
<1>7. ConstraintsTypeOK'
  <2>1. limiters' \in [DOMAIN limiters' -> Limiter]
    BY <1>b, <1>g, <1>2 DEF Put
  <2>2. relayTraffic' \in [DOMAIN relayTraffic' -> 0 .. MaxTraffic]
    BY <1>f, <1>g, <1>3 DEF Put
  <2>3. globalLimiter' \in Limiter
    BY <1>a, <1>c, <1>g, LimiterTyped
  <2>4. passed' \in Windows
    BY <1>a, <1>d, <1>g, WindowsTyped
  <2>5. taken' \in [DOMAIN age' -> Windows]
    <3>1. Count(taken[s], size) \in Windows
      BY <1>a, <1>g, WindowsTyped
    <3> QED
      BY <3>1, <1>a, <1>e, <1>g
  <2>6. sent' \in [DOMAIN age' -> Nat]
    BY <1>a, <1>f, <1>g
  <2> QED
    BY <1>a, <2>1, <2>2, <2>3, <2>4, <2>5, <2>6 DEF ConstraintsTypeOK
<1>8. CountersAreOfLiveRelays'
  BY <1>a, <1>6, <1>f DEF CountersAreOfLiveRelays, Put
<1>9. LifetimeTrafficHolds'
  <2> SUFFICES ASSUME NEW r \in DOMAIN age
               PROVE  /\ sent'[r] = 0 \/ sent'[r] < MaxTraffic
                      /\ TrafficOf(r)' \in {sent'[r], MaxTraffic}
    BY <1>a DEF LifetimeTrafficHolds
  <2>1. /\ sent[r] \in Nat
        /\ sent[r] = 0 \/ sent[r] < MaxTraffic
        /\ TrafficOf(r) \in {sent[r], MaxTraffic}
    BY <1>g DEF LifetimeTrafficHolds
  <2>2. CASE relayTraffic' = relayTraffic /\ sent' = sent
    BY <2>1, <2>2 DEF TrafficOf
  <2>3. CASE relayTraffic' = Put(relayTraffic, s, counted)
    <3>1. TrafficOf(r)' = IF r = s THEN counted ELSE TrafficOf(r)
      BY <2>3 DEF TrafficOf, Put
    <3>2. CASE r # s
      BY <3>1, <3>2, <2>1, <1>f, <1>g
    <3>3. CASE r = s /\ ~WithinTraffic(s, size) /\ sent' = sent
      <4>1. counted = MaxTraffic
        BY <3>3, <1>a, <1>3 DEF WithinTraffic, Capped, counted
      <4> QED
        BY <4>1, <3>1, <3>3, <2>1
    <3>4. CASE r = s /\ WithinTraffic(s, size) /\ sent' = [sent EXCEPT ![s] = @ + size]
      <4>1. sent'[r] = sent[r] + size
        BY <3>4, <1>g
      <4>2. counted = TrafficOf(s) + size /\ TrafficOf(s) + size < MaxTraffic
        BY <3>4, <1>a, <1>3 DEF WithinTraffic, Capped, counted
      <4>3. TrafficOf(s) = sent[r]
        BY <4>2, <3>4, <2>1, <1>a, <1>3, ConstraintsAssumption
      <4> QED
        BY <4>1, <4>2, <4>3, <3>1, <3>4, <2>1, <1>a
    <3> QED
      BY <3>2, <3>3, <3>4, <1>f, <2>2
  <2> QED
    BY <2>2, <2>3, <1>f
<1>10. TakenIsCovered'
  <2> SUFFICES ASSUME NEW r \in DOMAIN age
               PROVE  Covers(LimiterOf(r)', taken'[r])
    BY <1>a DEF TakenIsCovered, Covers
  <2>1. taken[r] \in Windows /\ Covers(LimiterOf(r), taken[r])
    BY <1>g DEF TakenIsCovered
  <2>2. CASE r # s
    BY <2>1, <2>2, <1>6, <1>e, <1>g
  <2>3. CASE r = s /\ ~WithinIndividual(s, size)
    BY <2>1, <2>3, <1>5, <1>6, <1>e, <1>g
  <2>4. CASE r = s /\ WithinIndividual(s, size)
    <3>1. Covers(l, taken[r]) /\ Validates(l, size, IndividualLimit)
      BY <2>1, <2>4, <1>4
    <3>2. Covers(Charged(l, size), Count(taken[r], size)) /\ Covers(Charged(l, size), taken[r])
      BY <3>1, <2>1, <1>2, ChargedCovers
    <3>3. taken'[r] \in {taken[r], Count(taken[r], size)}
      BY <2>4, <1>e, <1>g
    <3>4. LimiterOf(r)' = Charged(l, size)
      BY <2>4, <1>4, <1>6
    <3> QED
      BY <3>2, <3>3, <3>4
  <2> QED
    BY <2>2, <2>3, <2>4
<1> QED
  BY <1>7, <1>8, <1>9, <1>10

\* A relay enters the table with nothing counted.
LEMMA CreateKeeps ==
  ASSUME ConstraintsInvariant, NEW r \in Relay, CreateRelay(r)
  PROVE  ConstraintsInvariant'
<1> USE ConstraintsAssumption DEF ConstraintsInvariant, CreateRelay
<1>1. /\ DOMAIN age' = DOMAIN age \cup {r}
      /\ DOMAIN sent' = DOMAIN age \cup {r}
      /\ DOMAIN taken' = DOMAIN age \cup {r}
      /\ age'[r] = 0 /\ sent'[r] = 0 /\ taken'[r] = NoBytes
      /\ \A x \in DOMAIN age : /\ x # r
                               /\ age'[x] = age[x]
                               /\ sent'[x] = sent[x]
                               /\ taken'[x] = taken[x]
  BY DEF ConstraintsTypeOK, Put
<1>2. ConstraintsTypeOK'
  <2>1. NoBytes \in Windows
    BY WindowsTyped DEF ConstraintsTypeOK
  <2> QED
    BY <2>1, <1>1 DEF ConstraintsTypeOK, Put
<1>3. r \notin DOMAIN limiters /\ r \notin DOMAIN relayTraffic
  BY DEF CountersAreOfLiveRelays
<1>4. LifetimeTrafficHolds'
  BY <1>1, <1>3 DEF LifetimeTrafficHolds, TrafficOf
<1>5. TakenIsCovered'
  BY <1>1, <1>3, FreshCovers DEF TakenIsCovered, LimiterOf, Covers
<1> QED
  BY <1>1, <1>2, <1>4, <1>5 DEF CountersAreOfLiveRelays

\* A relay leaves the table, and the maps with it.
LEMMA FreeKeeps ==
  ASSUME ConstraintsInvariant, NEW r \in Relay, FreeRelay(r)
  PROVE  ConstraintsInvariant'
<1> USE ConstraintsAssumption DEF ConstraintsInvariant, FreeRelay
<1>1. /\ DOMAIN age' = DOMAIN age \ {r}
      /\ DOMAIN sent' = DOMAIN age \ {r}
      /\ DOMAIN taken' = DOMAIN age \ {r}
      /\ DOMAIN limiters' = DOMAIN limiters \ {r}
      /\ DOMAIN relayTraffic' = DOMAIN relayTraffic \ {r}
      /\ \A x \in DOMAIN age' : /\ x \in DOMAIN age
                                /\ sent'[x] = sent[x]
                                /\ taken'[x] = taken[x]
                                /\ LimiterOf(x)' = LimiterOf(x)
                                /\ TrafficOf(x)' = TrafficOf(x)
  BY DEF ConstraintsTypeOK, LimiterOf, TrafficOf, Drop
<1>2. ConstraintsTypeOK'
  BY <1>1 DEF ConstraintsTypeOK, Drop
<1>3. LifetimeTrafficHolds'
  BY <1>1 DEF LifetimeTrafficHolds
<1>4. TakenIsCovered'
  BY <1>1 DEF TakenIsCovered, Covers
<1> QED
  BY <1>1, <1>2, <1>3, <1>4 DEF CountersAreOfLiveRelays

\* Time ages relays and limiters and shifts the windows.
LEMMA TickKeeps ==
  ASSUME ConstraintsInvariant, Tick
  PROVE  ConstraintsInvariant'
<1> USE ConstraintsAssumption DEF ConstraintsInvariant, Tick
<1>1. /\ DOMAIN age' = DOMAIN age
      /\ DOMAIN limiters' = DOMAIN limiters
      /\ \A r : TrafficOf(r)' = TrafficOf(r)
  BY DEF TrafficOf
<1>2. ConstraintsTypeOK'
  BY <1>1, LimiterTyped, WindowsTyped DEF ConstraintsTypeOK
<1>3. LifetimeTrafficHolds'
  BY <1>1 DEF LifetimeTrafficHolds
<1>4. TakenIsCovered'
  <2> SUFFICES ASSUME NEW r \in DOMAIN age
               PROVE  Covers(LimiterOf(r)', taken'[r])
    BY <1>1 DEF TakenIsCovered, Covers
  <2>1. taken[r] \in Windows /\ LimiterOf(r) \in Limiter
    BY LimiterOfTyped DEF ConstraintsTypeOK
  <2>2. taken'[r] = Shift(taken[r])
    BY DEF ConstraintsTypeOK
  <2>3. \/ LimiterOf(r)' = Later(LimiterOf(r))
        \/ LimiterOf(r)' = LimiterOf(r) /\ LimiterOf(r) = FreshLimiter
    BY DEF LimiterOf
  <2> QED
    BY <2>1, <2>2, <2>3, LaterCovers DEF TakenIsCovered
<1> QED
  BY <1>1, <1>2, <1>3, <1>4 DEF CountersAreOfLiveRelays

\* The invariant is inductive: what a relay may still take hangs on what its
\* limiter has counted, which the bound alone does not say.
THEOREM ConstraintsCorrect == ConstraintsSpec => []ConstraintsInvariant
<1>1. ConstraintsInit => ConstraintsInvariant
  <2> SUFFICES ASSUME ConstraintsInit PROVE ConstraintsInvariant
    OBVIOUS
  <2>1. FreshLimiter \in Limiter /\ NoBytes \in Windows
    BY ConstraintsAssumption DEF FreshLimiter, Limiter, NoBytes, Windows
  <2>2. \A S : << >> \in [DOMAIN << >> -> S] /\ DOMAIN << >> = {}
    OBVIOUS
  <2> QED
    BY <2>1, <2>2
    DEF ConstraintsInit, ConstraintsInvariant, ConstraintsTypeOK, CountersAreOfLiveRelays,
        LifetimeTrafficHolds, TakenIsCovered
<1>2. ConstraintsInvariant /\ [ConstraintsNext]_constraintVars => ConstraintsInvariant'
  <2> SUFFICES ASSUME ConstraintsInvariant, [ConstraintsNext]_constraintVars
               PROVE  ConstraintsInvariant'
    OBVIOUS
  <2>1. CASE UNCHANGED constraintVars
    BY <2>1
    DEF constraintVars, ConstraintsInvariant, ConstraintsTypeOK, CountersAreOfLiveRelays,
        LifetimeTrafficHolds, TrafficOf, TakenIsCovered, Covers, LimiterOf
  <2> QED
    BY <2>1, TransmitKeeps, CreateKeeps, FreeKeeps, TickKeeps DEF ConstraintsNext
<1> QED
  BY <1>1, <1>2, PTL DEF ConstraintsSpec

-----------------------------------------------------------------------------
(* The properties *)

\* The variables stay in their types; the maps only ever name relays with the
\* values the constraints store.
THEOREM ConstraintsTypes == ConstraintsSpec => []ConstraintsTypeOK
<1>1. ConstraintsInvariant => ConstraintsTypeOK
  BY DEF ConstraintsInvariant
<1> QED
  BY <1>1, ConstraintsCorrect, PTL

\* The constraints forget a relay when it is freed.
THEOREM NothingOutlivesItsRelay == ConstraintsSpec => []CountersAreOfLiveRelays
<1>1. ConstraintsInvariant => CountersAreOfLiveRelays
  BY DEF ConstraintsInvariant
<1> QED
  BY <1>1, ConstraintsCorrect, PTL

\* No relay reaches its lifetime traffic, and what it sent is what counts.
THEOREM LifetimeTrafficIsHeld == ConstraintsSpec => []LifetimeTrafficHolds
<1>1. ConstraintsInvariant => LifetimeTrafficHolds
  BY DEF ConstraintsInvariant
<1> QED
  BY <1>1, ConstraintsCorrect, PTL

\* One relay's share of the global limit is bounded in every window, refused
\* packets included.
THEOREM SharesAreBounded == ConstraintsSpec => []TakenIsBounded
<1>1. ConstraintsInvariant => TakenIsBounded
  <2> SUFFICES ASSUME ConstraintsInvariant, NEW r \in DOMAIN age
               PROVE  taken[r][Interval]
                        <= IndividualLimit + Global!Larger(IndividualLimit, MaxSize)
    BY DEF TakenIsBounded
  <2>1. Covers(LimiterOf(r), taken[r])
    BY DEF ConstraintsInvariant, TakenIsCovered
  <2>2. taken[r] \in Windows /\ LimiterOf(r) \in Limiter
    BY LimiterOfTyped DEF ConstraintsInvariant, ConstraintsTypeOK
  <2> DEFINE l == LimiterOf(r)
  <2>3. /\ taken[r][Interval] \in Nat /\ l.traffic \in Nat /\ l.elapsed \in 0 .. Interval + 1
        /\ Interval \in 0 .. Interval
    BY <2>2, ConstraintsAssumption DEF Windows, Limiter
  <2>4. /\ l.traffic <= Global!Larger(IndividualLimit, MaxSize)
        /\ Interval <= l.elapsed => taken[r][Interval] <= l.traffic
        /\ Interval > l.elapsed => taken[r][Interval] <= l.traffic + IndividualLimit
    BY <2>1, <2>3 DEF Covers
  <2>5. Global!Larger(IndividualLimit, MaxSize) \in Nat
    BY ConstraintsAssumption DEF Global!Larger
  <2> HIDE DEF l
  <2> QED
    BY <2>3, <2>4, <2>5, ConstraintsAssumption
<1> QED
  BY <1>1, ConstraintsCorrect, PTL

\* A relay that has hit a limit for its lifetime sends no more until it is
\* freed.
THEOREM BlockedRelaysStayBlocked == ConstraintsSpec => BlockedForGood
<1> DEFINE Step == \A r \in DOMAIN age \cap DOMAIN age' :
                     Blocked(r) => Blocked(r)' /\ sent'[r] = sent[r]
<1>1. ConstraintsInvariant /\ [ConstraintsNext]_constraintVars => [Step]_constraintVars
  <2> SUFFICES ASSUME ConstraintsInvariant, ConstraintsNext,
                      NEW r \in DOMAIN age, r \in DOMAIN age', Blocked(r)
               PROVE  Blocked(r)' /\ sent'[r] = sent[r]
    OBVIOUS
  <2> USE ConstraintsAssumption
  <2>1. /\ sent \in [DOMAIN age -> Nat]
        /\ age[r] \in 0 .. Lifetime
        /\ TrafficOf(r) \in 0 .. MaxTraffic
    BY DEF ConstraintsInvariant, ConstraintsTypeOK, TrafficOf
  <2>2. ASSUME NEW x \in Relay, CreateRelay(x) PROVE Blocked(r)' /\ sent'[r] = sent[r]
    BY <2>1, <2>2 DEF CreateRelay, Put, Blocked, TrafficOf
  <2>3. ASSUME NEW x \in Relay, FreeRelay(x) PROVE Blocked(r)' /\ sent'[r] = sent[r]
    BY <2>1, <2>3 DEF FreeRelay, Drop, Blocked, TrafficOf
  <2>4. ASSUME NEW s \in Relay, NEW size \in 0 .. MaxSize,
               Transmit(s, size)
        PROVE  Blocked(r)' /\ sent'[r] = sent[r]
    <3>1. size \in Nat /\ age' = age
      BY <2>4 DEF Transmit
    <3>2. \/ relayTraffic' = relayTraffic
          \/ relayTraffic' = Put(relayTraffic, s, Capped(TrafficOf(s) + size))
      BY <2>4 DEF Transmit
    <3>3. \/ sent' = sent
          \/ /\ sent' = [sent EXCEPT ![s] = @ + size]
             /\ age[s] < Lifetime
             /\ TrafficOf(s) + size < MaxTraffic
      BY <2>4 DEF Transmit, WithinLifetime, WithinTraffic
    <3>4. TrafficOf(r)' \in {TrafficOf(r), Capped(TrafficOf(r) + size)}
      BY <3>2 DEF TrafficOf, Put
    <3>5. TrafficOf(r) = MaxTraffic => TrafficOf(r)' = MaxTraffic
      BY <2>1, <3>1, <3>4 DEF Capped
    <3>6. sent'[r] = sent[r]
      BY <2>1, <3>1, <3>3 DEF Blocked
    <3> QED
      BY <3>1, <3>5, <3>6 DEF Blocked
  <2>5. CASE Tick
    BY <2>1, <2>5 DEF Tick, Blocked, TrafficOf
  <2> QED
    BY <2>2, <2>3, <2>4, <2>5 DEF ConstraintsNext
<1>2. ConstraintsSpec => [][Step]_constraintVars
  BY <1>1, ConstraintsCorrect, PTL DEF ConstraintsSpec
<1> QED
  BY <1>2 DEF BlockedForGood

\* The one limiter that all relays share implements BandwidthLimiter: each
\* step maps to a packet, a tick or a stutter of it.
THEOREM GlobalLimiterIsALimiter == ConstraintsSpec => GlobalLimiterWorks
<1> USE ConstraintsAssumption
<1>1. ConstraintsInit => Global!LimiterInit
  BY DEF ConstraintsInit, FreshLimiter, NoBytes, Global!LimiterInit
<1>2. ConstraintsInvariant /\ [ConstraintsNext]_constraintVars
        => [Global!LimiterNext]_(Global!limiterVars)
  <2> SUFFICES ASSUME ConstraintsInvariant, [ConstraintsNext]_constraintVars
               PROVE  [Global!LimiterNext]_(Global!limiterVars)
    OBVIOUS
  <2>1. /\ globalLimiter \in Limiter
        /\ passed \in Windows
    BY DEF ConstraintsInvariant, ConstraintsTypeOK
  <2>2. CASE globalLimiter' = globalLimiter /\ passed' = passed
    BY <2>2 DEF Global!limiterVars
  <2>3. ASSUME NEW size \in 0 .. MaxSize, WithinGlobal(size),
               globalLimiter' = Charged(globalLimiter, size),
               passed' = Count(passed, size)
        PROVE  Global!LimiterNext
    <3>1. Global!Admit(size)
      BY <2>3 DEF Count, Global!Admit
    <3>2. CASE globalLimiter.elapsed > Interval
      BY <2>1, <2>3, <3>1, <3>2 DEF Charged, Limiter, Global!NewSlice, Global!LimiterNext
    <3>3. CASE ~(globalLimiter.elapsed > Interval)
      <4>1. Global!WithinSlice(size)
        BY <2>1, <2>3, <3>1, <3>3
        DEF Charged, Limiter, WithinGlobal, Validates, Global!WithinSlice
      <4> QED
        BY <4>1 DEF Global!LimiterNext
    <3> QED
      BY <3>2, <3>3
  <2>4. CASE Tick
    BY <2>1, <2>4 DEF Tick, Later, Shift, Limiter, Windows, Global!LimiterTick,
       Global!LimiterNext
  <2> QED
    BY <2>2, <2>3, <2>4
    DEF ConstraintsNext, constraintVars, CreateRelay, FreeRelay, Transmit
<1> QED
  BY <1>1, <1>2, ConstraintsCorrect, PTL
  DEF ConstraintsSpec, GlobalLimiterWorks, Global!LimiterSpec

\* So all that LimiterProofs proves of a limiter holds of the global one.
LEMMA GlobalTheorems == ConstraintsSpec => GlobalProofs!LimiterSpec
<1>1. Global!LimiterInit <=> GlobalProofs!LimiterInit
  BY DEF Global!LimiterInit, GlobalProofs!LimiterInit
<1>2. [Global!LimiterNext]_(Global!limiterVars)
        <=> [GlobalProofs!LimiterNext]_(GlobalProofs!limiterVars)
  BY DEF Global!LimiterNext, Global!NewSlice, Global!WithinSlice, Global!OverLimit,
         Global!LimiterTick, Global!Admit, Global!limiterVars,
         GlobalProofs!LimiterNext, GlobalProofs!NewSlice, GlobalProofs!WithinSlice,
         GlobalProofs!OverLimit, GlobalProofs!LimiterTick, GlobalProofs!Admit,
         GlobalProofs!limiterVars
<1> QED
  BY <1>1, <1>2, GlobalLimiterIsALimiter, PTL
  DEF GlobalLimiterWorks, Global!LimiterSpec, GlobalProofs!LimiterSpec

\* No window of a slice's length lets more through, from all relays together,
\* than the global limit and one full slice.
THEOREM GlobalWindowsAreBounded == ConstraintsSpec => []Global!WindowIsBounded
<1>1. GlobalProofs!LimiterSpec => []GlobalProofs!WindowIsBounded
  BY ConstraintsAssumption, GlobalProofs!WindowsAreBounded
<1>2. GlobalProofs!WindowIsBounded <=> Global!WindowIsBounded
  BY DEF GlobalProofs!WindowIsBounded, GlobalProofs!SliceMax, GlobalProofs!Larger,
         Global!WindowIsBounded, Global!SliceMax, Global!Larger
<1> QED
  BY <1>1, <1>2, GlobalTheorems, PTL

\* And the relays together are never refused by the global limiter before what
\* they have taken of it in one interval, with the packet, is over its limit.
THEOREM GlobalRefusalsAreDue == ConstraintsSpec => []GlobalProofs!RefusalIsDue
<1>1. GlobalProofs!LimiterSpec => []GlobalProofs!RefusalIsDue
  BY ConstraintsAssumption, GlobalProofs!RefusalsAreDue
<1> QED
  BY <1>1, GlobalTheorems, PTL
=============================================================================

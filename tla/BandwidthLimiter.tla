-------------------------- MODULE BandwidthLimiter --------------------------
(***************************************************************************)
(* The time-slice limiter of src/src/relay/bandwidth.limiter.mjs.          *)
(*                                                                         *)
(* Time is counted in ticks; a slice is over when more than Interval ticks *)
(* have passed since it began, and the next one begins with the next       *)
(* packet, not with the clock.                                             *)
(* Bound: elapsed saturates one tick past Interval; sizes are at most      *)
(* MaxSize.                                                                *)
(***************************************************************************)
EXTENDS Naturals

CONSTANTS
  Interval,  \* length of a slice, in ticks
  Limit,     \* maxTraffic * interval, the bytes a slice may carry
  MaxSize    \* size of the largest packet

ASSUME LimiterAssumption ==
  /\ Interval \in Nat
  /\ Limit \in Nat
  /\ MaxSize \in Nat

VARIABLES
  elapsed,   \* time() - #lastInterval, saturating
  traffic,   \* #traffic
  passed     \* history: passed[t] is what was let through in this tick and
             \* in the t ticks before it

limiterVars == <<elapsed, traffic, passed>>

Larger(m, n) == IF m >= n THEN m ELSE n

\* The most a slice carries in fact: its first packet is not held to the limit.
SliceMax == Larger(Limit, MaxSize)

LimiterTypeOK ==
  /\ elapsed \in 0 .. Interval + 1
  /\ traffic \in Nat
  /\ passed \in [0 .. Interval -> Nat]

LimiterInit ==
  /\ elapsed = 0
  /\ traffic = 0
  /\ passed = [t \in 0 .. Interval |-> 0]

Admit(size) == passed' = [t \in 0 .. Interval |-> passed[t] + size]

\* Mutant: the packet that starts a slice is not counted in it.
NewSliceUncounted(size) ==
  /\ elapsed > Interval
  /\ elapsed' = 0
  /\ traffic' = 0
  /\ Admit(size)

\* Mutant: the counter is not reset.
NewSliceKeepsCount(size) ==
  /\ elapsed > Interval
  /\ elapsed' = 0
  /\ traffic' = traffic + size
  /\ Admit(size)

\* validate() past the end of the slice: a new slice begins with this packet,
\* whatever its size.
NewSlice(size) ==
  /\ elapsed > Interval
  /\ elapsed' = 0
  /\ traffic' = size
  /\ Admit(size)

\* Mutant: the sign of the counter is mixed up.
WithinSliceCountsDown(size) ==
  /\ elapsed <= Interval
  /\ traffic + size <= Limit
  /\ traffic' = traffic - size
  /\ Admit(size)
  /\ UNCHANGED elapsed

\* validate() within the slice
WithinSlice(size) ==
  /\ elapsed <= Interval
  /\ traffic + size <= Limit
  /\ traffic' = traffic + size
  /\ Admit(size)
  /\ UNCHANGED elapsed

Refused(size) == elapsed <= Interval /\ traffic + size > Limit

\* validate() throws: nothing is counted.
OverLimit(size) == Refused(size) /\ UNCHANGED limiterVars

LimiterTick ==
  /\ elapsed' = IF elapsed <= Interval THEN elapsed + 1 ELSE elapsed
  /\ passed' = [t \in 0 .. Interval |-> IF t = 0 THEN 0 ELSE passed[t - 1]]
  /\ UNCHANGED traffic

LimiterNext ==
  \/ \E size \in 0 .. MaxSize : NewSlice(size) \/ WithinSlice(size) \/ OverLimit(size)
  \/ LimiterTick

LimiterSpec == LimiterInit /\ [][LimiterNext]_limiterVars

-----------------------------------------------------------------------------

\* Whatever the packets and however they straddle two slices, no window as
\* long as a slice lets more through than the limit and one full slice: it
\* is exceeded by a burst at the end of a slice and the start of the next
\* one, and by no more than that.
WindowIsBounded == passed[Interval] <= Limit + SliceMax

\* And it does not refuse before it must: a refused packet would have taken
\* what passed in the last interval over the limit, however late the slice
\* began and whatever the slices before it carried.
RefusalIsDue ==
  \A size \in 0 .. MaxSize : Refused(size) => passed[Interval] + size > Limit

-----------------------------------------------------------------------------
(* A claim of the source that the code does not keep *)

\* bandwidth.limiter.mjs:9 says that "Every time slice is allocated a certain
\* amount of data transfer", and validate() is to throw "if traffic is over
\* limit" (line 40).
SliceIsWithinLimit == traffic <= Limit
=============================================================================

---------------------------- MODULE LimiterProofs ---------------------------
(***************************************************************************)
(* Theorems about BandwidthLimiter, for any interval, limit and packets.   *)
(***************************************************************************)
EXTENDS BandwidthLimiter, TLAPS

\* A window that does not reach back past the slice holds only what the slice
\* counted; a longer one also holds the end of the slice before, which the
\* limit bounds.
WindowsBySlice ==
  \A t \in 0 .. Interval :
    /\ t <= elapsed => passed[t] <= traffic
    /\ t > elapsed => passed[t] <= traffic + Limit

\* A window that misses the slice's first tick misses its unchecked packet.
CheckedWindows == \A t \in 0 .. Interval : t < elapsed => passed[t] <= Limit

\* Once the slice is over nothing passes before the next one.
OverIsSilent == elapsed > Interval => passed[0] = 0

\* A slice carries at most its limit, or its first packet if that is larger.
SliceIsBounded == traffic <= SliceMax

WindowInvariant ==
  /\ LimiterTypeOK
  /\ SliceIsBounded
  /\ WindowsBySlice
  /\ CheckedWindows
  /\ OverIsSilent

\* A packet that is let through, at the start of a slice or within it, keeps
\* the invariant.
LEMMA AdmitKeeps ==
  ASSUME WindowInvariant, NEW size \in 0 .. MaxSize, NewSlice(size) \/ WithinSlice(size)
  PROVE  WindowInvariant'
<1> USE LimiterAssumption DEF WindowInvariant, LimiterTypeOK, SliceIsBounded, SliceMax, Larger
<1>1. /\ passed' \in [0 .. Interval -> Nat]
      /\ \A t \in 0 .. Interval : passed'[t] = passed[t] + size
  BY DEF NewSlice, WithinSlice, Admit
<1>2. CASE NewSlice(size)
  <2>1. \A t \in 0 .. Interval : passed[t] <= Limit
    BY <1>2 DEF NewSlice, CheckedWindows
  <2>2. passed[0] = 0
    BY <1>2 DEF NewSlice, OverIsSilent
  <2>3. WindowsBySlice'
    BY <1>1, <1>2, <2>1, <2>2 DEF NewSlice, WindowsBySlice
  <2> QED
    BY <1>1, <1>2, <2>3 DEF NewSlice, CheckedWindows, OverIsSilent
<1>3. CASE WithinSlice(size)
  <2>1. WindowsBySlice'
    BY <1>1, <1>3 DEF WithinSlice, WindowsBySlice
  <2>2. CheckedWindows'
    BY <1>1, <1>3 DEF WithinSlice, WindowsBySlice, CheckedWindows
  <2> QED
    BY <1>1, <1>3, <2>1, <2>2 DEF WithinSlice, OverIsSilent
<1> QED
  BY <1>2, <1>3

\* Time shifts every window by one tick.
LEMMA TickKeeps ==
  ASSUME WindowInvariant, LimiterTick
  PROVE  WindowInvariant'
<1> USE LimiterAssumption DEF WindowInvariant, LimiterTypeOK, SliceIsBounded
<1>1. /\ passed' \in [0 .. Interval -> Nat]
      /\ passed'[0] = 0
      /\ \A t \in 1 .. Interval : passed'[t] = passed[t - 1] /\ t - 1 \in 0 .. Interval
  BY DEF LimiterTick
<1>2. WindowsBySlice'
  <2> SUFFICES ASSUME NEW t \in 0 .. Interval
               PROVE  /\ t <= elapsed' => passed'[t] <= traffic'
                      /\ t > elapsed' => passed'[t] <= traffic' + Limit
    BY DEF WindowsBySlice
  <2>1. CASE t = 0
    BY <2>1, <1>1 DEF LimiterTick
  <2>2. CASE t # 0
    BY <2>2, <1>1 DEF LimiterTick, WindowsBySlice
  <2> QED
    BY <2>1, <2>2
<1>3. CheckedWindows'
  <2> SUFFICES ASSUME NEW t \in 0 .. Interval, t < elapsed'
               PROVE  passed'[t] <= Limit
    BY DEF CheckedWindows
  <2>1. CASE t = 0
    BY <2>1, <1>1 DEF LimiterTick
  <2>2. CASE t # 0
    BY <2>2, <1>1 DEF LimiterTick, CheckedWindows
  <2> QED
    BY <2>1, <2>2
<1> QED
  BY <1>1, <1>2, <1>3 DEF LimiterTick, OverIsSilent, SliceMax, Larger

\* What the windows of every length hold is inductive, with the types and
\* what the slice has counted.
THEOREM LimiterCorrect == LimiterSpec => []WindowInvariant
<1>1. LimiterInit => WindowInvariant
  BY LimiterAssumption
  DEF LimiterInit, WindowInvariant, LimiterTypeOK, SliceIsBounded, SliceMax, Larger,
      WindowsBySlice, CheckedWindows, OverIsSilent
<1>2. WindowInvariant /\ [LimiterNext]_limiterVars => WindowInvariant'
  <2> SUFFICES ASSUME WindowInvariant, [LimiterNext]_limiterVars
               PROVE  WindowInvariant'
    OBVIOUS
  <2>1. ASSUME NEW size \in 0 .. MaxSize, NewSlice(size) \/ WithinSlice(size)
        PROVE  WindowInvariant'
    BY <2>1, AdmitKeeps
  <2>2. CASE LimiterTick
    BY <2>2, TickKeeps
  <2>3. CASE UNCHANGED limiterVars
    BY <2>3 DEF limiterVars, WindowInvariant, LimiterTypeOK, SliceIsBounded, SliceMax,
       Larger, WindowsBySlice, CheckedWindows, OverIsSilent
  <2> QED
    BY <2>1, <2>2, <2>3 DEF LimiterNext, OverLimit
<1> QED
  BY <1>1, <1>2, PTL DEF LimiterSpec

\* The limiter's variables stay in their types, the counter never negative.
THEOREM LimiterTypes == LimiterSpec => []LimiterTypeOK
<1>1. WindowInvariant => LimiterTypeOK
  BY DEF WindowInvariant
<1> QED
  BY <1>1, LimiterCorrect, PTL

\* No window of a slice's length lets through more than the limit and one
\* full slice, wherever it starts.
THEOREM WindowsAreBounded == LimiterSpec => []WindowIsBounded
<1>1. WindowInvariant => WindowIsBounded
  BY LimiterAssumption
  DEF WindowInvariant, LimiterTypeOK, SliceIsBounded, SliceMax, Larger, WindowsBySlice,
      WindowIsBounded
<1> QED
  BY <1>1, LimiterCorrect, PTL

-----------------------------------------------------------------------------
(* What is refused *)

\* Within a slice the counter is what has passed since the slice began.
CounterIsExact == elapsed <= Interval => passed[elapsed] = traffic

\* Longer windows hold what the shorter ones do.
WindowsGrow == \A s, t \in 0 .. Interval : s <= t => passed[s] <= passed[t]

RefusalInvariant ==
  /\ WindowInvariant
  /\ CounterIsExact
  /\ WindowsGrow

\* The counter and the history of what passed go in step.
LEMMA RefusalStep ==
  ASSUME RefusalInvariant, WindowInvariant', [LimiterNext]_limiterVars
  PROVE  RefusalInvariant'
<1> USE LimiterAssumption DEF RefusalInvariant, WindowInvariant, LimiterTypeOK
<1>1. CASE UNCHANGED limiterVars
  BY <1>1 DEF limiterVars, CounterIsExact, WindowsGrow
<1>2. ASSUME NEW size \in 0 .. MaxSize, NewSlice(size) \/ WithinSlice(size)
      PROVE  RefusalInvariant'
  <2>1. \A t \in 0 .. Interval : passed'[t] = passed[t] + size
    BY <1>2 DEF NewSlice, WithinSlice, Admit
  <2>2. WindowsGrow'
    BY <2>1 DEF WindowsGrow
  <2>3. CASE NewSlice(size)
    BY <2>1, <2>2, <2>3 DEF NewSlice, OverIsSilent, CounterIsExact
  <2>4. CASE WithinSlice(size)
    BY <2>1, <2>2, <2>4 DEF WithinSlice, CounterIsExact
  <2> QED
    BY <1>2, <2>3, <2>4
<1>3. CASE LimiterTick
  <2>1. /\ passed'[0] = 0
        /\ \A t \in 1 .. Interval : passed'[t] = passed[t - 1]
    BY <1>3 DEF LimiterTick
  <2>2. WindowsGrow'
    <3> SUFFICES ASSUME NEW s \in 0 .. Interval, NEW t \in 0 .. Interval, s <= t
                 PROVE  passed'[s] <= passed'[t]
      BY DEF WindowsGrow
    <3>1. CASE s = 0
      BY <2>1, <3>1
    <3>2. CASE s # 0
      BY <2>1, <3>2 DEF WindowsGrow
    <3> QED
      BY <3>1, <3>2
  <2>3. CounterIsExact'
    BY <1>3, <2>1 DEF LimiterTick, CounterIsExact
  <2> QED
    BY <2>2, <2>3
<1> QED
  BY <1>1, <1>2, <1>3 DEF LimiterNext, OverLimit

\* The limiter does not refuse before it must: a packet that is refused would
\* have taken what passed in the last interval over the limit, for any
\* packets and however late the slice began.
THEOREM RefusalsAreDue == LimiterSpec => []RefusalIsDue
<1>1. LimiterInit => RefusalInvariant
  BY LimiterAssumption
  DEF LimiterInit, RefusalInvariant, WindowInvariant, LimiterTypeOK, SliceIsBounded,
      SliceMax, Larger, WindowsBySlice, CheckedWindows, OverIsSilent, CounterIsExact, WindowsGrow
<1>2. WindowInvariant' /\ RefusalInvariant /\ [LimiterNext]_limiterVars => RefusalInvariant'
  BY RefusalStep
<1>3. RefusalInvariant => RefusalIsDue
  BY LimiterAssumption
  DEF RefusalInvariant, WindowInvariant, LimiterTypeOK, CounterIsExact, WindowsGrow,
      RefusalIsDue, Refused
<1> QED
  BY <1>1, <1>2, <1>3, LimiterCorrect, PTL DEF LimiterSpec
=============================================================================

---------------------------- MODULE RelayProofs ----------------------------
(***************************************************************************)
(* Theorems about UDPRelay, for any relays, ports and numbers of calls.    *)
(***************************************************************************)
EXTENDS UDPRelay, FiniteSetTheorems, SequenceTheorems, TLAPS

-----------------------------------------------------------------------------
(* Sequences *)

\* A function on 1..n is a sequence of length n.
LEMMA FunctionIsSeq ==
  ASSUME NEW S, NEW n \in Nat, NEW f \in [1 .. n -> S]
  PROVE  /\ f \in Seq(S)
         /\ Len(f) = n
         /\ DOMAIN f = 1 .. n
<1>1. f \in Seq(S)
  BY SeqDef
<1>2. DOMAIN f = 1 .. n
  OBVIOUS
<1>3. DOMAIN f = 1 .. Len(f) /\ Len(f) \in Nat
  BY <1>1, LenProperties
<1> QED
  BY <1>1, <1>2, <1>3

\* What filter() keeps: a table of some of the old entries, no longer than it
\* was, with each entry that was to be kept.
LEMMA Kept ==
  ASSUME table \in Seq(Entry), NEW I \in SUBSET DOMAIN table, Keep(I)
  PROVE  /\ table' \in Seq(Entry)
         /\ Len(table') <= Len(table)
         /\ \A k \in DOMAIN table' : \E i \in I : table'[k] = table[i]
         /\ \A i \in I : \E k \in DOMAIN table' : table'[k] = table[i]
         /\ \A j, k \in DOMAIN table' : j # k =>
              \E i, m \in I : i # m /\ table'[j] = table[i] /\ table'[k] = table[m]
         /\ \E f \in Injection(DOMAIN table', I) :
              \A k \in DOMAIN table' : table'[k] = table[f[k]]
<1>0. Len(table) \in Nat /\ DOMAIN table = 1 .. Len(table) /\ \A i \in DOMAIN table : table[i] \in Entry
  BY LenProperties, ElementOfSeq
<1>1. PICK n \in 0 .. Len(table) : \E at \in [1 .. n -> I] :
        /\ \A j, k \in 1 .. n : j < k => at[j] < at[k]
        /\ \A i \in I : \E k \in 1 .. n : at[k] = i
        /\ table' = [k \in 1 .. n |-> table[at[k]]]
  BY DEF Keep
<1>2. PICK at \in [1 .. n -> I] :
        /\ \A j, k \in 1 .. n : j < k => at[j] < at[k]
        /\ \A i \in I : \E k \in 1 .. n : at[k] = i
        /\ table' = [k \in 1 .. n |-> table[at[k]]]
  BY <1>1
<1>3. n \in Nat /\ \A k \in 1 .. n : at[k] \in I /\ at[k] \in DOMAIN table
  BY <1>0
<1>4. table' \in [1 .. n -> Entry]
  BY <1>0, <1>2, <1>3
<1>5. table' \in Seq(Entry) /\ Len(table') = n /\ DOMAIN table' = 1 .. n
  BY <1>3, <1>4, FunctionIsSeq
<1>6. \A k \in DOMAIN table' : table'[k] = table[at[k]]
  BY <1>2, <1>5
<1>7. \A j, k \in 1 .. n : j # k => at[j] # at[k]
  <2> SUFFICES ASSUME NEW j \in 1 .. n, NEW k \in 1 .. n, j # k PROVE at[j] # at[k]
    OBVIOUS
  <2>1. at[j] \in Nat /\ at[k] \in Nat
    BY <1>0, <1>3
  <2>2. j < k \/ k < j
    BY <1>3
  <2> QED
    BY <1>2, <2>1, <2>2
<1>8. \A k \in DOMAIN table' : \E i \in I : table'[k] = table[i]
  BY <1>3, <1>5, <1>6
<1>9. \A i \in I : \E k \in DOMAIN table' : table'[k] = table[i]
  BY <1>2, <1>5, <1>6
<1>10. ASSUME NEW j \in DOMAIN table', NEW k \in DOMAIN table', j # k
       PROVE  \E i, m \in I : i # m /\ table'[j] = table[i] /\ table'[k] = table[m]
  BY <1>3, <1>5, <1>6, <1>7, <1>10
<1>11. at \in Injection(DOMAIN table', I)
  BY <1>5, <1>7 DEF Injection, IsInjective
<1>12. \E f \in Injection(DOMAIN table', I) : \A k \in DOMAIN table' : table'[k] = table[f[k]]
  BY <1>6, <1>11, Zenon
<1> QED
  BY <1>0, <1>5, <1>8, <1>9, <1>10, <1>12

-----------------------------------------------------------------------------
(* What freeRelay() keeps *)

Equal(i, J) == {j \in J : table[j].relay = table[i].relay}

Survivors(I) ==
  {i \in DOMAIN table :
     Cardinality({j \in Equal(i, DOMAIN table) : j < i}) >= Cardinality(Equal(i, I))}

\* An entry survives if none of its equals is freed, and does not if it has
\* no equals and is freed itself.
LEMMA Survival ==
  ASSUME table \in Seq(Entry), NEW I \in SUBSET DOMAIN table, NEW i \in DOMAIN table
  PROVE  /\ Equal(i, I) = {} => i \in Survivors(I)
         /\ (i \in I /\ Equal(i, DOMAIN table) = {i}) => i \notin Survivors(I)
<1>0. Len(table) \in Nat /\ DOMAIN table = 1 .. Len(table)
  BY LenProperties
<1> DEFINE Before == {j \in Equal(i, DOMAIN table) : j < i}
<1>1. Before \in SUBSET (1 .. Len(table))
  BY <1>0 DEF Equal
<1>2. IsFiniteSet(1 .. Len(table))
  BY <1>0, FS_Interval
<1>3. Cardinality(Before) \in Nat
  BY <1>1, <1>2, FS_Subset, FS_CardinalityType
<1>4. ASSUME Equal(i, I) = {} PROVE i \in Survivors(I)
  <2>1. Cardinality(Equal(i, I)) = 0
    BY <1>4, FS_EmptySet
  <2>2. Cardinality(Before) >= Cardinality(Equal(i, I))
    BY <1>3, <2>1
  <2> QED
    BY <2>2 DEF Survivors
<1>5. ASSUME i \in I, Equal(i, DOMAIN table) = {i} PROVE i \notin Survivors(I)
  <2>1. Equal(i, I) = {i}
    BY <1>5 DEF Equal
  <2>2. Before = {}
    BY <1>0, <1>5
  <2>3. Cardinality(Equal(i, I)) = 1 /\ Cardinality(Before) = 0
    BY <2>1, <2>2, FS_EmptySet, FS_Singleton
  <2> QED
    BY <2>3 DEF Survivors
<1> QED
  BY <1>4, <1>5

\* freeRelay() for the entries at I keeps the survivors and frees the ports.
LEMMA FreeRelaysKeeps ==
  ASSUME NEW I \in SUBSET DOMAIN table, FreeRelays(I)
  PROVE  /\ Keep(Survivors(I))
         /\ FreePorts({table[i].relay.port : i \in I})
  BY DEF FreeRelays, Survivors, Equal

\* Freeing relays leaves a table, no longer than before, and closed sockets
\* without listeners.
LEMMA FreeRelaysTyped ==
  ASSUME TypeOK, NEW I \in SUBSET DOMAIN table, FreeRelays(I)
  PROVE  /\ table' \in Seq(Entry)
         /\ Len(table') <= Len(table)
         /\ sockets' \subseteq Port
         /\ listeners' \in [Port -> Nat]
         /\ \A p \in Port \ sockets' : listeners'[p] = 0
<1>1. Survivors(I) \in SUBSET DOMAIN table
  BY DEF Survivors
<1>2. table' \in Seq(Entry) /\ Len(table') <= Len(table)
  BY <1>1, FreeRelaysKeeps, Kept DEF TypeOK
<1>3. FreePorts({table[i].relay.port : i \in I})
  BY FreeRelaysKeeps
<1> QED
  BY <1>2, <1>3 DEF FreePorts, TypeOK

-----------------------------------------------------------------------------
(* Types *)

\* The empty table is typed.
LEMMA InitTypes == Init => TypeOK
<1> SUFFICES ASSUME Init PROVE TypeOK
  OBVIOUS
<1>1. table \in Seq(Entry)
  BY EmptySeq DEF Init
<1> QED
  BY <1>1 DEF Init, TypeOK, Creation

\* Each action keeps the types.
LEMMA NextTypes == TypeOK /\ [Next]_vars => TypeOK'
<1> SUFFICES ASSUME TypeOK, [Next]_vars PROVE TypeOK'
  OBVIOUS
<1>0. Len(table) \in Nat /\ DOMAIN table = 1 .. Len(table) /\ \A i \in DOMAIN table : table[i] \in Entry
  BY LenProperties, ElementOfSeq DEF TypeOK
<1>1. ASSUME NEW p \in Port, AllocatePort(p) PROVE TypeOK'
  BY <1>1 DEF AllocatePort, TypeOK
<1>2. ASSUME NEW k \in Caller, NEW r \in Requested, CreateRelay(k, r) PROVE TypeOK'
  <2>1. r \in Relay
    BY RelayAssumption
  <2>2. creating' \in [Caller -> Creation]
    BY <1>2, <2>1 DEF CreateRelay, BeginAt, TypeOK, Creation
  <2> QED
    BY <1>2, <2>2 DEF CreateRelay, TypeOK
<1>3. ASSUME NEW k \in Caller, BindSocket(k) PROVE TypeOK'
  <2>1. creating' \in [Caller -> Creation]
    BY <1>3 DEF BindSocket, TypeOK, Creation, NoCall
  <2>2. sockets' \subseteq Port /\ sockets \subseteq sockets'
    BY <1>3 DEF BindSocket, TypeOK
  <2> QED
    BY <1>3, <2>1, <2>2 DEF BindSocket, TypeOK
<1>4. ASSUME NEW k \in Caller, BindFails(k) PROVE TypeOK'
  BY <1>4 DEF BindFails, TypeOK
<1>5. ASSUME NEW k \in Caller, FinishCreate(k) PROVE TypeOK'
  <2>1. creating[k].relay \in Relay
    BY <1>5 DEF FinishCreate, TypeOK, Creation, NoCall
  <2>2. [relay |-> creating[k].relay, idle |-> 0] \in Entry
    BY <2>1, RelayAssumption DEF Entry
  <2>3. table' \in Seq(Entry)
    BY <1>5, <2>2, AppendProperties DEF FinishCreate, TypeOK
  <2>4. creating' \in [Caller -> Creation]
    BY <1>5 DEF FinishCreate, TypeOK, Creation
  <2>5. listeners' \in [Port -> Nat] /\ \A p \in Port \ sockets : listeners'[p] = 0
    BY <1>5 DEF FinishCreate, TypeOK
  <2> QED
    BY <1>5, <2>3, <2>4, <2>5 DEF FinishCreate, TypeOK
<1>6. ASSUME NEW k \in Caller, CreateThrows(k) PROVE TypeOK'
  <2>1. creating' \in [Caller -> Creation]
    BY <1>6 DEF CreateThrows, TypeOK, Creation
  <2> QED
    BY <1>6, <2>1 DEF CreateThrows, TypeOK
<1>7. ASSUME NEW a \in Addr, NEW p \in Port, Packet(a, p) PROVE TypeOK'
  <2>1. table' \in Seq(Entry)
    <3>1. CASE TrafficLimits
      BY <1>7, <3>1 DEF Packet, TypeOK
    <3>2. CASE ~TrafficLimits
      <4>1. PICK s \in DOMAIN table, t \in DOMAIN table :
              table' = [i \in DOMAIN table |->
                          IF i \in {s, t} THEN [table[i] EXCEPT !.idle = 0] ELSE table[i]]
        BY <1>7, <3>2 DEF Packet, Senders, Targets, First
      <4>2. table' \in [1 .. Len(table) -> Entry]
        BY <1>0, <4>1, RelayAssumption DEF Entry
      <4> QED
        BY <1>0, <4>2, FunctionIsSeq
    <3> QED
      BY <3>1, <3>2
  <2>2. crashed' \in BOOLEAN
    BY <1>7 DEF Packet, TypeOK
  <2> QED
    BY <1>7, <2>1, <2>2 DEF Packet, TypeOK
<1>8. CASE Tick
  <2>1. table' \in [1 .. Len(table) -> Entry]
    BY <1>0, <1>8, RelayAssumption DEF Tick, Entry
  <2>2. table' \in Seq(Entry)
    BY <1>0, <2>1, FunctionIsSeq
  <2> QED
    BY <1>8, <2>2 DEF Tick, TypeOK
<1>9. CASE Cleanup
  BY <1>9, FreeRelaysTyped DEF Cleanup, TypeOK
<1>10. CASE Clear
  BY <1>10, FreeRelaysTyped DEF Clear, TypeOK
<1>11. CASE Shutdown
  BY <1>11 DEF Shutdown, TypeOK
<1>12. CASE UNCHANGED vars
  BY <1>12 DEF vars, TypeOK
<1> QED
  BY <1>1, <1>2, <1>3, <1>4, <1>5, <1>6, <1>7, <1>8, <1>9, <1>10, <1>11, <1>12 DEF Next

\* The variables stay in their types, and a port without a socket has no
\* listeners.
THEOREM RelayTypes == Spec => []TypeOK
  BY InitTypes, NextTypes, PTL DEF Spec

-----------------------------------------------------------------------------
(* The size of the table *)

Calls == {k \in Caller : InFlight(k)}

\* There are finitely many calls under way, no more than callers.
LEMMA CallsAreFew ==
  /\ IsFiniteSet(Calls)
  /\ Cardinality(Calls) \in Nat
  /\ Cardinality(Caller) \in Nat
  /\ Cardinality(Calls) <= Cardinality(Caller)
<1>1. Calls \in SUBSET Caller
  BY DEF Calls
<1> QED
  BY <1>1, RelayAssumption, FS_Subset, FS_CardinalityType

\* A call that ends makes them one fewer.
LEMMA CallEnds ==
  ASSUME NEW k \in Caller, creating \in [Caller -> Creation], InFlight(k),
         creating' = [creating EXCEPT ![k] = NoCall]
  PROVE  Cardinality(Calls') = Cardinality(Calls) - 1
<1>1. Calls' = Calls \ {k} /\ k \in Calls
  BY DEF Calls, InFlight
<1> QED
  BY <1>1, CallsAreFew, FS_RemoveElement

\* TableIsBounded is inductive.
LEMMA BoundStep ==
  ASSUME TypeOK, TableIsBounded, [Next]_vars
  PROVE  TableIsBounded'
<1> DEFINE Bound == Len(table) + Cardinality(Calls) <= MaxSlots + Cardinality(Caller)
<1>0. Len(table) \in Nat /\ DOMAIN table = 1 .. Len(table)
  BY LenProperties DEF TypeOK
<1>a. Bound /\ (TableIsBounded' <=> Bound')
  BY DEF TableIsBounded, Calls
<1>b. Cardinality(Calls') \in Nat /\ Cardinality(Calls') <= Cardinality(Caller)
  <2>1. Calls' \in SUBSET Caller
    BY DEF Calls
  <2> QED
    BY <2>1, RelayAssumption, FS_Subset, FS_CardinalityType
<1> USE CallsAreFew, RelayAssumption
<1>c. ASSUME Calls' = Calls, Len(table') \in Nat, Len(table') <= Len(table) PROVE Bound'
  BY <1>0, <1>a, <1>c
<1>1. ASSUME NEW p \in Port, AllocatePort(p) PROVE Bound'
  BY <1>0, <1>1, <1>c DEF AllocatePort, Calls, InFlight
<1>2. ASSUME NEW k \in Caller, NEW r \in Requested, CreateRelay(k, r) PROVE Bound'
  BY <1>0, <1>b, <1>2 DEF CreateRelay, TableHasRoom
<1>3. ASSUME NEW k \in Caller, BindSocket(k) PROVE Bound'
  <2>1. Calls' = Calls
    BY <1>3 DEF BindSocket, Calls, InFlight, TypeOK, Creation, NoCall
  <2> QED
    BY <1>0, <1>3, <2>1, <1>c DEF BindSocket
<1>4. ASSUME NEW k \in Caller, BindFails(k) PROVE Bound'
  BY <1>0, <1>4, <1>c DEF BindFails, Calls, InFlight
<1>5. ASSUME NEW k \in Caller, FinishCreate(k) PROVE Bound'
  <2>1. Len(table') = Len(table) + 1
    BY <1>5 DEF FinishCreate, TypeOK
  <2>2. Cardinality(Calls') = Cardinality(Calls) - 1
    <3>1. InFlight(k)
      BY <1>5 DEF FinishCreate, InFlight, NoCall
    <3>2. creating \in [Caller -> Creation] /\ creating' = [creating EXCEPT ![k] = NoCall]
      BY <1>5 DEF FinishCreate, TypeOK
    <3> QED
      BY <3>1, <3>2, CallEnds
  <2> QED
    BY <1>0, <1>a, <2>1, <2>2
<1>6. ASSUME NEW k \in Caller, CreateThrows(k) PROVE Bound'
  <2>1. Cardinality(Calls') = Cardinality(Calls) - 1
    <3>1. InFlight(k)
      BY <1>6 DEF CreateThrows, InFlight, NoCall
    <3>2. creating \in [Caller -> Creation] /\ creating' = [creating EXCEPT ![k] = NoCall]
      BY <1>6 DEF CreateThrows, TypeOK
    <3> QED
      BY <3>1, <3>2, CallEnds
  <2> QED
    BY <1>0, <1>6, <1>a, <2>1 DEF CreateThrows
<1>7. ASSUME NEW a \in Addr, NEW p \in Port, Packet(a, p) PROVE Bound'
  <2>1. table' = table \/ DOMAIN table' = DOMAIN table
    BY <1>7 DEF Packet
  <2>2. TypeOK'
    BY <1>7, NextTypes DEF Next
  <2>3. Len(table') = Len(table)
    BY <1>0, <2>1, <2>2, LenProperties DEF TypeOK
  <2> QED
    BY <1>0, <1>7, <2>3, <1>c DEF Packet, Calls, InFlight
<1>8. ASSUME Tick PROVE Bound'
  <2>1. TypeOK' /\ DOMAIN table' = DOMAIN table
    BY <1>8, NextTypes DEF Next, Tick
  <2>2. Len(table') = Len(table)
    BY <1>0, <2>1, LenProperties DEF TypeOK
  <2> QED
    BY <1>0, <1>8, <2>2, <1>c DEF Tick, Calls, InFlight
<1>9. ASSUME Cleanup \/ Clear PROVE Bound'
  <2>1. PICK I \in SUBSET DOMAIN table : FreeRelays(I)
    BY <1>9 DEF Cleanup, Clear
  <2>2. Len(table') <= Len(table) /\ Len(table') \in Nat
    BY <2>1, FreeRelaysTyped, LenProperties
  <2> QED
    BY <1>9, <2>2, <1>c DEF Cleanup, Clear, Calls, InFlight
<1>10. ASSUME Shutdown \/ UNCHANGED vars PROVE Bound'
  BY <1>0, <1>10, <1>c DEF Shutdown, vars, Calls, InFlight
<1> QED
  BY <1>a, <1>1, <1>2, <1>3, <1>4, <1>5, <1>6, <1>7, <1>8, <1>9, <1>10 DEF Next

\* The empty table is small enough.
LEMMA InitBound == Init => TableIsBounded
<1> SUFFICES ASSUME Init PROVE TableIsBounded
  OBVIOUS
<1>1. Len(table) = 0 /\ Calls = {}
  BY EmptySeq DEF Init, Calls, InFlight
<1>2. Cardinality(Calls) = 0 /\ Cardinality(Caller) \in Nat
  BY <1>1, FS_EmptySet, CallsAreFew
<1> QED
  BY <1>1, <1>2, RelayAssumption DEF TableIsBounded, Calls

\* The table outgrows maxSlots by no more than the calls that can be between
\* the check of its size and the push, for any number of them.
THEOREM TableStaysBounded == Spec => []TableIsBounded
<1>1. Init => TypeOK /\ TableIsBounded
  BY InitTypes, InitBound
<1>2. (TypeOK /\ TableIsBounded) /\ [Next]_vars => (TypeOK /\ TableIsBounded)'
  BY NextTypes, BoundStep
<1> QED
  BY <1>1, <1>2, PTL DEF Spec

\* Packets and the clock change nothing of an entry but its idle time.
LEMMA PacketKeepsRelays ==
  ASSUME TypeOK, NEW a \in Addr, NEW p \in Port, Packet(a, p)
  PROVE  /\ DOMAIN table' = DOMAIN table
         /\ \A i \in DOMAIN table : table'[i].relay = table[i].relay
<1>0. \A i \in DOMAIN table : table[i] \in Entry
  BY ElementOfSeq, LenProperties DEF TypeOK
<1>1. CASE TrafficLimits
  BY <1>1 DEF Packet
<1>2. CASE ~TrafficLimits
  <2>1. PICK s \in DOMAIN table, t \in DOMAIN table :
          table' = [i \in DOMAIN table |->
                      IF i \in {s, t} THEN [table[i] EXCEPT !.idle = 0] ELSE table[i]]
    BY <1>2 DEF Packet, Senders, Targets, First
  <2> QED
    BY <1>0, <2>1 DEF Entry
<1> QED
  BY <1>1, <1>2

\* So does the clock.
LEMMA TickKeepsRelays ==
  ASSUME TypeOK, Tick
  PROVE  /\ DOMAIN table' = DOMAIN table
         /\ \A i \in DOMAIN table : table'[i].relay = table[i].relay
<1>1. \A i \in DOMAIN table : table[i] \in Entry
  BY ElementOfSeq, LenProperties DEF TypeOK
<1>2. DOMAIN table' = DOMAIN table
  BY DEF Tick
<1> QED
  BY <1>1, <1>2 DEF Tick, Entry

-----------------------------------------------------------------------------
(* The copies of one relay *)

\* Where the table holds r, and the calls that are to put it there
Copies(r)   == {i \in DOMAIN table : table[i].relay = r}
CallsFor(r) == {k \in Calls : creating[k].relay = r}

\* A relay that is asked for again before it is answered gets into the table
\* more than once, but not more often than there are calls at once.
CopiesAreFew ==
  \A r \in Relay :
    Cardinality(Copies(r)) + Cardinality(CallsFor(r)) <= Cardinality(Caller)

\* Copies and calls can be counted, before a step and after it.
LEMMA CopiesAreFinite ==
  ASSUME TypeOK, NEW r
  PROVE  /\ IsFiniteSet(Copies(r)) /\ Cardinality(Copies(r)) \in Nat
         /\ IsFiniteSet(CallsFor(r)) /\ Cardinality(CallsFor(r)) \in Nat
         /\ Cardinality(CallsFor(r)) <= Cardinality(Caller)
         /\ Cardinality(Caller) \in Nat
<1>1. Copies(r) \in SUBSET (1 .. Len(table)) /\ Len(table) \in Nat
  BY LenProperties DEF TypeOK, Copies
<1>2. CallsFor(r) \in SUBSET Caller
  BY DEF CallsFor, Calls
<1>3. IsFiniteSet(1 .. Len(table))
  BY <1>1, FS_Interval
<1> QED
  BY <1>1, <1>2, <1>3, RelayAssumption, FS_Subset, FS_CardinalityType

\* The same of the state that a step leads to.
LEMMA NextCopiesAreFinite ==
  ASSUME TypeOK', NEW r
  PROVE  /\ Cardinality(Copies(r)') \in Nat
         /\ Cardinality(CallsFor(r)') \in Nat
         /\ Cardinality(CallsFor(r)') <= Cardinality(Caller)
         /\ Cardinality(Caller) \in Nat
<1>1. Copies(r)' \in SUBSET (1 .. Len(table')) /\ Len(table') \in Nat
  BY LenProperties DEF TypeOK, Copies
<1>2. CallsFor(r)' \in SUBSET Caller
  BY DEF CallsFor, Calls
<1>3. IsFiniteSet(1 .. Len(table'))
  BY <1>1, FS_Interval
<1> QED
  BY <1>1, <1>2, <1>3, RelayAssumption, FS_Subset, FS_CardinalityType

\* Freeing relays makes no copies.
LEMMA FreeRelaysCopies ==
  ASSUME TypeOK, NEW I \in SUBSET DOMAIN table, FreeRelays(I), NEW r
  PROVE  Cardinality(Copies(r)') <= Cardinality(Copies(r))
<1>1. Survivors(I) \in SUBSET DOMAIN table
  BY DEF Survivors
<1>2. PICK at \in Injection(DOMAIN table', Survivors(I)) :
        \A k \in DOMAIN table' : table'[k] = table[at[k]]
  BY <1>1, FreeRelaysKeeps, Kept DEF TypeOK
<1> DEFINE f == [k \in Copies(r)' |-> at[k]]
<1>3. /\ at \in [DOMAIN table' -> Survivors(I)]
      /\ \A j, k \in DOMAIN table' : at[j] = at[k] => j = k
  BY DEF Injection, IsInjective
<1>4. f \in Injection(Copies(r)', Copies(r))
  <2>1. \A k \in Copies(r)' : k \in DOMAIN table' /\ at[k] \in Copies(r)
    BY <1>1, <1>2, <1>3 DEF Copies
  <2>2. f \in [Copies(r)' -> Copies(r)]
    BY <2>1
  <2>3. \A j, k \in Copies(r)' : f[j] = f[k] => j = k
    BY <1>3, <2>1
  <2> QED
    BY <2>2, <2>3 DEF Injection, IsInjective
<1> QED
  BY <1>4, FS_Injection, CopiesAreFinite

\* A step that neither adds entries nor starts calls keeps the bound.
LEMMA CopiesFrame ==
  ASSUME TypeOK, CopiesAreFew, NEW r \in Relay,
         Cardinality(Copies(r)') \in Nat, Cardinality(CallsFor(r)') \in Nat,
         Cardinality(Copies(r)') <= Cardinality(Copies(r)),
         CallsFor(r)' \subseteq CallsFor(r)
  PROVE  Cardinality(Copies(r)') + Cardinality(CallsFor(r)') <= Cardinality(Caller)
<1>1. Cardinality(CallsFor(r)') <= Cardinality(CallsFor(r))
  BY CopiesAreFinite, FS_Subset
<1>2. Cardinality(Copies(r)) + Cardinality(CallsFor(r)) <= Cardinality(Caller)
  BY DEF CopiesAreFew
<1> QED
  BY <1>1, <1>2, CopiesAreFinite

\* createRelay() checks that the table does not hold the relay.
LEMMA CreateRelayCopies ==
  ASSUME TypeOK, TypeOK', CopiesAreFew, NEW k \in Caller, NEW q \in Requested,
         CreateRelay(k, q), NEW r \in Relay
  PROVE  Cardinality(Copies(r)') + Cardinality(CallsFor(r)') <= Cardinality(Caller)
<1>1. Copies(r)' = Copies(r)
  BY DEF CreateRelay, Copies
<1>2. /\ Cardinality(Copies(r)') \in Nat /\ Cardinality(CallsFor(r)') \in Nat
      /\ Cardinality(CallsFor(r)') <= Cardinality(Caller)
      /\ Cardinality(Caller) \in Nat
  BY NextCopiesAreFinite
<1>3. CASE q = r
  <2>1. Copies(r) = {}
    BY <1>3 DEF CreateRelay, HasRelay, Copies
  <2>2. Cardinality(Copies(r)') = 0
    BY <1>1, <2>1, FS_EmptySet
  <2> QED
    BY <1>2, <2>2
<1>4. CASE q # r
  <2>1. CallsFor(r)' \subseteq CallsFor(r)
    <3>1. /\ creating'[k] = [at |-> creating'[k].at, relay |-> q]
          /\ \A j \in Caller \ {k} : creating'[j] = creating[j]
      BY DEF CreateRelay, BeginAt, TypeOK
    <3> QED
      BY <1>4, <3>1 DEF CallsFor, Calls, InFlight
  <2> QED
    BY <1>1, <1>2, <2>1, CopiesFrame, CopiesAreFinite
<1> QED
  BY <1>3, <1>4

\* The push turns a call into an entry.
LEMMA FinishCreateCopies ==
  ASSUME TypeOK, CopiesAreFew, NEW k \in Caller, FinishCreate(k), NEW r \in Relay
  PROVE  Cardinality(Copies(r)') + Cardinality(CallsFor(r)') <= Cardinality(Caller)
<1> DEFINE q == creating[k].relay
           n == Len(table) + 1
<1>1. /\ creating \in [Caller -> Creation] /\ creating[k] # NoCall
      /\ creating' = [creating EXCEPT ![k] = NoCall]
  BY DEF FinishCreate, NoCall, TypeOK
<1>2. Len(table) \in Nat /\ DOMAIN table = 1 .. Len(table)
  BY LenProperties DEF TypeOK
<1>3. /\ DOMAIN table' = DOMAIN table \cup {n} /\ n \notin DOMAIN table
      /\ \A i \in DOMAIN table : table'[i] = table[i]
      /\ table'[n].relay = q
  <2> DEFINE e == [relay |-> q, idle |-> 0]
  <2>1. q \in Relay
    BY <1>1 DEF Creation
  <2>2. table \in Seq(Entry) /\ table' = Append(table, e) /\ e \in Entry
    BY <2>1, RelayAssumption DEF FinishCreate, TypeOK, Entry
  <2> HIDE DEF e
  <2>3. /\ table'[n] = e
        /\ \A i \in 1 .. Len(table) : table'[i] = table[i]
        /\ DOMAIN table' = 1 .. n
    BY <1>2, <2>2, AppendProperties, LenProperties
  <2> QED
    BY <1>2, <2>3 DEF e
<1> HIDE DEF n
<1>4. CASE q = r
  <2>1. Copies(r)' = Copies(r) \cup {n} /\ n \notin Copies(r)
    BY <1>3, <1>4 DEF Copies
  <2>2. CallsFor(r)' = CallsFor(r) \ {k} /\ k \in CallsFor(r)
    BY <1>1, <1>4 DEF CallsFor, Calls, InFlight
  <2>3. /\ Cardinality(Copies(r)') = Cardinality(Copies(r)) + 1
        /\ Cardinality(CallsFor(r)') = Cardinality(CallsFor(r)) - 1
    <3>1. \A S, x : IsFiniteSet(S) /\ x \notin S => Cardinality(S \cup {x}) = Cardinality(S) + 1
      BY FS_AddElement
    <3>2. \A S, x : IsFiniteSet(S) /\ x \in S => Cardinality(S \ {x}) = Cardinality(S) - 1
      BY FS_RemoveElement
    <3>3. Cardinality(Copies(r)') = Cardinality(Copies(r)) + 1
      BY <2>1, <3>1, CopiesAreFinite
    <3>4. Cardinality(CallsFor(r)') = Cardinality(CallsFor(r)) - 1
      BY <2>2, <3>2, CopiesAreFinite
    <3> QED
      BY <3>3, <3>4
  <2>4. Cardinality(Copies(r)) + Cardinality(CallsFor(r)) <= Cardinality(Caller)
    BY DEF CopiesAreFew
  <2> QED
    BY <2>3, <2>4, CopiesAreFinite
<1>5. CASE q # r
  <2>1. Copies(r)' = Copies(r)
    BY <1>3, <1>5 DEF Copies
  <2>2. CallsFor(r)' = CallsFor(r)
    BY <1>1, <1>5 DEF CallsFor, Calls, InFlight
  <2> QED
    BY <2>1, <2>2 DEF CopiesAreFew
<1> QED
  BY <1>4, <1>5

\* CopiesAreFew is inductive with the types.
LEMMA CopiesStep ==
  ASSUME TypeOK, TypeOK', CopiesAreFew, [Next]_vars
  PROVE  CopiesAreFew'
<1> SUFFICES ASSUME NEW r \in Relay
             PROVE  Cardinality(Copies(r)') + Cardinality(CallsFor(r)') <= Cardinality(Caller)
  BY DEF CopiesAreFew
<1>a. creating \in [Caller -> Creation]
  BY DEF TypeOK
<1>b. Cardinality(Copies(r)') \in Nat /\ Cardinality(CallsFor(r)') \in Nat
  BY NextCopiesAreFinite
<1>1. ASSUME Copies(r)' = Copies(r), CallsFor(r)' \subseteq CallsFor(r)
      PROVE  Cardinality(Copies(r)') + Cardinality(CallsFor(r)') <= Cardinality(Caller)
  BY <1>b, <1>1, CopiesFrame, CopiesAreFinite
<1>2. ASSUME NEW k \in Caller, NEW q \in Requested, CreateRelay(k, q)
      PROVE  Cardinality(Copies(r)') + Cardinality(CallsFor(r)') <= Cardinality(Caller)
  BY <1>2, CreateRelayCopies
<1>3. ASSUME NEW k \in Caller, FinishCreate(k)
      PROVE  Cardinality(Copies(r)') + Cardinality(CallsFor(r)') <= Cardinality(Caller)
  BY <1>3, FinishCreateCopies
<1>4. ASSUME NEW k \in Caller, BindSocket(k) \/ CreateThrows(k)
      PROVE  Copies(r)' = Copies(r) /\ CallsFor(r)' \subseteq CallsFor(r)
  <2>1. \A j \in Caller : InFlight(j)' => InFlight(j) /\ creating'[j].relay = creating[j].relay
    BY <1>a, <1>4 DEF BindSocket, CreateThrows, InFlight, Creation, NoCall
  <2> QED
    BY <1>4, <2>1 DEF BindSocket, CreateThrows, Copies, CallsFor, Calls
<1>5. ASSUME NEW p \in Port, AllocatePort(p)
      PROVE  Copies(r)' = Copies(r) /\ CallsFor(r)' = CallsFor(r)
  BY <1>5 DEF AllocatePort, Copies, CallsFor, Calls, InFlight
<1>6. ASSUME NEW k \in Caller, BindFails(k)
      PROVE  Copies(r)' = Copies(r) /\ CallsFor(r)' = CallsFor(r)
  BY <1>6 DEF BindFails, Copies, CallsFor, Calls, InFlight
<1>7. ASSUME (\E a \in Addr, p \in Port : Packet(a, p)) \/ Tick
      PROVE  Copies(r)' = Copies(r) /\ CallsFor(r)' = CallsFor(r)
  <2>1. DOMAIN table' = DOMAIN table /\ \A i \in DOMAIN table : table'[i].relay = table[i].relay
    BY <1>7, PacketKeepsRelays, TickKeepsRelays
  <2> QED
    BY <1>7, <2>1 DEF Packet, Tick, Copies, CallsFor, Calls, InFlight
<1>8. ASSUME Cleanup \/ Clear
      PROVE  Cardinality(Copies(r)') + Cardinality(CallsFor(r)') <= Cardinality(Caller)
  <2>1. PICK I \in SUBSET DOMAIN table : FreeRelays(I)
    BY <1>8 DEF Cleanup, Clear
  <2>2. CallsFor(r)' = CallsFor(r)
    BY <1>8 DEF Cleanup, Clear, CallsFor, Calls, InFlight
  <2> QED
    BY <1>b, <2>1, <2>2, FreeRelaysCopies, CopiesFrame
<1>9. CASE Shutdown \/ UNCHANGED vars
  BY <1>1, <1>9 DEF Shutdown, vars, Copies, CallsFor, Calls, InFlight
<1> QED
  BY <1>1, <1>2, <1>3, <1>4, <1>5, <1>6, <1>7, <1>8, <1>9 DEF Next

\* However often a client asks for a relay, and however the binds, pushes and
\* cleanups fall, the table never holds it more often than createRelay() can
\* be under way at once: the check of the table stops the rest.
THEOREM SpamIsBounded == Spec => []CopiesAreFew
<1>1. Init => TypeOK /\ CopiesAreFew
  <2> SUFFICES ASSUME Init, NEW r \in Relay
               PROVE  Cardinality(Copies(r)) + Cardinality(CallsFor(r)) <= Cardinality(Caller)
    BY InitTypes DEF CopiesAreFew
  <2>1. Copies(r) = {} /\ CallsFor(r) = {}
    BY EmptySeq, LenProperties DEF Init, Copies, CallsFor, Calls, InFlight
  <2> QED
    BY <2>1, InitTypes, CopiesAreFinite, FS_EmptySet
<1>2. (TypeOK /\ CopiesAreFew) /\ [Next]_vars => (TypeOK /\ CopiesAreFew)'
  BY NextTypes, CopiesStep
<1> QED
  BY <1>1, <1>2, PTL DEF Spec

-----------------------------------------------------------------------------
(* Orderly relays *)

\* The relays in the table, and those a call is about, were asked for; those
\* in the table have a port.
KnownRelays ==
  /\ \A i \in DOMAIN table : table[i].relay \in Requested /\ table[i].relay.port \in Port
  /\ \A k \in Caller : InFlight(k) => creating[k].relay \in Requested

\* At most one call is under way for a relay that nobody spams, and only
\* while the relay is not in the table.
CallsAreOrderly ==
  \A k \in Caller :
    (InFlight(k) /\ creating[k].relay \notin Spammed) =>
      /\ ~HasRelay(creating[k].relay)
      /\ \A j \in Caller : InFlight(j) /\ creating[j].relay = creating[k].relay => j = k

\* A socket has a listener only for the sake of a relay in the table.
ListenersHaveRelays ==
  \A p \in Port : listeners[p] > 0 => \E i \in DOMAIN table : table[i].relay.port = p

\* A relay nobody spams is in the table once, whatever its port.
OnceInTable ==
  \A i, j \in DOMAIN table :
    table[i].relay \notin Spammed /\ table[j].relay = table[i].relay => i = j

\* While a relay nobody disturbs is in the table its port has a socket that
\* hands each packet to the handler once.
SocketsWork ==
  \A i \in DOMAIN table :
    LET r == table[i].relay
    IN  Undisturbed(r) => r.port \in sockets /\ listeners[r.port] = 1

\* SocketsWork is not inductive by itself: that the socket has one listener
\* after a call has pushed its relay takes the facts above.
OrderlyInvariant ==
  /\ TypeOK
  /\ KnownRelays
  /\ CallsAreOrderly
  /\ ListenersHaveRelays
  /\ OnceInTable
  /\ SocketsWork

\* The empty table is orderly.
LEMMA InitOrderly == Init => OrderlyInvariant
<1> SUFFICES ASSUME Init PROVE OrderlyInvariant
  OBVIOUS
<1>1. DOMAIN table = {}
  BY EmptySeq, LenProperties DEF Init
<1> QED
  BY <1>1, InitTypes
     DEF Init, OrderlyInvariant, KnownRelays, CallsAreOrderly, ListenersHaveRelays,
         OnceInTable, SocketsWork, InFlight

\* A step that keeps the relays of the table, the calls and the listeners,
\* and closes no socket, keeps the invariant.
LEMMA SameRelaysOrderly ==
  ASSUME OrderlyInvariant, TypeOK',
         DOMAIN table' = DOMAIN table,
         \A i \in DOMAIN table : table'[i].relay = table[i].relay,
         \A k \in Caller : /\ InFlight(k)' <=> InFlight(k)
                           /\ InFlight(k) => creating'[k].relay = creating[k].relay,
         listeners' = listeners,
         sockets \subseteq sockets'
  PROVE  OrderlyInvariant'
<1>1. KnownRelays'
  BY DEF OrderlyInvariant, KnownRelays
<1>2. CallsAreOrderly'
  BY DEF OrderlyInvariant, CallsAreOrderly, HasRelay
<1>3. ListenersHaveRelays'
  BY DEF OrderlyInvariant, ListenersHaveRelays
<1>4. OnceInTable' /\ SocketsWork'
  BY DEF OrderlyInvariant, OnceInTable, SocketsWork, Undisturbed
<1> QED
  BY <1>1, <1>2, <1>3, <1>4 DEF OrderlyInvariant

\* An orderly relay is in the table once, so freeRelay() takes it out if and
\* only if it is one of those to be freed.
LEMMA OrderlySurvival ==
  ASSUME OrderlyInvariant, NEW I \in SUBSET DOMAIN table, NEW i \in DOMAIN table,
         table[i].relay \notin Spammed
  PROVE  i \in Survivors(I) <=> i \notin I
<1>1. Equal(i, DOMAIN table) = {i}
  BY DEF OrderlyInvariant, OnceInTable, Equal
<1>2. i \notin I => Equal(i, I) = {}
  BY <1>1 DEF Equal
<1> QED
  BY <1>1, <1>2, Survival DEF OrderlyInvariant, TypeOK

\* Freeing relays leaves the others, and the sockets they have, alone.
LEMMA FreeRelaysOrderly ==
  ASSUME OrderlyInvariant, TypeOK',
         NEW I \in SUBSET DOMAIN table, FreeRelays(I), creating' = creating
  PROVE  OrderlyInvariant'
<1> DEFINE Freed == {table[i].relay.port : i \in I}
<1>1. FreePorts(Freed)
  BY FreeRelaysKeeps
<1>2. /\ \A k \in DOMAIN table' : \E i \in Survivors(I) : table'[k] = table[i]
      /\ \A i \in Survivors(I) : \E k \in DOMAIN table' : table'[k] = table[i]
      /\ \A j, k \in DOMAIN table' : j # k =>
           \E i, m \in Survivors(I) : i # m /\ table'[j] = table[i] /\ table'[k] = table[m]
  <2>1. Survivors(I) \in SUBSET DOMAIN table
    BY DEF Survivors
  <2> QED
    BY <2>1, FreeRelaysKeeps, Kept DEF OrderlyInvariant, TypeOK
<1>3. Survivors(I) \subseteq DOMAIN table
  BY DEF Survivors
<1>4. KnownRelays'
  BY <1>2, <1>3 DEF OrderlyInvariant, KnownRelays, InFlight
<1>5. CallsAreOrderly'
  BY <1>2, <1>3 DEF OrderlyInvariant, CallsAreOrderly, InFlight, HasRelay
<1>6. ListenersHaveRelays'
  <2> SUFFICES ASSUME NEW p \in Port, listeners'[p] > 0
               PROVE  \E i \in DOMAIN table' : table'[i].relay.port = p
    BY DEF ListenersHaveRelays
  <2>1. p \notin Freed /\ listeners[p] > 0
    BY <1>1 DEF FreePorts
  <2>2. PICK i \in DOMAIN table : table[i].relay.port = p
    BY <2>1 DEF OrderlyInvariant, ListenersHaveRelays
  <2>3. Equal(i, I) = {}
    BY <2>1, <2>2 DEF Equal
  <2>4. i \in Survivors(I)
    BY <2>3, Survival DEF OrderlyInvariant, TypeOK
  <2> QED
    BY <1>2, <2>2, <2>4
<1>7. OnceInTable'
  <2> SUFFICES ASSUME NEW k \in DOMAIN table', NEW j \in DOMAIN table',
                      table'[k].relay \notin Spammed, table'[j].relay = table'[k].relay, k # j
               PROVE  FALSE
    BY DEF OnceInTable
  <2>1. PICK m, n \in Survivors(I) : m # n /\ table'[k] = table[m] /\ table'[j] = table[n]
    BY <1>2
  <2> QED
    BY <1>3, <2>1 DEF OrderlyInvariant, OnceInTable
<1>8. SocketsWork'
  <2> SUFFICES ASSUME NEW k \in DOMAIN table', Undisturbed(table'[k].relay)
               PROVE  /\ table'[k].relay.port \in sockets'
                      /\ listeners'[table'[k].relay.port] = 1
    BY DEF SocketsWork, Undisturbed
  <2>1. PICK i \in Survivors(I) : table'[k] = table[i]
    BY <1>2
  <2>2. i \in DOMAIN table /\ i \notin I
    BY <1>3, <2>1, OrderlySurvival DEF Undisturbed
  <2> DEFINE r == table[i].relay
  <2>3. r \in Requested /\ r.port \in Port /\ r.port \in sockets /\ listeners[r.port] = 1
    BY <2>1, <2>2 DEF OrderlyInvariant, KnownRelays, SocketsWork
  <2>4. r.port \notin Freed
    <3> SUFFICES ASSUME NEW j \in I, table[j].relay.port = r.port PROVE FALSE
      OBVIOUS
    <3>1. table[j].relay = r
      BY <2>1 DEF Undisturbed, OrderlyInvariant, KnownRelays
    <3> QED
      BY <2>1, <2>2, <3>1 DEF OrderlyInvariant, OnceInTable, Undisturbed
  <2> QED
    BY <1>1, <2>1, <2>3, <2>4 DEF FreePorts
<1> QED
  BY <1>4, <1>5, <1>6, <1>7, <1>8 DEF OrderlyInvariant

\* createRelay() lets a relay in that is neither in the table nor on its way.
LEMMA CreateRelayOrderly ==
  ASSUME OrderlyInvariant, TypeOK', NEW k \in Caller, NEW r \in Requested, CreateRelay(k, r)
  PROVE  OrderlyInvariant'
<1>1. /\ InFlight(k)' /\ creating'[k].relay = r
      /\ \A j \in Caller \ {k} : creating'[j] = creating[j]
  BY DEF CreateRelay, BeginAt, InFlight, NoCall, OrderlyInvariant, TypeOK
<1>2. KnownRelays'
  BY <1>1 DEF CreateRelay, OrderlyInvariant, KnownRelays, InFlight
<1>3. r \notin Spammed => \A j \in Caller : InFlight(j) => creating[j].relay # r
  BY DEF CreateRelay, MayRequest
<1>4. ~HasRelay(r)
  BY DEF CreateRelay
<1>5. CallsAreOrderly'
  <2> SUFFICES ASSUME NEW j \in Caller, InFlight(j)', creating'[j].relay \notin Spammed
               PROVE  /\ ~HasRelay(creating'[j].relay)
                      /\ \A m \in Caller :
                           InFlight(m)' /\ creating'[m].relay = creating'[j].relay => m = j
    BY DEF CallsAreOrderly, HasRelay, CreateRelay
  <2>1. CASE j = k
    BY <1>1, <1>3, <1>4, <2>1 DEF InFlight
  <2>2. CASE j # k
    <3>1. InFlight(j) /\ creating'[j] = creating[j] /\ creating[j].relay # r
      BY <1>1, <1>3, <2>2 DEF InFlight
    <3>2. /\ ~HasRelay(creating[j].relay)
          /\ \A m \in Caller : InFlight(m) /\ creating[m].relay = creating[j].relay => m = j
      BY <3>1 DEF OrderlyInvariant, CallsAreOrderly
    <3> QED
      BY <1>1, <3>1, <3>2 DEF InFlight
  <2> QED
    BY <2>1, <2>2
<1>6. ListenersHaveRelays' /\ OnceInTable' /\ SocketsWork'
  BY DEF CreateRelay, OrderlyInvariant, ListenersHaveRelays, OnceInTable, SocketsWork,
         Undisturbed
<1> QED
  BY <1>2, <1>5, <1>6 DEF OrderlyInvariant

\* The push: an orderly relay finds its socket without a listener, since
\* nothing in the table has its port.
LEMMA FinishCreateOrderly ==
  ASSUME OrderlyInvariant, TypeOK', NEW k \in Caller, FinishCreate(k)
  PROVE  OrderlyInvariant'
<1> DEFINE r == creating[k].relay
           n == Len(table) + 1
<1>1. InFlight(k) /\ r \in Requested /\ r.port \in sockets /\ r.port \in Port
  BY DEF FinishCreate, InFlight, NoCall, OrderlyInvariant, KnownRelays, TypeOK
<1>2. Len(table) \in Nat /\ DOMAIN table = 1 .. Len(table)
  BY LenProperties DEF OrderlyInvariant, TypeOK
<1>3. /\ DOMAIN table' = DOMAIN table \cup {n} /\ n \notin DOMAIN table
      /\ \A i \in DOMAIN table : table'[i] = table[i]
      /\ table'[n].relay = r
  <2> DEFINE e == [relay |-> r, idle |-> 0]
  <2>1. table \in Seq(Entry) /\ table' = Append(table, e) /\ e \in Entry
    BY <1>1, RelayAssumption DEF FinishCreate, OrderlyInvariant, TypeOK, Entry
  <2> HIDE DEF e
  <2>2. /\ Len(table') = n
        /\ table'[n] = e
        /\ \A i \in 1 .. Len(table) : table'[i] = table[i]
        /\ DOMAIN table' = 1 .. n
    BY <1>2, <2>1, AppendProperties, LenProperties
  <2> QED
    BY <1>2, <2>2 DEF e
<1>4. /\ ~InFlight(k)'
      /\ \A j \in Caller \ {k} : creating'[j] = creating[j]
  BY DEF FinishCreate, InFlight, OrderlyInvariant, TypeOK
<1>5. /\ listeners'[r.port] = listeners[r.port] + 1
      /\ \A p \in Port \ {r.port} : listeners'[p] = listeners[p]
      /\ sockets' = sockets
  BY <1>1 DEF FinishCreate, OrderlyInvariant, TypeOK
<1>6. r \notin Spammed => \A i \in DOMAIN table : table[i].relay # r
  BY <1>1 DEF OrderlyInvariant, CallsAreOrderly, HasRelay
<1>7. KnownRelays'
  <2>1. \A i \in DOMAIN table' : table'[i].relay \in Requested /\ table'[i].relay.port \in Port
    BY <1>1, <1>3 DEF OrderlyInvariant, KnownRelays
  <2>2. \A j \in Caller : InFlight(j)' => creating'[j].relay \in Requested
    BY <1>4 DEF OrderlyInvariant, KnownRelays, InFlight
  <2> QED
    BY <2>1, <2>2 DEF KnownRelays
<1>8. CallsAreOrderly'
  <2> SUFFICES ASSUME NEW j \in Caller, InFlight(j)', creating'[j].relay \notin Spammed
               PROVE  /\ \A i \in DOMAIN table' : table'[i].relay # creating'[j].relay
                      /\ \A m \in Caller :
                           InFlight(m)' /\ creating'[m].relay = creating'[j].relay => m = j
    BY DEF CallsAreOrderly, HasRelay
  <2>1. j # k /\ InFlight(j) /\ creating'[j] = creating[j]
    BY <1>4 DEF InFlight
  <2>2. /\ ~HasRelay(creating[j].relay)
        /\ \A m \in Caller : InFlight(m) /\ creating[m].relay = creating[j].relay => m = j
    BY <2>1 DEF OrderlyInvariant, CallsAreOrderly
  <2>3. creating[j].relay # r
    BY <1>1, <2>1, <2>2
  <2>4. \A i \in DOMAIN table' : table'[i].relay # creating[j].relay
    BY <1>3, <2>2, <2>3 DEF HasRelay
  <2>5. \A m \in Caller : InFlight(m)' /\ creating'[m].relay = creating'[j].relay => m = j
    BY <1>4, <2>1, <2>2 DEF InFlight
  <2> QED
    BY <2>1, <2>4, <2>5
<1>9. ListenersHaveRelays'
  BY <1>3, <1>5 DEF OrderlyInvariant, ListenersHaveRelays
<1>10. OnceInTable'
  BY <1>3, <1>6 DEF OrderlyInvariant, OnceInTable
<1>11. SocketsWork'
  <2> SUFFICES ASSUME NEW i \in DOMAIN table', Undisturbed(table'[i].relay)
               PROVE  /\ table'[i].relay.port \in sockets'
                      /\ listeners'[table'[i].relay.port] = 1
    BY DEF SocketsWork, Undisturbed
  <2>1. CASE i = n
    <3>1. table'[i].relay = r /\ \A j \in DOMAIN table : table[j].relay # r
      BY <1>3, <1>6, <2>1 DEF Undisturbed
    <3>2. ~(listeners[r.port] > 0)
      BY <1>1, <3>1 DEF OrderlyInvariant, ListenersHaveRelays, KnownRelays, Undisturbed
    <3>3. listeners[r.port] = 0
      BY <1>1, <3>2 DEF OrderlyInvariant, TypeOK
    <3> QED
      BY <1>1, <1>5, <3>1, <3>3
  <2>2. CASE i # n
    <3>1. i \in DOMAIN table /\ table'[i] = table[i]
      BY <1>3, <2>2
    <3>2. /\ table[i].relay \in Requested /\ table[i].relay.port \in Port
          /\ table[i].relay.port \in sockets
          /\ listeners[table[i].relay.port] = 1
      BY <3>1 DEF OrderlyInvariant, KnownRelays, SocketsWork
    <3>3. table[i].relay # r
      BY <1>6, <3>1 DEF Undisturbed
    <3>4. table[i].relay.port # r.port
      BY <1>1, <3>1, <3>3 DEF Undisturbed
    <3> QED
      BY <1>5, <3>1, <3>2, <3>4
  <2> QED
    BY <2>1, <2>2
<1> QED
  BY <1>7, <1>8, <1>9, <1>10, <1>11 DEF OrderlyInvariant

\* Each action keeps the relays orderly.
LEMMA NextOrderly ==
  ASSUME OrderlyInvariant, [Next]_vars
  PROVE  OrderlyInvariant'
<1>0. TypeOK'
  BY NextTypes DEF OrderlyInvariant
<1>a. creating \in [Caller -> Creation]
  BY DEF OrderlyInvariant, TypeOK
<1>1. ASSUME NEW p \in Port, AllocatePort(p) PROVE OrderlyInvariant'
  BY <1>0, <1>1, SameRelaysOrderly DEF AllocatePort, InFlight
<1>2. ASSUME NEW k \in Caller, NEW r \in Requested, CreateRelay(k, r) PROVE OrderlyInvariant'
  BY <1>0, <1>2, CreateRelayOrderly
<1>3. ASSUME NEW k \in Caller, BindSocket(k) PROVE OrderlyInvariant'
  <2>1. \A j \in Caller : /\ InFlight(j)' <=> InFlight(j)
                          /\ InFlight(j) => creating'[j].relay = creating[j].relay
    BY <1>3, <1>a DEF BindSocket, InFlight, Creation, NoCall
  <2> QED
    BY <1>0, <1>3, <2>1, SameRelaysOrderly DEF BindSocket
<1>4. ASSUME NEW k \in Caller, BindFails(k) PROVE OrderlyInvariant'
  BY <1>0, <1>4, SameRelaysOrderly DEF BindFails, InFlight
<1>5. ASSUME NEW k \in Caller, FinishCreate(k) PROVE OrderlyInvariant'
  BY <1>0, <1>5, FinishCreateOrderly
<1>6. ASSUME NEW k \in Caller, CreateThrows(k) PROVE OrderlyInvariant'
  <2>1. ~InFlight(k)' /\ \A j \in Caller \ {k} : creating'[j] = creating[j]
    BY <1>6, <1>a DEF CreateThrows, InFlight
  <2>2. KnownRelays' /\ CallsAreOrderly'
    BY <1>6, <2>1
       DEF CreateThrows, OrderlyInvariant, KnownRelays, CallsAreOrderly, InFlight, HasRelay
  <2>3. ListenersHaveRelays' /\ OnceInTable' /\ SocketsWork'
    BY <1>6 DEF CreateThrows, OrderlyInvariant, ListenersHaveRelays, OnceInTable, SocketsWork,
                Undisturbed
  <2> QED
    BY <1>0, <2>2, <2>3 DEF OrderlyInvariant
<1>7. ASSUME NEW a \in Addr, NEW p \in Port, Packet(a, p) PROVE OrderlyInvariant'
  <2>1. DOMAIN table' = DOMAIN table /\ \A i \in DOMAIN table : table'[i].relay = table[i].relay
    BY <1>7, PacketKeepsRelays DEF OrderlyInvariant
  <2> QED
    BY <1>0, <1>7, <2>1, SameRelaysOrderly DEF Packet, InFlight
<1>8. CASE Tick
  <2>1. DOMAIN table' = DOMAIN table /\ \A i \in DOMAIN table : table'[i].relay = table[i].relay
    BY <1>8, TickKeepsRelays DEF OrderlyInvariant
  <2> QED
    BY <1>0, <1>8, <2>1, SameRelaysOrderly DEF Tick, InFlight
<1>9. CASE Cleanup \/ Clear
  <2>1. PICK I \in SUBSET DOMAIN table : FreeRelays(I)
    BY <1>9 DEF Cleanup, Clear
  <2> QED
    BY <1>0, <1>9, <2>1, FreeRelaysOrderly DEF Cleanup, Clear
<1>10. CASE Shutdown \/ UNCHANGED vars
  BY <1>0, <1>10, SameRelaysOrderly DEF Shutdown, vars, InFlight
<1> QED
  BY <1>1, <1>2, <1>3, <1>4, <1>5, <1>6, <1>7, <1>8, <1>9, <1>10 DEF Next

\* What the table, the calls, the sockets and their listeners say of each
\* other is inductive, whatever relays are asked for.
THEOREM RelaysCorrect == Spec => []OrderlyInvariant
  BY InitOrderly, NextOrderly, PTL DEF Spec

\* A relay that is asked for once at a time is in the table once, and on a port
\* no other relay names it works while the process lives: whatever else is
\* asked for, on shared or unset ports, again and again, and whatever the
\* cleanup job frees.
THEOREM UndisturbedRelaysWork == Spec => []OrderlyRelaysWork
<1>1. OrderlyInvariant => OrderlyRelaysWork
  BY DEF OrderlyInvariant, OnceInTable, SocketsWork, OrderlyRelaysWork
<1> QED
  BY <1>1, RelaysCorrect, PTL

\* No port is listened on that the table has no relay for: when the last relay
\* of a port goes, so do all its listeners, whichever of the equal entries
\* freeRelay() removes and however often a relay was pushed.
THEOREM NoListenersAreLeft == Spec => []ListenersHaveRelays
<1>1. OrderlyInvariant => ListenersHaveRelays
  BY DEF OrderlyInvariant
<1> QED
  BY <1>1, RelaysCorrect, PTL

\* No step but clear() takes such a relay out of the table while it is used.
LEMMA ActiveRelayStep ==
  ASSUME OrderlyInvariant, [Next]_vars, ~Clear,
         NEW i \in DOMAIN table, ~Stale(table[i]), table[i].relay \notin Spammed
  PROVE  \E j \in DOMAIN table' : table'[j].relay = table[i].relay
<1>1. ASSUME \A j \in DOMAIN table : j \in DOMAIN table' /\ table'[j].relay = table[j].relay
      PROVE  \E j \in DOMAIN table' : table'[j].relay = table[i].relay
  BY <1>1
<1>2. ASSUME NEW k \in Caller, FinishCreate(k)
      PROVE  \E j \in DOMAIN table' : table'[j].relay = table[i].relay
  <2> DEFINE e == [relay |-> creating[k].relay, idle |-> 0]
  <2>1. table \in Seq(Entry) /\ table' = Append(table, e) /\ i \in 1 .. Len(table)
    BY <1>2, LenProperties DEF FinishCreate, OrderlyInvariant, TypeOK
  <2>2. creating[k].relay \in Relay
    BY <1>2 DEF FinishCreate, OrderlyInvariant, TypeOK, Creation, NoCall
  <2>3. e \in Entry
    BY <2>2, RelayAssumption DEF Entry
  <2> HIDE DEF e
  <2>4. i \in DOMAIN table' /\ table'[i] = table[i]
    BY <2>1, <2>3, AppendProperties, LenProperties
  <2> QED
    BY <2>4
<1>3. ASSUME Cleanup
      PROVE  \E j \in DOMAIN table' : table'[j].relay = table[i].relay
  <2> DEFINE I == {j \in DOMAIN table : Stale(table[j])}
  <2>1. FreeRelays(I) /\ i \notin I
    BY <1>3 DEF Cleanup
  <2>2. i \in Survivors(I) /\ Survivors(I) \in SUBSET DOMAIN table
    BY <2>1, OrderlySurvival DEF Survivors
  <2>3. Keep(Survivors(I))
    BY <2>1, FreeRelaysKeeps
  <2>4. \E k \in DOMAIN table' : table'[k] = table[i]
    BY <2>2, <2>3, Kept DEF OrderlyInvariant, TypeOK
  <2> QED
    BY <2>4
<1>4. ASSUME NEW a \in Addr, NEW p \in Port, Packet(a, p)
      PROVE  \E j \in DOMAIN table' : table'[j].relay = table[i].relay
  BY <1>1, <1>4, PacketKeepsRelays DEF OrderlyInvariant
<1>5. ASSUME Tick
      PROVE  \E j \in DOMAIN table' : table'[j].relay = table[i].relay
  BY <1>1, <1>5, TickKeepsRelays DEF OrderlyInvariant
<1> QED
  BY <1>1, <1>2, <1>3, <1>4, <1>5
     DEF Next, AllocatePort, CreateRelay, BindSocket, BindFails, CreateThrows, Shutdown, vars

\* So an active relay stays in the table, cleanup or not, while it is asked
\* for once at a time, even if its port is not its own.
THEOREM ActiveRelaysAreKept == Spec => ActiveRelayIsKept
<1>1. OrderlyInvariant /\ [Next]_vars
        => [\/ Clear
            \/ \A i \in DOMAIN table :
                 ~Stale(table[i]) /\ table[i].relay \notin Spammed =>
                   \E j \in DOMAIN table' : table'[j].relay = table[i].relay]_vars
  BY ActiveRelayStep
<1> QED
  BY <1>1, RelaysCorrect, PTL DEF Spec, ActiveRelayIsKept

\* The cleanup job leaves no stale relay behind, but for those that spam may
\* have put in the table twice.
CleanupIsThorough ==
  [][Cleanup => \A k \in DOMAIN table' :
                  table'[k].relay \notin Spammed => ~Stale(table'[k])]_vars

\* One run of the cleanup job frees all relays that are stale when it runs,
\* though it removes them by value and one at a time: what IdleRelayIsFreed
\* owes to the job, but for the clock and the timer that runs it.
THEOREM CleanupFreesStaleRelays == Spec => CleanupIsThorough
<1>1. OrderlyInvariant /\ [Next]_vars
        => [Cleanup => \A k \in DOMAIN table' :
                         table'[k].relay \notin Spammed => ~Stale(table'[k])]_vars
  <2> SUFFICES ASSUME OrderlyInvariant, Cleanup, NEW k \in DOMAIN table',
                      table'[k].relay \notin Spammed
               PROVE  ~Stale(table'[k])
    OBVIOUS
  <2> DEFINE I == {j \in DOMAIN table : Stale(table[j])}
  <2>1. FreeRelays(I) /\ I \in SUBSET DOMAIN table
    BY DEF Cleanup
  <2>2. Survivors(I) \in SUBSET DOMAIN table
    BY DEF Survivors
  <2> HIDE DEF I
  <2>3. PICK i \in Survivors(I) : table'[k] = table[i]
    BY <2>1, <2>2, FreeRelaysKeeps, Kept DEF OrderlyInvariant, TypeOK
  <2>4. i \in DOMAIN table /\ i \notin I
    BY <2>1, <2>2, <2>3, OrderlySurvival
  <2>5. ~Stale(table[i])
    BY <2>4 DEF I
  <2> QED
    BY <2>3, <2>5 DEF Stale
<1> QED
  BY <1>1, RelaysCorrect, PTL DEF Spec, CleanupIsThorough
=============================================================================

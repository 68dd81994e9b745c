--------------------------- MODULE AttemptsProofs ---------------------------
(***************************************************************************)
(* Theorems about ConnectionAttempts, for any number of peers, attempts    *)
(* and names, however the names collide.                                   *)
(***************************************************************************)
EXTENDS ConnectionAttempts, TLAPS

\* A success has been reported by both peers and is final: with it the
\* attempt is done and no report changes.
AttemptInvariant ==
  /\ AttemptTypeOK
  /\ QueueHoldsOpenRaces
  /\ SuccessIsReported
  /\ \A a \in Attempt :
       /\ race[a] = "unstarted" <=> processor[a] = "unstarted"
       /\ attempts[a] = Unmade => race[a] = "unstarted"

\* Of an attempt that was made, an update of its outcome leaves the rest.
LEMMA OutcomeOnly ==
  ASSUME AttemptTypeOK, NEW a \in Attempt, attempts[a] # Unmade,
         NEW ok \in BOOLEAN,
         attempts' = [attempts EXCEPT ![a].state = "done", ![a].isSuccess = ok]
  PROVE  /\ attempts' \in [Attempt -> AttemptFields]
         /\ Made' = Made
         /\ attempts'[a].state = "done"
         /\ attempts'[a].isSuccess = ok
         /\ \A b \in Attempt \ {a} : attempts'[b] = attempts[b]
         /\ \A b \in Made : IdOf(b)' = IdOf(b) /\ LinkOf(b)' = LinkOf(b)
<1>1. attempts[a] \in AttemptFields \ {Unmade}
  BY DEF AttemptTypeOK
<1>2. /\ attempts'[a] = [attempts[a] EXCEPT !.state = "done", !.isSuccess = ok]
      /\ \A b \in Attempt \ {a} : attempts'[b] = attempts[b]
      /\ DOMAIN attempts' = Attempt
      /\ attempts' = [b \in Attempt |-> attempts'[b]]
  BY DEF AttemptTypeOK
<1>3. /\ attempts'[a] \in AttemptFields
      /\ attempts'[a].state = "done"
      /\ attempts'[a].isSuccess = ok
      /\ attempts'[a].hosting = attempts[a].hosting
      /\ attempts'[a].connecting = attempts[a].connecting
  BY <1>1, <1>2 DEF AttemptFields
<1>4. attempts'[a] # Unmade
  <2>1. Unmade.state = "unmade"
    BY DEF Unmade
  <2> QED
    BY <1>3, <2>1
<1>5. Made' = Made
  BY <1>2, <1>4 DEF Made
<1>6. \A b \in Made : IdOf(b)' = IdOf(b) /\ LinkOf(b)' = LinkOf(b)
  BY <1>2, <1>3 DEF IdOf, AttemptId, LinkOf, Made
<1>7. attempts' \in [Attempt -> AttemptFields]
  BY <1>2, <1>3 DEF AttemptTypeOK
<1> QED
  BY <1>2, <1>3, <1>5, <1>6, <1>7

\* A new attempt object, which no other action can have touched yet.
LEMMA MadeByEnqueue ==
  ASSUME AttemptTypeOK, NEW a \in Attempt, attempts[a] = Unmade,
         NEW h \in Peer, NEW c \in Peer, NEW st \in {"pending", "running"},
         attempts' = [attempts EXCEPT ![a] = NewAttempt(h, c, st)]
  PROVE  /\ attempts' \in [Attempt -> AttemptFields]
         /\ Made' = Made \cup {a}
         /\ attempts'[a].isSuccess = FALSE
         /\ IdOf(a)' = AttemptId(h, c)
         /\ LinkOf(a)' = <<h, c>>
         /\ \A b \in Attempt \ {a} : attempts'[b] = attempts[b]
         /\ \A b \in Made : b # a /\ IdOf(b)' = IdOf(b)
<1> DEFINE new == NewAttempt(h, c, st)
<1>0. /\ new \in AttemptFields
      /\ new # Unmade
      /\ new.isSuccess = FALSE
      /\ new.hosting = h
      /\ new.connecting = c
  <2>1. new.state = st /\ Unmade.state = "unmade"
    BY DEF NewAttempt, Unmade
  <2>2. new # Unmade
    BY <2>1
  <2> QED
    BY <2>2 DEF NewAttempt, AttemptFields
<1> HIDE DEF new
<1>1. /\ attempts'[a] = new
      /\ \A b \in Attempt \ {a} : attempts'[b] = attempts[b]
      /\ attempts' \in [Attempt -> AttemptFields]
  BY <1>0 DEF AttemptTypeOK, new
<1>2. Made' = Made \cup {a}
  BY <1>0, <1>1 DEF Made
<1>3. IdOf(a)' = AttemptId(h, c) /\ LinkOf(a)' = <<h, c>>
  BY <1>0, <1>1 DEF IdOf, AttemptId, LinkOf
<1>4. \A b \in Made : b # a /\ IdOf(b)' = IdOf(b)
  BY <1>1 DEF IdOf, AttemptId, Made
<1> QED
  BY <1>0, <1>1, <1>2, <1>3, <1>4

\* Each action keeps the invariant.  A duplicate is not queued; an enqueued
\* attempt has an id no queued one has; an attempt that leaves takes out only
\* itself, as no other queued attempt has its id.
LEMMA EnqueueDuplicateStep ==
  ASSUME AttemptInvariant, NEW a \in Attempt, NEW h \in Peer, NEW c \in Peer,
         EnqueueDuplicate(a, h, c)
  PROVE  AttemptInvariant'
<1>1. /\ attempts' \in [Attempt -> AttemptFields]
      /\ Made' = Made \cup {a}
      /\ attempts'[a].isSuccess = FALSE
      /\ \A b \in Attempt \ {a} : attempts'[b] = attempts[b]
      /\ \A b \in Made : b # a /\ IdOf(b)' = IdOf(b)
  BY MadeByEnqueue DEF AttemptInvariant, EnqueueDuplicate
<1>2. UNCHANGED <<queue, reports, processor, race>>
  BY DEF EnqueueDuplicate
<1>3. attempts[a] = Unmade
  BY DEF EnqueueDuplicate
<1>4. AttemptTypeOK'
  BY <1>1, <1>2 DEF AttemptInvariant, AttemptTypeOK
<1>5. QueueHoldsOpenRaces'
  BY <1>1, <1>2 DEF AttemptInvariant, AttemptTypeOK, QueueHoldsOpenRaces
<1>6. SuccessIsReported'
  BY <1>1, <1>2 DEF AttemptInvariant, SuccessIsReported, Made
<1>7. \A b \in Attempt :
        /\ race'[b] = "unstarted" <=> processor'[b] = "unstarted"
        /\ attempts'[b] = Unmade => race'[b] = "unstarted"
  BY <1>1, <1>2, <1>3 DEF AttemptInvariant
<1> QED
  BY <1>4, <1>5, <1>6, <1>7 DEF AttemptInvariant

\* An attempt that is taken up has an id no attempt in the map has.
LEMMA EnqueueStep ==
  ASSUME AttemptInvariant, NEW a \in Attempt, NEW h \in Peer, NEW c \in Peer,
         Enqueue(a, h, c)
  PROVE  AttemptInvariant'
<1>1. /\ attempts' \in [Attempt -> AttemptFields]
      /\ Made' = Made \cup {a}
      /\ attempts'[a].isSuccess = FALSE
      /\ IdOf(a)' = AttemptId(h, c)
      /\ \A b \in Attempt \ {a} : attempts'[b] = attempts[b]
      /\ \A b \in Made : b # a /\ IdOf(b)' = IdOf(b)
  BY MadeByEnqueue DEF AttemptInvariant, Enqueue
<1>2. /\ queue' = queue \cup {a}
      /\ race' = [race EXCEPT ![a] = "open"]
      /\ processor' = [processor EXCEPT ![a] = "awaiting"]
      /\ reports' = reports
      /\ ~IsQueued(AttemptId(h, c))
  BY DEF Enqueue
<1>3. AttemptTypeOK'
  BY <1>1, <1>2 DEF AttemptInvariant, AttemptTypeOK
<1>4. QueueHoldsOpenRaces'
  <2>1. queue' = {b \in Attempt : race'[b] \in {"open", "timeout", "processed"}}
    BY <1>2 DEF AttemptInvariant, AttemptTypeOK, QueueHoldsOpenRaces
  <2>2. \A b \in queue : b \in Made /\ IdOf(b)' # IdOf(a)'
    BY <1>1, <1>2 DEF AttemptInvariant, AttemptTypeOK, IsQueued
  <2> QED
    BY <1>1, <1>2, <2>1, <2>2 DEF AttemptInvariant, QueueHoldsOpenRaces
<1>5. SuccessIsReported'
  BY <1>1, <1>2 DEF AttemptInvariant, SuccessIsReported, Made
<1>6. \A b \in Attempt :
        /\ race'[b] = "unstarted" <=> processor'[b] = "unstarted"
        /\ attempts'[b] = Unmade => race'[b] = "unstarted"
  <2>1. attempts'[a] # Unmade
    BY <1>1 DEF Made
  <2> QED
    BY <1>1, <1>2, <2>1 DEF AttemptInvariant, AttemptTypeOK
<1> QED
  BY <1>3, <1>4, <1>5, <1>6 DEF AttemptInvariant

\* A report is recorded for an attempt whose processor still waits.
LEMMA ReportStep ==
  ASSUME AttemptInvariant, NEW a \in Attempt, NEW s \in Side,
         NEW r \in {"yes", "no", "error"}, PeerReports(a, s, r)
  PROVE  AttemptInvariant'
<1>1. /\ UNCHANGED <<attempts, queue, processor, race>>
      /\ reports[a][s] = "awaited"
      /\ reports' = [reports EXCEPT ![a][s] = r]
  BY DEF PeerReports
<1>2. reports' \in [Attempt -> [Side -> {"awaited", "yes", "no", "error"}]]
  BY <1>1 DEF AttemptInvariant, AttemptTypeOK
<1>3. AttemptTypeOK'
  BY <1>1, <1>2 DEF AttemptInvariant, AttemptTypeOK, Made
<1>4. QueueHoldsOpenRaces'
  BY <1>1 DEF AttemptInvariant, QueueHoldsOpenRaces, IdOf, AttemptId
<1>5. SuccessIsReported'
  <2>1. \A b \in Attempt \ {a} : reports'[b] = reports[b]
    BY <1>1 DEF AttemptInvariant, AttemptTypeOK
  <2>2. a \in Made => ~attempts[a].isSuccess
    BY <1>1 DEF AttemptInvariant, SuccessIsReported
  <2> QED
    BY <1>1, <2>1, <2>2 DEF AttemptInvariant, SuccessIsReported, Made
<1> QED
  BY <1>1, <1>3, <1>4, <1>5 DEF AttemptInvariant

\* The processor calls an attempt a success if both peers said so.
LEMMA ReturnStep ==
  ASSUME AttemptInvariant, NEW a \in Attempt, ProcessorReturns(a)
  PROVE  AttemptInvariant'
<1> DEFINE ok == IF Failed(a) THEN attempts[a].isSuccess ELSE EverySuccess(a)
<1>1. /\ attempts' = [attempts EXCEPT ![a].state = "done", ![a].isSuccess = ok]
      /\ processor[a] = "awaiting"
      /\ processor' = [processor EXCEPT ![a] = "returned"]
      /\ race' = [race EXCEPT ![a] = IF @ = "open" THEN "processed" ELSE @]
      /\ queue' = queue /\ reports' = reports
  BY DEF ProcessorReturns
<1>2. attempts[a] # Unmade
  BY <1>1 DEF AttemptInvariant
<1>3. attempts[a].isSuccess \in BOOLEAN
  BY <1>2 DEF AttemptInvariant, AttemptTypeOK, AttemptFields
<1>4. /\ ok \in BOOLEAN
      /\ ok => \A s \in Side : reports[a][s] = "yes"
  BY <1>2, <1>3 DEF EverySuccess, AttemptInvariant, SuccessIsReported, Made
<1> HIDE DEF ok
<1>5. /\ attempts' \in [Attempt -> AttemptFields]
      /\ Made' = Made
      /\ attempts'[a].state = "done"
      /\ attempts'[a].isSuccess = ok
      /\ \A b \in Attempt \ {a} : attempts'[b] = attempts[b]
      /\ \A b \in Made : IdOf(b)' = IdOf(b)
  BY <1>1, <1>2, <1>4, OutcomeOnly DEF AttemptInvariant
<1>6. /\ race' \in [Attempt -> {"unstarted", "open", "timeout", "processed", "over"}]
      /\ processor' \in [Attempt -> {"unstarted", "awaiting", "returned"}]
  BY <1>1 DEF AttemptInvariant, AttemptTypeOK
<1>7. AttemptTypeOK'
  BY <1>1, <1>5, <1>6 DEF AttemptInvariant, AttemptTypeOK
<1>8. QueueHoldsOpenRaces'
  <2>1. queue' = {b \in Attempt : race'[b] \in {"open", "timeout", "processed"}}
    BY <1>1 DEF AttemptInvariant, AttemptTypeOK, QueueHoldsOpenRaces
  <2> QED
    BY <1>1, <1>5, <2>1 DEF AttemptInvariant, AttemptTypeOK, QueueHoldsOpenRaces
<1>9. SuccessIsReported'
  BY <1>1, <1>4, <1>5 DEF AttemptInvariant, SuccessIsReported, Made
<1>10. \A b \in Attempt :
         /\ race'[b] = "unstarted" <=> processor'[b] = "unstarted"
         /\ attempts'[b] = Unmade => race'[b] = "unstarted"
  <2>1. attempts'[a] # Unmade
    BY <1>2, <1>5 DEF Made
  <2>2. race[a] # "unstarted"
    BY <1>1 DEF AttemptInvariant
  <2> QED
    BY <1>1, <1>5, <2>1, <2>2 DEF AttemptInvariant, AttemptTypeOK
<1> QED
  BY <1>7, <1>8, <1>9, <1>10 DEF AttemptInvariant

\* The timer changes the race and nothing else.
LEMMA TimerStep ==
  ASSUME AttemptInvariant, NEW a \in Attempt, TimerFires(a)
  PROVE  AttemptInvariant'
<1>1. /\ race[a] = "open" /\ race' = [race EXCEPT ![a] = "timeout"]
      /\ UNCHANGED <<attempts, queue, reports, processor>>
  BY DEF TimerFires
<1>2. AttemptTypeOK'
  BY <1>1 DEF AttemptInvariant, AttemptTypeOK, Made
<1>3. QueueHoldsOpenRaces'
  BY <1>1 DEF AttemptInvariant, AttemptTypeOK, QueueHoldsOpenRaces, IdOf, AttemptId
<1>4. SuccessIsReported'
  BY <1>1 DEF AttemptInvariant, SuccessIsReported, Made
<1>5. \A b \in Attempt :
        /\ race'[b] = "unstarted" <=> processor'[b] = "unstarted"
        /\ attempts'[b] = Unmade => race'[b] = "unstarted"
  BY <1>1 DEF AttemptInvariant, AttemptTypeOK
<1> QED
  BY <1>2, <1>3, <1>4, <1>5 DEF AttemptInvariant

\* The attempt that is over takes itself out, as no other has its id.
LEMMA ConcludeStep ==
  ASSUME AttemptInvariant, NEW a \in Attempt, Conclude(a)
  PROVE  AttemptInvariant'
<1>1. /\ race[a] \in {"timeout", "processed"}
      /\ race' = [race EXCEPT ![a] = "over"]
      /\ queue' = {b \in queue : IdOf(b) # IdOf(a)}
      /\ reports' = reports /\ processor' = processor
  BY DEF Conclude
<1>2. a \in queue /\ attempts[a] # Unmade
  BY <1>1 DEF AttemptInvariant, QueueHoldsOpenRaces
<1>3. queue' = queue \ {a}
  BY <1>1, <1>2 DEF AttemptInvariant, QueueHoldsOpenRaces
<1>4. /\ attempts' \in [Attempt -> AttemptFields]
      /\ Made' = Made
      /\ attempts'[a].isSuccess => attempts' = attempts
      /\ \A b \in Attempt \ {a} : attempts'[b] = attempts[b]
      /\ \A b \in Made : IdOf(b)' = IdOf(b)
  <2>1. CASE race[a] = "timeout"
    <3>1. attempts' = [attempts EXCEPT ![a].state = "done", ![a].isSuccess = FALSE]
      BY <2>1 DEF Conclude
    <3> QED
      BY <1>2, <3>1, OutcomeOnly DEF AttemptInvariant
  <2>2. CASE race[a] # "timeout"
    <3>1. attempts' = attempts
      BY <2>2 DEF Conclude
    <3> QED
      BY <3>1 DEF AttemptInvariant, AttemptTypeOK, Made, IdOf, AttemptId
  <2> QED
    BY <2>1, <2>2
<1>5. race' \in [Attempt -> {"unstarted", "open", "timeout", "processed", "over"}]
  BY <1>1 DEF AttemptInvariant, AttemptTypeOK
<1>6. AttemptTypeOK'
  BY <1>1, <1>3, <1>4, <1>5 DEF AttemptInvariant, AttemptTypeOK
<1>7. QueueHoldsOpenRaces'
  <2>1. queue' = {b \in Attempt : race'[b] \in {"open", "timeout", "processed"}}
    BY <1>1, <1>3 DEF AttemptInvariant, AttemptTypeOK, QueueHoldsOpenRaces
  <2> QED
    BY <1>3, <1>4, <2>1 DEF AttemptInvariant, AttemptTypeOK, QueueHoldsOpenRaces
<1>8. SuccessIsReported'
  <2> SUFFICES ASSUME NEW b \in Made', attempts'[b].isSuccess
               PROVE  /\ attempts'[b].state = "done"
                      /\ \A s \in Side : reports'[b][s] = "yes"
    BY DEF SuccessIsReported
  <2>1. b \in Made /\ attempts'[b] = attempts[b]
    BY <1>4 DEF Made
  <2> QED
    BY <1>1, <2>1 DEF AttemptInvariant, SuccessIsReported
<1>9. \A b \in Attempt :
        /\ race'[b] = "unstarted" <=> processor'[b] = "unstarted"
        /\ attempts'[b] = Unmade => race'[b] = "unstarted"
  <2>1. attempts'[a] # Unmade
    BY <1>2, <1>4 DEF Made
  <2> QED
    BY <1>1, <1>4, <2>1 DEF AttemptInvariant, AttemptTypeOK
<1> QED
  BY <1>6, <1>7, <1>8, <1>9 DEF AttemptInvariant

\* The invariant holds in every state the queue can reach.
THEOREM AttemptsCorrect == AttemptSpec => []AttemptInvariant
<1>1. AttemptInit => AttemptInvariant
  BY DEF AttemptInit, AttemptInvariant, AttemptTypeOK, QueueHoldsOpenRaces,
         SuccessIsReported, Made, AttemptFields
<1>2. AttemptInvariant /\ [AttemptNext]_attemptVars => AttemptInvariant'
  <2> SUFFICES ASSUME AttemptInvariant, [AttemptNext]_attemptVars
               PROVE  AttemptInvariant'
    OBVIOUS
  <2>1. ASSUME NEW a \in Attempt, AttemptStep(a)
        PROVE  AttemptInvariant'
    BY <2>1, EnqueueDuplicateStep, EnqueueStep, ReportStep, ReturnStep,
       TimerStep, ConcludeStep DEF AttemptStep
  <2>2. CASE UNCHANGED attemptVars
    BY <2>2 DEF attemptVars, AttemptInvariant, AttemptTypeOK, Made,
                QueueHoldsOpenRaces, SuccessIsReported, IdOf, AttemptId
  <2> QED
    BY <2>1, <2>2 DEF AttemptNext
<1> QED
  BY <1>1, <1>2, PTL DEF AttemptSpec

\* The map and the races agree, whatever ids the template literal gives.
THEOREM QueueIsRight == AttemptSpec => []QueueHoldsOpenRaces
<1>1. AttemptInvariant => QueueHoldsOpenRaces
  BY DEF AttemptInvariant
<1> QED
  BY <1>1, AttemptsCorrect, PTL

\* No order of reports, timer and processor makes an unreported success.
THEOREM SuccessIsReal == AttemptSpec => []SuccessIsReported
<1>1. AttemptInvariant => SuccessIsReported
  BY DEF AttemptInvariant
<1> QED
  BY <1>1, AttemptsCorrect, PTL

\* The delete(id) in one attempt's finally takes out that attempt only.
THEOREM LeavingIsOrderly == AttemptSpec => LeavesQueueWhenSettled
<1>1. AttemptInvariant /\ [AttemptNext]_attemptVars
        => [\A a \in queue \ queue' : race[a] \in {"timeout", "processed"}]_attemptVars
  <2> SUFFICES ASSUME AttemptInvariant, AttemptNext,
                      NEW b \in queue, b \notin queue'
               PROVE  race[b] \in {"timeout", "processed"}
    OBVIOUS
  <2>1. ASSUME NEW a \in Attempt, Conclude(a)
        PROVE  a = b
    BY <2>1 DEF Conclude, AttemptInvariant, QueueHoldsOpenRaces
  <2>2. ASSUME queue \subseteq queue'
        PROVE  FALSE
    BY <2>2
  <2>3. PICK a \in Attempt : Conclude(a)
    BY <2>2 DEF AttemptNext, AttemptStep, EnqueueDuplicate, Enqueue,
                PeerReports, ProcessorReturns, TimerFires
  <2> QED
    BY <2>1, <2>3 DEF Conclude
<1> QED
  BY <1>1, AttemptsCorrect, PTL DEF AttemptSpec, LeavesQueueWhenSettled

\* The variables stay in their types.
THEOREM AttemptTypes == AttemptSpec => []AttemptTypeOK
<1>1. AttemptInvariant => AttemptTypeOK
  BY DEF AttemptInvariant
<1> QED
  BY <1>1, AttemptsCorrect, PTL

\* Taking up an attempt adds one link, whose id was not pending.
LEMMA EnqueueTakesLink ==
  ASSUME AttemptInvariant, NEW a \in Attempt, NEW h \in Peer, NEW c \in Peer,
         Enqueue(a, h, c)
  PROVE  Queue!QueueNext
<1>1. /\ attempts[a] = Unmade /\ queue' = queue \cup {a}
      /\ ~IsQueued(AttemptId(h, c))
  BY DEF Enqueue
<1>2. /\ LinkOf(a)' = <<h, c>>
      /\ \A b \in Attempt \ {a} : attempts'[b] = attempts[b]
  BY <1>1, MadeByEnqueue DEF Enqueue, AttemptInvariant
<1>3. \A b \in queue : LinkOf(b)' = LinkOf(b)
  BY <1>1, <1>2 DEF LinkOf, AttemptInvariant, AttemptTypeOK, Made
<1>4. QueuedLinks' = QueuedLinks \cup {<<h, c>>}
  BY <1>1, <1>2, <1>3 DEF QueuedLinks
<1>5. ~Queue!IsPending(<<h, c>>)
  <2> SUFFICES ASSUME NEW b \in queue,
                      Queue!IdOfLink(LinkOf(b)) = Queue!IdOfLink(<<h, c>>)
               PROVE  FALSE
    BY DEF Queue!IsPending, QueuedLinks
  <2>1. IdOf(b) = AttemptId(h, c)
    BY DEF Queue!IdOfLink, LinkOf, IdOf, AttemptId
  <2> QED
    BY <1>1, <2>1 DEF IsQueued
<1>6. <<h, c>> \notin QueuedLinks
  BY <1>5 DEF Queue!IsPending
<1>7. QueuedLinks' \ QueuedLinks = {<<h, c>>}
  BY <1>4, <1>6
<1> QED
  BY <1>4, <1>5, <1>7 DEF Queue!QueueNext, Queue!Take, Queue!Link

\* An attempt that leaves takes out its link: no other queued attempt has it,
\* as it would have the same id.
LEMMA ConcludeEndsLink ==
  ASSUME AttemptInvariant, NEW a \in Attempt, Conclude(a)
  PROVE  Queue!QueueNext
<1>1. a \in queue /\ a \in Made
  BY DEF Conclude, AttemptInvariant, QueueHoldsOpenRaces, AttemptTypeOK
<1>2. queue' = queue \ {a}
  BY <1>1 DEF Conclude, AttemptInvariant, QueueHoldsOpenRaces
<1>3. \A b \in Made : LinkOf(b)' = LinkOf(b)
  <2>1. CASE race[a] = "timeout"
    <3>1. attempts' = [attempts EXCEPT ![a].state = "done", ![a].isSuccess = FALSE]
      BY <2>1 DEF Conclude
    <3> QED
      BY <1>1, <3>1, OutcomeOnly DEF AttemptInvariant, Made
  <2>2. CASE race[a] # "timeout"
    BY <2>2 DEF Conclude, LinkOf
  <2> QED
    BY <2>1, <2>2
<1>4. \A b \in queue : LinkOf(b) = LinkOf(a) => b = a
  <2>1. \A b \in queue : LinkOf(b) = LinkOf(a) => IdOf(b) = IdOf(a)
    BY DEF LinkOf, IdOf, AttemptId
  <2> QED
    BY <1>1, <2>1 DEF AttemptInvariant, QueueHoldsOpenRaces
<1>5. QueuedLinks' = QueuedLinks \ {LinkOf(a)}
  BY <1>2, <1>3, <1>4 DEF QueuedLinks, AttemptInvariant, AttemptTypeOK
<1>6. LinkOf(a) \in QueuedLinks /\ LinkOf(a) \in Queue!Link
  BY <1>1 DEF QueuedLinks, LinkOf, Queue!Link, AttemptInvariant, AttemptTypeOK,
              Made, AttemptFields
<1> QED
  BY <1>5, <1>6 DEF Queue!QueueNext, Queue!End

\* The other steps leave the links alone.
LEMMA LinksUntouched ==
  ASSUME AttemptInvariant, NEW a \in Attempt,
         \/ \E h, c \in Peer : EnqueueDuplicate(a, h, c)
         \/ \E s \in Side, r \in {"yes", "no", "error"} : PeerReports(a, s, r)
         \/ ProcessorReturns(a)
         \/ TimerFires(a)
  PROVE  QueuedLinks' = QueuedLinks
<1>1. queue' = queue /\ queue \subseteq Made
  BY DEF EnqueueDuplicate, PeerReports, ProcessorReturns, TimerFires,
         AttemptInvariant, AttemptTypeOK
<1>2. \A b \in Made : LinkOf(b)' = LinkOf(b)
  <2>1. ASSUME NEW h \in Peer, NEW c \in Peer, EnqueueDuplicate(a, h, c)
        PROVE  \A b \in Made : LinkOf(b)' = LinkOf(b)
    <3>1. /\ attempts[a] = Unmade
          /\ attempts' = [attempts EXCEPT ![a] = NewAttempt(h, c, "pending")]
      BY <2>1 DEF EnqueueDuplicate
    <3>2. \A b \in Attempt \ {a} : attempts'[b] = attempts[b]
      BY <3>1, MadeByEnqueue DEF AttemptInvariant
    <3> QED
      BY <3>1, <3>2 DEF LinkOf, Made
  <2>2. CASE ProcessorReturns(a)
    <3> DEFINE ok == IF Failed(a) THEN attempts[a].isSuccess ELSE EverySuccess(a)
    <3>1. attempts' = [attempts EXCEPT ![a].state = "done", ![a].isSuccess = ok]
      BY <2>2 DEF ProcessorReturns
    <3>2. attempts[a] # Unmade
      BY <2>2 DEF ProcessorReturns, AttemptInvariant
    <3>3. ok \in BOOLEAN
      BY <3>2 DEF EverySuccess, AttemptInvariant, AttemptTypeOK, AttemptFields
    <3> HIDE DEF ok
    <3> QED
      BY <3>1, <3>2, <3>3, OutcomeOnly DEF AttemptInvariant
  <2>3. ASSUME attempts' = attempts
        PROVE  \A b \in Made : LinkOf(b)' = LinkOf(b)
    BY <2>3 DEF LinkOf
  <2> QED
    BY <2>1, <2>2, <2>3 DEF PeerReports, TimerFires
<1> QED
  BY <1>1, <1>2 DEF QueuedLinks

\* The component implements the queue of links.
THEOREM QueueIsImplemented == AttemptSpec => ImplementsQueue
<1>1. AttemptInit => Queue!QueueInit
  BY DEF AttemptInit, Queue!QueueInit, QueuedLinks
<1>2. AttemptInvariant /\ [AttemptNext]_attemptVars => [Queue!QueueNext]_QueuedLinks
  <2> SUFFICES ASSUME AttemptInvariant, [AttemptNext]_attemptVars
               PROVE  Queue!QueueNext \/ UNCHANGED QueuedLinks
    OBVIOUS
  <2>1. ASSUME NEW a \in Attempt, AttemptStep(a)
        PROVE  Queue!QueueNext \/ UNCHANGED QueuedLinks
    BY <2>1, EnqueueTakesLink, ConcludeEndsLink, LinksUntouched DEF AttemptStep
  <2>2. CASE UNCHANGED attemptVars
    BY <2>2 DEF attemptVars, QueuedLinks, LinkOf
  <2> QED
    BY <2>1, <2>2 DEF AttemptNext
<1> QED
  BY <1>1, <1>2, AttemptsCorrect, PTL DEF AttemptSpec, ImplementsQueue, Queue!QueueSpec

-----------------------------------------------------------------------------
(* Outcomes that are final *)

\* Only a processor that has returned makes a success.
SuccessIsOfProcessor == \A a \in Made : attempts[a].isSuccess => processor[a] = "returned"

\* An attempt whose race is over, and that is a success or whose processor has
\* returned, changes no more.
OutcomeIsFinal ==
  [][\A a \in Made :
       /\ race[a] = "over"
       /\ attempts[a].isSuccess \/ processor[a] = "returned"
       => attempts'[a] = attempts[a]]_attemptVars

\* A step of one attempt leaves the others as they are.
LEMMA OthersUntouched ==
  ASSUME AttemptInvariant, NEW a \in Attempt, AttemptStep(a), NEW b \in Attempt, b # a
  PROVE  attempts'[b] = attempts[b] /\ processor'[b] = processor[b]
  BY DEF AttemptInvariant, AttemptTypeOK, AttemptStep, EnqueueDuplicate, Enqueue, PeerReports,
         ProcessorReturns, TimerFires, Conclude

\* What a step makes of the attempt it is a step of
LEMMA OutcomeStep ==
  ASSUME AttemptInvariant, SuccessIsOfProcessor, NEW a \in Attempt, AttemptStep(a)
  PROVE  /\ a \in Made' /\ attempts'[a].isSuccess => processor'[a] = "returned"
         /\ (a \in Made /\ race[a] = "over" /\ processor[a] = "returned")
              => attempts'[a] = attempts[a]
<1>1. /\ attempts \in [Attempt -> AttemptFields]
      /\ processor \in [Attempt -> {"unstarted", "awaiting", "returned"}]
  BY DEF AttemptInvariant, AttemptTypeOK
<1>2. ASSUME NEW h \in Peer, NEW c \in Peer, EnqueueDuplicate(a, h, c) \/ Enqueue(a, h, c)
      PROVE  attempts[a] = Unmade /\ attempts'[a].isSuccess = FALSE
  <2>1. PICK st \in {"pending", "running"} :
          /\ attempts[a] = Unmade
          /\ attempts' = [attempts EXCEPT ![a] = NewAttempt(h, c, st)]
    BY <1>2 DEF EnqueueDuplicate, Enqueue
  <2> QED
    BY <2>1, MadeByEnqueue DEF AttemptInvariant
<1>3. ASSUME NEW s \in Side, NEW r, PeerReports(a, s, r)
      PROVE  attempts' = attempts /\ processor' = processor
  BY <1>3 DEF PeerReports
<1>4. CASE ProcessorReturns(a)
  BY <1>1, <1>4 DEF ProcessorReturns
<1>5. CASE TimerFires(a)
  BY <1>5 DEF TimerFires, SuccessIsOfProcessor, Made
<1>6. CASE Conclude(a)
  <2>1. race[a] # "over" /\ processor' = processor
    BY <1>6 DEF Conclude
  <2>2. attempts[a] # Unmade
    BY <1>6 DEF Conclude, AttemptInvariant
  <2>3. attempts' = attempts \/ attempts'[a].isSuccess = FALSE
    BY <1>6, <2>2, OutcomeOnly DEF Conclude, AttemptInvariant
  <2> QED
    BY <2>1, <2>2, <2>3 DEF SuccessIsOfProcessor, Made
<1> QED
  BY <1>2, <1>3, <1>4, <1>5, <1>6 DEF AttemptStep, SuccessIsOfProcessor, Made

\* A processor that resumes long after its timer can turn a failure into a
\* success, but nothing undoes the outcome of an attempt that is over once its
\* processor has returned, and no success at all: neither another timer or
\* processor nor a new attempt of the same pair.
THEOREM OutcomesAreFinal == AttemptSpec => OutcomeIsFinal
<1>1. AttemptInit => SuccessIsOfProcessor
  BY DEF AttemptInit, SuccessIsOfProcessor, Made
<1>2. AttemptInvariant /\ SuccessIsOfProcessor /\ [AttemptNext]_attemptVars
        => SuccessIsOfProcessor'
  <2> SUFFICES ASSUME AttemptInvariant, SuccessIsOfProcessor, [AttemptNext]_attemptVars,
                      NEW b \in Made', attempts'[b].isSuccess
               PROVE  processor'[b] = "returned"
    BY DEF SuccessIsOfProcessor
  <2>1. CASE UNCHANGED attemptVars
    BY <2>1 DEF attemptVars, SuccessIsOfProcessor, Made
  <2>2. ASSUME NEW a \in Attempt, AttemptStep(a)
        PROVE  processor'[b] = "returned"
    BY <2>2, OthersUntouched, OutcomeStep DEF SuccessIsOfProcessor, Made
  <2> QED
    BY <2>1, <2>2 DEF AttemptNext
<1>3. AttemptInvariant /\ SuccessIsOfProcessor /\ [AttemptNext]_attemptVars
        => [\A a \in Made :
              /\ race[a] = "over"
              /\ attempts[a].isSuccess \/ processor[a] = "returned"
              => attempts'[a] = attempts[a]]_attemptVars
  <2> SUFFICES ASSUME AttemptInvariant, SuccessIsOfProcessor, AttemptNext,
                      NEW b \in Made, race[b] = "over",
                      attempts[b].isSuccess \/ processor[b] = "returned"
               PROVE  attempts'[b] = attempts[b]
    OBVIOUS
  <2>1. PICK a \in Attempt : AttemptStep(a)
    BY DEF AttemptNext
  <2>2. b \in Attempt /\ processor[b] = "returned"
    BY DEF Made, SuccessIsOfProcessor
  <2> QED
    BY <2>1, <2>2, OthersUntouched, OutcomeStep
<1> QED
  BY <1>1, <1>2, <1>3, AttemptsCorrect, PTL DEF AttemptSpec, OutcomeIsFinal
=============================================================================

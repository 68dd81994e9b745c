------------------------- MODULE ConnectionAttempts -------------------------
(***************************************************************************)
(* The connectivity checks between players: src/src/connection.            *)
(*                                                                         *)
(* An attempt asks a hosting and a connecting peer to shake hands and      *)
(* waits for the reports of both.  The queue keeps it until the race       *)
(* between its processor and a timer is over.  Nothing cancels the         *)
(* processor when the timer wins: it goes on waiting for the reports.      *)
(*                                                                         *)
(* Abstracted: the messages; a peer reports "yes" (success: true), "no"    *)
(* (anything else the schema accepts) or "error" (sending or validating    *)
(* throws, or the connection breaks).                                      *)
(* Bound: Attempt is the finite set of attempt objects that may be made.   *)
(***************************************************************************)
CONSTANTS
  Peer,
  Attempt,   \* attempt objects
  Name,      \* what a template literal can turn a Peer into
  PeerName   \* what it turns each of them into: nlon decides

ASSUME PeerNameAssumption == PeerName \in [Peer -> Name]

VARIABLES
  attempts,   \* the fields of each attempt object
  queue,      \* the attempts in ConnectionAttemptQueue's map
  reports,    \* what the peers of an attempt have reported
  processor,  \* where processConnectionAttempt has got to
  race        \* who has settled withTimeout's race

attemptVars == <<attempts, queue, reports, processor, race>>

Side == {"hosting", "connecting"}

Unmade == [state |-> "unmade"]

AttemptFields ==
  {Unmade} \cup
  [state : {"pending", "running", "done"}, isSuccess : BOOLEAN,
   hosting : Peer, connecting : Peer]

Made == {a \in Attempt : attempts[a] # Unmade}

\* "over": then, catch and finally have run.  An attempt that was dropped as
\* a duplicate stays "unstarted", and its state "pending".
AttemptTypeOK ==
  /\ attempts \in [Attempt -> AttemptFields]
  /\ queue \subseteq Made
  /\ reports \in [Attempt -> [Side -> {"awaited", "yes", "no", "error"}]]
  /\ processor \in [Attempt -> {"unstarted", "awaiting", "returned"}]
  /\ race \in [Attempt -> {"unstarted", "open", "timeout", "processed", "over"}]

AttemptInit ==
  /\ attempts = [a \in Attempt |-> Unmade]
  /\ queue = {}
  /\ reports = [a \in Attempt |-> [s \in Side |-> "awaited"]]
  /\ processor = [a \in Attempt |-> "unstarted"]
  /\ race = [a \in Attempt |-> "unstarted"]

-----------------------------------------------------------------------------
(* Helpers *)

\* #getAttemptId
AttemptId(h, c) == <<PeerName[h], PeerName[c]>>
IdOf(a) == AttemptId(attempts[a].hosting, attempts[a].connecting)

IsQueued(id) == \E b \in queue : IdOf(b) = id

NewAttempt(h, c, st) ==
  [state |-> st, isSuccess |-> FALSE, hosting |-> h, connecting |-> c]

Failed(a) == \E s \in Side : reports[a][s] = "error"

\* Mutant: one confirmation is enough.
AnySuccess(a) == \E s \in Side : reports[a][s] = "yes"

\* results.every(result => result?.success === true)
EverySuccess(a) == \A s \in Side : reports[a][s] = "yes"

\* Promise.all rejects with the first error, resolves with the last report.
AllSettled(a) == Failed(a) \/ \A s \in Side : reports[a][s] \in {"yes", "no"}

-----------------------------------------------------------------------------
(* Actions *)

\* enqueue finds the id in the map and ignores the attempt.
EnqueueDuplicate(a, h, c) ==
  /\ attempts[a] = Unmade
  /\ IsQueued(AttemptId(h, c))
  /\ attempts' = [attempts EXCEPT ![a] = NewAttempt(h, c, "pending")]
  /\ UNCHANGED <<queue, reports, processor, race>>

\* Mutant: the map entry of an attempt under way is overwritten.
EnqueueUnchecked(a, h, c) ==
  /\ attempts[a] = Unmade
  /\ attempts' = [attempts EXCEPT ![a] = NewAttempt(h, c, "running")]
  /\ queue' = {b \in queue : IdOf(b) # AttemptId(h, c)} \cup {a}
  /\ processor' = [processor EXCEPT ![a] = "awaiting"]
  /\ race' = [race EXCEPT ![a] = "open"]
  /\ UNCHANGED reports

\* enqueue stores the attempt and starts the timer and the processor, which
\* sends both requests and runs up to its await.
Enqueue(a, h, c) ==
  /\ attempts[a] = Unmade
  /\ ~IsQueued(AttemptId(h, c))
  /\ attempts' = [attempts EXCEPT ![a] = NewAttempt(h, c, "running")]
  /\ queue' = queue \cup {a}
  /\ processor' = [processor EXCEPT ![a] = "awaiting"]
  /\ race' = [race EXCEPT ![a] = "open"]
  /\ UNCHANGED reports

\* A peer reports, or never will.
PeerReports(a, s, r) ==
  /\ processor[a] = "awaiting"
  /\ reports[a][s] = "awaited"
  /\ reports' = [reports EXCEPT ![a][s] = r]
  /\ UNCHANGED <<attempts, queue, processor, race>>

\* Mutant: a failed attempt gets a state of its own.
ProcessorMarksFailure(a) ==
  /\ processor[a] = "awaiting"
  /\ AllSettled(a)
  /\ attempts' =
       [attempts EXCEPT ![a].state = IF Failed(a) THEN "failed" ELSE "done",
                        ![a].isSuccess = IF Failed(a) THEN @ ELSE EverySuccess(a)]
  /\ processor' = [processor EXCEPT ![a] = "returned"]
  /\ race' = [race EXCEPT ![a] = IF @ = "open" THEN "processed" ELSE @]
  /\ UNCHANGED <<queue, reports>>

\* The processor resumes after its await, however long ago the timer went
\* off, and returns the outcome or throws; either way its finally block
\* sets the state.
ProcessorReturns(a) ==
  /\ processor[a] = "awaiting"
  /\ AllSettled(a)
  /\ attempts' =
       [attempts EXCEPT ![a].state = "done",
                        ![a].isSuccess = IF Failed(a) THEN @ ELSE EverySuccess(a)]
  /\ processor' = [processor EXCEPT ![a] = "returned"]
  /\ race' = [race EXCEPT ![a] = IF @ = "open" THEN "processed" ELSE @]
  /\ UNCHANGED <<queue, reports>>

\* The timer goes off while the race is open.  Promise reactions run before
\* the next timer does: a processor that can resume is not overtaken.
TimerFires(a) ==
  /\ race[a] = "open"
  /\ ~AllSettled(a)
  /\ race' = [race EXCEPT ![a] = "timeout"]
  /\ UNCHANGED <<attempts, queue, reports, processor>>

\* Mutant: the entry is deleted in then(), which an error skips.
ConcludeOnlyOnResult(a) ==
  /\ race[a] \in {"timeout", "processed"}
  /\ attempts' = IF race[a] = "timeout"
                 THEN [attempts EXCEPT ![a].state = "done", ![a].isSuccess = FALSE]
                 ELSE attempts
  /\ queue' = IF race[a] = "processed" /\ Failed(a) THEN queue
              ELSE {b \in queue : IdOf(b) # IdOf(a)}
  /\ race' = [race EXCEPT ![a] = "over"]
  /\ UNCHANGED <<reports, processor>>

\* then or catch, and finally: a timeout fails the attempt, and the map
\* forgets the id.
Conclude(a) ==
  /\ race[a] \in {"timeout", "processed"}
  /\ attempts' = IF race[a] = "timeout"
                 THEN [attempts EXCEPT ![a].state = "done", ![a].isSuccess = FALSE]
                 ELSE attempts
  /\ queue' = {b \in queue : IdOf(b) # IdOf(a)}
  /\ race' = [race EXCEPT ![a] = "over"]
  /\ UNCHANGED <<reports, processor>>

AttemptStep(a) ==
  \/ \E h, c \in Peer : EnqueueDuplicate(a, h, c) \/ Enqueue(a, h, c)
  \/ \E s \in Side, r \in {"yes", "no", "error"} : PeerReports(a, s, r)
  \/ ProcessorReturns(a)
  \/ TimerFires(a)
  \/ Conclude(a)

AttemptNext == \E a \in Attempt : AttemptStep(a)

\* Timers go off and promise reactions run.  Of the peers nothing is
\* assumed: a report may never come.
AttemptFairness ==
  \A a \in Attempt :
    /\ WF_attemptVars(TimerFires(a))
    /\ WF_attemptVars(ProcessorReturns(a))
    /\ WF_attemptVars(Conclude(a))

AttemptSpec == AttemptInit /\ [][AttemptNext]_attemptVars /\ AttemptFairness

-----------------------------------------------------------------------------
(* Properties *)

\* The map holds exactly the attempts whose race is not over, at most one
\* per id, so the delete(id) of one attempt's finally never hits another's
\* entry, even when the same pair is enqueued again while the processor of
\* the earlier attempt still waits.
QueueHoldsOpenRaces ==
  /\ queue = {a \in Attempt : race[a] \in {"open", "timeout", "processed"}}
  /\ \A a, b \in queue : IdOf(a) = IdOf(b) => a = b

\* An attempt leaves the map only when its own race has been settled.
LeavesQueueWhenSettled ==
  [][\A a \in queue \ queue' : race[a] \in {"timeout", "processed"}]_attemptVars

\* connection.attempt.mjs:32 and the rule of docs/connection-orchestration:
\* an attempt that is not done is not a success, and a success was reported
\* by both peers, at whichever moment reports and timer meet.
SuccessIsReported ==
  \A a \in Made : attempts[a].isSuccess =>
    /\ attempts[a].state = "done"
    /\ \A s \in Side : reports[a][s] = "yes"

\* Every attempt that is taken up leaves the map again, whether or not its
\* peers ever report.
AttemptLeavesQueue ==
  \A a \in Attempt : a \in queue ~> a \notin queue

LinkOf(a) == <<attempts[a].hosting, attempts[a].connecting>>
QueuedLinks == {LinkOf(a) : a \in queue}

Queue == INSTANCE HandshakeQueue WITH pending <- QueuedLinks

\* What the lobbies rely on (see Diagnostics): an attempt is taken up unless
\* one of its id is pending, and goes alone and only when it has ended, however
\* timers, reports and stale processors interleave.
ImplementsQueue == Queue!QueueSpec

\* "If the attempt times out, its state will be updated and outcome set to
\* failure" (connection.attempt.queue.mjs:33): an attempt that has timed out
\* remains failed.
TimedOutStaysFailed ==
  [][\A a \in Attempt :
       (race[a] = "over" /\ ~attempts[a].isSuccess) => ~attempts'[a].isSuccess]_attemptVars
=============================================================================

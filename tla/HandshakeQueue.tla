--------------------------- MODULE HandshakeQueue ---------------------------
(***************************************************************************)
(* What the queue of connection attempts promises to those who put         *)
(* attempts in it: of the links it is given it takes up one per id, unless *)
(* an attempt of that id is pending already, and a link that was taken up  *)
(* stays pending until its own attempt ends.                               *)
(***************************************************************************)
CONSTANTS Peer, Name, PeerName

VARIABLE pending   \* links <<hosting, connecting>> that are being checked

Link == Peer \X Peer

\* The id of an attempt is made of the names of its two peers.
IdOfLink(k) == <<PeerName[k[1]], PeerName[k[2]]>>

IsPending(k) == \E m \in pending : IdOfLink(m) = IdOfLink(k)

QueueInit == pending = {}

Take(N) ==
  /\ N \subseteq Link
  /\ \A k \in N : ~IsPending(k)
  /\ \A k, m \in N : IdOfLink(k) = IdOfLink(m) => k = m
  /\ pending' = pending \cup N

End(k) ==
  /\ k \in pending
  /\ pending' = pending \ {k}

\* The links taken up in a step are those that are pending after it.
QueueNext ==
  \/ Take(pending' \ pending)
  \/ \E k \in Link : End(k)

QueueSpec == QueueInit /\ [][QueueNext]_pending
=============================================================================

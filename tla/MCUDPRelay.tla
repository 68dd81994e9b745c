----------------------------- MODULE MCUDPRelay -----------------------------
(* Instances of UDPRelay for TLC.  AllKinds has a relay that is spammed,    *)
(* one on the same port, one on a port of its own, and the registrar's.    *)
EXTENDS UDPRelay

CONSTANTS a1, a2, a3, q1, q2, q3

MCAddr == {a1, a2, a3}
MCPort == {q1, q2, q3}

OwnPort == {[addr |-> a1, port |-> q1], [addr |-> a2, port |-> q2],
            [addr |-> a3, port |-> q3]}
OneOwnPort == {[addr |-> a1, port |-> q1]}
SamePort == {[addr |-> a, port |-> q1] : a \in {a1, a3}}
AllKinds == SamePort \cup {[addr |-> a2, port |-> q2], [addr |-> a3, port |-> Unset]}
=============================================================================

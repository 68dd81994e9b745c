------------------------ MODULE MCConnectionAttempts ------------------------
(* Instance of ConnectionAttempts for TLC.  Two of the three peers share a   *)
(* name: as a template literal every object without a toString of its own   *)
(* gives the same string, and ids may collide or not.                       *)
EXTENDS ConnectionAttempts

CONSTANTS p1, p2, p3, same, other

MCPeer == {p1, p2, p3}
MCName == {same, other}
MCPeerName == [p \in MCPeer |-> IF p = p3 THEN other ELSE same]
=============================================================================

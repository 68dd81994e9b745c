---------------------------- MODULE MCConstraints ----------------------------
(* Instance of Constraints for TLC.  The relays are alike: symmetry is sound *)
(* for the invariants and action properties, none of which is liveness.      *)
EXTENDS Constraints, TLC

RelaySymmetry == Permutations(Relay)
=============================================================================

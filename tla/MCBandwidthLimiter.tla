------------------------- MODULE MCBandwidthLimiter -------------------------
(* Instance of BandwidthLimiter for TLC. *)
EXTENDS BandwidthLimiter
=============================================================================

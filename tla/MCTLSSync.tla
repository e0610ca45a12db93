----------------------------- MODULE MCTLSSync -----------------------------
(* Two workers and more tasks than the ring has slots, so that it wraps.   *)
EXTENDS TLSSync

CONSTANTS w1, w2
=============================================================================

--------------------------- MODULE MCBreakerCalls ---------------------------
(* Instances of BreakerCalls for TLC. *)
EXTENDS BreakerCalls

CONSTANTS t1, t2, t3
=============================================================================

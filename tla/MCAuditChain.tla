---------------------------- MODULE MCAuditChain ----------------------------
(* Instances of AuditChain for TLC. *)
EXTENDS AuditChain, TLC

CONSTANTS w1, w2, w3, v1

(* Connections are interchangeable. *)
Connections == Permutations(Writers)
=============================================================================

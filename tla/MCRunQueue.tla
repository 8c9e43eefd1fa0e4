----------------------------- MODULE MCRunQueue -----------------------------
(* Instances of RunQueue for TLC. *)
EXTENDS RunQueue, TLC

(* No action or property names a worker. *)
WorkerSymmetry == Permutations(Workers)
=============================================================================

---------------------------- MODULE MCIdempotency ----------------------------
(* Instances of Idempotency for TLC.  Requests and bodies are alike.       *)
EXTENDS Idempotency, TLC

Symmetry == Permutations(Requests) \cup Permutations(Bodies)
=============================================================================

------------------------------ MODULE MCAuditChain ------------------------------
(* Instances of AuditChain for TLC. *)
EXTENDS AuditChain, TLC

MCIds == 1..Cardinality(Requests)

MCSymmetry == Permutations(Requests)
=============================================================================

-------------------------------- MODULE MCRbac --------------------------------
(* Instances of Rbac for TLC. *)
EXTENDS Rbac, TLC

Pairs == {P \in SUBSET Requests : Cardinality(P) = 2}
Each(K) == {P \X K : P \in Pairs}
One(K) == {{r} \X K : r \in Requests}
Mix(K, L) ==
  {({r} \X K) \cup ({q} \X L) : <<r, q>> \in {p \in Requests \X Requests : p[1] # p[2]}}

(* Writers of a list, of a role and of the member; permissions; the        *)
(* feature; the seed, with a member's change that bumps its namespace.     *)
MCOffers ==
  Each({"updateRole", "assign"}) \cup Mix({"updateRole", "setRole"}, {"assign", "remove"})
    \cup Each({"assign", "createPermission", "deletePermission"})
    \cup Mix({"createRole", "deleteRole"}, {"setRole", "deleteRole"})
    \cup Each({"invite", "accept", "deleteRole", "remove"})
    \cup Each({"setFlag", "clearFlag"}) \cup One({"seed", "remove"})

MCSymmetry == Permutations(Requests) \cup Permutations(Roles)
=============================================================================

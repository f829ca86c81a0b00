------------------------------ MODULE MCAccount ------------------------------
(* Instances of Account for TLC. *)
EXTENDS Account, TLC

Pairs == {P \in SUBSET Requests : Cardinality(P) = 2}
Each(K) == {P \X K : P \in Pairs}
One(K) == {{r} \X K : r \in Requests}
Mix(K, L) ==
  {({r} \X K) \cup ({q} \X L) : <<r, q>> \in {p \in Requests \X Requests : p[1] # p[2]}}

(* Three requests guess passwords, two guess and delete, two use 2FA.      *)
TwoFactorKinds == {"login", "setup", "enable", "disable", "verify"}
SignInOffers ==
  {Requests \X {"login", "guess"}} \cup Each({"login", "guess", "delete"})
    \cup One(TwoFactorKinds) \cup Mix({"setup", "enable", "disable"}, {"setup"})
    \cup Mix(TwoFactorKinds \ {"disable"}, {"verify"})

(* What races what: a login, a new token and another reset a reset;        *)
(* sign-ups of three kinds; linking and unlinking; deletion, its job and   *)
(* two ways to sign in; the cut-off and the clock.                         *)
AccountOffers ==
  One({"login", "forgot", "reset"}) \cup Mix({"reset"}, {"forgot", "reset"})
    \cup Each({"register", "create", "oauth"})
    \cup Each({"register", "resend", "verifyEmail", "expire"})
    \cup Each({"oauth", "link", "unlink"})
    \cup One({"login", "delete", "oauth", "link", "anonymize"})
    \cup One({"login", "invalidate", "tick", "use"})
    \cup One({"forgot", "reset", "tick", "use"})

MCOffers == SignInOffers \cup AccountOffers

(* A new login after an invalidation.                                      *)
CutoffOffers == One({"login", "invalidate", "tick", "use"})

MCSymmetry ==
  Permutations(Requests) \cup Permutations(Secrets) \cup Permutations(Batches)
=============================================================================

--------------------------- MODULE MCAuthSessions ---------------------------
(* Instances of AuthSessions for TLC.                                      *)
EXTENDS AuthSessions

CONSTANTS r1, r2, r3

(* One request calls any endpoint that writes; against it run one that     *)
(* reads, refreshes or forces a logout, and one that only reads: a reader  *)
(* on either side of every revocation, and every writer against a refresh. *)
MCOffered ==
  [r \in Requests |-> CASE r = r1 -> Op \ {"none", "me"}
                        [] r = r2 -> {"me", "refresh", "force"}
                        [] r = r3 -> {"me"}]
=============================================================================

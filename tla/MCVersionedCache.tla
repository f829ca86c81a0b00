-------------------------- MODULE MCVersionedCache --------------------------
(* Instances of VersionedCache for TLC.  The properties are temporal, so   *)
(* no symmetry is used.                                                    *)
EXTENDS VersionedCache
=============================================================================

-------------------------- MODULE MCGroupRoleCache --------------------------
(* Instances of GroupRoleCache for TLC. *)
EXTENDS GroupRoleCache

CONSTANTS r1, r2, r3, w1, w2
=============================================================================

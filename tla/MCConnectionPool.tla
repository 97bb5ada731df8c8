-------------------------- MODULE MCConnectionPool --------------------------
(* Instances of ConnectionPool for TLC. *)
EXTENDS ConnectionPool

CONSTANTS b1, b2, o1, o2
=============================================================================

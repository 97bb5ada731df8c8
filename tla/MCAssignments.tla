--------------------------- MODULE MCAssignments ----------------------------
(* Small instances of Assignments. *)
EXTENDS Assignments

CONSTANTS k1, k2, market, irrbb

\* Two risks of one unit, each with its tab.
MCTabOf == [k \in {k1, k2} |-> IF k = k1 THEN market ELSE irrbb]
=============================================================================

------------------------------ MODULE MCDesks -------------------------------
(* Small instances of Desks. *)
EXTENDS Desks, TLC

CONSTANTS k1, k2, q1

MCQuestionOf == [k \in {k1, k2} |-> q1]

\* A unit answers one question, with a weight.
MCUnitOf == [k \in {k1, k2} |-> k]
MCWeighted == [q \in {q1} |-> {k1, k2}]

DeskSymmetry == Permutations(Keys) \cup Permutations(Validators)
=============================================================================

-------------------------- MODULE MCCycleWorkflow --------------------------
(* Instances of CycleWorkflow for TLC. *)
EXTENDS CycleWorkflow, TLC

CONSTANTS k1, k2, q1, r1, r2

TwoKeys == {k1, k2}
OneQuestion == {q1}
SameQuestion == [k \in TwoKeys |-> q1]

\* A workbook parses to some of the keys.
MCSheets == {{k1}, {k2}, {k1, k2}}

KeySymmetry == Permutations(TwoKeys) \cup Permutations({r1, r2})
=============================================================================

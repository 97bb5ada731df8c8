-------------------------- MODULE MCEvidenceFiles --------------------------
(* Instances of EvidenceFiles for TLC. *)
EXTENDS EvidenceFiles, TLC

Symmetry == Permutations(Files) \cup Permutations(Requests)
=============================================================================

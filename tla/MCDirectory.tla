---------------------------- MODULE MCDirectory -----------------------------
(* Small instances of Directory. *)
EXTENDS Directory

CONSTANTS a, b, g

\* b is an administrator to the directory, whatever his row says.
MCRoleOf == [x \in {g} |-> "Admin"]
MCGroupsOf == [u \in {a, b} |-> IF u = b THEN {g} ELSE {}]
=============================================================================

--------------------------- MODULE CycleLifecycle ---------------------------
(***************************************************************************)
(* What the server promises of a cycle, as atomic steps: the status moves  *)
(* along a fixed sequence (generate_workflow_doc.py:138), the answers are  *)
(* issued once, only issued answers are approved, an approval is never     *)
(* taken back, and only a cycle that issued nothing can be deleted.        *)
(*                                                                         *)
(* Two exceptions are part of the promise as the code keeps it.  When a    *)
(* published cycle is distributed a second time while the first            *)
(* distribution is under way, the later one may reopen a closed cycle and  *)
(* issue answers that were not among the first.                            *)
(***************************************************************************)
CONSTANT Keys

VARIABLES
    status,
    issued,    \* keys for which an answer has been requested
    approved,  \* keys whose validation a Senior Validator approved
    overlapped \* has a second distribution begun during the first?

lifecycle == <<status, issued, approved, overlapped>>

Init == status = "draft" /\ issued = {} /\ approved = {} /\ overlapped = FALSE

Move(from, to) ==
    /\ status = from
    /\ status' = to
    /\ UNCHANGED <<issued, approved, overlapped>>

Delete ==
    /\ issued = {}
    /\ Move("draft", "deleted") \/ Move("published", "deleted")

Issue ==
    /\ status \in {"distributed", "closed"}
    /\ issued = {}
    /\ issued' \in SUBSET Keys /\ issued' # {}
    /\ UNCHANGED <<status, approved, overlapped>>

Finalise(S) ==
    /\ S \subseteq issued
    /\ approved' = approved \cup S
    /\ UNCHANGED <<status, issued, overlapped>>

Overlap ==
    /\ status = "published"
    /\ overlapped' = TRUE
    /\ UNCHANGED <<status, issued, approved>>

Reopen == overlapped /\ Move("closed", "distributed")

IssueMore ==
    /\ overlapped
    /\ status \in {"distributed", "closed"}
    /\ issued' \in SUBSET Keys
    /\ issued \subseteq issued'
    /\ UNCHANGED <<status, approved, overlapped>>

Next ==
    \/ Move("draft", "pending_approval")
    \/ Move("pending_approval", "draft")
    \/ Move("pending_approval", "published")
    \/ Move("published", "distributed")
    \/ Move("distributed", "closed")
    \/ Delete
    \/ Issue
    \/ \E S \in SUBSET Keys : Finalise(S)
    \/ Overlap \/ Reopen \/ IssueMore

Spec == Init /\ [][Next]_lifecycle
=============================================================================

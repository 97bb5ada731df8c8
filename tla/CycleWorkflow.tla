--------------------------- MODULE CycleWorkflow ---------------------------
(***************************************************************************)
(* One questionnaire cycle, its answers and their validations, under the   *)
(* request handlers of server/routes/cycles.ts, responses.ts and           *)
(* validations.ts.                                                         *)
(*                                                                         *)
(* A handler is an async function that awaits one auto-committed SQL       *)
(* statement after another, so two requests interleave between their       *)
(* statements.  Each statement is one action.  A handler whose effect is   *)
(* a single statement (or, for submit-all, a single transaction) is one    *)
(* action; the others keep a place in `request', the statement they will   *)
(* execute next.  A refusal (4xx) changes nothing and is no action.        *)
(*                                                                         *)
(* Of the rows only the status columns are kept, and of the cycle the      *)
(* checklist: what a distribution seeds is parsed from the file the row    *)
(* names when it asks.  No other column decides what these handlers write. *)
(***************************************************************************)
EXTENDS Naturals, FiniteSets

CONSTANTS
    Keys,        \* the (question, BU, material risk) triples of the checklist
    Questions,
    QuestionOf,  \* the question of each key
    Requests,    \* slots of requests that may be in flight at the same time
    NoKey,
    Sheets,      \* the workbooks there are to upload: the keys each parses to
    NoChecklist,
    Fallback     \* the keys of QUESTION_BU_MAP

ASSUME QuestionOfAssumption == QuestionOf \in [Keys -> Questions]
ASSUME NoKeyAssumption == NoKey \notin Keys
ASSUME ChecklistAssumption ==
    /\ Sheets \subseteq SUBSET Keys
    /\ Fallback \subseteq Keys
    /\ NoChecklist \notin Sheets

VARIABLES
    cycle,         \* questionnaire_cycles.status, or "deleted"
    checklist,     \* what the file its row names parses to, {} if it is gone
    applicability, \* keys with a question_applicability row
    response,      \* responses.status of each key, or "none" (no row)
    validation,    \* validations.status of each key, or "none" (no row)
    request,       \* what each request in flight executes next, and for which key
    failed,        \* has a request been cut short between two statements?
    overtaken,     \* was the cycle published while a checklist was uploaded?
    overlapped     \* have two distributions been in flight at the same time?

history == <<failed, overtaken, overlapped>>
vars == <<cycle, checklist, applicability, response, validation, request, history>>

CycleStatus == {"draft", "pending_approval", "published", "distributed",
                "closed", "deleted"}
ResponseStatus == {"none", "draft", "in_progress", "submitted", "returned",
                   "cancelled"}
ValidationStatus == {"none", "pending", "in_review", "returned", "rejected",
                     "pending_approval", "closed", "cancelled"}

\* The statement a handler awaits next.
Uploading == {"upload_remove", "upload_row"}
Distributing == {"distribute_count", "distribute_read", "distribute_seed",
                 "distribute_status", "distribute_insert"}
Closing == {"close_responses", "close_validations", "close_cycle"}
Approving == {"approve_count", "approve_close"}
Point == {"idle", "submit_upsert", "return_reset"}
           \cup Uploading \cup Distributing \cup Closing \cup Approving

\* rows: what a distribution has parsed.  named: is the checklist that an upload
\* found still the one the row names?
Idle == [at |-> "idle", key |-> NoKey, rows |-> {}, named |-> FALSE]

TypeOK ==
    /\ cycle \in CycleStatus
    /\ checklist \in {NoChecklist} \cup SUBSET Keys
    /\ applicability \in SUBSET Keys
    /\ response \in [Keys -> ResponseStatus]
    /\ validation \in [Keys -> ValidationStatus]
    /\ request \in [Requests -> [at : Point, key : Keys \cup {NoKey},
                                rows : SUBSET Keys, named : BOOLEAN]]
    /\ failed \in BOOLEAN /\ overtaken \in BOOLEAN /\ overlapped \in BOOLEAN

Init ==
    /\ cycle = "draft"
    /\ checklist = NoChecklist
    /\ applicability = {}
    /\ response = [k \in Keys |-> "none"]
    /\ validation = [k \in Keys |-> "none"]
    /\ request = [r \in Requests |-> Idle]
    /\ failed = FALSE /\ overtaken = FALSE /\ overlapped = FALSE

-----------------------------------------------------------------------------
(* Helpers *)

At(r, point) == request[r].at = point
IsIdle(r) == At(r, "idle")
InFlight(points) == \E r \in Requests : request[r].at \in points
Goto(r, point, k) == request' = [request EXCEPT ![r] = [Idle EXCEPT !.at = point, !.key = k]]
Finish(r) == request' = [request EXCEPT ![r] = Idle]

\* UPDATE ... WHERE id = $1: no guard on the status, no effect without a row.
UnguardedStatus(s) == IF cycle = "deleted" THEN "deleted" ELSE s

\* Mutant: a cancelled answer may be edited too.
EditableM == {"draft", "in_progress", "returned", "cancelled"}

\* The statuses in which a responder may save or submit.
Editable == {"draft", "in_progress", "returned"}

\* Mutant: the upsert protects only validations that await the decision.
UpsertedM(v) == IF v = "pending_approval" THEN v ELSE "in_review"

\* INSERT ... ON CONFLICT DO UPDATE ... WHERE status NOT IN (...)
Upserted(v) == IF v \in {"closed", "pending_approval"} THEN v ELSE "in_review"

-----------------------------------------------------------------------------
(* cycles.ts: approval of the cycle *)

SubmitCycle ==
    /\ cycle = "draft"
    /\ checklist # NoChecklist
    /\ cycle' = "pending_approval"
    /\ UNCHANGED <<checklist, applicability, response, validation, request, history>>

ApproveCycle ==
    /\ cycle = "pending_approval"
    /\ cycle' = "published"
    /\ overtaken' = InFlight(Uploading)
    /\ UNCHANGED <<checklist, applicability, response, validation, request, failed, overlapped>>

RejectCycle ==
    /\ cycle = "pending_approval"
    /\ cycle' = "draft"
    /\ UNCHANGED <<checklist, applicability, response, validation, request, history>>

\* Mutant: closed cycles may be deleted as well.
DeleteCycleM ==
    /\ cycle \in {"draft", "published", "closed"}
    /\ cycle' = "deleted"
    /\ checklist' = NoChecklist
    /\ applicability' = {}
    /\ response' = [k \in Keys |-> "none"]
    /\ validation' = [k \in Keys |-> "none"]
    /\ UNCHANGED <<request, history>>

\* The foreign keys cascade to every row of the cycle.
DeleteCycle ==
    /\ cycle \in {"draft", "published"}
    /\ cycle' = "deleted"
    /\ checklist' = NoChecklist
    /\ applicability' = {}
    /\ response' = [k \in Keys |-> "none"]
    /\ validation' = [k \in Keys |-> "none"]
    /\ UNCHANGED <<request, history>>

-----------------------------------------------------------------------------
(* cycles.ts: POST /checklist, of which three steps matter to the cycle (the *)
(* weights of the units are in ChecklistWeights)                             *)

\* Mutant: the status of the cycle is not looked at.
UploadCheckM(r) ==
    /\ IsIdle(r)
    /\ cycle # "deleted"
    /\ request' = [request EXCEPT ![r] =
           [Idle EXCEPT !.at = IF checklist = NoChecklist THEN "upload_row" ELSE "upload_remove",
                        !.named = TRUE]]
    /\ UNCHANGED <<cycle, checklist, applicability, response, validation, history>>

UploadCheck(r) ==
    /\ IsIdle(r)
    /\ cycle = "draft"
    /\ request' = [request EXCEPT ![r] =
           [Idle EXCEPT !.at = IF checklist = NoChecklist THEN "upload_row" ELSE "upload_remove",
                        !.named = TRUE]]
    /\ UNCHANGED <<cycle, checklist, applicability, response, validation, history>>

\* removeFile of the checklist it found, best effort and before the UPDATE.
UploadRemove(r) ==
    /\ At(r, "upload_remove")
    /\ checklist' \in {checklist} \cup IF request[r].named /\ cycle # "deleted" THEN {{}} ELSE {}
    /\ Goto(r, "upload_row", NoKey)
    /\ UNCHANGED <<cycle, applicability, response, validation, history>>

\* UPDATE ... WHERE id = $1: by now the cycle may be published, or distributed.
UploadRow(r) ==
    /\ At(r, "upload_row")
    /\ checklist' \in IF cycle = "deleted" THEN {checklist} ELSE Sheets
    /\ request' = [s \in Requests |-> IF s = r THEN Idle ELSE [request[s] EXCEPT !.named = FALSE]]
    /\ UNCHANGED <<cycle, applicability, response, validation, history>>

-----------------------------------------------------------------------------
(* cycles.ts: PUT /distribute, five statements and a file *)

DistributeCheck(r) ==
    /\ IsIdle(r)
    /\ cycle = "published"
    /\ Goto(r, "distribute_count", NoKey)
    /\ overlapped' = (overlapped \/ InFlight(Distributing))
    /\ UNCHANGED <<cycle, checklist, applicability, response, validation, failed, overtaken>>

\* Mutant: rows left by an earlier attempt are taken to mean that the status
\* has been set as well.
DistributeCountM(r) ==
    /\ At(r, "distribute_count")
    /\ Goto(r, IF applicability = {} THEN "distribute_read" ELSE "distribute_insert",
            NoKey)
    /\ UNCHANGED <<cycle, checklist, applicability, response, validation, history>>

DistributeCount(r) ==
    /\ At(r, "distribute_count")
    /\ Goto(r, IF applicability = {} THEN "distribute_read" ELSE "distribute_status",
            NoKey)
    /\ UNCHANGED <<cycle, checklist, applicability, response, validation, history>>

\* A row that names no file, or one that cannot be parsed or found, is replaced by
\* QUESTION_BU_MAP.
Parsed == IF checklist \in {NoChecklist, {}} THEN Fallback ELSE checklist

\* An upload under way may remove the file when its name has been read already.
DistributeRead(r) ==
    /\ At(r, "distribute_read")
    /\ \E rows \in ({Parsed} \cup IF overtaken THEN {Fallback} ELSE {}) \ {{}} :
         request' = [request EXCEPT ![r] = [Idle EXCEPT !.at = "distribute_seed", !.rows = rows]]
    /\ UNCHANGED <<cycle, checklist, applicability, response, validation, history>>

\* Answered 500: no row can be derived, or the blob is gone (localCopy is outside
\* of the try).
DistributeReadRefused(r) ==
    /\ At(r, "distribute_read")
    /\ Parsed = {} \/ checklist = {} \/ overtaken
    /\ Finish(r)
    /\ UNCHANGED <<cycle, checklist, applicability, response, validation, history>>

\* INSERT ... WHERE NOT EXISTS: rows that are there already are left out.
DistributeSeed(r) ==
    /\ At(r, "distribute_seed")
    /\ cycle # "deleted"
    /\ applicability' = applicability \cup request[r].rows
    /\ Goto(r, "distribute_status", NoKey)
    /\ UNCHANGED <<cycle, checklist, response, validation, history>>

\* The INSERT fails and the handler answers 500: the foreign key finds no
\* cycle, or an INSERT that overlapped this one committed some of these rows after
\* this one's snapshot (NOT EXISTS saw none, the unique index does).
DistributeSeedRefused(r) ==
    /\ At(r, "distribute_seed")
    /\ cycle = "deleted" \/ applicability \cap request[r].rows # {}
    /\ Finish(r)
    /\ UNCHANGED <<cycle, checklist, applicability, response, validation, history>>

\* Mutant: the UPDATE asks for a published cycle and gives up otherwise, whatever
\* rows have been added.
DistributeStatusM(r) ==
    /\ At(r, "distribute_status")
    /\ cycle' = IF cycle = "published" THEN "distributed" ELSE cycle
    /\ IF cycle = "published" THEN Goto(r, "distribute_insert", NoKey) ELSE Finish(r)
    /\ UNCHANGED <<checklist, applicability, response, validation, history>>

DistributeStatus(r) ==
    /\ At(r, "distribute_status")
    /\ cycle' = UnguardedStatus("distributed")
    /\ Goto(r, "distribute_insert", NoKey)
    /\ UNCHANGED <<checklist, applicability, response, validation, history>>

DistributeInsert(r) ==
    /\ At(r, "distribute_insert")
    /\ response' = [k \in Keys |-> IF k \in applicability /\ response[k] = "none"
                                   THEN "draft" ELSE response[k]]
    /\ Finish(r)
    /\ UNCHANGED <<cycle, checklist, applicability, validation, history>>

-----------------------------------------------------------------------------
(* responses.ts: none of these handlers looks at the status of the cycle *)

Save(k) ==
    /\ response[k] \in Editable
    /\ response' = [response EXCEPT ![k] = IF @ = "draft" THEN "in_progress" ELSE @]
    /\ UNCHANGED <<cycle, checklist, applicability, validation, request, history>>

Submit(r, k) ==
    /\ IsIdle(r)
    /\ response[k] \in Editable
    /\ response' = [response EXCEPT ![k] = "submitted"]
    /\ Goto(r, "submit_upsert", k)
    /\ UNCHANGED <<cycle, checklist, applicability, validation, history>>

SubmitUpsert(r) ==
    /\ At(r, "submit_upsert")
    /\ validation' = [validation EXCEPT ![request[r].key] = Upserted(@)]
    /\ Finish(r)
    /\ UNCHANGED <<cycle, checklist, applicability, response, history>>

\* Mutant: UPDATE instead of INSERT ... ON CONFLICT.
SubmitAllM(S) ==
    /\ S # {}
    /\ \A k \in S : response[k] \in Editable
    /\ response' = [k \in Keys |-> IF k \in S THEN "submitted" ELSE response[k]]
    /\ validation' = [k \in Keys |-> IF k \in S /\ validation[k] # "none"
                                     THEN Upserted(validation[k]) ELSE validation[k]]
    /\ UNCHANGED <<cycle, checklist, applicability, request, history>>

\* One transaction: S are the items it found in a submittable status.
SubmitAll(S) ==
    /\ S # {}
    /\ \A k \in S : response[k] \in Editable
    /\ response' = [k \in Keys |-> IF k \in S THEN "submitted" ELSE response[k]]
    /\ validation' = [k \in Keys |-> IF k \in S THEN Upserted(validation[k])
                                     ELSE validation[k]]
    /\ UNCHANGED <<cycle, checklist, applicability, request, history>>

\* Mutant: the answer goes back to in_progress.
ReturnM(r, k) ==
    /\ IsIdle(r)
    /\ response[k] = "submitted"
    /\ response' = [response EXCEPT ![k] = "in_progress"]
    /\ Goto(r, "return_reset", k)
    /\ UNCHANGED <<cycle, checklist, applicability, validation, history>>

Return(r, k) ==
    /\ IsIdle(r)
    /\ response[k] = "submitted"
    /\ response' = [response EXCEPT ![k] = "returned"]
    /\ Goto(r, "return_reset", k)
    /\ UNCHANGED <<cycle, checklist, applicability, validation, history>>

\* Mutant: the reset takes a validation back from the Senior Validator.
ReturnResetM(r) ==
    /\ At(r, "return_reset")
    /\ validation' = [validation EXCEPT ![request[r].key] =
                         IF @ \in {"in_review", "pending_approval"} THEN "returned" ELSE @]
    /\ Finish(r)
    /\ UNCHANGED <<cycle, checklist, applicability, response, history>>

ReturnReset(r) ==
    /\ At(r, "return_reset")
    /\ validation' = [validation EXCEPT
                        ![request[r].key] = IF @ = "in_review" THEN "returned" ELSE @]
    /\ Finish(r)
    /\ UNCHANGED <<cycle, checklist, applicability, response, history>>

-----------------------------------------------------------------------------
(* validations.ts: nor do these, except the last statement of an approval *)

SubmitForApproval(k) ==
    /\ validation[k] \in {"pending", "in_review", "rejected"}
    /\ validation' = [validation EXCEPT ![k] = "pending_approval"]
    /\ UNCHANGED <<cycle, checklist, applicability, response, request, history>>

RejectValidation(k) ==
    /\ validation[k] = "pending_approval"
    /\ validation' = [validation EXCEPT ![k] = "rejected"]
    /\ UNCHANGED <<cycle, checklist, applicability, response, request, history>>

\* The first statement of both approvals: S are the rows it updates.
Approve(r, S) ==
    /\ IsIdle(r)
    /\ S # {}
    /\ validation' = [k \in Keys |-> IF k \in S THEN "closed" ELSE validation[k]]
    /\ Goto(r, "approve_count", NoKey)
    /\ UNCHANGED <<cycle, checklist, applicability, response, history>>

PendingApproval == {k \in Keys : validation[k] = "pending_approval"}

ApproveValidation(r, k) == Approve(r, PendingApproval \cap {k})

ApproveQuestion(r, q) == Approve(r, {k \in PendingApproval : QuestionOf[k] = q})

\* Mutant: only the validations are counted.
NothingRemainsM == \A k \in Keys : validation[k] \in {"none", "closed"}

\* No row but closed validations, no row but submitted responses.
NothingRemains ==
    \A k \in Keys : /\ validation[k] \in {"none", "closed"}
                    /\ response[k] \in {"none", "submitted"}

ApproveCount(r) ==
    /\ At(r, "approve_count")
    /\ IF NothingRemains THEN Goto(r, "approve_close", NoKey) ELSE Finish(r)
    /\ UNCHANGED <<cycle, checklist, applicability, response, validation, history>>

ApproveClose(r) ==
    /\ At(r, "approve_close")
    /\ cycle' = IF cycle = "distributed" THEN "closed" ELSE cycle
    /\ Finish(r)
    /\ UNCHANGED <<checklist, applicability, response, validation, history>>

-----------------------------------------------------------------------------
(* cycles.ts: PUT /close, four statements *)

ForceClose(r) ==
    /\ IsIdle(r)
    /\ cycle = "distributed"
    /\ Goto(r, "close_responses", NoKey)
    /\ UNCHANGED <<cycle, checklist, applicability, response, validation, history>>

CloseResponses(r) ==
    /\ At(r, "close_responses")
    /\ response' = [k \in Keys |-> IF response[k] \in {"none", "submitted", "cancelled"}
                                   THEN response[k] ELSE "cancelled"]
    /\ Goto(r, "close_validations", NoKey)
    /\ UNCHANGED <<cycle, checklist, applicability, validation, history>>

CloseValidations(r) ==
    /\ At(r, "close_validations")
    /\ validation' = [k \in Keys |-> IF validation[k] \in {"none", "closed", "cancelled"}
                                     THEN validation[k] ELSE "cancelled"]
    /\ Goto(r, "close_cycle", NoKey)
    /\ UNCHANGED <<cycle, checklist, applicability, response, history>>

CloseCycle(r) ==
    /\ At(r, "close_cycle")
    /\ cycle' = UnguardedStatus("closed")
    /\ Finish(r)
    /\ UNCHANGED <<checklist, applicability, response, validation, history>>

-----------------------------------------------------------------------------
\* The next statement is never executed: the process stops, or the statement is
\* refused (connection lost, pool error) and the handler answers 500.  What the
\* earlier statements wrote is committed.
Fail(r) ==
    /\ ~IsIdle(r)
    /\ Finish(r)
    /\ failed' = TRUE
    /\ UNCHANGED <<cycle, checklist, applicability, response, validation, overtaken, overlapped>>

\* Requests that are one statement or one transaction.
OneStatement ==
    \/ SubmitCycle \/ ApproveCycle \/ RejectCycle \/ DeleteCycle
    \/ \E k \in Keys : Save(k) \/ SubmitForApproval(k) \/ RejectValidation(k)
    \/ \E S \in SUBSET Keys : SubmitAll(S)

\* A request arrives and executes its first statement.
Arrive(r) ==
    \/ UploadCheck(r) \/ DistributeCheck(r) \/ ForceClose(r)
    \/ \E k \in Keys : Submit(r, k) \/ Return(r, k) \/ ApproveValidation(r, k)
    \/ \E q \in Questions : ApproveQuestion(r, q)

\* A request in flight executes its next statement.
Continue(r) ==
    \/ UploadRemove(r) \/ UploadRow(r)
    \/ DistributeCount(r) \/ DistributeRead(r) \/ DistributeReadRefused(r)
    \/ DistributeSeed(r) \/ DistributeSeedRefused(r)
    \/ DistributeStatus(r) \/ DistributeInsert(r)
    \/ SubmitUpsert(r) \/ ReturnReset(r)
    \/ ApproveCount(r) \/ ApproveClose(r)
    \/ CloseResponses(r) \/ CloseValidations(r) \/ CloseCycle(r)

Next ==
    \/ OneStatement
    \/ \E r \in Requests : Arrive(r) \/ Continue(r) \/ Fail(r)

Spec == Init /\ [][Next]_vars

-----------------------------------------------------------------------------
(* Invariants *)

\* Until a cycle is distributed, and once it is deleted, it has no answers and
\* no validations: DELETE (cycles.ts), which is open to published cycles and
\* cascades, can never destroy an answer, whatever distributions are in flight.
NothingIssuedBeforeDistribution ==
    cycle \notin {"distributed", "closed"} =>
        \A k \in Keys : response[k] = "none" /\ validation[k] = "none"

\* A validation exists only of an answer that has been submitted, so an
\* approval can only be of submitted work: no handler takes an answer back to
\* draft or in_progress once it has a validation.
ValidationOnlyOfSubmittedWork ==
    \A k \in Keys : validation[k] # "none" =>
        response[k] \in {"submitted", "returned", "cancelled"}

\* A submit of k has marked the answer and not yet written the validation.
UpsertPending(k) ==
    \E r \in Requests : At(r, "submit_upsert") /\ request[r].key = k

\* As long as no request is cut short, a submitted answer has its validation
\* row, or the request that submitted it is about to write it (submit and
\* submit-all of responses.ts), so no submitted answer is invisible to the
\* validators.
SubmittedHasValidation ==
    \A k \in Keys :
        response[k] = "submitted" /\ ~failed => validation[k] # "none" \/ UpsertPending(k)

\* A distributed cycle waits for no answer that was never asked for: every row it
\* assesses has an answer, or a distribution in flight is about to issue it, also
\* when distributions overlap one another and an upload (distribute, cycles.ts).
\* When a request is cut short between the UPDATE and the INSERT, nobody
\* can issue the answers: the cycle is no longer published.
EveryRowIsAsked ==
    cycle \in {"distributed", "closed"} /\ ~failed =>
        \A k \in applicability :
            response[k] # "none" \/ InFlight({"distribute_status", "distribute_insert"})

-----------------------------------------------------------------------------
(* The inductive invariant: what the handlers in flight rely on *)

Published == {"published", "distributed", "closed"}

\* The rows are seeded before the cycle is distributed, and are those of the
\* checklist it was published with, unless an upload has overtaken that.
Seeded ==
    /\ cycle \notin Published => applicability = {}
    /\ cycle \in {"distributed", "closed"} => applicability # {}
    /\ cycle \in Published /\ ~overtaken => applicability \in {{}, Parsed}

\* Answers are of rows of the cycle.  They are issued all together, unless ...
IssuedTogether ==
    /\ \A k \in Keys : response[k] # "none" => k \in applicability
    /\ ~overtaken /\ (\E k \in Keys : response[k] # "none") =>
           \A k \in applicability : response[k] # "none"

\* An upload that has looked at the status is of a draft, or overtook the approval.
UploadInFlight(r) ==
    request[r].at \in Uploading => cycle \notin Published \/ overtaken

\* A distribution has rows to add, of the checklist; a late one finds the cycle
\* seeded, or gone.
DistributeInFlight(r) ==
    /\ request[r].at \in Distributing => cycle \in Published \cup {"deleted"}
    /\ At(r, "distribute_seed") =>
           request[r].rows # {} /\ (request[r].rows = Parsed \/ overtaken \/ cycle = "deleted")
    /\ At(r, "distribute_status") => applicability # {} \/ cycle = "deleted"
    /\ At(r, "distribute_insert") => cycle \in {"distributed", "closed", "deleted"}

\* The answer a second statement is about has been submitted.
AnswerInFlight(r) ==
    request[r].at \in {"submit_upsert", "return_reset"} =>
        /\ request[r].key \in Keys
        /\ response[request[r].key] \in {"submitted", "returned", "cancelled"}

\* Something has been approved; all has been submitted once the count has
\* found nothing else.
ApprovalInFlight(r) ==
    /\ request[r].at \in Approving => \E k \in Keys : response[k] # "none"
    /\ At(r, "approve_close") =>
           \A k \in Keys : response[k] \in {"none", "submitted", "returned", "cancelled"}
                           \/ overtaken

ClosingInFlight(r) == request[r].at \in Closing => cycle \in {"distributed", "closed"}

\* Distributions that never overlap: the one in flight finds what its check found
\* (cycles.ts:404), and nothing issued.
Alone ==
    ~overlapped =>
        /\ \A r, s \in Requests :
             request[r].at \in Distributing /\ request[s].at \in Distributing => r = s
        /\ \A r \in Requests :
             request[r].at \in Distributing =>
                 /\ \A k \in Keys : response[k] = "none"
                 /\ At(r, "distribute_insert") \/ cycle \in {"published", "deleted"}

\* What each request in flight may assume of the rows it has not looked at since.
IInv ==
    /\ TypeOK
    /\ NothingIssuedBeforeDistribution
    /\ ValidationOnlyOfSubmittedWork
    /\ SubmittedHasValidation
    /\ EveryRowIsAsked
    /\ Seeded
    /\ IssuedTogether
    /\ Alone
    /\ \A r \in Requests : /\ UploadInFlight(r)
                           /\ DistributeInFlight(r)
                           /\ AnswerInFlight(r)
                           /\ ApprovalInFlight(r)
                           /\ ClosingInFlight(r)

-----------------------------------------------------------------------------
(* Action properties *)

\* What a Senior Validator approved stays approved: no return, resubmission or
\* force close reopens or cancels a closed validation.
ApprovalIsFinal ==
    [][\A k \in Keys : validation[k] = "closed" => validation'[k] = "closed"]_vars

\* A validation waiting for the Senior Validator leaves that status by a
\* decision or by the force close of the cycle, never because of what
\* responders and validators do with the answer.
PendingApprovalAwaitsDecision ==
    [][\A k \in Keys : validation[k] = "pending_approval" =>
           validation'[k] \in {"pending_approval", "closed", "rejected", "cancelled"}]_vars

\* A force close never discards finished work, and what it cancelled among the
\* answers stays cancelled: neither a submit in flight nor a later save brings
\* it back.
CancelledAnswersStayCancelled ==
    [][\A k \in Keys :
           /\ response[k] = "cancelled" => response'[k] = "cancelled"
           /\ response[k] = "submitted" => response'[k] # "cancelled"]_vars

\* The automatic close never closes a cycle some BU never answered (the case
\* the comment at validations.ts:396 is about): every applicable answer has
\* been submitted, even if a concurrent request has since sent it back or
\* cancelled it.  A distribution that adds rows late, of a checklist that was
\* replaced while the cycle was published, is not waited for.
AutoCloses(r) == At(r, "approve_close") /\ cycle = "distributed" /\ cycle' = "closed"

AutoCloseNeedsEverySubmission ==
    [][\A r \in Requests : AutoCloses(r) /\ IsIdle(r)' /\ ~overtaken =>
           \A k \in applicability : response[k] \in {"submitted", "returned", "cancelled"}]_vars

\* The rows a cycle assesses are fixed once it is distributed, although each of
\* several distributions in flight parses the checklist for itself: it is the same
\* checklist, unless an upload that had checked for a draft (cycles.ts:701) was in
\* flight when the cycle was published.
ApplicabilityFrozen ==
    [][(cycle \in {"distributed", "closed"} /\ ~overtaken) => applicability' = applicability]_vars

-----------------------------------------------------------------------------
(* Refinement *)

Lifecycle == INSTANCE CycleLifecycle
    WITH status <- cycle,
         issued <- {k \in Keys : response[k] # "none"},
         approved <- {k \in Keys : validation[k] = "closed"}

\* The handlers implement the abstract cycle: its statuses follow one another
\* in a fixed sequence and its answers are issued once, unless two
\* distributions have overlapped.
LifecycleRefinement == Lifecycle!Spec
=============================================================================

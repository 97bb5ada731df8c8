------------------------------- MODULE Desks --------------------------------
(***************************************************************************)
(* The people of a cycle at their pages: a Validator at the list of cycles *)
(* (client/src/views/CycleList.tsx), at the queue (ValidationQueue.tsx)    *)
(* and at one validation (ValidationDetail.tsx), the Senior Validator, the *)
(* Responder, over the handlers of CycleWorkflow.                          *)
(*                                                                         *)
(* A page offers what the statuses it was loaded with allow, and is not    *)
(* told when they change.  Submitting for approval is two requests, of     *)
(* which the first, PUT /validations/:id, looks at no status at all.       *)
(*                                                                         *)
(* The Senior Validator has no queue: he finds an item on the overview,    *)
(* which lists a question when all its units are ready, or is led to it    *)
(* after a decision on another.                                            *)
(*                                                                         *)
(* Everybody waits for the answer to a click, so a person is a slot of     *)
(* CycleWorkflow.  The Responder and the list of cycles act on the         *)
(* statuses as they are: their requests are refused when these have        *)
(* changed (what a stale list of answers does is in Assignments).  No      *)
(* request is cut short.                                                   *)
(***************************************************************************)
EXTENDS CycleWorkflow

CONSTANTS
    Validators,
    Senior,
    Responder,
    Scores,
    UnitOf,      \* the unit of each key
    Weighted,    \* the units ccl_item_weights has for each question
    MaxSendBacks \* bound: answers returned and validations rejected

ASSUME DesksAssumption ==
    /\ Requests = Validators \cup {Senior, Responder}
    /\ Senior \notin Validators /\ Responder \notin Validators /\ Senior # Responder
    /\ Scores # {} /\ Scores \subseteq Nat \ {0}
    /\ MaxSendBacks \in Nat

VARIABLES
    vscore,    \* validations.validation_score of each key
    page,      \* the validation each Validator has open, as it was loaded
    decision,  \* the validation the Senior Validator has open, to decide on
    sendBacks, \* returns and rejections so far
    crossed    \* has a handler gone on from what another had changed meanwhile?

deskVars == <<vscore, page, decision, sendBacks, crossed>>
allVars == <<vars, deskVars>>

NoScore == 0

\* shown: validations.status; returned: "One or more responses have been
\* returned to the Responder"; mark: the score that is picked.
Away == [at |-> "away", key |-> NoKey, shown |-> "none", returned |-> FALSE, mark |-> NoScore]

Overview == [at |-> "overview", key |-> NoKey]

DeskTypeOK ==
    /\ vscore \in [Keys -> Scores \cup {NoScore}]
    /\ page \in [Validators -> [at : {"away", "open", "closing"}, key : Keys \cup {NoKey},
                                shown : ValidationStatus, returned : BOOLEAN,
                                mark : Scores \cup {NoScore}]]
    /\ decision \in [at : {"overview", "open", "next"}, key : Keys \cup {NoKey}]
    /\ sendBacks \in 0 .. MaxSendBacks
    /\ crossed \in BOOLEAN

DeskInit ==
    /\ Init
    /\ vscore = [k \in Keys |-> NoScore]
    /\ page = [v \in Validators |-> Away]
    /\ decision = Overview
    /\ sendBacks = 0
    /\ crossed = FALSE

-----------------------------------------------------------------------------
(* ValidationQueue.tsx and ValidationDetail.tsx *)

\* Mutant: only validations in review are offered.
ReviewableM == {"in_review"}

\* The statuses in which a Validator is offered Review, a score, Save, Submit
\* for Approval and Return to Respondent.  Others can only be read.
Reviewable == {"in_review", "rejected"}

CanClick(v) == IsIdle(v) /\ page[v].at = "open"

\* The queue, in which an item is opened, and from which the next one is taken.
InQueue == {k \in Keys : validation[k] \in Reviewable}

\* GET /validations/:id
Loaded(k) == [at |-> "open", key |-> k, shown |-> validation[k],
              returned |-> response[k] = "returned", mark |-> vscore[k]]

\* From the queue, from a notification or after the previous item.
Open(v, k) ==
    /\ IsIdle(v) /\ page[v].at # "closing"
    /\ k \in InQueue
    /\ page' = [page EXCEPT ![v] = Loaded(k)]
    /\ UNCHANGED <<vars, vscore, decision, sendBacks, crossed>>

Pick(v, s) ==
    /\ CanClick(v)
    /\ page' = [page EXCEPT ![v].mark = s]
    /\ UNCHANGED <<vars, vscore, decision, sendBacks, crossed>>

\* PUT /validations/:id has no condition on the status.
Put(v) == vscore' = [vscore EXCEPT ![page[v].key] =
                       IF page[v].mark = NoScore THEN @ ELSE page[v].mark]

SaveAssessment(v) ==
    /\ CanClick(v)
    /\ Put(v)
    /\ UNCHANGED <<vars, page, decision, sendBacks, crossed>>

\* Mutant: the score may be missing.
ClickSubmitForApprovalM(v) ==
    /\ CanClick(v)
    /\ ~page[v].returned
    /\ Put(v)
    /\ page' = [page EXCEPT ![v].at = "closing"]
    /\ UNCHANGED <<vars, decision, sendBacks, crossed>>

\* handleSubmitForApproval, the first of its two requests.
ClickSubmitForApproval(v) ==
    /\ CanClick(v)
    /\ page[v].mark # NoScore
    /\ ~page[v].returned
    /\ Put(v)
    /\ page' = [page EXCEPT ![v].at = "closing"]
    /\ UNCHANGED <<vars, decision, sendBacks, crossed>>

\* The second, PUT /close.  navigateToNext leaves the page.
CloseValidation(v) ==
    /\ page[v].at = "closing"
    /\ SubmitForApproval(page[v].key)
    /\ page' = [page EXCEPT ![v] = Away]
    /\ crossed' = (crossed \/ response[page[v].key] # "submitted")
    /\ UNCHANGED <<vscore, decision, sendBacks>>

\* "Validation already completed by another user."  The score stays changed.
CloseRefused(v) ==
    /\ page[v].at = "closing"
    /\ validation[page[v].key] \notin {"pending", "in_review", "rejected"}
    /\ page' = [page EXCEPT ![v].at = "open"]
    /\ UNCHANGED <<vars, vscore, decision, sendBacks, crossed>>

\* An answer that was already returned is not offered to be returned again.
Returnable(v) == CanClick(v) /\ ~page[v].returned

\* handleReturn; the page is loaded again, and offers nothing any more.
ReturnAnswer(v) ==
    /\ Returnable(v)
    /\ sendBacks < MaxSendBacks
    /\ Return(v, page[v].key)
    /\ page' = [page EXCEPT ![v] = Away]
    /\ sendBacks' = sendBacks + 1
    /\ crossed' = (crossed \/ validation[page[v].key] \notin Reviewable)
    /\ UNCHANGED <<vscore, decision>>

-----------------------------------------------------------------------------
(* GET /validation-overview: what the Senior Validator is shown              *)

RowsAbout(q) == {k \in Keys : QuestionOf[k] = q}

SubmittedUnits(q) == {UnitOf[k] : k \in {k \in RowsAbout(q) : response[k] = "submitted"}}

\* The validations of units that have a weight and have submitted an answer.
Joined(q) ==
    {k \in RowsAbout(q) : validation[k] # "none" /\ UnitOf[k] \in Weighted[q] \cap SubmittedUnits(q)}

\* A question is listed when every unit with a weight (COUNT(DISTINCT bu_code) =
\* expected_count) awaits a decision or has it.
Listed(q) ==
    /\ Joined(q) # {}
    /\ {UnitOf[k] : k \in Joined(q)} = Weighted[q]
    /\ \A k \in Joined(q) : validation[k] \in {"pending_approval", "closed"}
    /\ \E k \in RowsAbout(q) : validation[k] # "none" /\ response[k] = "submitted"

-----------------------------------------------------------------------------
(* The Senior Validator decides on one validation at a time: no page offers  *)
(* the approval of a whole question.                                         *)

\* From the overview, or a notification, which leads to the same list: the queue of
\* the Validators redirects him (App.tsx:401).
OpenListed(k) ==
    /\ IsIdle(Senior) /\ decision.at # "next"
    /\ validation[k] = "pending_approval" /\ Listed(QuestionOf[k])
    /\ decision' = [at |-> "open", key |-> k]
    /\ UNCHANGED <<vars, vscore, page, sendBacks, crossed>>

\* navigateToNext, after a decision: any other item that awaits one, listed or not.
OpenNext ==
    /\ IsIdle(Senior) /\ decision.at = "next"
    /\ decision' \in LET others == PendingApproval \ {decision.key}
                     IN IF others = {} THEN {Overview}
                        ELSE [at : {"open"}, key : others]
    /\ UNCHANGED <<vars, vscore, page, sendBacks, crossed>>

\* Both are refused when the item no longer awaits a decision; the page stays.
ClickApprove ==
    /\ decision.at = "open"
    /\ ApproveValidation(Senior, decision.key)
    /\ decision' = [decision EXCEPT !.at = "next"]
    /\ UNCHANGED <<vscore, page, sendBacks, crossed>>

ClickReject ==
    /\ IsIdle(Senior) /\ decision.at = "open"
    /\ sendBacks < MaxSendBacks
    /\ sendBacks' = sendBacks + 1
    /\ RejectValidation(decision.key)
    /\ decision' = [decision EXCEPT !.at = "next"]
    /\ UNCHANGED <<vscore, page, crossed>>

-----------------------------------------------------------------------------
(* The Responder, while the cycle is shown as distributed *)

\* An answer is submitted again before the return has reset its validation.
ReturnInFlight(S) == \E r \in Requests : At(r, "return_reset") /\ request[r].key \in S

Answer(S) ==
    /\ cycle = "distributed"
    /\ crossed' = (crossed \/ ReturnInFlight(S))
    /\ UNCHANGED <<vscore, page, decision, sendBacks>>

ClickSave(k) == IsIdle(Responder) /\ Answer({}) /\ Save(k)
ClickSubmit(k) == Answer({k}) /\ Submit(Responder, k)
ClickSubmitAll ==
    LET S == {k \in Keys : response[k] \in Editable}
    IN IsIdle(Responder) /\ Answer(S) /\ SubmitAll(S)

-----------------------------------------------------------------------------
(* CycleList.tsx: what the status of the cycle offers to each role *)

SubmitAtList == SubmitCycle
SeniorAtList == IsIdle(Senior) /\ (ApproveCycle \/ RejectCycle)
ValidatorAtList(v) == UploadCheck(v) \/ DistributeCheck(v) \/ ForceClose(v)
DeleteAtList == DeleteCycle

ListClick ==
    /\ \/ SubmitAtList \/ DeleteAtList \/ SeniorAtList
       \/ \E v \in Validators : ValidatorAtList(v)
    /\ UNCHANGED deskVars

\* A second distribution comes so late that the cycle has been closed meanwhile.
Reopens(r) == At(r, "distribute_status") /\ cycle = "closed"

\* The handlers go on.
Statement(r) ==
    /\ Continue(r)
    /\ crossed' = (crossed \/ Reopens(r))
    /\ UNCHANGED <<vscore, page, decision, sendBacks>>

DeskNext ==
    \/ ListClick
    \/ \E v \in Validators :
         \/ \E k \in Keys : Open(v, k)
         \/ \E s \in Scores : Pick(v, s)
         \/ SaveAssessment(v) \/ ClickSubmitForApproval(v) \/ ReturnAnswer(v)
         \/ CloseValidation(v) \/ CloseRefused(v)
    \/ \E k \in Keys : OpenListed(k) \/ ClickSave(k) \/ ClickSubmit(k)
    \/ OpenNext \/ ClickApprove \/ ClickReject \/ ClickSubmitAll
    \/ \E r \in Requests : Statement(r)

DeskSpec == DeskInit /\ [][DeskNext]_allVars

-----------------------------------------------------------------------------
(* Properties *)

\* What awaits the Senior Validator's approval, or has it, has a score: PUT
\* /close does not ask for one, and leaves it to the page.
NothingUnscored ==
    \A k \in Keys : validation[k] \in {"pending_approval", "closed"} => vscore[k] # NoScore

\* An item somebody's page offers the next step of.
Offered(k) ==
    \/ response[k] \in Editable
    \/ validation[k] \in Reviewable /\ response[k] = "submitted"
    \/ validation[k] = "pending_approval" /\ Listed(QuestionOf[k])

\* The table of weights names some of the units that were asked, and no other.
WeightsFit(q) ==
    Weighted[q] # {} /\ Weighted[q] \subseteq {UnitOf[k] : k \in RowsAbout(q) \cap applicability}

\* A distributed cycle goes on: when nothing is in flight, some item is not
\* approved.  Each of these is offered to somebody or waits for the Senior
\* Validator together with another of its question that is, whatever was sent
\* back; unless somebody went on from a status that another had just changed, or
\* the overview waits for a unit that was never asked.  (The last approval closes
\* the cycle by itself.)
NobodyIsStranded ==
    cycle = "distributed" /\ ~crossed /\ (\A r \in Requests : IsIdle(r)) =>
        /\ \E k \in applicability : validation[k] # "closed"
        /\ \A k \in applicability :
             validation[k] # "closed" /\ WeightsFit(QuestionOf[k]) =>
                 \/ Offered(k)
                 \/ /\ validation[k] = "pending_approval"
                    /\ \E j \in RowsAbout(QuestionOf[k]) : Offered(j)

\* generate_workflow_doc.py:326 "Senior Validator has approved. Validation is
\* finalised and locked."
ClosedIsLocked ==
    [][\A k \in Keys : validation[k] = "closed" => vscore'[k] = vscore[k]]_allVars
=============================================================================

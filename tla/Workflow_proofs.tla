--------------------------- MODULE Workflow_proofs ---------------------------
(***************************************************************************)
(* Proofs about CycleWorkflow and, from the line "People at their pages"   *)
(* on, about Desks, for every checklist and any number of requests and     *)
(* Validators.                                                             *)
(***************************************************************************)
EXTENDS Desks, TLAPS

-----------------------------------------------------------------------------
(* The server *)

\* The initial state satisfies the inductive invariant.
LEMMA InitIInv == Init => IInv
<1> SUFFICES ASSUME Init PROVE IInv
  OBVIOUS
<1>1. TypeOK
  BY DEF Init, TypeOK, Idle, Point, CycleStatus, ResponseStatus, ValidationStatus
<1>2. \A r \in Requests : request[r].at = "idle"
  BY DEF Init, Idle
<1>3. \A r \in Requests : /\ UploadInFlight(r) /\ DistributeInFlight(r) /\ AnswerInFlight(r)
                          /\ ApprovalInFlight(r) /\ ClosingInFlight(r)
  BY <1>2 DEF UploadInFlight, DistributeInFlight, AnswerInFlight, ApprovalInFlight,
     ClosingInFlight, At, Uploading, Distributing, Approving, Closing
<1>4. Alone
  BY <1>2 DEF Alone, Distributing
<1> QED
  BY <1>1, <1>3, <1>4 DEF Init, IInv, NothingIssuedBeforeDistribution, IssuedTogether,
     ValidationOnlyOfSubmittedWork, SubmittedHasValidation, EveryRowIsAsked, Seeded, Published

\* A distribution finds keys to ask for.
LEMMA ParsedKeys == TypeOK => Parsed \in SUBSET Keys /\ Fallback \in SUBSET Keys
BY ChecklistAssumption DEF TypeOK, Parsed

\* What is known of requests when one of them goes on, or ends.
Slot == [at : Point, key : Keys \cup {NoKey}, rows : SUBSET Keys, named : BOOLEAN]

LEMMA GoesTo ==
    ASSUME TypeOK, NEW r \in Requests, NEW point \in Point, NEW k \in Keys \cup {NoKey},
           Goto(r, point, k)
    PROVE  /\ request' \in [Requests -> Slot]
           /\ request'[r].at = point /\ request'[r].key = k
           /\ \A s \in Requests \ {r} : request'[s] = request[s]
<1> DEFINE new == [Idle EXCEPT !.at = point, !.key = k]
<1>1. new \in Slot /\ new.at = point /\ new.key = k
  BY DEF Idle, Slot
<1>2. request' = [request EXCEPT ![r] = new]
  BY DEF Goto
<1> HIDE DEF new
<1> QED BY <1>1, <1>2 DEF TypeOK, Slot

LEMMA Finishes ==
    ASSUME TypeOK, NEW r \in Requests, Finish(r)
    PROVE  /\ request' \in [Requests -> Slot]
           /\ request'[r].at = "idle"
           /\ \A s \in Requests \ {r} : request'[s] = request[s]
<1>1. Idle \in Slot /\ Idle.at = "idle"
  BY DEF Idle, Slot, Point
<1> QED BY <1>1 DEF Finish, TypeOK, Slot

\* ... and the requests that begin with something to remember.
LEMMA UploadBegins ==
    ASSUME TypeOK, NEW r \in Requests, UploadCheck(r)
    PROVE  /\ request' \in [Requests -> Slot]
           /\ request'[r].at \in Uploading
           /\ \A s \in Requests \ {r} : request'[s] = request[s]
<1> DEFINE new ==
      [Idle EXCEPT !.at = IF checklist = NoChecklist THEN "upload_row" ELSE "upload_remove",
                   !.named = TRUE]
<1>1. new \in Slot /\ new.at \in Uploading
  BY DEF Idle, Slot, Point, Uploading
<1>2. request' = [request EXCEPT ![r] = new]
  BY DEF UploadCheck
<1> HIDE DEF new
<1> QED BY <1>1, <1>2 DEF TypeOK, Slot

LEMMA RowsRead ==
    ASSUME TypeOK, NEW r \in Requests, DistributeRead(r)
    PROVE  /\ request' \in [Requests -> Slot]
           /\ request'[r].at = "distribute_seed"
           /\ request'[r].rows # {} /\ (request'[r].rows = Parsed \/ overtaken)
           /\ \A s \in Requests \ {r} : request'[s] = request[s]
<1>1. PICK rows \in ({Parsed} \cup IF overtaken THEN {Fallback} ELSE {}) \ {{}} :
          request' = [request EXCEPT ![r] = [Idle EXCEPT !.at = "distribute_seed", !.rows = rows]]
  BY DEF DistributeRead
<1>2. rows \in SUBSET Keys /\ rows # {} /\ (rows = Parsed \/ overtaken)
  BY <1>1, ParsedKeys
<1> DEFINE new == [Idle EXCEPT !.at = "distribute_seed", !.rows = rows]
<1>3. new \in Slot /\ new.at = "distribute_seed" /\ new.rows = rows
  BY <1>2 DEF Idle, Slot, Point, Distributing
<1>4. request' = [request EXCEPT ![r] = new]
  BY <1>1
<1> HIDE DEF new
<1> QED BY <1>2, <1>3, <1>4 DEF TypeOK, Slot

\* The UPDATE of an upload: no other request is moved by it.
LEMMA RowUploaded ==
    ASSUME TypeOK, NEW r \in Requests, UploadRow(r)
    PROVE  /\ request' \in [Requests -> Slot]
           /\ request'[r].at = "idle"
           /\ \A s \in Requests \ {r} : /\ request'[s].at = request[s].at
                                        /\ request'[s].key = request[s].key
                                        /\ request'[s].rows = request[s].rows
<1> DEFINE new(s) == [request[s] EXCEPT !.named = FALSE]
<1>1. \A s \in Requests : /\ new(s) \in Slot
                          /\ new(s).at = request[s].at
                          /\ new(s).key = request[s].key
                          /\ new(s).rows = request[s].rows
  BY DEF TypeOK, Slot
<1>2. Idle \in Slot /\ Idle.at = "idle"
  BY DEF Idle, Slot, Point
<1>3. request' = [s \in Requests |-> IF s = r THEN Idle ELSE new(s)]
  BY DEF UploadRow
<1> HIDE DEF new
<1> QED BY <1>1, <1>2, <1>3

LEMMA NextType == TypeOK /\ [Next]_vars => TypeOK'
<1> USE DEF TypeOK, Slot, Point, Uploading, Distributing, Closing, Approving,
        CycleStatus, ResponseStatus, ValidationStatus, At, IsIdle, history
<1> SUFFICES ASSUME TypeOK, [Next]_vars
             PROVE  TypeOK'
  OBVIOUS
<1>1. CASE OneStatement
  <2>1. CASE SubmitCycle \/ ApproveCycle \/ RejectCycle \/ DeleteCycle
    <3>1. CASE SubmitCycle \/ RejectCycle
      BY <3>1 DEF SubmitCycle, RejectCycle
    <3>2. CASE ApproveCycle
      BY <3>2 DEF ApproveCycle, InFlight
    <3>3. CASE DeleteCycle
      BY <3>3 DEF DeleteCycle
    <3> QED BY <2>1, <3>1, <3>2, <3>3
  <2>2. ASSUME NEW k \in Keys, Save(k) \/ SubmitForApproval(k) \/ RejectValidation(k)
        PROVE  TypeOK'
    BY <2>2 DEF Save, SubmitForApproval, RejectValidation
  <2>3. ASSUME NEW S \in SUBSET Keys, SubmitAll(S)
        PROVE  TypeOK'
    BY <2>3 DEF SubmitAll, Upserted
  <2> QED BY <1>1, <2>1, <2>2, <2>3 DEF OneStatement
<1>2. ASSUME NEW r \in Requests, Arrive(r)
      PROVE  TypeOK'
  <2>1. CASE UploadCheck(r) \/ DistributeCheck(r) \/ ForceClose(r)
    BY <2>1, GoesTo, UploadBegins DEF UploadCheck, DistributeCheck, ForceClose, InFlight
  <2>2. ASSUME NEW k \in Keys, Submit(r, k) \/ Return(r, k)
        PROVE  TypeOK'
    BY <2>2, GoesTo DEF Submit, Return
  <2>3. ASSUME NEW S, Approve(r, S)
        PROVE  TypeOK'
    BY <2>3, GoesTo DEF Approve
  <2> QED BY <1>2, <2>1, <2>2, <2>3 DEF Arrive, ApproveValidation, ApproveQuestion
<1>3. ASSUME NEW r \in Requests, Continue(r)
      PROVE  TypeOK'
  <2>1. CASE DistributeCount(r) \/ DistributeSeed(r) \/ DistributeSeedRefused(r)
             \/ DistributeReadRefused(r)
    BY <2>1, GoesTo, Finishes
       DEF DistributeCount, DistributeSeed, DistributeSeedRefused, DistributeReadRefused
  <2>2. CASE DistributeStatus(r) \/ DistributeInsert(r)
    BY <2>2, GoesTo, Finishes DEF DistributeStatus, DistributeInsert, UnguardedStatus
  <2>3. CASE SubmitUpsert(r) \/ ReturnReset(r)
    <3>1. validation' \in [Keys -> ValidationStatus]
      BY <2>3 DEF SubmitUpsert, ReturnReset, Upserted
    <3> QED BY <2>3, <3>1, Finishes DEF SubmitUpsert, ReturnReset
  <2>4. CASE ApproveCount(r) \/ ApproveClose(r)
    BY <2>4, GoesTo, Finishes DEF ApproveCount, ApproveClose
  <2>5. CASE CloseResponses(r) \/ CloseValidations(r) \/ CloseCycle(r)
    BY <2>5, GoesTo, Finishes DEF CloseResponses, CloseValidations, CloseCycle, UnguardedStatus
  <2>6. CASE UploadRemove(r) \/ UploadRow(r)
    BY <2>6, ChecklistAssumption, GoesTo, RowUploaded DEF UploadRemove, UploadRow
  <2>7. CASE DistributeRead(r)
    BY <2>7, RowsRead DEF DistributeRead
  <2> QED BY <1>3, <2>1, <2>2, <2>3, <2>4, <2>5, <2>6, <2>7 DEF Continue
<1>4. ASSUME NEW r \in Requests, Fail(r)
      PROVE  TypeOK'
  BY <1>4, Finishes DEF Fail
<1>5. CASE UNCHANGED vars
  BY <1>5 DEF vars
<1> QED BY <1>1, <1>2, <1>3, <1>4, <1>5 DEF Next

\* Type correctness of the workflow.
THEOREM TypeCorrect == Spec => []TypeOK
<1>1. Init => TypeOK
  BY InitIInv DEF IInv
<1> QED BY <1>1, NextType, PTL DEF Spec

\* Every step preserves the inductive invariant: one step per action.
LEMMA NextIInv == IInv /\ [Next]_vars => IInv'
<1> USE DEF IInv, NothingIssuedBeforeDistribution, ValidationOnlyOfSubmittedWork,
        SubmittedHasValidation, EveryRowIsAsked, UpsertPending, Seeded, IssuedTogether,
        Alone, UploadInFlight, DistributeInFlight, AnswerInFlight, ApprovalInFlight,
        ClosingInFlight, InFlight, At, IsIdle, Published, Uploading, Distributing, Closing,
        Approving, CycleStatus, ResponseStatus, ValidationStatus, history
<1> SUFFICES ASSUME IInv, [Next]_vars, TypeOK'
             PROVE  IInv'
  BY NextType
<1>0. /\ cycle \in CycleStatus /\ overtaken \in BOOLEAN
      /\ response \in [Keys -> ResponseStatus] /\ validation \in [Keys -> ValidationStatus]
      /\ request \in [Requests -> Slot] /\ request' \in [Requests -> Slot]
      /\ applicability \in SUBSET Keys
  BY DEF TypeOK, Slot
<1> USE <1>0
\* An approval finds no distribution, and every upload that is under way.
<1>1. CASE SubmitCycle \/ ApproveCycle \/ RejectCycle
  <2>1. /\ cycle \notin Published \cup {"deleted"}
        /\ cycle' \notin {"distributed", "closed", "deleted"}
        /\ cycle' \in Published => overtaken' = InFlight(Uploading)
        /\ UNCHANGED <<applicability, response, validation, request, overlapped>>
    BY <1>1 DEF SubmitCycle, ApproveCycle, RejectCycle
  <2>2. applicability = {} /\ \A k \in Keys : response[k] = "none" /\ validation[k] = "none"
    BY <2>1
  <2>3. \A s \in Requests : request[s].at \notin Distributing \cup Approving \cup Closing
    BY <2>1, <2>2
  <2> QED BY <2>1, <2>2, <2>3
\* Nothing had been issued, so the cascade removes no answer.
<1>2. CASE DeleteCycle
  BY <1>2 DEF DeleteCycle, Parsed
<1>3. ASSUME NEW k \in Keys, Save(k)
      PROVE  IInv'
  BY <1>3 DEF Save, Editable, Parsed
<1>4. ASSUME NEW k \in Keys, SubmitForApproval(k)
      PROVE  IInv'
  BY <1>4 DEF SubmitForApproval, Parsed
<1>5. ASSUME NEW k \in Keys, RejectValidation(k)
      PROVE  IInv'
  BY <1>5 DEF RejectValidation, Parsed
\* The upsert leaves no submitted answer without a validation.
<1>6. ASSUME NEW S \in SUBSET Keys, SubmitAll(S)
      PROVE  IInv'
  <2>1. /\ \A k \in Keys : response'[k] = "none" <=> response[k] = "none"
        /\ \A k \in Keys : response'[k] = "submitted" =>
               \/ response[k] = "submitted" /\ validation'[k] = validation[k]
               \/ validation'[k] # "none"
        /\ UNCHANGED <<cycle, checklist, applicability, request, failed, overtaken, overlapped>>
    BY <1>6 DEF SubmitAll, Upserted, Editable
  <2>2. cycle \notin {"distributed", "closed"} =>
            \A k \in Keys : response[k] = "none" /\ validation[k] = "none"
    OBVIOUS
  <2> HIDE DEF NothingIssuedBeforeDistribution, ValidationOnlyOfSubmittedWork,
         SubmittedHasValidation, EveryRowIsAsked, UpsertPending, Seeded, IssuedTogether, Alone,
         UploadInFlight, DistributeInFlight, AnswerInFlight, ApprovalInFlight, ClosingInFlight,
         InFlight
  <2>3. NothingIssuedBeforeDistribution' /\ ValidationOnlyOfSubmittedWork'
    BY <1>6, <2>1, <2>2 DEF SubmitAll, Upserted, Editable,
       NothingIssuedBeforeDistribution, ValidationOnlyOfSubmittedWork, DistributeInFlight, Seeded
  <2>4. Seeded'
    BY <2>1, <2>2 DEF Seeded, Parsed
  <2>5. IssuedTogether'
    BY <2>1, <2>2 DEF IssuedTogether
  <2>6. SubmittedHasValidation'
    BY <2>1, <2>2 DEF SubmittedHasValidation, UpsertPending
  <2>7. EveryRowIsAsked'
    BY <2>1, <2>2 DEF EveryRowIsAsked, InFlight
  <2>8. Alone'
    BY <2>1, <2>2 DEF Alone
  <2>9. \A s \in Requests : UploadInFlight(s)' /\ DistributeInFlight(s)'
    BY <2>1, <2>2 DEF UploadInFlight, DistributeInFlight, Parsed
  <2>10. \A s \in Requests : AnswerInFlight(s)' /\ ApprovalInFlight(s)' /\ ClosingInFlight(s)'
    BY <1>6, <2>1, <2>2 DEF SubmitAll, Upserted, Editable,
       AnswerInFlight, ApprovalInFlight, ClosingInFlight, IssuedTogether
  <2> QED BY <2>3, <2>4, <2>5, <2>6, <2>7, <2>8, <2>9, <2>10
<1>7. ASSUME NEW r \in Requests, DistributeCheck(r)
      PROVE  IInv'
  <2>1. /\ request'[r].at = "distribute_count"
        /\ \A s \in Requests \ {r} : request'[s] = request[s]
    BY <1>7, GoesTo DEF DistributeCheck, TypeOK, Point
  <2>2. NothingIssuedBeforeDistribution' /\ ValidationOnlyOfSubmittedWork'
    BY <1>7, <2>1 DEF DistributeCheck, Parsed
  <2>3. Seeded' /\ IssuedTogether'
    BY <1>7, <2>1 DEF DistributeCheck, Parsed
  <2>4. SubmittedHasValidation' /\ EveryRowIsAsked'
    BY <1>7, <2>1 DEF DistributeCheck, Parsed
  <2>5. Alone'
    <3>1. ~overlapped' => ~overlapped /\ \A s \in Requests : request[s].at \notin Distributing
      BY <1>7 DEF DistributeCheck
    <3>2. cycle = "published" /\ UNCHANGED <<cycle, response>>
      BY <1>7 DEF DistributeCheck
    <3>3. \A k \in Keys : response[k] = "none"
      BY <3>2
    <3> QED BY <2>1, <3>1, <3>2, <3>3
  <2>6. \A s \in Requests : UploadInFlight(s)' /\ DistributeInFlight(s)'
    BY <1>7, <2>1 DEF DistributeCheck, Parsed
  <2>7. \A s \in Requests : AnswerInFlight(s)' /\ ApprovalInFlight(s)' /\ ClosingInFlight(s)'
    BY <1>7, <2>1 DEF DistributeCheck, Parsed
  <2> QED BY <2>2, <2>3, <2>4, <2>5, <2>6, <2>7
<1>8. ASSUME NEW r \in Requests, ForceClose(r)
      PROVE  IInv'
  <2>1. /\ request'[r].at = "close_responses"
        /\ \A s \in Requests \ {r} : request'[s] = request[s]
    BY <1>8, GoesTo DEF ForceClose, TypeOK, Point
  <2> QED BY <1>8, <2>1 DEF ForceClose, Parsed
\* r itself is about to write the validation.
<1>9. ASSUME NEW r \in Requests, NEW k \in Keys, Submit(r, k)
      PROVE  IInv'
  <2>1. /\ request'[r].at = "submit_upsert" /\ request'[r].key = k
        /\ \A s \in Requests \ {r} : request'[s] = request[s]
    BY <1>9, GoesTo DEF Submit, TypeOK, Point
  <2> QED BY <1>9, <2>1 DEF Submit, Editable, Parsed
<1>10. ASSUME NEW r \in Requests, NEW k \in Keys, Return(r, k)
      PROVE  IInv'
  <2>1. /\ request'[r].at = "return_reset" /\ request'[r].key = k
        /\ \A s \in Requests \ {r} : request'[s] = request[s]
    BY <1>10, GoesTo DEF Return, TypeOK, Point
  <2> QED BY <1>10, <2>1 DEF Return, Parsed
\* A validation exists, so the answers have been issued.
<1>11. ASSUME NEW r \in Requests, NEW S \in SUBSET PendingApproval, Approve(r, S)
      PROVE  IInv'
  <2>1. /\ request'[r].at = "approve_count"
        /\ \A s \in Requests \ {r} : request'[s] = request[s]
    BY <1>11, GoesTo DEF Approve, TypeOK, Point
  <2> QED BY <1>11, <2>1 DEF Approve, PendingApproval, Parsed
<1>12. ASSUME NEW r \in Requests, DistributeCount(r)
      PROVE  IInv'
  <2>1. /\ request'[r].at = IF applicability = {} THEN "distribute_read" ELSE "distribute_status"
        /\ \A s \in Requests \ {r} : request'[s] = request[s]
    BY <1>12, GoesTo DEF DistributeCount, TypeOK, Point
  <2> QED BY <1>12, <2>1 DEF DistributeCount, Parsed
\* The rows read are those of the checklist the cycle was published with.
<1>13. ASSUME NEW r \in Requests, DistributeRead(r)
      PROVE  IInv'
  <2>1. /\ request'[r].at = "distribute_seed"
        /\ request'[r].rows # {} /\ (request'[r].rows = Parsed \/ overtaken)
        /\ \A s \in Requests \ {r} : request'[s] = request[s]
    BY <1>13, RowsRead DEF TypeOK
  <2>2. NothingIssuedBeforeDistribution' /\ ValidationOnlyOfSubmittedWork'
    BY <1>13, <2>1 DEF DistributeRead, Parsed
  <2>3. Seeded' /\ IssuedTogether'
    BY <1>13, <2>1 DEF DistributeRead, Parsed
  <2>4. SubmittedHasValidation' /\ EveryRowIsAsked'
    BY <1>13, <2>1 DEF DistributeRead, Parsed
  <2>5. Alone'
    BY <1>13, <2>1 DEF DistributeRead, Parsed
  <2>6. \A s \in Requests : UploadInFlight(s)' /\ DistributeInFlight(s)'
    BY <1>13, <2>1 DEF DistributeRead, Parsed
  <2>7. \A s \in Requests : AnswerInFlight(s)' /\ ApprovalInFlight(s)' /\ ClosingInFlight(s)'
    BY <1>13, <2>1 DEF DistributeRead, Parsed
  <2> QED BY <2>2, <2>3, <2>4, <2>5, <2>6, <2>7
<1>14. ASSUME NEW r \in Requests, DistributeReadRefused(r) \/ DistributeSeedRefused(r)
      PROVE  IInv'
  BY <1>14, Finishes DEF DistributeReadRefused, DistributeSeedRefused, Parsed
\* Rows that come late are asked for by the request that adds them.
<1>15. ASSUME NEW r \in Requests, DistributeSeed(r)
      PROVE  IInv'
  <2>1. /\ request'[r].at = "distribute_status"
        /\ \A s \in Requests \ {r} : request'[s] = request[s]
    BY <1>15, GoesTo DEF DistributeSeed, TypeOK, Point
  <2>2. NothingIssuedBeforeDistribution' /\ ValidationOnlyOfSubmittedWork'
    BY <1>15, <2>1 DEF DistributeSeed, Parsed
  <2>3. Seeded' /\ IssuedTogether'
    BY <1>15, <2>1 DEF DistributeSeed, Parsed
  <2>4. SubmittedHasValidation' /\ EveryRowIsAsked'
    BY <1>15, <2>1 DEF DistributeSeed, Parsed
  <2>5. Alone'
    BY <1>15, <2>1 DEF DistributeSeed, Parsed
  <2>6. \A s \in Requests : UploadInFlight(s)' /\ DistributeInFlight(s)'
    BY <1>15, <2>1 DEF DistributeSeed, Parsed
  <2>7. \A s \in Requests : AnswerInFlight(s)' /\ ApprovalInFlight(s)' /\ ClosingInFlight(s)'
    BY <1>15, <2>1 DEF DistributeSeed, Parsed
  <2> QED BY <2>2, <2>3, <2>4, <2>5, <2>6, <2>7
\* Late or not, it finds the checklist seeded or the cycle deleted.
<1>16. ASSUME NEW r \in Requests, DistributeStatus(r)
      PROVE  IInv'
  <2>1. /\ request'[r].at = "distribute_insert"
        /\ \A s \in Requests \ {r} : request'[s] = request[s]
    BY <1>16, GoesTo DEF DistributeStatus, TypeOK, Point
  <2> QED BY <1>16, <2>1 DEF DistributeStatus, UnguardedStatus, Parsed
\* Afterwards every row has an answer.
<1>17. ASSUME NEW r \in Requests, DistributeInsert(r)
      PROVE  IInv'
  <2>1. /\ request'[r].at = "idle"
        /\ \A s \in Requests \ {r} : request'[s] = request[s]
    BY <1>17, Finishes DEF DistributeInsert, TypeOK, Point
  <2>2. /\ \A k \in Keys : response'[k] = "none" <=> response[k] = "none" /\ k \notin applicability
        /\ \A k \in Keys : response'[k] = "submitted" <=> response[k] = "submitted"
        /\ At(r, "distribute_insert")
        /\ UNCHANGED <<cycle, checklist, applicability, validation, failed, overtaken, overlapped>>
    BY <1>17 DEF DistributeInsert
  <2>3. cycle \notin {"distributed", "closed"} =>
            \A k \in Keys : response[k] = "none" /\ validation[k] = "none"
    OBVIOUS
  <2> HIDE DEF NothingIssuedBeforeDistribution, ValidationOnlyOfSubmittedWork,
         SubmittedHasValidation, EveryRowIsAsked, UpsertPending, Seeded, IssuedTogether, Alone,
         UploadInFlight, DistributeInFlight, AnswerInFlight, ApprovalInFlight, ClosingInFlight,
         InFlight
  <2>4. NothingIssuedBeforeDistribution' /\ ValidationOnlyOfSubmittedWork'
    BY <1>17, <2>1, <2>2, <2>3 DEF DistributeInsert,
       NothingIssuedBeforeDistribution, ValidationOnlyOfSubmittedWork, DistributeInFlight, Seeded
  <2>5. Seeded'
    BY <2>1, <2>2, <2>3 DEF Seeded, Parsed
  <2>6. IssuedTogether'
    BY <2>1, <2>2, <2>3 DEF IssuedTogether
  <2>7. SubmittedHasValidation'
    BY <2>1, <2>2, <2>3 DEF SubmittedHasValidation, UpsertPending
  <2>8. EveryRowIsAsked'
    BY <2>1, <2>2, <2>3 DEF EveryRowIsAsked, InFlight
  <2>9. Alone'
    BY <2>1, <2>2, <2>3 DEF Alone
  <2>10. \A s \in Requests : UploadInFlight(s)' /\ DistributeInFlight(s)'
    BY <2>1, <2>2, <2>3 DEF UploadInFlight, DistributeInFlight, Parsed
  <2>11. \A s \in Requests : AnswerInFlight(s)' /\ ApprovalInFlight(s)' /\ ClosingInFlight(s)'
    BY <1>17, <2>1, <2>2, <2>3 DEF DistributeInsert,
       AnswerInFlight, ApprovalInFlight, ClosingInFlight, IssuedTogether
  <2> QED BY <2>4, <2>5, <2>6, <2>7, <2>8, <2>9, <2>10, <2>11
<1>18. ASSUME NEW r \in Requests, SubmitUpsert(r)
      PROVE  IInv'
  <2>1. /\ request'[r].at = "idle"
        /\ \A s \in Requests \ {r} : request'[s] = request[s]
    BY <1>18, Finishes DEF SubmitUpsert, TypeOK, Point
  <2> QED BY <1>18, <2>1 DEF SubmitUpsert, Upserted, Parsed
<1>19. ASSUME NEW r \in Requests, ReturnReset(r)
      PROVE  IInv'
  <2>1. /\ request'[r].at = "idle"
        /\ \A s \in Requests \ {r} : request'[s] = request[s]
    BY <1>19, Finishes DEF ReturnReset, TypeOK, Point
  <2> QED BY <1>19, <2>1 DEF ReturnReset, Parsed
\* All answers exist, so finding only submitted ones means all are.
<1>20. ASSUME NEW r \in Requests, ApproveCount(r)
      PROVE  IInv'
  <2>1. /\ request'[r].at = IF NothingRemains THEN "approve_close" ELSE "idle"
        /\ \A s \in Requests \ {r} : request'[s] = request[s]
    BY <1>20, GoesTo, Finishes DEF ApproveCount, TypeOK, Point
  <2> QED BY <1>20, <2>1 DEF ApproveCount, NothingRemains, Parsed
<1>21. ASSUME NEW r \in Requests, ApproveClose(r)
      PROVE  IInv'
  <2>1. /\ request'[r].at = "idle"
        /\ \A s \in Requests \ {r} : request'[s] = request[s]
    BY <1>21, Finishes DEF ApproveClose, TypeOK, Point
  <2> QED BY <1>21, <2>1 DEF ApproveClose, Parsed
<1>22. ASSUME NEW r \in Requests, CloseResponses(r)
      PROVE  IInv'
  <2>1. /\ request'[r].at = "close_validations"
        /\ \A s \in Requests \ {r} : request'[s] = request[s]
    BY <1>22, GoesTo DEF CloseResponses, TypeOK, Point
  <2>2. /\ \A k \in Keys : response'[k] = "none" <=> response[k] = "none"
        /\ \A k \in Keys : response'[k] = "submitted" <=> response[k] = "submitted"
        /\ At(r, "close_responses")
        /\ UNCHANGED <<cycle, checklist, applicability, validation, failed, overtaken, overlapped>>
    BY <1>22 DEF CloseResponses
  <2>3. cycle \notin {"distributed", "closed"} =>
            \A k \in Keys : response[k] = "none" /\ validation[k] = "none"
    OBVIOUS
  <2> HIDE DEF NothingIssuedBeforeDistribution, ValidationOnlyOfSubmittedWork,
         SubmittedHasValidation, EveryRowIsAsked, UpsertPending, Seeded, IssuedTogether, Alone,
         UploadInFlight, DistributeInFlight, AnswerInFlight, ApprovalInFlight, ClosingInFlight,
         InFlight
  <2>4. NothingIssuedBeforeDistribution' /\ ValidationOnlyOfSubmittedWork'
    BY <1>22, <2>1, <2>2, <2>3 DEF CloseResponses,
       NothingIssuedBeforeDistribution, ValidationOnlyOfSubmittedWork, DistributeInFlight, Seeded
  <2>5. Seeded'
    BY <2>1, <2>2, <2>3 DEF Seeded, Parsed
  <2>6. IssuedTogether'
    BY <2>1, <2>2, <2>3 DEF IssuedTogether
  <2>7. SubmittedHasValidation'
    BY <2>1, <2>2, <2>3 DEF SubmittedHasValidation, UpsertPending
  <2>8. EveryRowIsAsked'
    BY <2>1, <2>2, <2>3 DEF EveryRowIsAsked, InFlight
  <2>9. Alone'
    BY <2>1, <2>2, <2>3 DEF Alone
  <2>10. \A s \in Requests : UploadInFlight(s)' /\ DistributeInFlight(s)'
    BY <2>1, <2>2, <2>3 DEF UploadInFlight, DistributeInFlight, Parsed
  <2>11. \A s \in Requests : AnswerInFlight(s)' /\ ApprovalInFlight(s)' /\ ClosingInFlight(s)'
    BY <1>22, <2>1, <2>2, <2>3 DEF CloseResponses,
       AnswerInFlight, ApprovalInFlight, ClosingInFlight, IssuedTogether
  <2> QED BY <2>4, <2>5, <2>6, <2>7, <2>8, <2>9, <2>10, <2>11
<1>23. ASSUME NEW r \in Requests, CloseValidations(r)
      PROVE  IInv'
  <2>1. /\ request'[r].at = "close_cycle"
        /\ \A s \in Requests \ {r} : request'[s] = request[s]
    BY <1>23, GoesTo DEF CloseValidations, TypeOK, Point
  <2> QED BY <1>23, <2>1 DEF CloseValidations, Parsed
<1>24. ASSUME NEW r \in Requests, CloseCycle(r)
      PROVE  IInv'
  <2>1. /\ request'[r].at = "idle"
        /\ \A s \in Requests \ {r} : request'[s] = request[s]
    BY <1>24, Finishes DEF CloseCycle, TypeOK, Point
  <2> QED BY <1>24, <2>1 DEF CloseCycle, UnguardedStatus, Parsed
\* An upload that goes on in a published cycle has overtaken its approval.
<1>25. ASSUME NEW r \in Requests, UploadCheck(r)
      PROVE  IInv'
  BY <1>25, UploadBegins DEF UploadCheck, Parsed
<1>26. ASSUME NEW r \in Requests, UploadRemove(r)
      PROVE  IInv'
  <2>1. /\ request'[r].at = "upload_row"
        /\ \A s \in Requests \ {r} : request'[s] = request[s]
    BY <1>26, GoesTo DEF UploadRemove, TypeOK, Point
  <2> QED BY <1>26, <2>1 DEF UploadRemove
<1>27. ASSUME NEW r \in Requests, UploadRow(r)
      PROVE  IInv'
  BY <1>27, RowUploaded DEF UploadRow
\* Only SubmittedHasValidation and EveryRowIsAsked need the flag.
<1>28. ASSUME NEW r \in Requests, Fail(r)
      PROVE  IInv'
  BY <1>28, Finishes DEF Fail, Parsed
<1>29. CASE OneStatement
  BY <1>29, <1>1, <1>2, <1>3, <1>4, <1>5, <1>6 DEF OneStatement
<1>30. ASSUME NEW r \in Requests, Arrive(r)
       PROVE  IInv'
  <2>1. ASSUME NEW k \in Keys, ApproveValidation(r, k)
        PROVE  IInv'
    BY <2>1, <1>11 DEF ApproveValidation
  <2>2. ASSUME NEW q \in Questions, ApproveQuestion(r, q)
        PROVE  IInv'
    BY <2>2, <1>11 DEF ApproveQuestion
  <2> QED BY <1>30, <2>1, <2>2, <1>7, <1>8, <1>9, <1>10, <1>25 DEF Arrive
<1>31. ASSUME NEW r \in Requests, Continue(r)
       PROVE  IInv'
  BY <1>31, <1>12, <1>13, <1>14, <1>15, <1>16, <1>17, <1>18, <1>19, <1>20, <1>21,
     <1>22, <1>23, <1>24, <1>26, <1>27 DEF Continue
<1>32. CASE UNCHANGED vars
  BY <1>32 DEF vars, Parsed
<1> QED BY <1>28, <1>29, <1>30, <1>31, <1>32 DEF Next

\* Every reachable state satisfies the inductive invariant.
THEOREM Invariance == Spec => []IInv
BY InitIInv, NextIInv, PTL DEF Spec

\* A cycle that is not distributed has nothing a deletion could destroy.
THEOREM NothingIssued == Spec => []NothingIssuedBeforeDistribution
<1>1. IInv => NothingIssuedBeforeDistribution
  BY DEF IInv
<1> QED BY <1>1, Invariance, PTL

\* Only submitted work is ever validated.
THEOREM OnlySubmittedWork == Spec => []ValidationOnlyOfSubmittedWork
<1>1. IInv => ValidationOnlyOfSubmittedWork
  BY DEF IInv
<1> QED BY <1>1, Invariance, PTL

\* Without a failure no submitted answer is hidden from the validators.
THEOREM NoHiddenAnswer == Spec => []SubmittedHasValidation
<1>1. IInv => SubmittedHasValidation
  BY DEF IInv
<1> QED BY <1>1, Invariance, PTL

\* Without a failure no distributed cycle waits for an answer nobody was asked
\* for, however distributions and uploads overlap.
THEOREM EveryRowAsked == Spec => []EveryRowIsAsked
<1>1. IInv => EveryRowIsAsked
  BY DEF IInv
<1> QED BY <1>1, Invariance, PTL

-----------------------------------------------------------------------------
(* Action properties *)

\* The actions that change validations, with what each of them writes.
LEMMA ValidationSteps ==
    ASSUME IInv, [Next]_vars, NEW k \in Keys
    PROVE  \/ validation'[k] = validation[k]
           \/ validation'[k] = Upserted(validation[k])
           \/ validation[k] = "in_review" /\ validation'[k] = "returned"
           \/ /\ validation[k] \in {"pending", "in_review", "rejected"}
              /\ validation'[k] = "pending_approval"
           \/ validation[k] = "pending_approval" /\ validation'[k] \in {"rejected", "closed"}
           \/ validation[k] # "closed" /\ validation'[k] = "cancelled"
<1> USE DEF IInv, TypeOK
<1>1. CASE UNCHANGED validation
  BY <1>1
<1>2. CASE DeleteCycle
  BY <1>2 DEF DeleteCycle, NothingIssuedBeforeDistribution
<1>3. ASSUME NEW j \in Keys, SubmitForApproval(j) \/ RejectValidation(j)
      PROVE  validation[k] # validation'[k] =>
                \/ /\ validation[k] \in {"pending", "in_review", "rejected"}
                   /\ validation'[k] = "pending_approval"
                \/ validation[k] = "pending_approval" /\ validation'[k] = "rejected"
  BY <1>3 DEF SubmitForApproval, RejectValidation
<1>4. ASSUME NEW S \in SUBSET Keys, SubmitAll(S)
      PROVE  validation'[k] \in {validation[k], Upserted(validation[k])}
  BY <1>4 DEF SubmitAll
<1>5. ASSUME NEW r \in Requests, NEW S \in SUBSET PendingApproval, Approve(r, S)
      PROVE  \/ validation'[k] = validation[k]
             \/ validation[k] = "pending_approval" /\ validation'[k] = "closed"
  BY <1>5 DEF Approve, PendingApproval
<1>6. ASSUME NEW r \in Requests, SubmitUpsert(r)
      PROVE  validation'[k] \in {validation[k], Upserted(validation[k])}
  BY <1>6 DEF SubmitUpsert
<1>7. ASSUME NEW r \in Requests, ReturnReset(r)
      PROVE  \/ validation'[k] = validation[k]
             \/ validation[k] = "in_review" /\ validation'[k] = "returned"
  BY <1>7 DEF ReturnReset
<1>8. ASSUME NEW r \in Requests, CloseValidations(r)
      PROVE  \/ validation'[k] = validation[k]
             \/ validation[k] # "closed" /\ validation'[k] = "cancelled"
  BY <1>8 DEF CloseValidations
<1>9. CASE OneStatement
  BY <1>1, <1>2, <1>3, <1>4, <1>9
     DEF OneStatement, SubmitCycle, ApproveCycle, RejectCycle, Save
<1>10. ASSUME NEW r \in Requests, Arrive(r)
       PROVE  UNCHANGED validation \/ \E S \in SUBSET PendingApproval : Approve(r, S)
  BY <1>10 DEF Arrive, UploadCheck, DistributeCheck, ForceClose, Submit, Return,
               ApproveValidation, ApproveQuestion
<1>11. ASSUME NEW r \in Requests, Continue(r)
       PROVE  UNCHANGED validation \/ SubmitUpsert(r) \/ ReturnReset(r) \/ CloseValidations(r)
  BY <1>11 DEF Continue, UploadRemove, UploadRow, DistributeCount, DistributeRead,
               DistributeReadRefused, DistributeSeed, DistributeSeedRefused,
               DistributeStatus, DistributeInsert, ApproveCount, ApproveClose,
               CloseResponses, CloseCycle
<1>12. ASSUME NEW r \in Requests, Fail(r)
       PROVE  UNCHANGED validation
  BY <1>12 DEF Fail
<1>13. CASE UNCHANGED vars
  BY <1>1, <1>13 DEF vars
<1> QED
  BY <1>1, <1>5, <1>6, <1>7, <1>8, <1>9, <1>10, <1>11, <1>12, <1>13 DEF Next

\* No request reopens or cancels what a Senior Validator approved.
THEOREM ApprovalsStand == Spec => ApprovalIsFinal
<1>1. IInv /\ [Next]_vars =>
        [\A k \in Keys : validation[k] = "closed" => validation'[k] = "closed"]_vars
  BY ValidationSteps DEF Upserted
<1> QED BY <1>1, Invariance, PTL DEF Spec, ApprovalIsFinal

\* Only a decision or the force close takes a validation from the Senior Validator.
THEOREM DecisionsAwaited == Spec => PendingApprovalAwaitsDecision
<1>1. IInv /\ [Next]_vars =>
        [\A k \in Keys : validation[k] = "pending_approval" =>
           validation'[k] \in {"pending_approval", "closed", "rejected", "cancelled"}]_vars
  BY ValidationSteps DEF Upserted
<1> QED BY <1>1, Invariance, PTL DEF Spec, PendingApprovalAwaitsDecision

\* A cycle closed automatically has had every answer submitted: something has been
\* approved, so all rows have been issued together.
THEOREM AutomaticCloseIsComplete == Spec => AutoCloseNeedsEverySubmission
<1>1. IInv /\ [Next]_vars =>
        [\A r \in Requests : AutoCloses(r) /\ IsIdle(r)' /\ ~overtaken =>
           \A k \in applicability : response[k] \in {"submitted", "returned", "cancelled"}]_vars
  BY DEF IInv, TypeOK, ApprovalInFlight, AutoCloses, IssuedTogether, Approving, At
<1> QED BY <1>1, Invariance, PTL DEF Spec, AutoCloseNeedsEverySubmission

\* The actions that change answers never cancel a submitted one, nor touch a
\* cancelled one: all of them select by status, and a cycle that can be deleted
\* has no answers.
THEOREM CancellationIsFinal == Spec => CancelledAnswersStayCancelled
<1> DEFINE Kept ==
      \A k \in Keys : /\ response[k] = "cancelled" => response'[k] = "cancelled"
                      /\ response[k] = "submitted" => response'[k] # "cancelled"
<1>1. ASSUME IInv, [Next]_vars
      PROVE  [Kept]_vars
  <2> USE <1>1 DEF IInv, TypeOK
  <2>1. CASE UNCHANGED response
    BY <2>1
  <2>2. CASE DeleteCycle
    BY <2>2 DEF DeleteCycle, NothingIssuedBeforeDistribution
  <2>3. ASSUME NEW j \in Keys, Save(j)
        PROVE  Kept
    BY <2>3 DEF Save, Editable
  <2>4. ASSUME NEW S \in SUBSET Keys, SubmitAll(S)
        PROVE  Kept
    BY <2>4 DEF SubmitAll, Editable
  <2>5. ASSUME NEW r \in Requests, NEW j \in Keys, Submit(r, j) \/ Return(r, j)
        PROVE  Kept
    BY <2>5 DEF Submit, Return, Editable
  <2>6. ASSUME NEW r \in Requests, DistributeInsert(r) \/ CloseResponses(r)
        PROVE  Kept
    BY <2>6 DEF DistributeInsert, CloseResponses
  <2>7. CASE OneStatement
    BY <2>1, <2>2, <2>3, <2>4, <2>7 DEF OneStatement, SubmitCycle, ApproveCycle,
       RejectCycle, SubmitForApproval, RejectValidation
  <2>8. ASSUME NEW r \in Requests, Arrive(r)
        PROVE  Kept
    BY <2>1, <2>5, <2>8 DEF Arrive, UploadCheck, DistributeCheck, ForceClose,
       ApproveValidation, ApproveQuestion, Approve
  <2>9. ASSUME NEW r \in Requests, Continue(r)
        PROVE  Kept
    BY <2>1, <2>6, <2>9 DEF Continue, UploadRemove, UploadRow, DistributeCount,
       DistributeRead, DistributeReadRefused, DistributeSeed, DistributeSeedRefused,
       DistributeStatus, SubmitUpsert, ReturnReset, ApproveCount, ApproveClose,
       CloseValidations, CloseCycle
  <2>10. ASSUME NEW r \in Requests, Fail(r)
         PROVE  Kept
    BY <2>1, <2>10 DEF Fail
  <2> QED BY <2>7, <2>8, <2>9, <2>10 DEF Next
<1> QED BY <1>1, Invariance, PTL DEF Spec, CancelledAnswersStayCancelled

\* A distribution that is late has parsed the checklist whose rows the cycle has,
\* unless an upload has overtaken the approval.
THEOREM ApplicabilityIsFrozen == Spec => ApplicabilityFrozen
<1> DEFINE Frozen == cycle \in {"distributed", "closed"} /\ ~overtaken =>
                         applicability' = applicability
<1>1. ASSUME IInv, [Next]_vars
      PROVE  [Frozen]_vars
  <2>1. CASE UNCHANGED applicability
    BY <2>1
  <2>2. CASE DeleteCycle
    BY <2>2 DEF DeleteCycle
  <2>3. ASSUME NEW r \in Requests, DistributeSeed(r)
        PROVE  Frozen
    <3>1. cycle \in {"distributed", "closed"} /\ ~overtaken =>
              applicability = Parsed /\ request[r].rows = Parsed
      BY <1>1, <2>3 DEF DistributeSeed, IInv, Seeded, Published, DistributeInFlight
    <3> QED BY <2>3, <3>1 DEF DistributeSeed
  <2>4. CASE OneStatement
    BY <2>1, <2>2, <2>4 DEF OneStatement, SubmitCycle, ApproveCycle, RejectCycle, Save,
       SubmitForApproval, RejectValidation, SubmitAll
  <2>5. ASSUME NEW r \in Requests, Arrive(r)
        PROVE  Frozen
    BY <2>1, <2>5 DEF Arrive, UploadCheck, DistributeCheck, ForceClose, Submit, Return,
       ApproveValidation, ApproveQuestion, Approve
  <2>6. ASSUME NEW r \in Requests, Continue(r)
        PROVE  Frozen
    BY <2>1, <2>3, <2>6 DEF Continue, UploadRemove, UploadRow, DistributeCount,
       DistributeRead, DistributeReadRefused, DistributeSeedRefused,
       DistributeStatus, DistributeInsert, SubmitUpsert, ReturnReset, ApproveCount,
       ApproveClose, CloseResponses, CloseValidations, CloseCycle
  <2>7. ASSUME NEW r \in Requests, Fail(r)
        PROVE  Frozen
    BY <2>1, <2>7 DEF Fail
  <2> QED BY <1>1, <2>4, <2>5, <2>6, <2>7 DEF Next
<1> QED BY <1>1, Invariance, PTL DEF Spec, ApplicabilityFrozen

-----------------------------------------------------------------------------
(* The handlers implement the abstract cycle *)

Issued == {k \in Keys : response[k] # "none"}
Approved == {k \in Keys : validation[k] = "closed"}

\* Every step of a handler is a step of the abstract cycle, or none.
LEMMA Simulation ==
    ASSUME IInv, [Next]_vars
    PROVE  \/ Lifecycle!Next
           \/ /\ cycle' = cycle /\ overlapped' = overlapped
              /\ Issued' = Issued /\ Approved' = Approved
<1> DEFINE Stutter == /\ cycle' = cycle /\ overlapped' = overlapped
                      /\ Issued' = Issued /\ Approved' = Approved
           Step == Lifecycle!Next \/ Stutter
<1> USE DEF IInv, TypeOK, Lifecycle!Next, Lifecycle!Move, Issued, Approved, At, IsIdle, history
<1>1. CASE SubmitCycle \/ ApproveCycle \/ RejectCycle
  BY <1>1 DEF SubmitCycle, ApproveCycle, RejectCycle
\* Nothing has been issued, so nothing is lost.
<1>2. CASE DeleteCycle
  <2>1. Issued = {} /\ Approved = {} /\ Issued' = {} /\ Approved' = {}
    BY <1>2 DEF DeleteCycle, NothingIssuedBeforeDistribution
  <2> QED BY <1>2, <2>1 DEF DeleteCycle, Lifecycle!Delete
<1>3. ASSUME NEW k \in Keys, Save(k)
      PROVE  Step
  BY <1>3 DEF Save, Editable
<1>4. ASSUME NEW k \in Keys, SubmitForApproval(k) \/ RejectValidation(k)
      PROVE  Step
  BY <1>4 DEF SubmitForApproval, RejectValidation
<1>5. ASSUME NEW S \in SUBSET Keys, SubmitAll(S)
      PROVE  Step
  BY <1>5 DEF SubmitAll, Editable, Upserted
<1>6. ASSUME NEW r \in Requests, NEW k \in Keys, Submit(r, k) \/ Return(r, k)
      PROVE  Step
  BY <1>6 DEF Submit, Return, Editable
\* Only submitted work is approved.
<1>7. ASSUME NEW r \in Requests, NEW S \in SUBSET PendingApproval, Approve(r, S)
      PROVE  Step
  <2>1. S \in SUBSET Keys /\ S \subseteq Issued
    BY DEF PendingApproval, ValidationOnlyOfSubmittedWork
  <2>2. Approved' = Approved \cup S /\ Issued' = Issued /\ cycle' = cycle
    BY <1>7, <2>1 DEF Approve
  <2>3. overlapped' = overlapped
    BY <1>7 DEF Approve
  <2> QED BY <2>1, <2>2, <2>3 DEF Lifecycle!Finalise
\* The cycle is still published, or gone, unless another distribution was first.
<1>8. ASSUME NEW r \in Requests, DistributeStatus(r)
      PROVE  Step
  <2>1. /\ cycle' = UnguardedStatus("distributed")
        /\ UNCHANGED <<response, validation, overlapped>>
    BY <1>8 DEF DistributeStatus
  <2>2. cycle \in Published \cup {"deleted"}
    BY <1>8 DEF DistributeStatus, DistributeInFlight, Distributing
  <2>3. cycle \in {"published", "deleted"} \/ overlapped
    BY <1>8 DEF DistributeStatus, Alone, Distributing
  <2> QED BY <2>1, <2>2, <2>3 DEF UnguardedStatus, Published, Lifecycle!Reopen
\* The answers are issued for the first time, unless distributions overlap.
<1>9. ASSUME NEW r \in Requests, DistributeInsert(r)
      PROVE  Step
  <2>1. /\ Issued' = Issued \cup applicability
        /\ UNCHANGED <<cycle, validation, overlapped>>
    BY <1>9 DEF DistributeInsert
  <2>2. \/ cycle \in {"distributed", "closed"}
        \/ cycle = "deleted" /\ applicability = {}
    <3>1. At(r, "distribute_insert") /\ DistributeInFlight(r)
      BY <1>9 DEF DistributeInsert
    <3>2. cycle \in {"distributed", "closed", "deleted"}
      BY <3>1 DEF DistributeInFlight
    <3>3. cycle = "deleted" => applicability = {}
      BY DEF Seeded, Published
    <3> QED BY <3>2, <3>3
  <2>3. overlapped \/ Issued = {}
    BY <1>9 DEF DistributeInsert, Alone, Distributing
  <2>4. Issued' \in SUBSET Keys /\ Issued \subseteq Issued' /\ Approved' = Approved
    BY <2>1
  <2>5. CASE cycle = "deleted"
    BY <2>1, <2>2, <2>4, <2>5
  <2>6. CASE cycle # "deleted" /\ Issued = {}
    <3>1. cycle \in {"distributed", "closed"} /\ applicability # {}
      BY <2>2, <2>6 DEF Seeded
    <3>2. Issued' # {}
      BY <2>1, <3>1
    <3> QED BY <2>1, <2>4, <2>6, <3>1, <3>2 DEF Lifecycle!Issue
  <2>7. CASE cycle # "deleted" /\ overlapped
    BY <2>1, <2>2, <2>4, <2>7 DEF Lifecycle!IssueMore
  <2> QED BY <2>3, <2>5, <2>6, <2>7
<1>10. ASSUME NEW r \in Requests, SubmitUpsert(r) \/ ReturnReset(r)
       PROVE  Step
  BY <1>10 DEF SubmitUpsert, ReturnReset, Upserted, AnswerInFlight
<1>11. ASSUME NEW r \in Requests, ApproveClose(r) \/ CloseCycle(r)
       PROVE  Step
  BY <1>11 DEF ApproveClose, CloseCycle, UnguardedStatus, ClosingInFlight, Closing
<1>12. ASSUME NEW r \in Requests, CloseResponses(r) \/ CloseValidations(r)
       PROVE  Step
  BY <1>12 DEF CloseResponses, CloseValidations
<1>13. ASSUME NEW r \in Requests,
              \/ UploadCheck(r) \/ UploadRemove(r) \/ UploadRow(r)
              \/ ForceClose(r) \/ DistributeCount(r) \/ DistributeRead(r)
              \/ DistributeReadRefused(r) \/ DistributeSeed(r) \/ DistributeSeedRefused(r)
              \/ ApproveCount(r) \/ Fail(r)
       PROVE  Step
  BY <1>13 DEF UploadCheck, UploadRemove, UploadRow, ForceClose, DistributeCount,
     DistributeRead, DistributeReadRefused, DistributeSeed, DistributeSeedRefused,
     ApproveCount, Fail
<1>14. CASE OneStatement
  BY <1>1, <1>2, <1>3, <1>4, <1>5, <1>14 DEF OneStatement
<1>15. ASSUME NEW r \in Requests, Arrive(r)
       PROVE  Step
  <2>1. ASSUME NEW k \in Keys, ApproveValidation(r, k)
        PROVE  Step
    BY <2>1, <1>7 DEF ApproveValidation
  <2>2. ASSUME NEW q \in Questions, ApproveQuestion(r, q)
        PROVE  Step
    BY <2>2, <1>7 DEF ApproveQuestion
  <2>3. CASE DistributeCheck(r)
    BY <2>3 DEF DistributeCheck, Lifecycle!Overlap
  <2> QED BY <1>6, <1>13, <1>15, <2>1, <2>2, <2>3 DEF Arrive
<1>16. ASSUME NEW r \in Requests, Continue(r)
       PROVE  Step
  BY <1>8, <1>9, <1>10, <1>11, <1>12, <1>13, <1>16 DEF Continue
<1>17. CASE UNCHANGED vars
  BY <1>17 DEF vars
<1> QED BY <1>13, <1>14, <1>15, <1>16, <1>17 DEF Next

\* The handlers implement the abstract cycle.
THEOREM Refinement == Spec => LifecycleRefinement
<1>1. Init => Lifecycle!Init
  BY DEF Init, Lifecycle!Init
<1>2. IInv /\ [Next]_vars => [Lifecycle!Next]_(Lifecycle!lifecycle)
  BY Simulation DEF Lifecycle!lifecycle, Issued, Approved
<1> QED BY <1>1, <1>2, Invariance, PTL DEF Spec, LifecycleRefinement, Lifecycle!Spec

-----------------------------------------------------------------------------
(* People at their pages do what the server is modelled to be asked for, and *)
(* the Senior Validator is never asked about an item without a score.        *)

PageType ==
    /\ TypeOK
    /\ vscore \in [Keys -> Scores \cup {NoScore}]
    /\ page \in [Validators -> [at : {"away", "open", "closing"}, key : Keys \cup {NoKey},
                                shown : ValidationStatus, returned : BOOLEAN,
                                mark : Scores \cup {NoScore}]]

DecisionOf ==
    /\ decision \in [at : {"overview", "open", "next"}, key : Keys \cup {NoKey}]
    /\ decision.at = "open" => decision.key \in Keys

\* An open page is of an item.  Between its two requests, the first of which has
\* written the score, the item has one, and no later PUT takes it away.
PageOf(v) ==
    /\ page[v].at # "away" => page[v].key \in Keys
    /\ page[v].at = "closing" => vscore[page[v].key] # NoScore

DeskInv ==
    /\ PageType
    /\ NothingUnscored
    /\ DecisionOf
    /\ \A v \in Validators : PageOf(v)

LEMMA InitDesk == DeskInit => DeskInv
<1> SUFFICES ASSUME DeskInit PROVE DeskInv
    OBVIOUS
<1>1. TypeOK
    BY InitIInv DEF DeskInit, IInv
<1>2. PageType
    BY <1>1 DEF DeskInit, PageType, Away, ValidationStatus
<1>3. DecisionOf
    BY DEF DeskInit, DecisionOf, Overview
<1>4. QED
    BY <1>2, <1>3 DEF DeskInit, Init, DeskInv, NothingUnscored, PageOf, Away

-----------------------------------------------------------------------------
(* The steps at the desks are steps of the server, or none. *)

\* What is asked of the server at the desks.
Served ==
    \/ ListClick
    \/ \E v \in Validators : ReturnAnswer(v) \/ CloseValidation(v)
    \/ \E k \in Keys : ClickSave(k) \/ ClickSubmit(k)
    \/ ClickApprove \/ ClickReject \/ ClickSubmitAll
    \/ \E r \in Requests : Statement(r)

\* What stays with the browser, or writes a score and no status.
AtThePage(v) ==
    \/ \E k \in Keys : Open(v, k)
    \/ \E s \in Scores : Pick(v, s)
    \/ SaveAssessment(v) \/ ClickSubmitForApproval(v) \/ CloseRefused(v)

AtTheOverview == OpenNext \/ \E k \in Keys : OpenListed(k)

LEMMA PageKeepsServer ==
    /\ \A v \in Validators : AtThePage(v) => UNCHANGED vars
    /\ AtTheOverview => UNCHANGED vars
BY DEF AtThePage, Open, Pick, SaveAssessment, ClickSubmitForApproval, CloseRefused,
    AtTheOverview, OpenNext, OpenListed

LEMMA ServerStep ==
    ASSUME DeskInv, Served
    PROVE  Next
<1>1. /\ Senior \in Requests /\ Responder \in Requests
      /\ \A v \in Validators : v \in Requests
    BY DesksAssumption
<1>2. CASE ListClick
    BY <1>1, <1>2 DEF ListClick, SubmitAtList, DeleteAtList, SeniorAtList, ValidatorAtList,
        Next, OneStatement, Arrive
<1>3. ASSUME NEW v \in Validators, ReturnAnswer(v)
      PROVE  Next
    <2>1. page[v].key \in Keys /\ Return(v, page[v].key)
        BY <1>3 DEF ReturnAnswer, Returnable, CanClick, DeskInv, PageOf
    <2>2. QED
        BY <1>1, <2>1 DEF Next, Arrive
<1>4. ASSUME NEW v \in Validators, CloseValidation(v)
      PROVE  Next
    <2>1. page[v].key \in Keys /\ SubmitForApproval(page[v].key)
        BY <1>4 DEF CloseValidation, DeskInv, PageOf
    <2>2. QED
        BY <2>1 DEF Next, OneStatement
<1>5. CASE ClickApprove \/ ClickReject
    <2>1. /\ decision.key \in Keys
          /\ ApproveValidation(Senior, decision.key) \/ RejectValidation(decision.key)
        BY <1>5 DEF ClickApprove, ClickReject, DeskInv, DecisionOf
    <2>2. QED
        BY <1>1, <2>1 DEF Next, OneStatement, Arrive
<1>6. ASSUME NEW k \in Keys, ClickSave(k) \/ ClickSubmit(k)
      PROVE  Next
    <2>1. Save(k) \/ Submit(Responder, k)
        BY <1>6 DEF ClickSave, ClickSubmit
    <2>2. QED
        BY <1>1, <2>1 DEF Next, OneStatement, Arrive
<1>7. CASE ClickSubmitAll
    <2> DEFINE S == {k \in Keys : response[k] \in Editable}
    <2>1. S \in SUBSET Keys /\ SubmitAll(S)
        BY <1>7 DEF ClickSubmitAll
    <2>2. QED
        BY <2>1 DEF Next, OneStatement
<1>8. ASSUME NEW r \in Requests, Statement(r)
      PROVE  Next
    BY <1>8 DEF Statement, Next
<1>9. QED
    BY <1>2, <1>3, <1>4, <1>5, <1>6, <1>7, <1>8 DEF Served

LEMMA DeskStep ==
    ASSUME DeskInv, [DeskNext]_allVars
    PROVE  [Next]_vars
<1>1. CASE Served
    BY <1>1, ServerStep
<1>2. CASE AtTheOverview \/ \E v \in Validators : AtThePage(v)
    BY <1>2, PageKeepsServer
<1>3. CASE UNCHANGED allVars
    BY <1>3 DEF allVars
<1>4. QED
    BY <1>1, <1>2, <1>3 DEF DeskNext, Served, AtThePage, AtTheOverview

-----------------------------------------------------------------------------
(* Scores *)

\* Everything a server does but SubmitForApproval, in this proof.
OtherStep ==
    \/ SubmitCycle \/ ApproveCycle \/ RejectCycle \/ DeleteCycle
    \/ \E k \in Keys : Save(k) \/ RejectValidation(k)
    \/ \E S \in SUBSET Keys : SubmitAll(S)
    \/ \E r \in Requests : Arrive(r) \/ Continue(r)

\* It sends nothing new to the Senior Validator.
LEMMA NothingSent ==
    ASSUME TypeOK, OtherStep, NEW k \in Keys, validation'[k] \in {"pending_approval", "closed"}
    PROVE  validation[k] \in {"pending_approval", "closed"}
<1> SUFFICES ASSUME validation[k] \notin {"pending_approval", "closed"} PROVE FALSE
    OBVIOUS
<1> USE DEF TypeOK, ValidationStatus
<1>1. ~(validation' = validation)
    OBVIOUS
<1>2. ~(SubmitCycle \/ ApproveCycle \/ RejectCycle \/ DeleteCycle)
    BY <1>1 DEF SubmitCycle, ApproveCycle, RejectCycle, DeleteCycle
<1>3. ASSUME NEW j \in Keys, Save(j) \/ RejectValidation(j)
      PROVE  FALSE
    BY <1>3 DEF Save, RejectValidation
<1>4. ASSUME NEW S \in SUBSET Keys, SubmitAll(S)
      PROVE  FALSE
    BY <1>4 DEF SubmitAll, Upserted
<1>5. ASSUME NEW r \in Requests, Arrive(r)
      PROVE  FALSE
    <2>1. ASSUME NEW S \in SUBSET PendingApproval, Approve(r, S)
          PROVE  FALSE
        BY <2>1 DEF Approve, PendingApproval
    <2>2. ASSUME NEW j \in Keys, Submit(r, j) \/ Return(r, j) \/ ApproveValidation(r, j)
          PROVE  FALSE
        <3>1. ~ApproveValidation(r, j)
            BY <2>1 DEF ApproveValidation
        <3>2. QED
            BY <1>1, <2>2, <3>1 DEF Submit, Return
    <2>3. ASSUME NEW q \in Questions, ApproveQuestion(r, q)
          PROVE  FALSE
        BY <2>1, <2>3 DEF ApproveQuestion
    <2>4. QED
        BY <1>1, <1>5, <2>2, <2>3 DEF Arrive, UploadCheck, DistributeCheck, ForceClose
<1>6. ASSUME NEW r \in Requests, Continue(r)
      PROVE  FALSE
    <2>1. CASE SubmitUpsert(r) \/ ReturnReset(r)
        BY <2>1 DEF SubmitUpsert, ReturnReset, Upserted
    <2>2. CASE CloseValidations(r)
        BY <2>2 DEF CloseValidations
    <2>3. QED
        BY <1>1, <1>6, <2>1, <2>2 DEF Continue, UploadRemove, UploadRow, DistributeCount,
            DistributeRead, DistributeReadRefused, DistributeSeed, DistributeSeedRefused,
            DistributeStatus, DistributeInsert, ApproveCount, ApproveClose, CloseResponses,
            CloseCycle
<1>7. QED
    BY <1>2, <1>3, <1>4, <1>5, <1>6 DEF OtherStep

LEMMA NextDesk == DeskInv /\ [DeskNext]_allVars => DeskInv'
<1> SUFFICES ASSUME DeskInv, [DeskNext]_allVars PROVE DeskInv'
    OBVIOUS
<1> USE DEF DeskInv, PageType
<1>1. TypeOK'
    BY DeskStep, NextType
\* The page.
<1>2. ASSUME NEW v \in Validators, NEW k \in Keys, Open(v, k)
      PROVE  DeskInv'
    <2>1. Loaded(k) \in [at : {"away", "open", "closing"}, key : Keys \cup {NoKey},
                         shown : ValidationStatus, returned : BOOLEAN,
                         mark : Scores \cup {NoScore}]
        BY DEF Loaded, TypeOK
    <2>2. Loaded(k).at = "open" /\ Loaded(k).key = k
        BY DEF Loaded
    <2>3. QED
        BY <1>1, <1>2, <2>1, <2>2 DEF Open, NothingUnscored, PageOf, DecisionOf, vars
<1>3. ASSUME NEW v \in Validators, NEW s \in Scores, Pick(v, s)
      PROVE  DeskInv'
    BY <1>1, <1>3 DEF Pick, NothingUnscored, PageOf, DecisionOf, vars
<1>4. ASSUME NEW v \in Validators, SaveAssessment(v)
      PROVE  DeskInv'
    BY <1>1, <1>4 DEF SaveAssessment, Put, NothingUnscored, PageOf, DecisionOf, vars
<1>5. ASSUME NEW v \in Validators, ClickSubmitForApproval(v)
      PROVE  DeskInv'
    BY <1>1, <1>5 DEF ClickSubmitForApproval, CanClick, Put, NothingUnscored, PageOf, DecisionOf, vars
<1>6. ASSUME NEW v \in Validators, CloseRefused(v)
      PROVE  DeskInv'
    BY <1>1, <1>6 DEF CloseRefused, NothingUnscored, PageOf, DecisionOf, vars
\* The item that is sent has the score its first request has written.
<1>7. ASSUME NEW v \in Validators, CloseValidation(v)
      PROVE  DeskInv'
    BY <1>1, <1>7 DEF CloseValidation, SubmitForApproval, Away, NothingUnscored, PageOf,
        DecisionOf, TypeOK, ValidationStatus
<1>8. ASSUME NEW v \in Validators, ReturnAnswer(v)
      PROVE  DeskInv'
    BY <1>1, <1>8 DEF ReturnAnswer, Return, Away, NothingUnscored, PageOf,
        DecisionOf, ValidationStatus
\* What else is asked of the server leaves scores and pages as they are.
<1>9. ASSUME OtherStep, UNCHANGED <<vscore, page>>, DecisionOf'
      PROVE  DeskInv'
    <2>1. NothingUnscored'
        BY <1>9, NothingSent DEF NothingUnscored
    <2>2. QED
        BY <1>1, <1>9, <2>1 DEF PageOf
<1>10. /\ Senior \in Requests /\ Responder \in Requests
       /\ \A v \in Validators : v \in Requests
    BY DesksAssumption
<1>11. CASE ListClick
    BY <1>9, <1>10, <1>11 DEF ListClick, SubmitAtList, DeleteAtList, SeniorAtList,
        ValidatorAtList, OtherStep, Arrive, deskVars, DecisionOf
<1>12. CASE ClickApprove \/ ClickReject
    <2>1. decision.key \in Keys /\ DecisionOf'
        BY <1>12 DEF ClickApprove, ClickReject, DecisionOf
    <2>2. OtherStep
        BY <1>10, <1>12, <2>1 DEF ClickApprove, ClickReject, OtherStep, Arrive
    <2>3. QED
        BY <1>9, <1>12, <2>1, <2>2 DEF ClickApprove, ClickReject
<1>13. ASSUME NEW k \in Keys, ClickSave(k) \/ ClickSubmit(k)
       PROVE  DeskInv'
    <2>1. CASE ClickSave(k)
        BY <1>9, <2>1 DEF ClickSave, Answer, OtherStep, DecisionOf
    <2>2. CASE ClickSubmit(k)
        BY <1>9, <1>10, <2>2 DEF ClickSubmit, Answer, OtherStep, Arrive, DecisionOf
    <2>3. QED
        BY <1>13, <2>1, <2>2
\* What is opened is an item.
<1>14. CASE AtTheOverview
    <2>1. UNCHANGED <<vscore, page, vars>>
        BY <1>14 DEF AtTheOverview, OpenListed, OpenNext
    <2>2. DecisionOf'
        <3>1. ASSUME NEW k \in Keys, OpenListed(k)
              PROVE  DecisionOf'
            BY <3>1 DEF OpenListed, DecisionOf
        <3>2. CASE OpenNext
            <4>1. CASE decision' = Overview
                BY <4>1 DEF Overview, DecisionOf
            <4>2. CASE decision' \in [at : {"open"}, key : PendingApproval \ {decision.key}]
                BY <4>2 DEF PendingApproval, DecisionOf
            <4>3. QED
                BY <3>2, <4>1, <4>2 DEF OpenNext
        <3>3. QED
            BY <1>14, <3>1, <3>2 DEF AtTheOverview
    <2>3. QED
        BY <1>1, <2>1, <2>2 DEF vars, NothingUnscored, PageOf
<1>15. CASE ClickSubmitAll
    <2> DEFINE S == {k \in Keys : response[k] \in Editable}
    <2>1. S \in SUBSET Keys /\ SubmitAll(S) /\ UNCHANGED <<vscore, page, decision>>
        BY <1>15 DEF ClickSubmitAll, Answer
    <2>2. QED
        BY <1>9, <2>1 DEF OtherStep, DecisionOf
<1>16. ASSUME NEW r \in Requests, Statement(r)
       PROVE  DeskInv'
    BY <1>9, <1>16 DEF Statement, OtherStep, DecisionOf
<1>17. CASE UNCHANGED allVars
    BY <1>1, <1>17 DEF allVars, vars, deskVars, NothingUnscored, PageOf,
        DecisionOf
<1>18. QED
    BY <1>2, <1>3, <1>4, <1>5, <1>6, <1>7, <1>8, <1>11, <1>12, <1>15, <1>16, <1>17, <1>13, <1>14
        DEF DeskNext, AtTheOverview

-----------------------------------------------------------------------------

LEMMA DeskInvariance == DeskSpec => []DeskInv
<1>1. QED
    BY InitDesk, NextDesk, PTL DEF DeskSpec

\* Whatever the Validators do at their stale pages, what reaches the Senior
\* Validator has a score (ValidationDetail.tsx, PUT /validations/:id/close).
THEOREM SeniorSeesScores == DeskSpec => []NothingUnscored
<1>1. DeskInv => NothingUnscored
    BY DEF DeskInv
<1>2. QED
    BY <1>1, DeskInvariance, PTL

\* The pages ask nothing of the server that CycleWorkflow does not have, so that
\* what is proved of it holds at the desks.
THEOREM DesksUseTheServer == DeskSpec => Spec
<1>1. DeskInit => Init
    BY DEF DeskInit
<1>2. DeskInv /\ [DeskNext]_allVars => [Next]_vars
    BY DeskStep
<1>3. QED
    BY <1>1, <1>2, DeskInvariance, PTL DEF DeskSpec, Spec

\* In particular the cycle goes through its life cycle (CycleLifecycle), also when
\* two Validators distribute it at the same time.
THEOREM DesksRefineLifecycle == DeskSpec => LifecycleRefinement
<1>1. QED
    BY DesksUseTheServer, Refinement, PTL

-----------------------------------------------------------------------------
(* No item is stranded *)

\* Answers are cancelled by a force close that is about to close the cycle.
Cancelling ==
    cycle = "distributed" =>
        \/ \A k \in Keys : response[k] # "cancelled" /\ validation[k] # "cancelled"
        \/ \E r \in Requests : request[r].at \in Closing

\* What the Senior Validator decides on, or has approved, is not with the
\* Responder.
SentIsSubmitted ==
    \A k \in Keys : validation[k] \in {"pending_approval", "closed"} => response[k] = "submitted"

\* A return that has not reset the validation yet is of an answer that has not
\* come back; one that came back is under review again, or about to be.
ResetIsDue ==
    \A r \in Requests : At(r, "return_reset") => response[request[r].key] # "submitted"

ReviewedAgain ==
    \A k \in Keys : response[k] = "submitted" /\ validation[k] = "returned" => UpsertPending(k)

\* The approval of the last item is about to close the cycle.
LastApproval ==
    cycle = "distributed" /\ (\A k \in applicability : validation[k] = "closed") =>
        \E r \in Requests : request[r].at \in Approving

Uncrossed == Cancelling /\ SentIsSubmitted /\ ResetIsDue /\ ReviewedAgain /\ LastApproval

FlowInv ==
    /\ ~failed
    /\ \A k \in Keys : validation[k] # "pending"
    /\ ~crossed => Uncrossed

LEMMA InitFlow == DeskInit => FlowInv
BY DEF DeskInit, Init, Idle, At, FlowInv, Cancelling, Uncrossed, SentIsSubmitted,
    ResetIsDue, ReviewedAgain, LastApproval

\* What may be relied on before a step.
Before == IInv /\ DeskInv /\ FlowInv

\* A step that leaves the answers, the validations and the requests alone.
LEMMA NothingFlows ==
    ASSUME Before,
           UNCHANGED <<response, validation, request, failed>>, ~crossed' => ~crossed,
           \/ cycle' # "distributed"
           \/ cycle = "distributed" /\ applicability \subseteq applicability'
    PROVE  FlowInv'
BY DEF Before, FlowInv, Uncrossed, Cancelling, SentIsSubmitted, ResetIsDue, ReviewedAgain,
    UpsertPending, LastApproval, At, Closing, Approving

\* A request goes on, and changes no answer and no validation.
LEMMA OnlyRequestsMove ==
    ASSUME Before, NEW r \in Requests,
           UNCHANGED <<response, validation, failed>>, ~crossed' => ~crossed,
           \A s \in Requests \ {r} : /\ request'[s].at = request[s].at
                                     /\ request'[s].key = request[s].key,
           request[r].at \notin {"submit_upsert"} \cup Closing \cup Approving,
           request'[r].at # "return_reset",
           \/ cycle' # "distributed"
           \/ cycle = "distributed" /\ applicability \subseteq applicability'
    PROVE  FlowInv'
BY DEF Before, FlowInv, Uncrossed, Cancelling, SentIsSubmitted, ResetIsDue, ReviewedAgain,
    UpsertPending, LastApproval, At, Closing, Approving

LEMMA NextFlow == Before /\ [DeskNext]_allVars => FlowInv'
<1> SUFFICES ASSUME Before, [DeskNext]_allVars
             PROVE  FlowInv'
    OBVIOUS
<1> USE DEF Before, FlowInv, Uncrossed, Cancelling, SentIsSubmitted, ResetIsDue, ReviewedAgain,
        UpsertPending, LastApproval, At, IsIdle, Closing, Approving
<1>0. /\ Senior \in Requests /\ Responder \in Requests
      /\ \A v \in Validators : v \in Requests
      /\ TypeOK
      /\ applicability \in SUBSET Keys
      /\ response \in [Keys -> ResponseStatus] /\ validation \in [Keys -> ValidationStatus]
      /\ request \in [Requests -> Slot]
      /\ \A k \in Keys : response[k] # "none" => k \in applicability
      /\ \A k \in Keys : validation[k] # "none" => response[k] \in {"submitted", "returned", "cancelled"}
      /\ \A r \in Requests : AnswerInFlight(r)
    BY DesksAssumption DEF IInv, TypeOK, Slot, IssuedTogether, ValidationOnlyOfSubmittedWork
<1> HIDE DEF Before
\* The pages.
<1>1. CASE AtTheOverview \/ \E v \in Validators : AtThePage(v)
    <2>1. UNCHANGED vars /\ UNCHANGED crossed
        BY <1>1, PageKeepsServer DEF AtThePage, Open, Pick, SaveAssessment,
            ClickSubmitForApproval, CloseRefused, AtTheOverview, OpenNext, OpenListed
    <2>2. QED
        BY <2>1, NothingFlows DEF vars, history
\* What reaches the Senior Validator has been submitted, unless it was returned
\* meanwhile.
<1>2. ASSUME NEW v \in Validators, CloseValidation(v)
      PROVE  FlowInv'
    <2>1. page[v].key \in Keys
        BY <1>2 DEF CloseValidation, Before, DeskInv, PageOf
    <2>2. /\ ~crossed' => ~crossed /\ response[page[v].key] = "submitted"
          /\ UNCHANGED <<cycle, applicability, response, request, failed>>
          /\ validation[page[v].key] # "closed" /\ validation'[page[v].key] = "pending_approval"
          /\ \A k \in Keys \ {page[v].key} : validation'[k] = validation[k]
        BY <1>0, <1>2, <2>1 DEF CloseValidation, SubmitForApproval, history
    <2>3. ~crossed' => Cancelling' /\ SentIsSubmitted'
        BY <2>1, <2>2 DEF Before
    <2>4. ~crossed' => ResetIsDue' /\ ReviewedAgain'
        BY <2>1, <2>2 DEF Before
    <2>5. ~crossed' => LastApproval'
        BY <1>0, <2>1, <2>2 DEF Before
    <2>6. QED
        BY <2>1, <2>2, <2>3, <2>4, <2>5 DEF Before
<1>3. ASSUME NEW v \in Validators, ReturnAnswer(v)
      PROVE  FlowInv'
    <2>1. page[v].key \in Keys
        BY <1>3 DEF ReturnAnswer, Returnable, CanClick, Before, DeskInv, PageOf
    <2>2. /\ request'[v].at = "return_reset" /\ request'[v].key = page[v].key
          /\ \A s \in Requests \ {v} : request'[s] = request[s]
        BY <1>0, <1>3, <2>1, GoesTo DEF ReturnAnswer, Return, Point
    <2>3. QED
        <3>1. /\ ~crossed' => ~crossed /\ validation[page[v].key] \in Reviewable
              /\ UNCHANGED <<cycle, applicability, validation, failed>>
              /\ response[page[v].key] = "submitted"
              /\ response' = [response EXCEPT ![page[v].key] = "returned"]
              /\ request[v].at = "idle"
            BY <1>3 DEF ReturnAnswer, Return, history
        <3>2. /\ response'[page[v].key] = "returned"
              /\ \A k \in Keys \ {page[v].key} : response'[k] = response[k]
            BY <1>0, <2>1, <3>1
        <3>3. ~crossed' => Cancelling'
            BY <2>2, <3>1, <3>2 DEF Before
        <3>4. ~crossed' => SentIsSubmitted'
            BY <3>1, <3>2 DEF Before, Reviewable
        <3>5. ~crossed' => ResetIsDue'
            BY <1>0, <2>2, <3>1, <3>2 DEF Before, AnswerInFlight
        <3>6. ~crossed' => ReviewedAgain'
            BY <2>2, <3>1, <3>2 DEF Before
        <3>7. ~crossed' => LastApproval'
            BY <2>2, <3>1 DEF Before
        <3>8. QED
            BY <3>1, <3>3, <3>4, <3>5, <3>6, <3>7 DEF Before
<1>4. CASE ClickApprove
    <2>1. decision.key \in Keys
        BY <1>4 DEF ClickApprove, Before, DeskInv, DecisionOf
    <2>2. /\ request'[Senior].at = "approve_count"
          /\ \A s \in Requests \ {Senior} : request'[s] = request[s]
        BY <1>0, <1>4, GoesTo DEF ClickApprove, ApproveValidation, Approve, Point
    <2>3. QED
        BY <1>0, <1>4, <2>1, <2>2 DEF ClickApprove, ApproveValidation, Approve, PendingApproval,
            history, Before
<1>5. CASE ClickReject
    <2>1. decision.key \in Keys
        BY <1>5 DEF ClickReject, Before, DeskInv, DecisionOf
    <2>2. QED
        BY <1>0, <1>5, <2>1 DEF ClickReject, RejectValidation, history, Before
\* The Responder, who is told of no reset that is still to come.
<1>6. ASSUME NEW k \in Keys, ClickSave(k)
      PROVE  FlowInv'
    <2>1. /\ ~crossed' => ~crossed
          /\ UNCHANGED <<cycle, applicability, validation, request, failed>>
          /\ \A j \in Keys : /\ response'[j] = "submitted" <=> response[j] = "submitted"
                             /\ response'[j] = "cancelled" <=> response[j] = "cancelled"
        BY <1>0, <1>6 DEF ClickSave, Answer, Save, Editable, history
    <2>2. \A r \in Requests : At(r, "return_reset") => request[r].key \in Keys
        BY <1>0 DEF AnswerInFlight
    <2>3. ~crossed' => Cancelling' /\ SentIsSubmitted'
        BY <2>1 DEF Before
    <2>4. ~crossed' => ResetIsDue' /\ LastApproval'
        BY <2>1, <2>2 DEF Before
    <2>5. ~crossed' => ReviewedAgain'
        BY <2>1 DEF Before
    <2>6. QED
        BY <2>1, <2>3, <2>4, <2>5 DEF Before
<1>7. ASSUME NEW k \in Keys, ClickSubmit(k)
      PROVE  FlowInv'
    <2>1. /\ request'[Responder].at = "submit_upsert" /\ request'[Responder].key = k
          /\ \A s \in Requests \ {Responder} : request'[s] = request[s]
        BY <1>0, <1>7, GoesTo DEF ClickSubmit, Submit, Point
    <2>2. QED
        <3>1. /\ ~crossed' => ~crossed /\ ~ReturnInFlight({k})
              /\ UNCHANGED <<cycle, applicability, validation, failed>>
              /\ response[k] \in Editable
              /\ response' = [response EXCEPT ![k] = "submitted"]
              /\ request[Responder].at = "idle"
            BY <1>7 DEF ClickSubmit, Answer, Submit, history
        <3>2. /\ response'[k] = "submitted"
              /\ \A j \in Keys \ {k} : response'[j] = response[j]
            BY <1>0, <3>1
        <3>3. ~crossed' => Cancelling'
            BY <2>1, <3>1, <3>2 DEF Before
        <3>4. ~crossed' => SentIsSubmitted'
            BY <3>1, <3>2 DEF Before
        <3>5. ~crossed' => ResetIsDue'
            BY <1>0, <2>1, <3>1, <3>2 DEF Before, AnswerInFlight, ReturnInFlight
        <3>6. ~crossed' => ReviewedAgain'
            BY <1>0, <2>1, <3>1, <3>2 DEF Before
        <3>7. ~crossed' => LastApproval'
            BY <2>1, <3>1 DEF Before
        <3>8. QED
            BY <3>1, <3>3, <3>4, <3>5, <3>6, <3>7 DEF Before
<1>8. CASE ClickSubmitAll
    <2> DEFINE S == {k \in Keys : response[k] \in Editable}
    <2>1. /\ SubmitAll(S)
          /\ ~crossed' => ~crossed /\ ~ReturnInFlight(S)
        BY <1>8 DEF ClickSubmitAll, Answer
    <2>2. \A k \in S : response'[k] = "submitted" /\ validation'[k] = Upserted(validation[k])
        BY <1>0, <2>1 DEF SubmitAll
    <2>3. \A k \in Keys \ S : response'[k] = response[k] /\ validation'[k] = validation[k]
        BY <1>0, <2>1 DEF SubmitAll
    <2>4. UNCHANGED <<cycle, applicability, request, failed>>
        BY <2>1 DEF SubmitAll, history
    <2> HIDE DEF S
    <2>5. QED
        BY <1>0, <2>1, <2>2, <2>3, <2>4 DEF Upserted, Before, ReturnInFlight, AnswerInFlight, S
<1>9. CASE ListClick
    <2>1. UNCHANGED crossed
        BY <1>9 DEF ListClick, deskVars
    <2>2. CASE DeleteAtList
        <3>1. /\ cycle' = "deleted" /\ UNCHANGED <<request, failed>>
              /\ \A k \in Keys : response'[k] = "none" /\ validation'[k] = "none"
            BY <2>2 DEF DeleteAtList, DeleteCycle, history
        <3>2. \A r \in Requests : At(r, "return_reset") => request[r].key \in Keys
            BY <1>0 DEF AnswerInFlight
        <3>3. QED
            BY <2>1, <3>1, <3>2 DEF Before
    <2>3. CASE SubmitAtList \/ SeniorAtList
        BY <2>1, <2>3, NothingFlows DEF SubmitAtList, SeniorAtList, SubmitCycle, ApproveCycle,
            RejectCycle, history
    <2>4. ASSUME NEW v \in Validators, ValidatorAtList(v)
          PROVE  FlowInv'
        <3>1. /\ request'[v].at \in {"upload_remove", "upload_row", "distribute_count", "close_responses"}
              /\ \A s \in Requests \ {v} : request'[s] = request[s]
            BY <1>0, <2>4, GoesTo, UploadBegins DEF ValidatorAtList, UploadCheck, DistributeCheck,
                ForceClose, Point, Uploading, Distributing
        <3>2. QED
            BY <1>0, <2>1, <2>4, <3>1, OnlyRequestsMove DEF ValidatorAtList, UploadCheck,
                DistributeCheck, ForceClose, history
    <2>5. QED
        BY <1>9, <2>2, <2>3, <2>4 DEF ListClick
\* The handlers.
<1>10. ASSUME NEW r \in Requests, ~crossed' => ~crossed,
              \/ UploadRemove(r) \/ UploadRow(r) \/ DistributeCount(r) \/ DistributeRead(r)
              \/ DistributeReadRefused(r) \/ DistributeSeed(r) \/ DistributeSeedRefused(r)
       PROVE  FlowInv'
    <2>1. /\ request[r].at \in Uploading \cup Distributing
          /\ UNCHANGED <<cycle, response, validation, failed>>
          /\ applicability \subseteq applicability'
        BY <1>10 DEF UploadRemove, UploadRow, DistributeCount, DistributeRead, DistributeReadRefused,
            DistributeSeed, DistributeSeedRefused, Uploading, Distributing, history
    <2>2. /\ request'[r].at \in {"idle"} \cup Uploading \cup Distributing
          /\ \A s \in Requests \ {r} : /\ request'[s].at = request[s].at
                                       /\ request'[s].key = request[s].key
        BY <1>0, <1>10, GoesTo, Finishes, RowsRead, RowUploaded DEF UploadRemove, DistributeCount,
            DistributeReadRefused, DistributeSeed, DistributeSeedRefused, Point, Uploading, Distributing
    <2>3. QED
        BY <1>10, <2>1, <2>2, OnlyRequestsMove DEF Uploading, Distributing
\* A cycle that becomes distributed has rows, of which none is approved.
<1>11. ASSUME NEW r \in Requests, crossed' = (crossed \/ Reopens(r)), DistributeStatus(r)
       PROVE  FlowInv'
    <2>1. /\ request'[r].at = "distribute_insert"
          /\ \A s \in Requests \ {r} : request'[s] = request[s]
        BY <1>0, <1>11, GoesTo DEF DistributeStatus, Point, Distributing, Closing, Approving
    <2>2. /\ request[r].at = "distribute_status"
          /\ UNCHANGED <<response, validation, applicability, failed>>
          /\ cycle' = UnguardedStatus("distributed")
        BY <1>11 DEF DistributeStatus, history
    <2>3. CASE cycle \notin Published
        <3>1. cycle' # "distributed"
            BY <2>2, <2>3 DEF UnguardedStatus, Published, Before, IInv, DistributeInFlight, Distributing
        <3>2. QED
            BY <1>11, <2>1, <2>2, <3>1, OnlyRequestsMove DEF Reopens
    <2>4. CASE cycle = "distributed"
        BY <1>11, <2>1, <2>2, <2>4, OnlyRequestsMove DEF Reopens
    <2>5. CASE cycle = "closed"
        BY <1>11, <2>2, <2>5 DEF Reopens, Before
    <2>6. CASE cycle = "published"
        <3>1. /\ applicability # {}
              /\ \A k \in Keys : response[k] = "none" /\ validation[k] = "none"
            BY <2>2, <2>6 DEF Before, IInv, DistributeInFlight, NothingIssuedBeforeDistribution
        <3>2. ~failed /\ (~crossed => \A s \in Requests : At(s, "return_reset") =>
                              response[request[s].key] # "submitted")
            BY DEF Before
        <3>3. \A s \in Requests : At(s, "return_reset") => request[s].key \in Keys
            BY <1>0 DEF AnswerInFlight
        <3>4. \A s \in Requests : At(s, "return_reset")' => At(s, "return_reset") /\ request'[s] = request[s]
            BY <2>1
        <3>5. Cancelling' /\ SentIsSubmitted' /\ ReviewedAgain'
            BY <2>2, <3>1
        <3>6. ResetIsDue'
            BY <2>2, <3>1, <3>3, <3>4
        <3>7. LastApproval'
            BY <1>0, <2>2, <3>1
        <3>8. QED
            BY <2>2, <3>1, <3>2, <3>5, <3>6, <3>7
    <2>7. QED
        BY <2>3, <2>4, <2>5, <2>6 DEF Published
<1>12. ASSUME NEW r \in Requests, ~crossed' => ~crossed, DistributeInsert(r)
       PROVE  FlowInv'
    <2>1. /\ request'[r].at = "idle"
          /\ \A s \in Requests \ {r} : request'[s] = request[s]
        BY <1>0, <1>12, Finishes DEF DistributeInsert, Point, Distributing, Closing, Approving
    <2>2. QED
        BY <1>0, <1>12, <2>1 DEF DistributeInsert, history, Before, AnswerInFlight
<1>13. ASSUME NEW r \in Requests, ~crossed' => ~crossed, SubmitUpsert(r)
       PROVE  FlowInv'
    <2>1. /\ request'[r].at = "idle"
          /\ \A s \in Requests \ {r} : request'[s] = request[s]
        BY <1>0, <1>13, Finishes DEF SubmitUpsert, Point, Distributing, Closing, Approving
    <2>2. QED
        BY <1>0, <1>13, <2>1 DEF SubmitUpsert, Upserted, history, Before, AnswerInFlight
<1>14. ASSUME NEW r \in Requests, ~crossed' => ~crossed, ReturnReset(r)
       PROVE  FlowInv'
    <2>1. /\ request'[r].at = "idle"
          /\ \A s \in Requests \ {r} : request'[s] = request[s]
        BY <1>0, <1>14, Finishes DEF ReturnReset, Point, Distributing, Closing, Approving
    <2>2. QED
        BY <1>0, <1>14, <2>1 DEF ReturnReset, history, Before, AnswerInFlight
\* What is not approved yet keeps the last approval from being about to close it.
<1>15. ASSUME NEW r \in Requests, ~crossed' => ~crossed, ApproveCount(r)
       PROVE  FlowInv'
    <2>1. /\ request'[r].at = IF NothingRemains THEN "approve_close" ELSE "idle"
          /\ \A s \in Requests \ {r} : request'[s] = request[s]
        BY <1>0, <1>15, GoesTo, Finishes DEF ApproveCount, Point, Distributing, Closing, Approving
    <2>2. QED
        BY <1>0, <1>15, <2>1 DEF ApproveCount, NothingRemains, history, Before, AnswerInFlight
<1>16. ASSUME NEW r \in Requests, ~crossed' => ~crossed, ApproveClose(r)
       PROVE  FlowInv'
    <2>1. /\ request'[r].at = "idle"
          /\ \A s \in Requests \ {r} : request'[s] = request[s]
        BY <1>0, <1>16, Finishes DEF ApproveClose, Point, Distributing, Closing, Approving
    <2>2. QED
        BY <1>0, <1>16, <2>1 DEF ApproveClose, history, Before, AnswerInFlight
<1>17. ASSUME NEW r \in Requests, ~crossed' => ~crossed, CloseResponses(r)
       PROVE  FlowInv'
    <2>1. /\ request'[r].at = "close_validations"
          /\ \A s \in Requests \ {r} : request'[s] = request[s]
        BY <1>0, <1>17, GoesTo DEF CloseResponses, Point, Distributing, Closing, Approving
    <2>2. QED
        BY <1>0, <1>17, <2>1 DEF CloseResponses, history, Before, AnswerInFlight
<1>18. ASSUME NEW r \in Requests, ~crossed' => ~crossed, CloseValidations(r)
       PROVE  FlowInv'
    <2>1. /\ request'[r].at = "close_cycle"
          /\ \A s \in Requests \ {r} : request'[s] = request[s]
        BY <1>0, <1>18, GoesTo DEF CloseValidations, Point, Distributing, Closing, Approving
    <2>2. QED
        <3>1. /\ UNCHANGED <<cycle, applicability, response, failed>>
              /\ At(r, "close_validations")
              /\ \A k \in Keys : validation'[k] \in {validation[k], "cancelled"}
            BY <1>0, <1>18 DEF CloseValidations, history
        <3>2. \A k \in Keys : /\ validation'[k] \in {"pending", "returned", "pending_approval", "closed"}
                                 => validation'[k] = validation[k]
            BY <3>1
        <3>3. ~crossed' => Cancelling' /\ SentIsSubmitted'
            BY <1>18, <2>1, <3>1, <3>2 DEF Before
        <3>4. ~crossed' => ResetIsDue' /\ ReviewedAgain'
            BY <1>18, <2>1, <3>1, <3>2 DEF Before
        <3>5. ~crossed' => LastApproval'
            BY <1>0, <1>18, <2>1, <3>1, <3>2 DEF Before
        <3>6. QED
            BY <3>1, <3>2, <3>3, <3>4, <3>5 DEF Before
<1>19. ASSUME NEW r \in Requests, ~crossed' => ~crossed, CloseCycle(r)
       PROVE  FlowInv'
    <2>1. /\ request'[r].at = "idle"
          /\ \A s \in Requests \ {r} : request'[s] = request[s]
        BY <1>0, <1>19, Finishes DEF CloseCycle, Point, Distributing, Closing, Approving
    <2>2. QED
        BY <1>0, <1>19, <2>1 DEF CloseCycle, UnguardedStatus, history, Before, AnswerInFlight
<1>20. ASSUME NEW r \in Requests, Statement(r)
       PROVE  FlowInv'
    <2>1. Continue(r) /\ crossed' = (crossed \/ Reopens(r))
        BY <1>20 DEF Statement
    <2>2. QED
        BY <1>10, <1>11, <1>12, <1>13, <1>14, <1>15, <1>16, <1>17, <1>18, <1>19, <2>1
            DEF Continue
<1>21. CASE UNCHANGED allVars
    BY <1>21, NothingFlows DEF allVars, vars, deskVars, history
<1>22. QED
    BY <1>1, <1>2, <1>3, <1>4, <1>5, <1>6, <1>7, <1>8, <1>9, <1>20, <1>21
        DEF DeskNext, AtThePage, AtTheOverview

\* Of a distributed cycle in which nothing is in flight, every item is with the
\* Responder, or has been submitted and is with the validators.
LEMMA EveryItemIsSomewhere ==
    ASSUME Before, cycle = "distributed", ~crossed, \A r \in Requests : IsIdle(r),
           NEW k \in applicability
    PROVE  /\ k \in Keys
           /\ \/ response[k] \in Editable
              \/ /\ response[k] = "submitted"
                 /\ validation[k] \in Reviewable \cup {"pending_approval", "closed"}
<1>1. k \in Keys /\ response[k] \in ResponseStatus /\ validation[k] \in ValidationStatus
    BY DEF Before, IInv, TypeOK
<1>2. response[k] # "none"
    BY DEF Before, IInv, FlowInv, EveryRowIsAsked, InFlight, IsIdle, At
<1>3. response[k] # "cancelled" /\ validation[k] \notin {"cancelled", "pending"}
    BY <1>1 DEF Before, FlowInv, Uncrossed, Cancelling, Closing, IsIdle, At
<1>4. ~UpsertPending(k)
    BY DEF UpsertPending, IsIdle, At
<1>5. response[k] = "submitted" => validation[k] \notin {"none", "returned"}
    BY <1>1, <1>4 DEF Before, FlowInv, IInv, SubmittedHasValidation, Uncrossed, ReviewedAgain
<1>6. QED
    BY <1>1, <1>2, <1>3, <1>5 DEF Editable, Reviewable, ResponseStatus, ValidationStatus

\* When no item of a question is offered, all its units have submitted, and the
\* overview lists it.
LEMMA NothingElseIsOffered ==
    ASSUME Before, cycle = "distributed", ~crossed, \A r \in Requests : IsIdle(r),
           NEW q, WeightsFit(q), NEW k \in applicability, QuestionOf[k] = q,
           \A j \in RowsAbout(q) : ~Offered(j)
    PROVE  Listed(q)
<1>1. \A j \in applicability \cap RowsAbout(q) :
          response[j] = "submitted" /\ validation[j] \in {"pending_approval", "closed"}
    BY EveryItemIsSomewhere DEF Offered
<1>2. \A j \in RowsAbout(q) : validation[j] # "none" => j \in applicability
    BY DEF Before, IInv, ValidationOnlyOfSubmittedWork, IssuedTogether, RowsAbout
<1>3. Weighted[q] \subseteq SubmittedUnits(q)
    BY <1>1 DEF WeightsFit, SubmittedUnits, RowsAbout
<1>4. Weighted[q] \subseteq {UnitOf[j] : j \in Joined(q)}
    <2>1. ASSUME NEW u \in Weighted[q]
          PROVE  \E j \in Joined(q) : UnitOf[j] = u
        <3>1. PICK j \in RowsAbout(q) \cap applicability : UnitOf[j] = u
            BY DEF WeightsFit
        <3>2. j \in Joined(q)
            BY <1>1, <1>3, <3>1 DEF Joined
        <3>3. QED
            BY <3>1, <3>2
    <2>2. QED
        BY <2>1
<1>5. {UnitOf[j] : j \in Joined(q)} \subseteq Weighted[q]
    BY DEF Joined
<1>6. Joined(q) # {}
    BY <1>4 DEF WeightsFit
<1>7. \A j \in Joined(q) : validation[j] \in {"pending_approval", "closed"}
    BY <1>1, <1>2 DEF Joined
<1>8. k \in RowsAbout(q) /\ validation[k] # "none" /\ response[k] = "submitted"
    BY <1>1, EveryItemIsSomewhere DEF RowsAbout
<1>9. QED
    BY <1>4, <1>5, <1>6, <1>7, <1>8 DEF Listed

\* A distributed cycle in which nothing is in flight has an item that is not
\* approved.  Of each of these somebody's page offers the next step, or it is with
\* the Senior Validator and somebody's page offers the next step of another item
\* that his overview waits for.
THEOREM SomebodyGoesOn == DeskSpec => []NobodyIsStranded
<1>1. Before => NobodyIsStranded
    <2> SUFFICES ASSUME Before, cycle = "distributed", ~crossed, \A r \in Requests : IsIdle(r)
                 PROVE  /\ \E k \in applicability : validation[k] # "closed"
                        /\ \A k \in applicability :
                             validation[k] # "closed" /\ WeightsFit(QuestionOf[k]) =>
                                 \/ Offered(k)
                                 \/ /\ validation[k] = "pending_approval"
                                    /\ \E j \in RowsAbout(QuestionOf[k]) : Offered(j)
        BY DEF NobodyIsStranded
    <2>1. \E k \in applicability : validation[k] # "closed"
        BY DEF Before, FlowInv, Uncrossed, LastApproval, Approving, IsIdle, At
    <2>2. ASSUME NEW k \in applicability, validation[k] # "closed", WeightsFit(QuestionOf[k]),
                 ~Offered(k)
          PROVE  /\ validation[k] = "pending_approval"
                 /\ \E j \in RowsAbout(QuestionOf[k]) : Offered(j)
        <3>1. validation[k] = "pending_approval" /\ ~Listed(QuestionOf[k])
            BY <2>2, EveryItemIsSomewhere DEF Offered
        <3>2. QED
            BY <2>2, <3>1, NothingElseIsOffered
    <2>3. QED
        BY <2>1, <2>2
<1>2. DeskSpec => []IInv
    BY DesksUseTheServer, Invariance, PTL
<1>3. DeskSpec => []FlowInv
    BY <1>2, DeskInvariance, InitFlow, NextFlow, PTL DEF DeskSpec, Before
<1>4. QED
    BY <1>1, <1>2, <1>3, DeskInvariance, PTL DEF Before
==============================================================================

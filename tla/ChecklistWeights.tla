-------------------------- MODULE ChecklistWeights --------------------------
(***************************************************************************)
(* What a checklist says about who answers a question and how much an       *)
(* answer counts, and what becomes of it.  The entries of column K are read *)
(* twice: when the checklist is uploaded, into the table ccl_item_weights,  *)
(* and when the cycle is distributed, into the rows that are answered       *)
(* (routes/cycles.ts).  The Senior Validator's overview and the             *)
(* consolidated score (routes/validations.ts) use both.                     *)
(*                                                                         *)
(* ccl_item_weights is one table for all cycles.  The module follows one    *)
(* cycle; of the others it has their uploads only.                          *)
(*                                                                         *)
(* A weight is a number of equal parts, Whole parts being 100%; a checklist *)
(* is the sequence of the entries its rows parse to, empty when the         *)
(* workbook cannot be parsed.  Publication, distribution, submission and    *)
(* return are one step each: their statements are CycleWorkflow's, as are   *)
(* the force close and the deletion of a cycle.                             *)
(***************************************************************************)
EXTENDS Integers, Sequences, FiniteSets, SequencesExt, FiniteSetsExt

CONSTANTS
    Questions,     \* item numbers
    Units,         \* bu_code of respondent_units
    OtherCodes,    \* codes an entry may have besides
    Risks,         \* material risks, NoRisk included
    NoRisk,
    SplitOf961,    \* risk -> sub-entity of unit 961
    FallbackCodes, \* QUESTION_BU_MAP
    Checklists,    \* the checklists there are to upload
    NoFile,
    SeedWeights,   \* the rows 04-seed-reference.sql puts into ccl_item_weights
    Whole,         \* 100%
    Scores,        \* validation scores
    Requests       \* slots of uploads to this cycle in flight

\* weight of a token without a percentage; the regexp reads no sign
NoWeight == -1

Codes == Units \cup OtherCodes
Entries == [question : Questions, code : Codes, risk : Risks, weight : NoWeight .. 2 * Whole]

ASSUME ChecklistAssumption ==
    /\ Whole \in Nat \ {0}
    /\ IsFiniteSet(Questions) /\ IsFiniteSet(Units)
    /\ Scores \subseteq 1 .. 4
    /\ NoRisk \in Risks
    /\ \A r \in DOMAIN SplitOf961 : r \in Risks \ {NoRisk} /\ SplitOf961[r] \in Units
    /\ "006" \in Codes => "006-956" \in Codes
    /\ FallbackCodes \in [Questions -> Seq(Codes)]
    /\ Checklists \subseteq Seq(Entries)
    /\ NoFile \notin Checklists
    /\ SeedWeights \in [Questions \X Units -> 0 .. Whole]

VARIABLES
    status,    \* of the cycle: draft, published, distributed
    file,      \* its checklist
    lost,      \* has the file of that checklist been removed?
    upload,    \* uploads of a checklist for this cycle, in flight
    itemWeight,\* ccl_item_weights: question and unit to weight, 0 if no row
    assigned,  \* the rows distributed: question, unit and risk to weight
    response,  \* status of the answer of each row
    validation,\* status of its validation, "none" if no row
    score,     \* its validation_score, 0 if null
    overtaken  \* was the cycle published while an upload was in flight?

rowVars == <<response, validation, score>>
vars == <<status, file, lost, upload, itemWeight, assigned, rowVars, overtaken>>

Rows == DOMAIN assigned
UnitOf(k) == k[2]
RowsAbout(q) == {k \in Rows : k[1] = q}

ValidationStatus == {"none", "in_review", "returned", "rejected", "pending_approval", "closed"}

\* named: is the file this upload found in the row still the one named there?
Uploads == [at : {"idle", "remove", "row", "weights"}, file : Checklists \cup {NoFile}, named : BOOLEAN]
NoUpload == [at |-> "idle", file |-> NoFile, named |-> FALSE]

TypeOK ==
    /\ status \in {"draft", "published", "distributed"}
    /\ file \in Checklists \cup {NoFile}
    /\ lost \in BOOLEAN
    /\ upload \in [Requests -> Uploads]
    /\ itemWeight \in [Questions \X Units -> 0 .. Whole]
    /\ Rows \subseteq Questions \X Codes \X Risks
    /\ \A k \in Rows : assigned[k] \in NoWeight .. 2 * Whole
    /\ response \in [Rows -> {"draft", "submitted", "returned"}]
    /\ validation \in [Rows -> ValidationStatus]
    /\ score \in [Rows -> Scores \cup {0}]
    /\ overtaken \in BOOLEAN

Init ==
    /\ status = "draft"
    /\ file = NoFile
    /\ lost = FALSE
    /\ upload = [r \in Requests |-> NoUpload]
    /\ itemWeight = SeedWeights
    /\ assigned = <<>>
    /\ response = <<>>
    /\ validation = <<>>
    /\ score = <<>>
    /\ overtaken = FALSE

-----------------------------------------------------------------------------
(* Reading column K (cycles.ts) *)

\* normaliseBuCode and the split of unit 961 by material risk.
Resolved(code, risk) ==
    IF code = "961" /\ risk \in DOMAIN SplitOf961 THEN SplitOf961[risk]
    ELSE IF code = "006" THEN "006-956"
    ELSE code

\* Does the entry have a weight, and is it about this question and unit?
Counts(e, q, u) == e.question = q /\ Resolved(e.code, e.risk) = u /\ e.weight > 0

\* Mutant: the parts are not summed, the last one counts.
ParsedWeightM(f, q, u) ==
    LET sum[n \in 0 .. Len(f)] ==
            IF n = 0 THEN 0
            ELSE IF ~Counts(f[n], q, u) THEN sum[n - 1]
            ELSE f[n].weight
    IN  sum[Len(f)]

\* parseWeightsFromChecklist: the parts of a unit are summed entry by entry,
\* and from the second on capped at 100%.
ParsedWeight(f, q, u) ==
    LET sum[n \in 0 .. Len(f)] ==
            IF n = 0 THEN 0
            ELSE IF ~Counts(f[n], q, u) THEN sum[n - 1]
            ELSE IF sum[n - 1] = 0 THEN f[n].weight
            ELSE Min({Whole, sum[n - 1] + f[n].weight})
    IN  sum[Len(f)]

\* What each checklist says of each question and unit.
Weights == [f \in Checklists |-> [p \in Questions \X Units |-> ParsedWeight(f, p[1], p[2])]]

\* The upsert: units that are not in respondent_units are left out, weights the
\* checklist does not mention stay, and one weight above 100% makes the
\* statement fail (ccl_item_weights_weight_check), which is logged only.
Upserted(f) ==
    IF \E p \in DOMAIN itemWeight : Weights[f][p] > Whole
    THEN itemWeight
    ELSE [p \in DOMAIN itemWeight |-> IF Weights[f][p] > 0 THEN Weights[f][p] ELSE itemWeight[p]]

RowKey(e) == <<e.question, Resolved(e.code, e.risk), e.risk>>

\* The rows a distribution makes of a checklist that can be read; of two
\* entries for the same question, unit and risk the first one counts.
RowsOf(f) ==
    [k \in {RowKey(f[i]) : i \in DOMAIN f} |->
        f[Min({i \in DOMAIN f : RowKey(f[i]) = k})].weight]

\* The others are replaced by QUESTION_BU_MAP, in equal parts; its codes are
\* taken as they are.
FallbackRows ==
    [k \in UNION {{<<q, c, NoRisk>> : c \in ToSet(FallbackCodes[q])} : q \in Questions} |->
        Whole \div Len(FallbackCodes[k[1]])]

RowsFor(f) == IF f = <<>> THEN FallbackRows ELSE RowsOf(f)

-----------------------------------------------------------------------------
(* cycles.ts: upload of a checklist *)

\* After the check, the handler first removes the file the row names, if any.
Begun(f) == [at |-> IF file = NoFile THEN "row" ELSE "remove", file |-> f, named |-> file # NoFile]

\* Mutant: the status of the cycle is not looked at.
UploadCheckM(r, f) ==
    /\ upload[r] = NoUpload
    /\ upload' = [upload EXCEPT ![r] = Begun(f)]
    /\ UNCHANGED <<status, file, lost, itemWeight, assigned, rowVars, overtaken>>

UploadCheck(r, f) ==
    /\ upload[r] = NoUpload
    /\ status = "draft"
    /\ upload' = [upload EXCEPT ![r] = Begun(f)]
    /\ UNCHANGED <<status, file, lost, itemWeight, assigned, rowVars, overtaken>>

\* removeFile(old), which does not say whether it has removed the file.
UploadRemove(r) ==
    /\ upload[r].at = "remove"
    /\ lost' \in {lost, lost \/ upload[r].named}
    /\ upload' = [upload EXCEPT ![r].at = "row"]
    /\ UNCHANGED <<status, file, itemWeight, assigned, rowVars, overtaken>>

\* UPDATE questionnaire_cycles: by now the cycle may have been published.  What
\* the other uploads remove from here on is not the file of this cycle.
UploadRow(r) ==
    /\ upload[r].at = "row"
    /\ file' = upload[r].file
    /\ lost' = FALSE
    /\ upload' = [x \in Requests |->
                    [upload[x] EXCEPT !.at = IF x = r THEN "weights" ELSE @, !.named = FALSE]]
    /\ UNCHANGED <<status, itemWeight, assigned, rowVars, overtaken>>

\* INSERT INTO ccl_item_weights ... ON CONFLICT DO UPDATE.
UploadWeights(r) ==
    /\ upload[r].at = "weights"
    /\ itemWeight' = Upserted(upload[r].file)
    /\ upload' = [upload EXCEPT ![r] = NoUpload]
    /\ UNCHANGED <<status, file, lost, assigned, rowVars, overtaken>>

\* The upload is cut short: the process stops or a statement fails.  A file it
\* has removed is gone.
UploadFails(r) ==
    /\ upload[r] # NoUpload
    /\ upload' = [upload EXCEPT ![r] = NoUpload]
    /\ UNCHANGED <<status, file, lost, itemWeight, assigned, rowVars, overtaken>>

\* A checklist is uploaded for another cycle.
OtherUpload(f) ==
    /\ itemWeight' = Upserted(f)
    /\ UNCHANGED <<status, file, lost, upload, assigned, rowVars, overtaken>>

-----------------------------------------------------------------------------
(* cycles.ts: approval and distribution *)

\* Submission needs a checklist; the Senior Validator approves.
Publish ==
    /\ status = "draft"
    /\ file # NoFile
    /\ status' = "published"
    /\ overtaken' = \E r \in Requests : upload[r].at \in {"remove", "row"}
    /\ UNCHANGED <<file, lost, upload, itemWeight, assigned, rowVars>>

\* On disk a file that is gone is one that cannot be parsed.  (In the store
\* localCopy throws and the distribution is refused.)
Distribute ==
    /\ status = "published"
    /\ status' = "distributed"
    /\ assigned' = IF lost THEN FallbackRows ELSE RowsFor(file)
    /\ response' = [k \in DOMAIN assigned' |-> "draft"]
    /\ validation' = [k \in DOMAIN assigned' |-> "none"]
    /\ score' = [k \in DOMAIN assigned' |-> 0]
    /\ UNCHANGED <<file, lost, upload, itemWeight, overtaken>>

-----------------------------------------------------------------------------
(* responses.ts and validations.ts: one row *)

Submit(k) ==
    /\ response[k] \in {"draft", "returned"}
    /\ response' = [response EXCEPT ![k] = "submitted"]
    /\ validation' = [validation EXCEPT
                        ![k] = IF @ \in {"pending_approval", "closed"} THEN @ ELSE "in_review"]
    /\ UNCHANGED <<status, file, lost, upload, itemWeight, assigned, score, overtaken>>

\* A validation that is out of the Validator's hands is left as it is.
Return(k) ==
    /\ response[k] = "submitted"
    /\ response' = [response EXCEPT ![k] = "returned"]
    /\ validation' = [validation EXCEPT ![k] = IF @ = "in_review" THEN "returned" ELSE @]
    /\ UNCHANGED <<status, file, lost, upload, itemWeight, assigned, score, overtaken>>

\* PUT /validations/:id has no guard on the status.
Score(k, s) ==
    /\ validation[k] # "none"
    /\ score' = [score EXCEPT ![k] = s]
    /\ UNCHANGED <<status, file, lost, upload, itemWeight, assigned, response, validation, overtaken>>

\* A validation passes from one status to another.
Decide(k, from, to) ==
    /\ validation[k] \in from
    /\ validation' = [validation EXCEPT ![k] = to]
    /\ UNCHANGED <<status, file, lost, upload, itemWeight, assigned, response, score, overtaken>>

SubmitForApproval(k) == Decide(k, {"in_review", "rejected"}, "pending_approval")
Reject(k) == Decide(k, {"pending_approval"}, "rejected")
Approve(k) == Decide(k, {"pending_approval"}, "closed")

Next ==
    \/ \E r \in Requests :
         \/ \E f \in Checklists : UploadCheck(r, f)
         \/ UploadRemove(r) \/ UploadRow(r) \/ UploadWeights(r) \/ UploadFails(r)
    \/ \E f \in Checklists : OtherUpload(f)
    \/ Publish \/ Distribute
    \/ \E k \in Rows :
         \/ Submit(k) \/ Return(k)
         \/ \E s \in Scores : Score(k, s)
         \/ SubmitForApproval(k) \/ Reject(k) \/ Approve(k)

Spec == Init /\ [][Next]_vars

-----------------------------------------------------------------------------
(* validations.ts: GET /validation-overview *)

\* expected_bu: who must respond, according to ccl_item_weights.
Expected(q) == {u \in Units : itemWeight[<<q, u>>] > 0}

\* submitted_responses: units with a submitted answer, whatever its risk.
SubmittedUnits(q) == {UnitOf(k) : k \in {k \in RowsAbout(q) : response[k] = "submitted"}}

\* Mutant: the answers are not joined.
JoinedM(q) == {k \in RowsAbout(q) : validation[k] # "none" /\ UnitOf(k) \in Expected(q)}

\* The validations question_status groups.
Joined(q) ==
    {k \in RowsAbout(q) : /\ validation[k] # "none"
                          /\ UnitOf(k) \in Expected(q) \cap SubmittedUnits(q)}

\* The validations consolidated joins with response_weights.
Answered(q) == {k \in RowsAbout(q) : validation[k] # "none" /\ response[k] = "submitted"}

\* Mutant: COUNT(*) instead of COUNT(DISTINCT bu_code).
ListedM(q) ==
    /\ Joined(q) # {}
    /\ Cardinality(Joined(q)) = Cardinality(Expected(q))
    /\ \A k \in Joined(q) : validation[k] \in {"pending_approval", "closed"}
    /\ Answered(q) # {}

\* Does the overview list the question?
Listed(q) ==
    /\ Joined(q) # {}
    /\ Cardinality({UnitOf(k) : k \in Joined(q)}) = Cardinality(Expected(q))
    /\ \A k \in Joined(q) : validation[k] \in {"pending_approval", "closed"}
    /\ Answered(q) # {}

RowWeight(k) == IF assigned[k] = NoWeight THEN Whole ELSE assigned[k]

Scored(q) == {k \in Answered(q) : score[k] # 0}

WeightedScores(q) == MapThenSumSet(LAMBDA k : score[k] * RowWeight(k), Scored(q))

\* Mutant: the rows that have no score yet count as well.
ScoredWeightM(q) == MapThenSumSet(RowWeight, Answered(q))

\* The consolidated score is WeightedScores / ScoredWeight, null if that is 0.
ScoredWeight(q) == MapThenSumSet(RowWeight, Scored(q))

-----------------------------------------------------------------------------
(* Properties *)

Ready(q) ==
    /\ RowsAbout(q) # {}
    /\ \A k \in RowsAbout(q) : /\ response[k] = "submitted"
                               /\ validation[k] \in {"pending_approval", "closed"}

AssignedUnits(q) == {UnitOf(k) : k \in RowsAbout(q)}

\* A question whose answers all wait for the Senior Validator, or are approved,
\* is on the overview, "items where ALL BU validations are pending_approval"
\* (validations.ts), if the table names some of the units that were asked and no
\* unit that was not: the overview counts units, and a unit with several
\* material risks neither hides a question nor stands for another unit.  (A unit
\* the seed, a replaced checklist or another cycle has left in ccl_item_weights
\* is waited for in vain.)
ReadyIsListedIfExpected ==
    \A q \in Questions :
        Ready(q) /\ Expected(q) # {} /\ Expected(q) \subseteq AssignedUnits(q) => Listed(q)

\* What is on the overview is ready for the decision, when every unit that was
\* asked has a weight in the table and one row: no answer is outstanding and
\* none has been returned, not even while its validation was pending.
ListedIsReady ==
    \A q \in Questions :
        /\ Listed(q)
        /\ AssignedUnits(q) \subseteq Expected(q)
        /\ \A j, k \in RowsAbout(q) : UnitOf(j) = UnitOf(k) => j = k
        => Ready(q)

\* The consolidated score lies between the lowest and the highest score of the
\* rows it is made of, however far validation has come.
ConsolidatedInRange ==
    \A q \in Questions :
        Scored(q) # {} /\ ScoredWeight(q) > 0 =>
            \E low, high \in Scored(q) :
                /\ score[low] * ScoredWeight(q) <= WeightedScores(q)
                /\ WeightedScores(q) <= score[high] * ScoredWeight(q)

\* The rows of a cycle come from the checklist it shows, unless an upload was
\* in flight when it was published: nobody replaces the checklist of a
\* published cycle, or removes it.  The exception that needs nothing in flight
\* is a draft whose checklist an upload has removed before it failed, and that
\* has been published all the same: its rows are those of QUESTION_BU_MAP.
DistributedFromItsChecklist ==
    status = "distributed" /\ ~overtaken =>
        assigned = IF lost THEN FallbackRows ELSE RowsFor(file)

\* The two readings of column K agree: what the upload records for a unit is
\* what the distribution gives its rows, up to 100%.  They do not when an entry
\* is repeated (the upload sums, the distribution keeps the first) or exceeds
\* 100%.
ReadingsAgree ==
    /\ status = "distributed" /\ ~overtaken /\ ~lost /\ file # <<>>
    /\ Cardinality(Rows) = Len(file)
    /\ \A i \in DOMAIN file : file[i].weight <= Whole
    => \A q \in Questions, u \in Units :
         ParsedWeight(file, q, u) =
             Min({Whole, MapThenSumSet(LAMBDA k : Max({0, assigned[k]}),
                                       {k \in RowsAbout(q) : UnitOf(k) = u})})

-----------------------------------------------------------------------------
(* Inductive invariant of the proofs *)

\* An upload that has checked the status and not yet changed the row began in
\* the draft, or overtook the publication.
ChecklistInv ==
    /\ lost \in BOOLEAN
    /\ upload \in [Requests -> Uploads]
    /\ status # "draft" /\ ~overtaken => \A r \in Requests : upload[r].at \notin {"remove", "row"}
    /\ DistributedFromItsChecklist
=============================================================================

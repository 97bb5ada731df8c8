----------------------------- MODULE Reporting -----------------------------
(***************************************************************************)
(* The figures that are computed from the answers and validations of a      *)
(* cycle: the summary of routes/reporting.ts, which the page Reports draws, *)
(* and the counts of the page Dashboard, which the browser computes from    *)
(* the list of validations.  They are read off the state of                 *)
(* ChecklistWeights, in which the overview of the Senior Validator is, too. *)
(*                                                                         *)
(* An average is a fraction <<numerator, denominator>>, with denominator 0  *)
(* for NULL.  The averages are those of the validation scores; the averages *)
(* of the respondents' own scores are not modelled.  The percentages behind *)
(* a badge are rounded as the page does it; rounding to two decimals is     *)
(* left out.                                                                *)
(***************************************************************************)
EXTENDS ChecklistWeights

CONSTANTS
    AreaOf,       \* thematic_area of a question
    PrinciplesOf, \* its BCBS principles, one or several
    SplitUnits,   \* units reported by material risk, 023 and 006-956
    CodeOf        \* a bu_code up to the first "-"

ASSUME ReportingAssumption ==
    /\ DOMAIN AreaOf = Questions
    /\ DOMAIN PrinciplesOf = Questions
    /\ SplitUnits \subseteq Units
    /\ DOMAIN CodeOf = Codes
    /\ "961" \in Codes => \A r \in DOMAIN SplitOf961 : CodeOf[SplitOf961[r]] = CodeOf["961"]
    /\ "006" \in Codes => CodeOf["006-956"] = CodeOf["006"]

-----------------------------------------------------------------------------
(* AVG and the weighted averages *)

Null == <<0, 0>>
IsNull(x) == x[2] = 0
Plus(x, y) == <<x[1] * y[2] + y[1] * x[2], x[2] * y[2]>>

\* The values that are not NULL, each with what it is the value of.
Known(Value(_), S) == {p \in {<<e, Value(e)>> : e \in S} : ~IsNull(p[2])}
Total(pairs) == FoldSet(LAMBDA p, sum : Plus(p[2], sum), <<0, 1>>, pairs)

\* AVG leaves NULL out, and is NULL if nothing is left.
Mean(Value(_), S) ==
    LET known == Known(Value, S)
        sum == Total(known)
    IN  <<sum[1], sum[2] * Cardinality(known)>>

\* SUM(value * weight) / NULLIF(SUM(CASE WHEN value IS NOT NULL ...), 0).
WeightedMean(Value(_), Weight(_), S) ==
    LET known == Known(Value, S)
        sum == Total({<<p[1], <<p[2][1] * Weight(p[1]), p[2][2]>>>> : p \in known})
    IN  <<sum[1], sum[2] * MapThenSumSet(LAMBDA p : Weight(p[1]), known)>>

\* The validation score of a row; of a row without a validation it is NULL.
ScoreOf(k) == IF score[k] = 0 THEN Null ELSE <<score[k], 1>>

Submitted == {k \in Rows : response[k] = "submitted"}

\* A Responder's figures by area are those of the first of his units.
SubmittedOf(u) == {k \in Submitted : UnitOf(k) = u}

-----------------------------------------------------------------------------
(* GET /reporting/cycle/:cycleId/summary: scores *)

\* Mutant: a row without a score counts as 0.
ByQuestionM(R, q) == Mean(LAMBDA k : <<score[k], 1>>, {k \in R : k[1] = q})

\* First the average of a question over its units and risks, then that of the
\* questions under a heading.
ByQuestion(R, q) == Mean(ScoreOf, {k \in R : k[1] = q})
UnderHeading(R, qs) == Mean(LAMBDA q : ByQuestion(R, q), qs)

ByArea(R, area) == UnderHeading(R, {q \in Questions : AreaOf[q] = area})
Overall(R) == Mean(LAMBDA area : ByArea(R, area), {AreaOf[q] : q \in Questions})
ByPrinciple(p) == UnderHeading(Submitted, {q \in Questions : p \in PrinciplesOf[q]})

\* CASE TRIM(material_risk) WHEN 'IRRBB' THEN 'IRRBB Risk' ...; the parser of
\* column K has trimmed it.
RiskName(risk) == IF risk = "IRRBB" THEN "IRRBB Risk" ELSE risk
OfRisk(name) == {k \in Submitted : k[3] # NoRisk /\ RiskName(k[3]) = name}
ByRisk(name) == UnderHeading(OfRisk(name), Questions)

\* A unit of SplitUnits has one line for each of its risks.
Line(k) == <<UnitOf(k), IF UnitOf(k) \in SplitUnits THEN k[3] ELSE NoRisk>>
ByUnit(line) == UnderHeading({k \in Submitted : Line(k) = line}, Questions)

\* Reports.tsx folds the lines of a unit, and those of the sub-entities of
\* 961, into one row with the average of those that have a score.
GroupOf(u) == IF u \in Range(SplitOf961) THEN "961" ELSE u
LinesOf(g) == {Line(k) : k \in {j \in Rows : GroupOf(UnitOf(j)) = g}}
ByGroup(g) == Mean(ByUnit, LinesOf(g))

\* Math.round(x / y * 100).
Percent(x, y) == (200 * x + y) \div (2 * y)

\* The badge of a line compares percentages: validated_count is of questions,
\* submitted_count and response_count are of rows.
Badge(line) ==
    LET rows == {k \in Rows : Line(k) = line}
        submitted == rows \cap Submitted
        validated == {k[1] : k \in {j \in submitted : score[j] # 0}}
        all(S) == rows # {} /\ Percent(Cardinality(S), Cardinality(rows)) = 100
    IN  IF all(validated) THEN "Validated"
        ELSE IF validated # {} THEN "In Validation"
        ELSE IF all(submitted) THEN "Submitted"
        ELSE IF submitted # {} THEN "In Progress"
        ELSE "Pending"

\* A unit's score in an area: weighted within a question, and again over the
\* questions by the weight of all the rows submitted, scored or not.
ByAreaAndUnit(area, u) ==
    LET rows(q) == {k \in SubmittedOf(u) : k[1] = q}
    IN  WeightedMean(LAMBDA q : WeightedMean(ScoreOf, RowWeight, rows(q)),
                     LAMBDA q : MapThenSumSet(RowWeight, rows(q)),
                     {q \in Questions : AreaOf[q] = area})

-----------------------------------------------------------------------------
(* The same: counts of questions *)

Validated(q) == {k \in RowsAbout(q) : validation[k] # "none"}
InUnitsOf(rows, k) == {j \in rows : UnitOf(j) = UnitOf(k)}

\* Mutant: COUNT instead of COUNT(DISTINCT bu_code).
AwaitingM(q) ==
    LET joined == {k \in Validated(q) : UnitOf(k) \in Expected(q)}
    IN  /\ \E k \in joined : validation[k] = "pending_approval"
        /\ \A k \in joined : validation[k] \in {"pending_approval", "closed"}
        /\ Cardinality(joined) = Cardinality(Expected(q))

\* validated_questions, shown as "Awaiting SV Approval".  Unlike the overview
\* it does not join the answers.
Awaiting(q) ==
    LET joined == {k \in Validated(q) : UnitOf(k) \in Expected(q)}
    IN  /\ \E k \in joined : validation[k] = "pending_approval"
        /\ \A k \in joined : validation[k] \in {"pending_approval", "closed"}
        /\ Cardinality({UnitOf(k) : k \in joined}) = Cardinality(Expected(q))

\* total_closed_questions: each row assigned is joined with the validations of
\* its unit, whatever their risk.
CountedClosed(q) ==
    /\ RowsAbout(q) # {}
    /\ \A k \in RowsAbout(q) :
         /\ InUnitsOf(Validated(q), k) # {}
         /\ \A j \in InUnitsOf(Validated(q), k) : validation[j] = "closed"

\* total_submitted_questions: of a unit's answers one is enough.
CountedSubmitted(q) == RowsAbout(q) # {} /\ AssignedUnits(q) = SubmittedUnits(q)

\* Dashboard.tsx counts over the validations there are.
DashboardPending(q) ==
    /\ \E k \in Validated(q) : validation[k] = "pending_approval"
    /\ \A k \in Validated(q) : validation[k] \in {"pending_approval", "closed"}

DashboardClosed(q) ==
    /\ Validated(q) # {}
    /\ \A k \in Validated(q) : validation[k] = "closed"

-----------------------------------------------------------------------------
(* ValidationOverview.tsx and ValidationOverviewDetail.tsx *)

\* The rows of a question on the overview, also those without a submitted
\* answer.  (The page groups them by the text of the requirement.)
Shown(q) == IF Listed(q) THEN Validated(q) ELSE {}

\* "Approved", and "The scores for this item have been approved by Senior
\* Validator"; any other question of the overview is "Pending Approval".
Approved(q) == Shown(q) # {} /\ \A k \in Shown(q) : validation[k] = "closed"

\* The details add up the weights of the rows; a row without a submitted answer
\* has none (NaN), and no average of the respondents' own scores is shown.
Weighed(q) == Shown(q) \subseteq Answered(q)

-----------------------------------------------------------------------------
(* GET /reporting/admin/analytics and the export to a spreadsheet *)

\* avg_val_score of a cycle: the validations are joined with the answers of
\* the cycle, each one with all of them.
TrendScore == Mean(LAMBDA j : ScoreOf(j[1]), {k \in Rows : validation[k] # "none"} \X Rows)

\* score_distribution: how many closed validations have each score.
Distribution ==
    [s \in Scores |-> Cardinality({k \in Rows : validation[k] = "closed" /\ score[k] = s})]

\* bu_productivity: the answers of a unit that are submitted, of all it has.
Productivity(u) == <<Cardinality(SubmittedOf(u)), Cardinality({k \in Rows : UnitOf(k) = u})>>

\* A line of the spreadsheet names the unit by the first part of its code.
Exported(k) == <<CodeOf[UnitOf(k)], k[1], RiskName(k[3])>>

\* A checklist whose units differ in the first part of their codes, and whose
\* risks differ in the name they are reported by.
NamedApart(f) ==
    \A i, j \in DOMAIN f :
        /\ CodeOf[f[i].code] = CodeOf[f[j].code] => f[i].code = f[j].code
        /\ RiskName(f[i].risk) = RiskName(f[j].risk) => f[i].risk = f[j].risk

-----------------------------------------------------------------------------
(* Properties *)

InRangeOf(avg, rows) ==
    IsNull(avg) \/ \E low, high \in {k \in rows : score[k] # 0} :
                     score[low] * avg[2] <= avg[1] /\ avg[1] <= score[high] * avg[2]

\* No average of validation scores leaves the range of the scores it summarises,
\* at whatever point of the validation the report is drawn: rows, questions and
\* lines without a score, or with a weight of 0, do not pull it down.
AveragesInRange ==
    /\ \A R \in {Submitted} \cup {SubmittedOf(UnitOf(k)) : k \in Rows} :
         /\ \A area \in {AreaOf[q] : q \in Questions} : InRangeOf(ByArea(R, area), R)
         /\ InRangeOf(Overall(R), R)
    /\ \A p \in UNION {PrinciplesOf[q] : q \in Questions} : InRangeOf(ByPrinciple(p), Submitted)
    /\ \A k \in Submitted :
         k[3] # NoRisk => InRangeOf(ByRisk(RiskName(k[3])), OfRisk(RiskName(k[3])))
    /\ \A line \in {Line(k) : k \in Rows} :
         InRangeOf(ByUnit(line), {k \in Submitted : Line(k) = line})
    /\ \A g \in {GroupOf(UnitOf(k)) : k \in Rows} :
         InRangeOf(ByGroup(g), {k \in Submitted : GroupOf(UnitOf(k)) = g})
    /\ \A k \in Rows :
         InRangeOf(ByAreaAndUnit(AreaOf[k[1]], UnitOf(k)), SubmittedOf(UnitOf(k)))

\* The places where a question is counted agree.  One the overview offers for
\* approval is awaiting approval in the summary and on the dashboard, on the
\* latter if the table of weights knows all its units ("matching what
\* Validation Overview shows"), in which case, too, one the overview calls
\* approved is one the summary counts as closed, and has an average of its own
\* scores if no unit has two rows; one the summary counts as closed is closed on
\* the dashboard and is not awaiting approval; if all the answers of every unit
\* are counted as submitted, every question is.  The report calls a unit
\* Validated or Submitted only when nothing of it is missing, as long as it has
\* fewer than 200 rows: of 200, 199 are 100% when rounded.  When everything is
\* closed, the average of the trend is that of the distribution drawn beside it.
\* And no two lines of the spreadsheet look alike if the rows come from a
\* checklist that names its units and its risks apart: 961 is cut up by risk
\* only.  (Of a workbook that cannot be parsed or found they do, where
\* QUESTION_BU_MAP lists several sub-entities of 961.)
CountsAgree ==
    /\ \A q \in Questions :
        LET listed == Listed(q)
            known == AssignedUnits(q) \subseteq Expected(q)
        IN  /\ listed /\ (\E k \in Joined(q) : validation[k] = "pending_approval") =>
                 /\ Awaiting(q)
                 /\ known => DashboardPending(q)
            /\ listed /\ known =>
                 /\ Approved(q) <=> CountedClosed(q)
                 /\ (\A j, k \in RowsAbout(q) : UnitOf(j) = UnitOf(k) => j = k) => Weighed(q)
            /\ CountedClosed(q) => DashboardClosed(q) /\ ~Awaiting(q)
            /\ /\ RowsAbout(q) # {}
               /\ \A k \in Rows : LET p == Productivity(UnitOf(k)) IN p[1] = p[2]
               => CountedSubmitted(q)
    /\ \A line \in {Line(k) : k \in Rows} :
        LET rows == {k \in Rows : Line(k) = line}
        IN  Cardinality(rows) < 200 =>
              /\ Badge(line) = "Submitted" => rows \subseteq Submitted
              /\ Badge(line) = "Validated" =>
                   rows \subseteq Submitted /\ \A k \in rows : score[k] # 0
    /\ (\A k \in Rows : validation[k] = "closed") =>
         TrendScore[1] * MapThenSumSet(LAMBDA s : Distribution[s], Scores)
           = TrendScore[2] * MapThenSumSet(LAMBDA s : s * Distribution[s], Scores)
    /\ status = "distributed" /\ ~overtaken /\ ~lost /\ file # <<>> /\ NamedApart(file) =>
         \A j, k \in Submitted : Exported(j) = Exported(k) => j = k
=============================================================================

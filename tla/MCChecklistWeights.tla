------------------------- MODULE MCChecklistWeights -------------------------
(* Instances of ChecklistWeights and Reporting for TLC. *)
EXTENDS Reporting

Entry(q, code, risk, weight) ==
    [question |-> q, code |-> code, risk |-> risk, weight |-> weight]
E(code, risk, weight) == Entry(1, code, risk, weight)

MCSplitOf961 == [r \in {"Market"} |-> "961-Market"]
MCSeedWeights == [p \in Questions \X Units |-> IF p = <<2, "030">> THEN 1 ELSE 0]
MCFallbackCodes == [q \in {1, 2} |-> IF q = 1 THEN <<"030", "006">> ELSE <<>>]
MCAreaOf == [q \in {1, 2} |-> "area"]
MCCodeOf == [c \in Codes |-> CASE c = "006-956" -> "006" [] c = "961-Market" -> "961" [] OTHER -> c]
MCPrinciplesOf == [q \in {1, 2} |-> IF q = 1 THEN {"P1", "P2"} ELSE {"P2"}]

\* Two units, one split from unit 961 and asked twice, one merged; a unit with
\* one risk under its two names; a unit with two questions, one for each of its
\* risks; entries without a weight, of 0% and above 100%; a workbook that cannot
\* be parsed.
MCChecklists ==
    {<<E("961", "Market", -1), E("961", "Market", 2), E("006", "none", 3)>>,
     <<E("030", "IRRBB", 3), E("030", "IRRBB Risk", 2)>>,
     <<E("006", "Market", 0), Entry(2, "006", "none", 5)>>,
     <<>>}
=============================================================================

\* A Validator saves a page that was loaded before the approval.
SPECIFICATION DeskSpec
CONSTANTS
    k1 = k1
    k2 = k2
    q1 = q1
    NoKey = NoKey
    Keys = {k1, k2}
    Questions = {q1}
    QuestionOf <- MCQuestionOf
    Sheets = {{k1, k2}}
    NoChecklist = NoChecklist
    Fallback = {k1, k2}
    UnitOf <- MCUnitOf
    Weighted <- MCWeighted
    Requests = {v1, v2, sv, re}
    Validators = {v1, v2}
    Senior = sv
    Responder = re
    Scores = {1, 2}
    MaxSendBacks = 2
PROPERTIES
    ClosedIsLocked
CHECK_DEADLOCK FALSE

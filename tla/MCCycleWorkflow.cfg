\* Two answers of one question, any checklist, two requests in flight, failures allowed.
CONSTANTS
    k1 = k1
    k2 = k2
    q1 = q1
    r1 = r1
    r2 = r2
    NoKey = NoKey
    Keys <- TwoKeys
    Questions <- OneQuestion
    QuestionOf <- SameQuestion
    Requests = {r1, r2}
    Sheets <- MCSheets
    NoChecklist = NoChecklist
    Fallback <- TwoKeys
SPECIFICATION Spec
SYMMETRY KeySymmetry
INVARIANTS
    NothingIssuedBeforeDistribution
    ValidationOnlyOfSubmittedWork
    SubmittedHasValidation
    EveryRowIsAsked
    IInv
PROPERTIES
    ApprovalIsFinal
    PendingApprovalAwaitsDecision
    CancelledAnswersStayCancelled
    AutoCloseNeedsEverySubmission
    ApplicabilityFrozen
    LifecycleRefinement
CHECK_DEADLOCK FALSE

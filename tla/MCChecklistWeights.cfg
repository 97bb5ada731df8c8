\* Two questions, four checklists, one upload in flight and those of other cycles.
SPECIFICATION Spec
CONSTANTS
    Questions = {1, 2}
    Units = {"030", "961-Market", "006-956"}
    OtherCodes = {"961", "006"}
    Risks = {"none", "Market", "IRRBB", "IRRBB Risk"}
    NoRisk = "none"
    SplitOf961 <- MCSplitOf961
    FallbackCodes <- MCFallbackCodes
    Checklists <- MCChecklists
    NoFile = NoFile
    SeedWeights <- MCSeedWeights
    Whole = 4
    Scores = {1, 4}
    Requests = {r1}
    AreaOf <- MCAreaOf
    PrinciplesOf <- MCPrinciplesOf
    SplitUnits = {"006-956"}
    CodeOf <- MCCodeOf
CHECK_DEADLOCK FALSE
INVARIANTS
    ReadyIsListedIfExpected
    ListedIsReady
    ConsolidatedInRange
    DistributedFromItsChecklist
    ReadingsAgree
    AveragesInRange
    CountsAgree

SPECIFICATION Spec
CONSTANTS
    r1 = r1
    r2 = r2
    Refs = {r1, r2}
    Drafts <- MCDrafts
    MaxTurns = 4
    MaxTokens = 5
    TurnTokens = 3
    Costs = {1, 3}
    MaxCorrections = 1
    MaxCalls = 2
    MaxRow = 3
INVARIANTS
    BudgetBounded
    AnswerMatchesVerdict
    UngroundedWasCorrected
    AnswerCitationsResolve
    ErrorLeavesNoTurn
PROPERTIES
    ImplementsFrames
CHECK_DEADLOCK FALSE

SPECIFICATION FairSpec
CONSTANTS
    Questions = {q1, q2}
    NoQuestion = NoQuestion
    MaxFrames = 2
    MaxWire = 2
INVARIANTS
    PanelIsConsistent
    DoneIsStored
PROPERTIES
    FailedStays
    AskEnds
CHECK_DEADLOCK FALSE

SPECIFICATION FairSpec
CONSTANTS
    r1 = r1
    Refs = {r1}
    Generations = {g1, g2}
    None = None
    Drafts <- MCDrafts
    MaxCorrections = 1
    MaxPieces = 1
    MaxRow = 2
    MaxMounts = 2
INVARIANTS
    NarrativeIsStored
    NarrativeIsShown
PROPERTIES
    ImplementsFrames
    NarrativeEnds
CHECK_DEADLOCK FALSE

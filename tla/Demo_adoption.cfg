SPECIFICATION Spec
CONSTANTS
    Clicks = {k1, k2}
    None = None
    Visitor = Visitor
    Files = {f1}
    Versions = {v1, v2}
    MaxSeeds = 1
    MayFail = TRUE
PROPERTIES
    AdoptionIsSound
CHECK_DEADLOCK FALSE

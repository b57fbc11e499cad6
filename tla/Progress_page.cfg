SPECIFICATION FairSpec
CONSTANTS
    Documents = {d1, d2}
    Illegible = {d2}
    MaxReopens = 1
    MaxErrors = 2
    MaxRetries = 1
    MaxWire = 1
    MaxFaults = 2
    MaxRepeats = 1
    MaxMounts = 2
PROPERTIES
    PageIsTrue
    PageIsLive
CHECK_DEADLOCK FALSE

SPECIFICATION FairSpec
CONSTANTS
    Documents = {d1, d2}
    Legible = {d1}
    DocTypes = {"employment", "other"}
    SchemaVers <- MCSchemaVers
    SchemaOf <- MCSchemaOf
    NoSchema = NoSchema
    NoType = NoType
    NoDoc = NoDoc
    NoSlot = NoSlot
    IngestSlots = {i1}
    AnalysisSlots = {a1}
    Clients = {}
    Attempts = 3
    FaultPoints <- AllSteps
    MaxCrashes = 0
    MaxStalls = 0
INVARIANTS
    FlagsResolve
    AnalyzingHasJob
    FailedMeansExhausted
PROPERTIES
    EverythingSettles
    ImplementsPhases
CHECK_DEADLOCK FALSE

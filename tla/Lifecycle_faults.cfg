SPECIFICATION Spec
CONSTANTS
    Documents = {d1}
    Legible = {d1}
    DocTypes = {"employment"}
    SchemaVers <- MCSchemaVers
    SchemaOf <- MCSchemaOf
    NoSchema = NoSchema
    NoType = NoType
    NoDoc = NoDoc
    NoSlot = NoSlot
    IngestSlots = {i1, i2}
    AnalysisSlots = {a1, a2}
    Clients = {c1}
    Attempts = 2
    FaultPoints <- AllCalls
    MaxCrashes = 1
    MaxStalls = 1
CONSTRAINT OneFault
SYMMETRY Slots
INVARIANTS
    TypeOK
    CitationsResolve
    IndexMatchesStatus
    DeletedLeavesNothing
    OneRunPerDocument
CHECK_DEADLOCK FALSE

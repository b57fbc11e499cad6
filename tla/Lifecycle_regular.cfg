SPECIFICATION Spec
CONSTANTS
    Documents = {d1}
    Legible = {d1}
    DocTypes = {"employment", "vsop"}
    SchemaVers <- MCSchemaVers
    SchemaOf <- MCSchemaOf
    NoSchema = NoSchema
    NoType = NoType
    NoDoc = NoDoc
    NoSlot = NoSlot
    IngestSlots = {i1, i2}
    AnalysisSlots = {a1, a2}
    Clients = {c1, c2}
    Attempts = 2
    FaultPoints <- StepsBeforeCommit
    MaxCrashes = 0
    MaxStalls = 0
SYMMETRY Slots
INVARIANTS
    AnalyzedIsConsistent
CHECK_DEADLOCK FALSE

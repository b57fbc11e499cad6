SPECIFICATION Spec
CONSTANTS
    t1 = t1
    k1 = k1
    k2 = k2
    demo1 = demo1
    b1 = b1
    b2 = b2
    b3 = b3
    Template = template
    Purger = purger
    Tenants = {t1}
    UploadCases = {k1, k2}
    DemoCases = {demo1}
    Owner <- MCOwner
    Files <- MCFiles
    TemplateFiles <- MCTemplateFiles
    Uploaders = {u1, u2}
    Deleters = {s1}
    MaxDocuments = 1
    MayFail = TRUE
CONSTRAINT TwoCases
SYMMETRY Same
INVARIANTS
    TemplateIntact
    BytesUnlessRaced
    CapOvershoot
CHECK_DEADLOCK FALSE

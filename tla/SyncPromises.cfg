CONSTANTS
    v1 = v1  v2 = v2  v3 = v3  a1 = a1  a2 = a2
    Customers = {}
    CoTenants = {v1, v2}
    Accounts = {a1}
    CustomerFile <- OneAccount
    CoTenantFile <- OneAccount
    SyncMode = "incremental"
    PushEnabled = TRUE
    Kinds <- OneKind
    PushOrder <- OnePlace
    Needs <- OneNeed
    MediaBearing <- OneKind
    Holds <- HoldsOneKind
    UploadUrlBatch = 0
    NoSeed = NoSeed
    Details = {1, 2}
    Table = {1}
    MaxPush = 1
    MaxMedia = 1
    MaxPages = 1
    MaxRecords = 0
    MaxFailures = 1
SPECIFICATION Spec
SYMMETRY Interchangeable
INVARIANTS
    APromiseIsKept

CONSTANTS
    v1 = v1  v2 = v2  v3 = v3  a1 = a1  a2 = a2
    Customers = {}
    CoTenants = {v1, v2}
    Accounts = {a1, a2}
    CustomerFile <- OneAccount
    CoTenantFile <- TwoAccounts
    SyncMode = "incremental"
    PushEnabled = TRUE
    Kinds <- TwoKinds
    PushOrder <- TwoPlaces
    Needs <- TwoNeeds
    MediaBearing <- TwoMedia
    Holds <- HoldsUnevenly
    UploadUrlBatch = 0
    NoSeed = NoSeed
    Details = {1, 2}
    Table = {}
    MaxPush = 1
    MaxMedia = 0
    MaxPages = 1
    MaxRecords = 0
    MaxFailures = 1
SPECIFICATION Spec
SYMMETRY Interchangeable
INVARIANTS
    PartialDevicesAreCounted
    PushesCanBeBuilt
    OneBodyPerAccount

CONSTANTS
    v1 = v1  v2 = v2  v3 = v3  a1 = a1  a2 = a2
    Customers = {v1}
    CoTenants = {}
    Accounts = {a1}
    CustomerFile <- OneAccount
    CoTenantFile <- NoFile
    SyncMode = "realistic"
    PushEnabled = TRUE
    Kinds <- AllKinds
    PushOrder <- AllPlaces
    Needs <- AllNeeds
    MediaBearing <- AllMedia
    Holds <- HoldsNoEncounter
    UploadUrlBatch = 2
    NoSeed = NoSeed
    Details = {1, 2, 3}
    Table = {1, 2}
    MaxPush = 2
    MaxMedia = 3
    MaxPages = 2
    MaxRecords = 1
    MaxFailures = 2
SPECIFICATION Spec
INVARIANTS
    TypeOK
    FailedUploadNeverAsks
    ReportedPushWasAccepted
    CountIsWhatWasServed
    RowsCoverTheirPull
PROPERTIES
    EverySyncEnds
    KeepsThePromise

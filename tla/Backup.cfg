CONSTANTS
    Transaction = Transaction
    Types = {Transaction}
    Requests <- MCRequests
    LastHour = 2
    HourLen = 2
    ROW_CAP = 1
    FACET_LIMIT = 1
    MaxEvents = 2
    MaxFaults = 2
    MaxExports = 2
CHECK_DEADLOCK FALSE
SPECIFICATION Spec
INVARIANTS
    TypeOK
    CompleteHoursAreWhole
    ExitTellsTheTruth
    ReadsAreWhole
PROPERTIES
    EveryExportEnds

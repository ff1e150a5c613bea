CONSTANTS
    o1 = o1  o2 = o2  l1 = l1  l2 = l2  t1 = t1  t2 = t2  x = x
    Operators = {o1, o2}
    Logs = {l1, l2}
    LogOf <- ALogEach
    Recipe <- OneTenant
    Others = {x}
    NoTenant = NoTenant
    Limit = 1
    Polls = 2
    ProbeFails = TRUE
    Truncates = TRUE
    MaxPasses = 1
CHECK_DEADLOCK FALSE
SPECIFICATION Spec
INVARIANTS
    StartsAreTraced
PROPERTIES
    EveryPassEnds

CONSTANTS
    o1 = o1  o2 = o2  l1 = l1  l2 = l2  t1 = t1  t2 = t2   x = x
    Operators = {o1}
    Logs = {l1}
    LogOf <- OneLog
    Recipe <- TwoTenants
    Others = {x}
    NoTenant = NoTenant
    Limit = 0
    Polls = 1
    ProbeFails = TRUE
    Truncates = FALSE
    MaxPasses = 3
CHECK_DEADLOCK FALSE
SPECIFICATION Spec
PROPERTIES
    APromiseIsKept

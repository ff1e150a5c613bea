CONSTANTS
    o1 = o1
    Orgs = {o1}
    Scopes = {"data", "all"}
    MaxCohort = 2
CHECK_DEADLOCK FALSE
SPECIFICATION Spec
INVARIANTS
    TypeOK
    EmptiedHasRoom
    TeardownIsNeverBlocked
    CohortIsUsable
PROPERTIES
    BundleSurvives

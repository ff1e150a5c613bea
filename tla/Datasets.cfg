SPECIFICATION Spec
CONSTANTS
    Recipes <- MCRecipes
    Reimports <- MCReimports
    ESTABLISHMENT <- MCEstablishment
    ID_BAND_SAFETY = 2
    ID_BAND_MIN = 10
    INT4_MAX = 100
    Times = {1, 2}
CHECK_DEADLOCK FALSE
INVARIANTS
    TypeOK
    IdsNeverCollide
    EverySubjectIsSynced
    VillagesHoldTheirShare
    FeederNamesTheUsers

SPECIFICATION Spec
CONSTANTS
    Recipes <- MCRecipes
    Commands <- MCCommands
    Root <- MCRoot
    Contents = {0, 1, 2}
    CONTRACTS <- MCCONTRACTS
    PROFILE <- MCPROFILE
    Measurements <- MCMeasurements
    Syncs <- MCSyncs
    MaxEdits = 2
CHECK_DEADLOCK FALSE
INVARIANTS
    BuiltFromItsRecipe
    BlessedIsAccountedFor
    PassIsACalibration

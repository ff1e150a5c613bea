CONSTANTS
    o1 = o1  o2 = o2  small = small  large = large
    Pilot <- TwoOrgs
    Tables <- ParentAndChild
    Counted = "individual"
    Datasets = {small, large}
    Archives = {large}
    InPlace = small
    Top <- Tops
    MaxSwaps = 2
CHECK_DEADLOCK FALSE
SPECIFICATION Spec
INVARIANTS
    DoneIsLoaded
    ProvedBeforeEmptied
    SequencesCover
PROPERTIES
    NeverSetBack
    SessionsAreCollected

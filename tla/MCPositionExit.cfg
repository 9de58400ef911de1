SPECIFICATION FairSpec
CONSTANTS
    Shares = 3
    MaxStrikes = 3
    Slots = {1, 2}
    Reach = 3
INVARIANTS
    
    ExitOrderGuarded
    ClosedMeansSold
PROPERTIES
    ImplementsExit
    FlatRowSettles

SPECIFICATION FairSpec
CONSTANTS
    Vets = {v1, v2}
    Slots = {1, 2}
    Reach = 1
    Probed = TRUE
    Faults = TRUE
INVARIANTS
    OneVetAtWork
    PendingIsWork
PROPERTIES
    PendingEnds
    ImplementsBracket

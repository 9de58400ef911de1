SPECIFICATION Spec
CONSTANTS
    Day = 12
    Reset = 4
    Recovery = 5
    DecaySlots = 2
    Week = 7
    WorkDays = 5
    MaxOpen = 5
    Vets = {s1}
INVARIANTS
    LossesHalveSize

    

SPECIFICATION Spec
CONSTANTS
    Vets = {v1, v2}
    Slots = {1, 2}
    Reach = 1
    Probed = FALSE
    Faults = FALSE
PROPERTY AcceptedIsTracked

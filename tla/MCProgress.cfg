SPECIFICATION MCSpec
CONSTANTS
    Orders = {o1, o2, o3, o4}
    Room = 2
    MaxAttempts = 2
    Supervised = {"dms", "data_pipeline"}
    Retries = 2
    Signals = 2
    Budget = 2
    Drops = 2
    Trouble = 2
    Span = 2
    Outbox = 1
    Lines = 3
    Most = 2
    Patience = 2
    ShortOnes = 3
    Rounds = 2
    Pushes = 3
    Outages = 2
    Errors = 1
    Agents = {brain_primary, coordinator}
    Primary = brain_primary
    Timeout = 2
    Grace = 1
    Hour = 4
    LockAge = 6
    Launches = 2
INVARIANTS
    JoinCoversWork
    
    
    StreamsCount
PROPERTIES
    GivingUpHalts
    OrdersAreSettled
    ShutdownEnds
    OutageEnds
    QuestDrains
    FlattenHasCause
    DangerIsAnswered
CHECK_DEADLOCK FALSE

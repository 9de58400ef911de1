SPECIFICATION MCSpec
CONSTANTS
    Restarts = 1
    OrderIds = {"o1", "o2"}
    Outages = 2
    Risk = 20
    Prices <- Swings
    Vixes = {14, 18, 40}
    Costs = 24
    Dhatus = {"Sthiti", "Chala"}
    Keys <- TradeKeys
    MinTrades = 2
    Enough = 1
    Closes = 3
    Minutes = {0, 5, 7, 15, 20, 60, 62, 75}
    Symbols = {"s1", "s2"}
    Askers = {"k1", "k2"}
    Shelf = 1
    MaxDebates = 2
    Instruments = {"s1", "s2"}
    Compact = {"s1"}
    Quest = FALSE
    Limit = 1
    Old = 3
    Headlines = {"a", "d"}
    Alarms = {"a", "d"}
    Denied = {"d"}
    Clippings = 1
    Most = 1
    Trimmed = 0
    Weathers <- Skies
    Day = 1
    Span = 2
    Tickets = {"t1"}
    Fresh = {"t2"}
    Required = TRUE
    Troubles = 2
    Clients = {"b1", "b2", "b3"}
    Address <- OneHome
    PerAddress = 2
    Postbox = 1
    Backlog = 1
    Key = "set"
    Messages = 1
    Breaks = 1
    Updates = 3
    MaxFails = 2
    Window = 2
    MailRoom = 2
    Kept = 3
    Says = 3
    AutoRestart = TRUE
    Grace = 2
    Hours = 6
    Hitches = 2
    Resets = 1
    Calls = {"c1", "c2", "c3"}
    Threshold = 2
    FailWindow = 1
    CallSpan = 3
    Freezes = 4
    Crashes = 2
    Brackets = {"o1", "o2"}
    Lot = 2
    Nobody = "nobody"
INVARIANTS
    SafetyNoHolds
    TierNoHolds
    RecordsAgree
    LearningIsHonest
    
    WatchersHold
PROPERTIES
    StepsAreEarned
CHECK_DEADLOCK FALSE

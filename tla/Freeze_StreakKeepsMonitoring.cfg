SPECIFICATION FairSpec
CONSTANTS
    Lock = 2
    Streak = 3
    Hot = 2
    MaxHeld = 3
    MaxCommands = 1
    MaxRestarts = 1
PROPERTY
    StreakKeepsMonitoring

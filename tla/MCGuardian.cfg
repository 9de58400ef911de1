SPECIFICATION FairSpec
CONSTANTS
    Engines = {e1, e2}
    Helpers = {h1, h2}
    Ghost = g
    Most = 3
    Budget = 1
INVARIANTS
    OneEngineUnlessLost
PROPERTIES
    EngineIsGuarded
    HelpersConverge
    CrashIsAnswered

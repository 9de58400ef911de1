SPECIFICATION RulesSpec
CONSTANTS
    Sizes <- SomeSizes
    Stakes <- SomeStakes
    Mornings <- SomeMornings
    Orders <- SomeOrders
    Drifts <- SomeDrifts
    Plans <- SomePlans
    Charts <- SomeCharts
    Walks <- SomeWalks
    Moves <- SomeMoves
    Holdings <- SomeHoldings
    Cases <- SomeCases
    Ballots <- SomeBallots
    Signals <- SomeSignals
INVARIANTS
    SizesAreBounded
    
CHECK_DEADLOCK FALSE

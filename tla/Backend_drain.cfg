SPECIFICATION FairSpec
CONSTANTS
    Keys <- MCKeys
    Nodes <- MCNodes
    MaxTokens = 3
    Bindings <- MCBindings
    Plans <- MCPlans
INVARIANTS OneReader ReadyIsCurrent OwnedUnderLease
PROPERTIES DrainEnds
CHECK_DEADLOCK FALSE

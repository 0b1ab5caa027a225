SPECIFICATION FairSpec
CONSTANTS
    u1 = u1  u2 = u2  Mic = Mic  Twin = Twin  Fx = Fx
    Units <- MCUnits
    Plans <- AllPlans
    MaxCommands = 4
    MaxQueue = 1
INVARIANTS OnePlace LaterEditWins
PROPERTIES CompletionWaits EveryCommandEnds
CHECK_DEADLOCK FALSE

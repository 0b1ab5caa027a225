SPECIFICATION Spec
CONSTANTS
    u1 = u1  u2 = u2  Mic = Mic  Twin = Twin  Fx = Fx
    Units <- MCUnits
    Plans <- ScenePlans
    MaxCommands = 2
    MaxQueue = 1
INVARIANTS LaterGainWins
CHECK_DEADLOCK FALSE

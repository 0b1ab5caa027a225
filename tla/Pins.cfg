SPECIFICATION Spec
CONSTANTS
    Children <- MCChildren
    Startup = 1
    Wedge = 2
    Silence = 2
    Recheck = 1
    MaxNode = 2
    MaxFaults = 1
INVARIANTS OnePin SilenceOnce
CHECK_DEADLOCK FALSE

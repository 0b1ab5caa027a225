SPECIFICATION FairSpec
CONSTANTS
    Locations = {l1}
    Jobs = {1, 2}
    NoLocation = NoLocation
    MaxInc = 2
INVARIANTS SingleOwner AccountedFor
PROPERTIES WedgedNotReopened StopReturns JobsAnswered
CHECK_DEADLOCK FALSE

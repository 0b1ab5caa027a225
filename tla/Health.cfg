SPECIFICATION FairSpec
CONSTANTS
    Confirm = 2
    MaxAttempts = 2
    Cooldown = 2
    CleanRefill = 3
    SinkRefill = 2
    Ids <- MCIds
    Scripts <- MCScripts
INVARIANTS BoundedRemedies NothingLeftOff
PROPERTIES Repaid
CHECK_DEADLOCK FALSE

SPECIFICATION FairSpec
CONSTANTS
    Synced = {"Mute", "Headphone", "Gain"}
    Volumes = {0, 2, 5}
    CardStep = 2
    CardMin = 1
    Jobs <- MCJobs
    PollsToRead = 2
    MaxFailures = 3
    Plans <- MCPlans
    Unknown = Unknown
PROPERTIES NoStaleFeedback InStep
\* A suppressed unit waits for a person to plug it in again: the model may end there.
CHECK_DEADLOCK FALSE

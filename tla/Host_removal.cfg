SPECIFICATION FairSpec
CONSTANTS
    Order <- MCOrder
    Same <- MCSame
    Plans <- AllPlans
INVARIANTS NoMixedInstall Explained
PROPERTIES TakenAloneOnly UninstallComplete 
CHECK_DEADLOCK FALSE

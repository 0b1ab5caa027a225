SPECIFICATION FairSpec
CONSTANTS
    d1 = d1  d2 = d2  app = app  mixa = mixa  mixb = mixb  song = song
    out1 = out1  out2 = out2  dim = dim  loud = loud  G = G
    None = None  NoGroup = NoGroup
    Mixes = {mixa, mixb}
    Devices = {d1, d2}
    Apps = {app}
    Streams = {song}
    Outputs = {out1, out2}
    ClaimOf <- MCClaimOf
    Settings <- MCSettings
    Plans <- AllPlans
    MaxQueue = 2
INVARIANTS HeardAsSaved NoRawLeak CleanStop
PROPERTIES OpensIntoSilence FactoryNeverSaved Settles
CHECK_DEADLOCK FALSE

CONSTANTS
    Workers <- TwoWorkers
    NoWorker = ""
    MaxRetries = 2
    Signatures <- OneSignature
    NoBars = ""
    Clients <- OneClient
    Asked <- OneSignature
    Overruns = FALSE
    Outages = TRUE
    StaleResets = TRUE
    MaxIds = 3
    MaxFaults = 1
SPECIFICATION FairJobSpec
INVARIANT
    SuccessHasSnapshot
PROPERTY
    EveryJobEnds

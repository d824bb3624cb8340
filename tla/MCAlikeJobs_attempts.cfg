CONSTANTS
    v1 = v1
    v2 = v2
    d1 = d1
    d2 = d2
    Workers <- AlikeWorkers
    NoWorker = ""
    MaxRetries = 2
    Signatures <- TwoSignatures
    NoBars = ""
    Clients <- AlikeClients
    Asked <- OneSignature
    Overruns = FALSE
    Outages = FALSE
    StaleResets = FALSE
    MaxIds = 2
    MaxFaults = 1
SPECIFICATION JobSpec
SYMMETRY Alike
INVARIANTS
    JobTypeOK
    AttemptsBounded
    OneWorkerPerJob
PROPERTY
    VerdictsStand

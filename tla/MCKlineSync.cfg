CONSTANTS
    Symbols = {"held", "new"}
    Known = {}
    Holdings = {"held"}
    Chatted = {}
    Listed = {"held"}
    AllFreqs <- MCFreqs
    Levels = {"5"}
    Most = 2
    Feeds = {TRUE, FALSE}
    OnStartup = FALSE
    Overnight = FALSE
    TradingDays = {1, 2}
    MaxDate = 2
    MaxEvents = 1
SPECIFICATION FairSyncSpec
INVARIANT SyncTypeOK
PROPERTIES
    FullDaySynced
    BarsReachThere
CHECK_DEADLOCK FALSE

CONSTANTS
    Symbols = {"held", "new"}
    Known = {}
    Holdings = {"held"}
    Chatted = {}
    Listed = {"held"}
    AllFreqs <- MCFreqs
    Levels = {"5"}
    Most = 2
    Feeds = {TRUE}
    OnStartup = FALSE
    Overnight = FALSE
    TradingDays = {1, 2}
    MaxDate = 2
    MaxEvents = 1
SPECIFICATION FairSyncSpec
PROPERTY BarsReachStructure
CHECK_DEADLOCK FALSE

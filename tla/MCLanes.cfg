CONSTANTS
    Dates <- MCDates
    WindowIds <- MCWindowIds
    NoId = ""
    Market <- MCMarket
    T0Qty = 10
    MaxTrades = 2
    Qty = 1
    Base = 2
    StartCash = 40
    StartTotal = 4
    StartAvailable = 3
    StartPrice = 12
    MaxPerDay = 3
    MaxAmount = 100
    Freshness = 2
    Timeout = 2
    MinGap = 0
    Confirm = 0
    SecondConfirm = 2
    MinRemaining = 1
    MinEdge = 1
    ObserveOnly = FALSE
    AutoParent = TRUE
    MaxCycles = 2
    Slip = 1
    MinFee = 1
    Tax = 1
    Zd = 9
    Zg = 17
    Atr = 10
    BarPrices = {10, 15}
    Ages = {0, 2}
    Legs <- MCLegs
    Allows <- MCAllows
    Bars = 4
    Chains <- MCChains
    Databases <- Served
    OldLakes <- SomeOldLakes
    Lakes <- BothLakes
    Rows <- OneRow
    RawDays <- OneRaw
    Torn = FALSE
    MaxStops = 2
    LastMinute = 2
    GroupOf <- MCGroupOf
    Quotes = {1, 2}
    Requesters = {"sampler", "page"}
    Pages = {"page"}
    Threads = FALSE
    Midday = FALSE
    OutOfOrder = FALSE
    MaxQuotes = 3
    MaxFaults = 1
    MaxRestarts = 1
    Files <- TwoFiles
    Tracked <- OneTracked
    Freqs <- DayAnd5
    TailRecords = 2
    Away = 2
    FullTogether = FALSE
    MaxToday = 3
    MaxStarts = 2
    MaxBreaks = 1
SPECIFICATION MCSpec
INVARIANTS
    TypeOK
    OneRoundTripPerWindow
    WindowsRecorded
    PositionBracketed
    PositionKept
    PaperSoundInLanes
    ChainSound
    StartSound
    TapeSound
    ManualSound
PROPERTIES
    KeepsLifecycle
CHECK_DEADLOCK FALSE

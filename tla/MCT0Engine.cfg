CONSTANTS
    Dates <- TwoDays
    WindowIds <- MCWindowIds
    NoId = ""
    Market <- OneWindowMarket
    T0Qty = 2
    MaxTrades = 2
    Events = {"record_fails", "save_fails", "sweep", "midnight_race"}
    MaxRestarts = 2
SPECIFICATION LaneSpec
INVARIANTS
    EngineTypeOK
    LongsInTurnOverRestarts
    SweptOnce
    BooksOfTheEngineAlone
    NothingAfterStopByWorkers

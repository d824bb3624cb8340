CONSTANTS
    Clients = {"page", "phone"}
    Drafts <- MCDrafts
    BatchOf <- MCBatchOf
    TwinOf <- MCTwinOf
    RowOf <- MCRowOf
    Sizes = {1, 2}
    Lines = {106}
    OldRows <- MCOldRows
    OutOfOrder = FALSE
    Statements = FALSE
    MaxTrades = 3
    MaxEdits = 1
    Prices = {98, 102, 107}
    MaxDay = 2
    MaxMoves = 2
    MaxFaults = 1
SPECIFICATION FairDeskSpec
INVARIANTS
    DeskSound
    OneTradePerDraft
PROPERTY BrokenIsAlertedHere
CHECK_DEADLOCK FALSE

CONSTANTS
    MaxDay = 3
    ExDays = {2}
    WeekOf <- TwoWeeks
    Enough = 1
    Recent = 0
    Callers = {"worker"}
    Threads = {"night", "chart"}
    Bridge = FALSE
    MaxFaults = 1
    Lanes = {"tdx", "baostock"}
SPECIFICATION FairLakeSpec
INVARIANTS
    LakeSound
PROPERTIES
    BaoStockHealsHere
    PublishedIsServedHere
CHECK_DEADLOCK FALSE

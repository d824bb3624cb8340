SPECIFICATION TapeSpec
CONSTANTS
    LastMinute = 3
    GroupOf <- MCGroupOf
    Quotes = {1}
    Requesters = {"sampler"}
    Pages = {}
    Threads = FALSE
    Midday = FALSE
    OutOfOrder = FALSE
    MaxQuotes = 3
    MaxFaults = 0
    MaxRestarts = 1
INVARIANT FinishedIsClosed
CHECK_DEADLOCK FALSE

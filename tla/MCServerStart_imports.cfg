CHECK_DEADLOCK FALSE
CONSTANTS
    Databases <- Found
    OldLakes <- SomeOldLakes
    Lakes <- BothLakes
    Rows <- OneRow
    RawDays <- OneRaw
    Torn = FALSE
    MaxStops = 2
SPECIFICATION StartSpec
INVARIANT
    ExistingDatabaseStarts

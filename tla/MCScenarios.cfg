CONSTANTS
    Workers <- OneWorker
    NoWorker = ""
    MaxRetries = 2
    Versions <- TwoLevels
    NoBars = ""
    AutoEnqueue = TRUE
    Overruns = FALSE
    Recent = 12
    MaxEvents = 1
    Branches <- OneBranch
    Breakouts <- Breakout
    Reminders <- TwoReminders
    Upward <- Rising
    Candidates <- ByOne
    Windows <- TwoWindows
    DueAge <- Ages
    Limit = 2
    Users <- TwoUsers
    MaxTime = 2
    MaxByHand = 1
SPECIFICATION FairSpec
INVARIANTS
    ScenariosSound
    OnceAWindow
PROPERTIES
    AnswerWithAck
    PendingEnds
    CatchesUpHere
    WindowsSettledHere
CHECK_DEADLOCK FALSE

CHECK_DEADLOCK FALSE
CONSTANTS
    Names <- TwoNames
    Pages <- OnePage
    PerUser = 2
    Cooldown = 1
    AutoEnabled = TRUE
    ManualEnabled = TRUE
    MaxSnapshot = 1
    MaxTime = 2
    MaxChanges = 3
    Questions <- MCQuestions
    Contexts <- MCContexts
    Sayings <- MCSayings
    HasKey = TRUE
    MaxAsks = 2
    MaxEvents = 3
    MaxFaults = 1
SPECIFICATION FairLanesSpec
INVARIANTS
    ReasoningSound
    ChatSound
PROPERTY
    BoardReasonedHere

SPECIFICATION FairSpec
CONSTANTS
    Servers = {"elevater"}
    Clients = {"other"}
    Arg <- MCArg
    Answers <- MCAnswers
    CallsFail = TRUE
    Position <- MCPosition
    MaxHeight = 2
    Tolerance = 1
    MaxGoals = 2
    Timeout = 1
    BootHeights = {2}
INVARIANT IdleAtRest
PROPERTIES SuccessMeansThere OutOfTravelOnlyUnseen DownIsSlow OnlyDroppedCommandBlocks ZeroingEnds
CHECK_DEADLOCK FALSE

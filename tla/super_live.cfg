SPECIFICATION FairSpec
CONSTANTS
    Servers = {"placing", "intaking", "elevater", "roller"}
    Clients = {"placing", "intaking", "operator"}
    Arg <- MCArg
    Answers <- MCAnswers
    CallsFail = FALSE
    Position <- MCPosition
    MaxHeight = 2
    Tolerance = 1
    Corals = 1
    Preloaded = {TRUE, FALSE}
    MaxGoals <- MCPlacing
    Cancelled = {"placing"}

PROPERTIES PreemptedPlacingStops
CHECK_DEADLOCK FALSE

SPECIFICATION Spec
CONSTANTS
    Servers = {"placing", "intaking", "elevater", "roller"}
    Clients = {"placing", "intaking", "operator"}
    Arg <- MCArg
    Answers <- MCAnswers
    CallsFail = FALSE
    Position <- MCPosition
    MaxHeight = 2
    Tolerance = 1
    Corals = 1
    Preloaded = {FALSE}
    MaxGoals <- MCOneEach
    Cancelled = {"intaking"}
INVARIANTS ScoresAtItsLevel
PROPERTIES IntakingHasCoral
CHECK_DEADLOCK FALSE

SPECIFICATION RollerFairSpec
CONSTANTS
    Servers = {"roller"}
    Clients = {"operator"}
    Arg <- MCArg
    Answers <- MCAnswers
    CallsFail = TRUE
    RollerGoals = 2
    Corals = 2
    Preloaded = {TRUE, FALSE}
INVARIANTS RollerAtRest OuttakeScores
PROPERTIES IntakeHasCoral OnlyNoCoralBlocks
CHECK_DEADLOCK FALSE

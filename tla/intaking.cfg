SPECIFICATION FairSpec
CONSTANTS
    Servers = {"intaking", "elevater", "roller"}
    Clients = {"intaking", "other"}
    Arg <- MCArg
    Answers <- MCAnswers
    CallsFail = TRUE
    MaxGoals = 2
INVARIANTS NoOrphans
PROPERTIES IntakingEnds
CHECK_DEADLOCK FALSE

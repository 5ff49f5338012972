SPECIFICATION FairSpec
CONSTANTS
    Servers = {"placing", "elevater", "roller"}
    Clients = {"placing", "other"}
    Arg <- MCArg
    Answers <- MCAnswers
    CallsFail = FALSE
    MaxGoals = 2
INVARIANTS ScoreAfterRaise NoOrphans
PROPERTIES HonestAbort KeepsPromise OnlyLostDoneBlocks PreemptEnds
CHECK_DEADLOCK FALSE

SPECIFICATION FairSpec
CONSTANTS
    Servers = {"align_and_place", "align_to_reef", "placing"}
    Clients = {"align_and_place", "other"}
    Arg <- MCArg
    Answers <- MCAnswers
    CallsFail = TRUE
    MaxGoals = 2
INVARIANTS RotationComesBack NoOrphansUnlessAborted
PROPERTIES AlignAndPlaceEnds
CHECK_DEADLOCK FALSE

SPECIFICATION AutoSpec
CONSTANTS
  Servers <- MCServers
  Clients <- MCClients
  Arg <- MCArg
  Answers <- MCAnswers
  CallsFail = FALSE
  Autos = {"coral", "forward"}
  Root <- MCRoot
  Kind <- MCKind
  Kids <- MCKids
  Waits <- MCWaits
  Segments <- MCSegments
  Unassigned = "unassigned"
  Changes = 3
INVARIANT NothingRunsOn
INVARIANT StepsInOrder
PROPERTY OnlyLostThreadDrivesOn
CHECK_DEADLOCK FALSE

SPECIFICATION AutoSpec
CONSTANTS
  Servers <- MCServers
  Clients <- MCClients
  Arg <- MCArg
  Answers <- MCAnswers
  CallsFail = FALSE
  Autos = {"twoCoral"}
  Root <- MCRoot
  Kind <- MCKind
  Kids <- MCKids
  Waits <- MCWaits
  Segments <- MCSegments
  Unassigned = "unassigned"
  Changes = 1
PROPERTY WaitsForCurrent
CHECK_DEADLOCK FALSE

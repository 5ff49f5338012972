CONSTANTS
  Servers <- MCServers
  Clients = {"teleop", "auto"}
  Arg <- MCArg
  Answers <- MCAnswers
  CallsFail = TRUE
  Levels = {"L2", "L3", "L4"}
  Ramp = 1
  CmdVelTimeout = 1
  ParkDelay = 1
  DriveDelay = 1
  Cases <- MCCases
SPECIFICATION FairSpec
INVARIANT DirectionIsButtons
INVARIANT AgreesWithDevices
PROPERTY RedStops
PROPERTY TeleopStops
PROPERTY EndsParked

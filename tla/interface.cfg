CONSTANTS
  Params <- MCParams
  Zero = Zero
  One = One
  Level = {Zero, One}
  Bad = Bad
  Configs <- MCConfigs
  Changes = 3
SPECIFICATION InterfaceSpec
INVARIANT InSync
PROPERTY ShownCatchesUp
PROPERTY OnlyUnheardStopIsLost
CHECK_DEADLOCK FALSE

CONSTANTS
  Order <- MCOrder
  Zero = Zero
  One = One
  Level = {Zero, One}
  Tunings <- MCTunings
  Bounds <- MCBounds
SPECIFICATION Spec
INVARIANT OnlyRacesForget
INVARIANT ShownWasAccepted
INVARIANT NoTornReadings
PROPERTY EndsInSync

SPECIFICATION Spec
CONSTANTS
  NSlots = 1
  MaxRelays = 3
  RelaysPerDevice = 3
  Interlock = 2
  DevCounts <- MCOneCount
  Tables <- MCMove
  ModeMaps <- MCStandard
  PulseTicks <- MCNoPulse
  Tears = FALSE
INVARIANTS MotorsOwned

SPECIFICATION ClockSpec
CONSTANTS
  NSlots = 2
  MaxRelays = 3
  RelaysPerDevice = 3
  Interlock = 2
  DevCounts <- MCOneCount
  Tables <- MCApart
  ModeMaps <- MCStandard
  PulseTicks <- MCNoPulse
  Tears = FALSE
PROPERTIES KeepsContract PausedReversal

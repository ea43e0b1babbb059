SPECIFICATION Spec
CONSTANTS
  NSlots = 2
  MaxRelays = 3
  RelaysPerDevice = 3
  Interlock = 1
  DevCounts <- MCOneCount
  Tables <- MCTables
  ModeMaps <- MCStandard
  PulseTicks <- MCNoPulse
  Tears = TRUE
INVARIANTS TypeOK RoutingCoherent ExclusiveUnlessPulsed

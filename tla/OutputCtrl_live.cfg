SPECIFICATION FairSpec
CONSTANTS
  NSlots = 1
  MaxRelays = 2
  RelaysPerDevice = 1
  Interlock = 2
  DevCounts <- MCCounts
  Tables <- MCOneSlot
  ModeMaps <- MCModes
  PulseTicks <- MCPulseTicks
  Tears = FALSE
INVARIANTS ExclusiveUnlessPulsed
PROPERTIES Settles KeepsContract

SPECIFICATION FairSpec
CONSTANTS
  Pcbs = 3
  Hosts = {h1, h2}
  Reconnect = 1
  Guard = 2
  PingAt = 3
  PingDrop = 3
  Rtt = 0
  MaxLookups = 1
  MaxFaults = 3
INVARIANTS TypeOK SingleConnection
PROPERTIES Reconnects KeepsSession

SPECIFICATION FairSpec
CONSTANTS
  Pcbs = 3
  Hosts = {h1}
  Reconnect = 1
  Guard = 2
  PingAt = 3
  PingDrop = 3
  Rtt = 1
  MaxLookups = 1
  MaxFaults = 1
PROPERTIES Reconnects

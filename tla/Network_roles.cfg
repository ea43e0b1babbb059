SPECIFICATION Spec
CONSTANTS
  MaxFaults = 2
  MaxRequests = 2
  MaxEvents = 2
  Servers = {"s1", "s2"}
  RetryAfter = 3
  ReplyAfter = 2
  ResyncAfter = 4
  MaxLookups = 1
  NtpFaults = 3
INVARIANTS TypeOK OneInterface IpTruth
PROPERTIES Reachable Rejoins Syncs FromConfigured
CHECK_DEADLOCK FALSE

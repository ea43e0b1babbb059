SPECIFICATION Spec
CONSTANTS
  Uploaders = {"a", "b", "c"}
  Bytes <- MCBytes
  ChunkLen = 3
  WordLen = 2
  PageWords = 2
  StagePages = 2
  AppPages = 3
  BootPages <- MCBoot
  ImageCuts = 2
  Last = 2
  LastB = 2
  MaxFaults = 4
  Values <- MCValues
  MaxOps = 2
  MaxCuts = 2
INVARIANTS TypeOK HeaderVouches AppWhole
PROPERTIES Applied Verdict Recovers Durable
CHECK_DEADLOCK FALSE

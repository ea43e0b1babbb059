SPECIFICATION Spec
CONSTANTS
  Uploaders = {"a", "b", "c"}
  Bytes <- MCBytes
  ChunkLen = 2
  WordLen = 2
  PageWords = 2
  StagePages = 2
  AppPages = 1
  BootPages <- MCBoot
  MaxCuts = 0
INVARIANTS HeaderVouches
CHECK_DEADLOCK FALSE

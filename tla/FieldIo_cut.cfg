SPECIFICATION FieldSpec
CONSTANTS
  Bits = 2
  Boards = 2
  DevCounts <- MCCounts
  Travel = 3
  Interlock = 3
  Hits = {"OPEN", "CLOSE", "STOP", "UP", "DOWN", "TOGGLE"}
  MaxHits = 3
  Devices = 1
  Debounce = 2
  Window = 3
  MaxEdits = 3
INVARIANTS TypeOK FieldTypeOK Heals NeverBoth OnIsTimed Accounted Debounced
PROPERTIES NoClick  Answered

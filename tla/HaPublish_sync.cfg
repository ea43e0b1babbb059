SPECIFICATION FairSpec
CONSTANTS
  Counts <- MCCounts
  MaxRelays = 2
  MaxEdits = 1
INVARIANTS TypeOK Synced
PROPERTIES Announced

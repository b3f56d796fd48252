SPECIFICATION TreeSpec
CONSTANTS
  MaxTopics = 4
  MaxSaves = 2
  MaxLoads = 0
CHECK_DEADLOCK FALSE
INVARIANTS
  SavedIsKept

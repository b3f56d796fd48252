SPECIFICATION Spec
CONSTANTS
  Docs <- ThreeDocs
  Total = 2
  Nodes = 2
  RecentFirst = TRUE
  Year <- OneYear
  Id <- Same
CHECK_DEADLOCK FALSE
INVARIANTS
  NoOverlap

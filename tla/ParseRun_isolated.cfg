SPECIFICATION ParseSpec
CONSTANTS
  NoOcr = TRUE
  Fallback = TRUE
  Isolated = TRUE
INVARIANTS
  IsolatedParses

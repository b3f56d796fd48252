SPECIFICATION EitherSpec
CONSTANTS
  d1 = d1
  d2 = d2
  o1 = o1
  w1 = w1
  w2 = w2
  NoPart = NoPart
  Docs <- TwoDocs
  Untitled <- SecondDoc
  PartsOf <- EmptySecond
  Orchs <- OneOrch
  Sequential <- None
  Workers <- OneWorker
  PoolOf <- OnePool
  Plans <- JustOcr
  Attended <- None
INVARIANTS
  IndexedComplete
  CleanRun
PROPERTIES
  PoolRunsEnd

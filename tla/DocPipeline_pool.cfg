SPECIFICATION Spec
CONSTANTS
  d1 = d1
  d2 = d2
  o1 = o1
  w1 = w1
  w2 = w2
  NoPart = NoPart
  Docs <- TwoDocs
  Untitled <- None
  PartsOf <- OnePartEach
  Orchs <- OneOrch
  Sequential <- None
  Workers <- TwoWorkers
  PoolOf <- SharedPool
  Plans <- ParseIndex
  Attended <- None
SYMMETRY Symmetric
INVARIANTS
  OneWorkerPerDoc
  IndInv
  StatsBalance

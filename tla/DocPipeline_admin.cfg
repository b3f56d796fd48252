SPECIFICATION Spec
CONSTANTS
  d1 = d1
  d2 = d2
  o1 = o1
  w1 = w1
  w2 = w2
  NoPart = NoPart
  Docs <- OneDoc
  Untitled <- None
  PartsOf <- TwoParts
  Orchs <- OneOrch
  Sequential <- None
  Workers <- OneWorker
  PoolOf <- OnePool
  Plans <- JustFull
  Attended <- OneDoc
PROPERTIES
  IndexedIsKept
  PublishesWhole

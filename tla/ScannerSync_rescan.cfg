SPECIFICATION Spec
CONSTANTS
  m1 = m1
  m2 = m2
  s1 = s1
  s2 = s2
  e1 = e1
  u1 = u1
  None = None
  Absent = Absent
  Unread = Unread
  Files <- TwoFiles
  Url <- Urls
  Metas <- TwoMetas
  Sums <- TwoSums
  Errs <- OneErr
  Beside <- Changing
  Flaky <- SecondFile
  BatchSize = 2
INVARIANTS
  RowsFollowDisk
  PointsFollowRows
  OneShown
PROPERTIES
  IndexedIsSafe

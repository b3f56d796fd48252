SPECIFICATION Spec
CONSTANTS
  m1 = m1
  m2 = m2
  s1 = s1
  s2 = s2
  e1 = e1
  u1 = u1
  None = None
  Absent = Absent
  Unread = Unread
  Files <- ThreeFiles
  Url <- Urls
  Metas <- OneMeta
  Sums <- TwoSums
  Errs <- NoErr
  Beside <- AnySum
  Flaky <- NoFile
  BatchSize = 2
INVARIANTS
  GroupHasOriginal

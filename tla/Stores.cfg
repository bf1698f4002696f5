SPECIFICATION Spec
CONSTANTS
  t1 = t1
  t2 = t2
  a = a
  b = b
  x = x
  y = y
  m = m
  cx = cx
  cy = cy
  none = none
  h1 = h1
  h2 = h2
  amp = amp
  None = none
  Torn <- HalfWritten
  AfterReference <- Referenced
  Keys <- AllKeys
  KeyOrder <- InOrder
  Contents <- AllContents
  Makes = {"s3", "azure", "dav", "sftp"}
  Tasks = {t1, t2}
  Wishes <- TheWishes
  AtFirst <- KeptAtFirst
  PageSize = 2
  BatchSize = 2
  CopiesAtOnce = 2
INVARIANTS
  NothingIsLost
  NothingIsOverlooked
PROPERTIES
  ConformsToMemory
CHECK_DEADLOCK FALSE

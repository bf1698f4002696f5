SPECIFICATION Spec
CONSTANTS
  t1 = t1
  x = x
  f = f
  m1 = m1
  m2 = m2
  m3 = m3
  c = c
  none = none
  h1 = h1
  None = none
  Torn <- HalfWritten
  AfterReference <- NoReferences
  Keys <- AllKeys
  KeyOrder <- InOrder
  Contents <- AllContents
  Makes = {"azure"}
  Tasks = {t1}
  Wishes <- TheWishes
  AtFirst <- KeptAtFirst
  PageSize = 2
  BatchSize = 2
  CopiesAtOnce = 2
INVARIANTS
  EveryCopyComesFirst
CHECK_DEADLOCK FALSE

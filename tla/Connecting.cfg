SPECIFICATION FairSpec
CONSTANTS
  w1 = w1
  w2 = w2
  t1 = t1
  t2 = t2
  t3 = t3
  None = None
  Windows = {w1, w2}
  Tasks = {t1, t2, t3}
  Kinds <- AttemptsAndAnother
  Places <- FirstInOneWindow
  MaxWrong = 1
INVARIANTS
  OneWindowAsks
  NobodyWaitsForNothing
  SessionsAreNotShared
  OnlyTheSlippedLinger
PROPERTY
  EverythingEnds
CHECK_DEADLOCK FALSE

SPECIFICATION FairSpec
CONSTANTS
  s3 = s3
  azure = azure
  d1 = d1
  d2 = d2
  d3 = d3
  u1 = u1
  u2 = u2
  u3 = u3
  File = File
  Connections = {s3, azure}
  Uploads = {u1, u2, u3}
  Downloads = {d1, d2, d3}
  At <- Where
  Source <- From
  Sizes <- Long
  Together <- SideBySide
  Total = 4
  InFlight = 2
  Megabyte = 2
  PartsWanted = 2
  Limits <- Stores
  TidiesUp = {s3}
INVARIANTS
  ArrivesWhole
  BarIsTrue
PROPERTIES
  SettledFirst
  EverythingEnds
CHECK_DEADLOCK FALSE

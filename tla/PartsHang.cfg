SPECIFICATION FairSpec
CONSTANTS
  s3 = s3
  azure = azure
  d1 = d1
  d2 = d2
  d3 = d3
  u1 = u1
  u2 = u2
  u3 = u3
  File = File
  Connections = {s3, azure}
  Uploads = {u1, u2, u3}
  Downloads = {d1, d2, d3}
  At <- Where
  Source <- From
  Sizes <- Large
  Together <- Alone
  Total = 4
  InFlight = 4
  Megabyte = 2
  PartsWanted = 4
  Limits <- AnyStore
  TidiesUp = {s3}
PROPERTY
  DownloadsEnd
CHECK_DEADLOCK FALSE

SPECIFICATION FairSpec
CONSTANTS
  c = c
  p = p
  q = q
  Nobody = Nobody
  Unknown = Unknown
  Ops = {c, p, q}
  Kinds <- OneFile
  Carried = c
  Listed = {3}
  Lengths = {2, 3, 4}
  READ_BLOCK = 1
  READS_AHEAD = 2
  READ_CHUNK = 2
  MAX_PACKET = 3
  Takes = {0, 2}
INVARIANTS
  InStep
  CarriedWhole
  PacketsAreWhole
PROPERTY
  EveryoneEnds
CHECK_DEADLOCK FALSE

SPECIFICATION FairSpec
CONSTANTS
  d1 = d1
  d2 = d2
  x1 = x1
  a = a
  b = b
  c = c
  f = f
  g = g
  here = here
  home = home
  remote = remote
  Drops = {d1, d2}
  Deletions = {x1}
  Kinds <- WhatTheyAre
  Into <- WhereTo
  Dragged <- TheDragged
  Held <- HeldAtFirst
  Doomed <- TheDoomed
  Nodes <- AllNodes
  Folders <- FolderPaths
  FoldersAtOnce = 2
INVARIANTS
  FolderFirst
  DoneIsComplete
  NothingReplacedUnasked
  DeletedIsGone
PROPERTY
  EveryDropEnds
CHECK_DEADLOCK FALSE

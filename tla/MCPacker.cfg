\* Two entries, pipes with room for one.
CONSTANTS
  PipeCap = 1
  ErrCap = 1
  ProbeEvery = 2
  Batches <- Pairs
  Attempts = {0, 1}
  Leftovers <- Dirs
SPECIFICATION FairSpec
INVARIANTS
  PublishedWhole
  NothingLeft
  IndexExact
PROPERTY
  RunEnds

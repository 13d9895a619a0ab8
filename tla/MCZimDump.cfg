\* Three entries among seven paths, two clusters, two threads.
CONSTANTS
  RawPaths <- Raw
  N = 3
  Clusters = {1, 2}
  w1 = w1
  w2 = w2
  Workers = {w1, w2}
  Main = main
  Leftovers <- Dirs
SYMMETRY WorkerSymmetry
SPECIFICATION Spec
CHECK_DEADLOCK FALSE
INVARIANTS
  AllDumped
  ShallowStays
  LinksLead

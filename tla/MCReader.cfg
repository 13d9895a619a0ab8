\* Every directory of four entries in two namespaces, with three paths; every
\* directory of three entries with two titles in two namespaces, and every
\* listing of up to three indices; every file of three clusters, from this
\* writer or any other; every cluster of up to four offsets, where 32 bits
\* stop at 5; three threads at a cache of four clusters of 1 to 4 bytes, with
\* budgets of 0, 3 and 5.
CONSTANTS
  t1 = t1
  t2 = t2
  t3 = t3
  Threads = {t1, t2, t3}
  Clusters = {1, 2, 3, 4}
  Length <- CacheLengths
  Broken = {1}
  Budgets = {0, 3, 5}
  NoCluster = 0
  NoThread = none
  MaxLoads = 7
  N = 4
  TopNs = 1
  MaxPath = 2
  PrefixEnd <- PathPrefixes
  TitleN = 3
  MaxNs = 1
  Content = 0
  MaxTitle = 1
  TitlePrefixEnd <- TitlePrefixes
  ClusterCount = 3
  Lengths = {1, 2}
  Dirents = 2
  DirentLen = 2
  Reserved = 1
  MaxPos = 5
  W32 = 1
  W64 = 2
  Top32 = 5
  Limit64 = 11
  MaxWords = 4
  BlobLens = {0, 1, 3}
  MaxBlobs = 3
SYMMETRY Symmetry
SPECIFICATION ReaderSpec
\* A build, a file and a cluster end.
CHECK_DEADLOCK FALSE
INVARIANTS
  DirectoryExact
  ListingVerdictExact
  TitlesExact
  WholeOrRefused
  ExtentsApart
  BlobsExact
  BytesExact
  EvictionExact
  StatsAddUp

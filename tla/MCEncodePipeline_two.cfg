\* Two workers, an empty, a fitting and an oversized cluster.
CONSTANTS
  w1 = w1
  w2 = w2
  Workers <- TwoWorkers
  Limit = 2
  Sizes = {0, 1, 3}
  MaxClusters = 4
  MaxStreamed = 1
SPECIFICATION Spec
SYMMETRY WorkerSymmetry
INVARIANTS
  BudgetKept
  SealedComplete

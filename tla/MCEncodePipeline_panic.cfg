\* What becomes of a build whose pipeline failed.
CONSTANTS
  w1 = w1
  w2 = w2
  Workers <- OneWorker
  Limit = 2
  Sizes = {1}
  MaxClusters = 4
  MaxStreamed = 0
SPECIFICATION Spec
INVARIANTS
  NeverPanics

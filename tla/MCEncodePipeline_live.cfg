\* One worker; enough clusters to fill both channels after a failure.
CONSTANTS
  w1 = w1
  w2 = w2
  Workers <- OneWorker
  Limit = 2
  Sizes = {0, 3}
  MaxClusters = 5
  MaxStreamed = 0
SPECIFICATION FairSpec
INVARIANTS
  FailureReportedSoon
PROPERTIES
  CallsReturn
  PipelineIsALog

SPECIFICATION WatchSpec
CONSTANTS
  FailThreshold = 2
  TimeoutThreshold = 3
  MaxProbes = 7
INVARIANTS
  VerdictIsExact
  DetectionBound

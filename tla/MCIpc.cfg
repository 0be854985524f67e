SPECIFICATION HistorySpec
CONSTANTS
  MaxLine = 3
  InCapacity = 1
  OutCapacity = 1
  MaxSent = 6
INVARIANT AnswersAreExact
PROPERTY LoopResumes

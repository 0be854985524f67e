SPECIFICATION FairSpec
CONSTANTS
  Capacity = 3
  ReadSize = 2
PROPERTIES
  PipeAsPromised
  TermIsRead

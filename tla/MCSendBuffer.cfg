SPECIFICATION FairSpec
CONSTANTS
  BufSize = 3
  PtSpace = 7
  NumRetrans = 1
  MaxPkts = 7
  MaxBatch = 2
  Reader = Reader
  Sender = Sender
  Handler = Handler
  NoThread = NoThread
INVARIANTS
  TypeOK
  PointersInOrder
  AssertionsHold
  FoundBySeq
  SentInOrder
  ReaderSleepsWhileFull
PROPERTIES
  EachIsSent
  QueueIsFreed
CHECK_DEADLOCK FALSE

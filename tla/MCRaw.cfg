SPECIFICATION Spec
CONSTANTS
  MaxBufSize = 4
  AckWindow = 3
  SeqSpace = 16
  RelSpace = 5
  FirstSeq = 13
  MaxSent = 5
INVARIANTS
  GoodIsReceived
  NackedIsLost
  ReportedOnce
  RecordsConsecutive
  NeverNackedTwice
CHECK_DEADLOCK FALSE

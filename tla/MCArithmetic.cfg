SPECIFICATION Spec
CONSTANTS
  RoundInterval = 10
  Ticks = 12
  RateUnits = 2
  Clients = {"c1", "c2", "c3"}
  RateSet = {1, 2, 3, 4, 5, 6}
  Thousand = 3
  MaxSec = 2
  MaxDivisor = 6
  MaxWait = 20
  ByteSpace = 8
  MaxBatchSize = 4
  MaxDataLen = 2
  MaxSent = 11
INVARIANTS
  RoundFilled
  ProportionalFair
  EqualThroughputFair
  TimersExact
  QuotientsNear
  DeadlinesExact
  HeadersReadBack

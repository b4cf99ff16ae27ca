SPECIFICATION FairSpec
CONSTANTS
  RoundInterval = 4
  Ticks = 1
  RateUnits = 1
  f1 = f1
  f2 = f2
  c1 = c1
  c2 = c2
  Clients = {c1, c2}
  ClientIds = {c1, c2}
  Forwarders = {f1}
  ComputeRoutes = ComputeRoutes
  NoThread = NoThread
  NoClient = NoClient
  MaxSize = 2
  MinThroughput = 4
  Throughputs = {4, 8}
  Lens = {1, 2}
  ClientSets <- EveryClient
  Quantum <- EqualThroughput
  MaxSeq = 2
PROPERTIES
  SentInOrder
  Delivered

SPECIFICATION FairSpec
CONSTANTS
  b1 = b1
  b2 = b2
  c1 = c1
  c2 = c2
  d1 = d1
  d2 = d2
  ClientList <- TwoClients
  BSList <- TwoBSs
  Domains = {d1, d2}
  ConflictGraph <- OwnDomains
  Modes = {"MaxThroughput", "Optimizer", "RoundRobin"}
  MinThroughput = 1
  Rates = {0, 2, 3}
  NoRate = NoRate
  NoBS = NoBS
  NoRoute = NoRoute
  MaxSeq = 2
  MaxTotal = 2
  IndexMod = 3
INVARIANTS
  TypeOK
  ServedByItsDomain
  BestRate
  RatesPositive
PROPERTIES
  FreshReports
  EveryBSHasTurns

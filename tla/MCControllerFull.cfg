SPECIFICATION Spec
CONSTANTS
  c1 = c1
  c2 = c2
  b1 = b1
  b2 = b2
  b3 = b3
  d1 = d1
  d2 = d2
  Clients = {c1}
  BSs = {b1, b2, b3}
  Domains = {d1, d2}
  ConflictGraph <- SharedDomain
  MaxSize = 2
  MaxSeq = 3
  MaxTotal = 3
SYMMETRY Symmetry
INVARIANTS
  NotLost

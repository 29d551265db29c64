SPECIFICATION NativeSpec
CONSTANTS
  g1 = g1
  n1 = n1
  i1 = i1
  i2 = i2
  i3 = i3
  i4 = i4
  w1 = w1
  w2 = w2
  t1 = t1
  t2 = t2
  t3 = t3
  None = None
  Groups = {g1}
  Participants = {n1}
  GroupOf <- MCGroupOf
  Instances = {i1, i2}
  Reports <- MCReports
  Tokens = {t1, t2, t3}
  MaxWaiters = 1
  Workers = {w1}
  WorkerOf <- MCSingle
  MaxRev = 4
  LateSnapshots = TRUE
SYMMETRY SymmetrySingle
CONSTRAINT PlainLeases
INVARIANTS
  NeverBothLoaded

SPECIFICATION BothSpec
CONSTANTS
  g1 = g1
  n1 = n1
  i1 = i1
  i2 = i2
  i3 = i3
  i4 = i4
  w1 = w1
  w2 = w2
  t1 = t1
  t2 = t2
  t3 = t3
  None = None
  Groups = {g1}
  Participants = {n1}
  GroupOf <- MCGroupOf
  Instances = {i1, i2, i3, i4}
  Reports <- MCReports
  Tokens = {t1, t2, t3}
  MaxWaiters = 2
  Workers = {w1, w2}
  WorkerOf <- MCWorkerOf
  MaxRev = 5
  LateSnapshots = FALSE
SYMMETRY Symmetry
CONSTRAINT Bounded
INVARIANTS
  GuardKept
  NeverBothLoaded

SPECIFICATION Spec
CONSTANTS
  g1 = g1
  n1 = n1
  n2 = n2
  i1 = i1
  i2 = i2
  t1 = t1
  t2 = t2
  t3 = t3
  None = None
  Groups = {g1}
  Participants = {n1, n2}
  GroupOf <- MCGroupOf
  Instances = {i1, i2}
  Reports <- MCReports
  Tokens = {t1, t2, t3}
  MaxWaiters = 1
SYMMETRY Symmetry
INVARIANTS
  TypeOK
  ExclusiveUse
  DurableFence
  LiveLeaseBesideIdleNatives
PROPERTIES
  RevocationIsFinal
  ImplementsFence

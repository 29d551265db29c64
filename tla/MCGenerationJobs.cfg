SPECIFICATION Spec
CONSTANTS
  j1 = j1  j2 = j2  a = a  b = b  c = c  d = d  l1 = l1  l2 = l2  g1 = g1  g2 = g2
  Jobs = {j1, j2}
  Tasks = {a, b, c, d}
  Lines = {l1, l2}
  Groups = {g1, g2}
  JobOf <- MCJobOf
  LineOf <- MCLineOf
  Plans <- TogetherOrApart
  Unroutable = {d}
  Capacity <- OnePerGroup
  MaxJobs = 2
  MaxActive = 2
  History <- GapHistory
CONSTRAINT Bounded
CHECK_DEADLOCK FALSE
INVARIANTS
  VersionsKept
  OneOutcome
  HonestItems
  CancelledStaysSilent

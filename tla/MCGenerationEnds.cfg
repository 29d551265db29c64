SPECIFICATION EndsSpec
CONSTANTS
  j1 = j1  j2 = j2  a = a  b = b  c = c  d = d  l1 = l1  l2 = l2  g1 = g1  g2 = g2
  Jobs = {j1, j2}
  Tasks = {a, c}
  Lines = {l1}
  Groups = {g1}
  JobOf <- MCJobOf
  LineOf <- MCLineOf
  Plans <- Single
  Unroutable = {}
  Capacity <- OnePerGroup
  MaxJobs = 2
  MaxActive = 2
  History <- EmptyHistory
CHECK_DEADLOCK FALSE
PROPERTIES
  JobsEnd

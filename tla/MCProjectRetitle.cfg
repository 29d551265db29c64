SPECIFICATION Spec
CONSTANTS
  p = p q = q x = x y = y z = z
  t1 = t1 t2 = t2 t3 = t3 t4 = t4 t5 = t5 t6 = t6
  NoId = NoId NoDir = NoDir Keep = Keep
  Projects = {p, q}
  Names = {p, q, x, y, z}
  Threads = {t1, t2, t3}
  Found <- Spoken
  Listing <- Sorted
  Numbered <- Tries
  Op <- RetitleOps
  Apart = {}
  MayCrash = FALSE
INVARIANTS HistoryKept
CHECK_DEADLOCK FALSE

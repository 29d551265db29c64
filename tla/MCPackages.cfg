SPECIFICATION Spec
CONSTANTS
  t1 = t1 t2 = t2 c1 = c1 c2 = c2 i1 = i1 i2 = i2 w1 = w1 w2 = w2 w3 = w3
  Threads = {t1, t2} Components = {c1, c2} LockOrder <- InOrder ActionIds = {i1, i2}
  Looks = {w1, w2, w3} Build <- Builds First = w1 Gone = Gone
  MaxActive = 1 Started = {c1} MaxRequests = 3 MaxMishaps = 1
  Retries = 2 MaxWrites = 3
  r1 = r1 r2 = r2 Order <- InLock MaxHead = 2 MaxWorks = 2 MaxSyncs = 3
  Limit = 2 MaxEvents = 5
SYMMETRY Alike
INVARIANTS LaunchesAccounted ControlRequestsMove ReadIsCurrent LogComplete CheckoutsKept
CHECK_DEADLOCK FALSE

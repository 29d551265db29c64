SPECIFICATION Spec
CONSTANTS
  a = a p = p k1 = k1 t1 = t1 t2 = t2 cli = cli
  s1 = s1 s2 = s2 gpu = gpu v1 = v1 v2 = v2 j1 = j1 j2 = j2
  c1 = c1 c2 = c2
  Ids = {a, p} Absent = Absent NoFile = NoFile OtherFile = OtherFile Unknown = Unknown
  Packages = {k1} NoPackage = NoPackage
  Callers = {t1, t2} Registrar = cli Defaults = {a}
  MaxAsks = 3 MaxStarts = 1
  Services = {s1, s2} Group <- OneGroup Capacity <- OneSlot NoService = NoService
  Voices = {v1, v2} NoVoice = NoVoice Plain = Plain Mixed = Mixed
  Jobs = {j1, j2} Clusters <- TwoJobs ByPriority <- ByOrder
  MaxQueues = 2 LateFailures = TRUE MayRestart = TRUE
  Calls = {c1, c2} Ttl = 3 CacheFor = 2 Timeout = 1 MaxTime = 6 MaxIds = 4 NoId = NoId
  MaxUses = 3
SYMMETRY Alike
INVARIANTS StoreKept ServiceRequestsMove VoicesKnown ArtifactsKept EnginesWhole
PROPERTY RegistryKept
CHECK_DEADLOCK FALSE

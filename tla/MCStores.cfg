SPECIFICATION StoresSpec
CONSTANTS
  p = p q = q x = x y = y z = z
  t1 = t1 t2 = t2 t3 = t3 t4 = t4 t5 = t5 t6 = t6
  NoId = NoId NoDir = NoDir Keep = Keep
  Projects = {p, q}
  Names = {p, q, x, y, z}
  Threads = {t1, t2, t3, t4, t5, t6}
  Found <- NoneThere
  Listing <- Sorted
  Numbered <- Tries
  Op <- CalmOps
  Apart <- Calm
  MayCrash = TRUE
  c1 = c1 c2 = c2 Clients = {c1, c2} MaxAsked = 4
  Characters = {"hero", "villain"} Named <- NamedTwo Answers <- AnswersTwo Roles = {"old", "v"} Presets <- BothPresets
 Recasts <- TwoEdits MaxCasts = 3 MaxParses = 2
  WeightRoots <- ThreeRoots Trainings <- Sessions Folders <- ReferenceFolders Told <- TwoTell Service = "local" Spelled <- AsItIs
  f1 = f1 f2 = f2 f3 = f3 Files = {f1, f2, f3} Versions = {1, 2} NoFile = NoFile Mine = Mine NoVersion = NoVersion
  Bundle <- TwoVersions Launcher <- TwoLaunchers MaxTurns = 3 MaxCuts = 2
  n1 = n1 n2 = n2 Pids = {n1, n2} Nobody = Nobody MaxRestarts = 2 MaxStrangers = 1
  Before = {f1, f2} Wanted = {f1, f3} M = M Vacant = Vacant MaxRuns = 2 MaxTouches = 1 MaxFaults = 1 MaxKills = 1
INVARIANTS HistoryKept ProjectsApart InstallSound ComfyAccounted MirrorHonest
PROPERTY LibraryKept
CHECK_DEADLOCK FALSE

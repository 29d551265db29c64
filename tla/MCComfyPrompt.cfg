SPECIFICATION TimedSpec
CONSTANTS
  MaxRounds = 2
  Request = 1 Converge = 2
  c1 = c1 c2 = c2 c3 = c3 Connections = {c1, c2, c3} MaxWorkers = 2
INVARIANTS CleanMeansQuiet PromptToldTruly JudgedTruly SlotsAccounted
PROPERTY AllEnd
CHECK_DEADLOCK FALSE

CONSTANTS
  None = None
  m = m
  p = p
  Runs <- RunsDef
  Mode <- ModeDef
  MaxScribbles = 1
  Recoverers = {o1}
  MaxChain = 2
SPECIFICATION Spec
INVARIANTS NoLostPublication PublishedIsTrue DeletesOnlyCommitted
PROPERTY PrivateKept
CONSTRAINT Followed
CHECK_DEADLOCK FALSE

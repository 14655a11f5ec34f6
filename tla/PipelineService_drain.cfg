\* A drain (the backfill command), with no operator retrying jobs meanwhile.
SPECIFICATION FairSpec
CONSTANTS
  Urls = {u1, u2}
  Workers = {w1, w2}
  None = None
  NumStages = 1
  MaxAttempts = 2
  Drain = TRUE
  Retryable = {}
INVARIANTS
  DrainExitsDrained
PROPERTIES
  DrainTerminates

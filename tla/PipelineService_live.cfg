\* Liveness of the live service.
SPECIFICATION FairSpec
CONSTANTS
  Urls = {u1, u2}
  Workers = {w1}
  None = None
  NumStages = 2
  MaxAttempts = 2
  Drain = FALSE
  Retryable = {u1, u2}
PROPERTIES
  EveryJobSettles

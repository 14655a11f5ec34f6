\* "drain=True exits once the feed is exhausted": or once it raised.
SPECIFICATION Spec
CONSTANTS
  Urls = {u1}
  Workers = {w1}
  None = None
  NumStages = 2
  MaxAttempts = 2
  Drain = TRUE
  Retryable = {}
INVARIANTS
  DrainExitsExhausted

SPECIFICATION CountedSpec
CONSTANTS
  Urls = {u1}
  Workers = {w1}
  None = None
  NumStages = 2
  MaxAttempts = 2
  Drain = FALSE
  Retryable = {u1}
INVARIANTS
  RetryBudget

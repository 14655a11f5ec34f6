\* "NOTIFY wakes the service instantly on enqueue": not when the worker is on
\* its way to sleep.
SPECIFICATION Spec
CONSTANTS
  Urls = {u1}
  Workers = {w1}
  None = None
  NumStages = 2
  MaxAttempts = 2
  Drain = FALSE
  Retryable = {u1}
INVARIANTS
  NewJobWakes

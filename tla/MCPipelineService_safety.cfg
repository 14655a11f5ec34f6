\* Two workers, two articles, two stages, two attempts: every interleaving of
\* feed, claims, failures, wrecked connections, crashes, restarts and retries.
SPECIFICATION Spec
CONSTANTS
  Urls = {u1, u2}
  Workers = {w1, w2}
  None = None
  NumStages = 2
  MaxAttempts = 2
  Drain = FALSE
  Retryable = {u1, u2}
SYMMETRY Interchangeable
INVARIANTS
  TypeOK
  SoleOwner
  OwnerAgrees
  NoOrphanWhileUp
  ClaimableIsRunnable
  RecordBehindWork
PROPERTIES
  ImplementsLifecycle

\* Two articles about two tickers, one of them tardy, a look-back of one instant
\* in three, failing fetches, kills and restarts.
SPECIFICATION Spec
CONSTANTS
  Articles = {a1, a2}
  Tickers = {t1, t2}
  About <- AllTickers
  Lookback = 1
  Tardy = {a2}
  MaxClock = 2
  Never = Never
SYMMETRY SameTickers
INVARIANTS
  TypeOK
  PolledIsEnqueued
CHECK_DEADLOCK FALSE

\* Two workers over two domains with one permit each, a queue of one item, two
\* requests per page, rows stored by an earlier run, the command killed at any
\* moment.
SPECIFICATION FairSpec
CONSTANTS
  u1 = u1
  u2 = u2
  d1 = d1
  d2 = d2
  h1 = h1
  h2 = h2
  Tasks = {w1, w2}
  Domains = {d1, d2}
  PerDomain = 1
  Delay = 1
  Urls = {u1, u2}
  DomainOf <- SiteOf
  Hosts = {h1, h2}
  HostOf <- NetlocOf
  Files <- Csvs
  Limit = 9
  QueueSize = 1
  Attempts = 2
  RetryErrors = FALSE
  RespectRobots = TRUE
  MaxStarts = 1
  None = None
INVARIANTS
  TypeOK
  FetchedOnce
  EveryRowCounted
PROPERTIES
  VisitsApart
  GoodPageKept
  RunEnds
CHECK_DEADLOCK FALSE

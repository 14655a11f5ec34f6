\* "enforces a min delay between requests": not with two permits per domain.
SPECIFICATION LimiterSpec
CONSTANTS
  Tasks = {t1, t2}
  Domains = {d1}
  PerDomain = 2
  Delay = 2
PROPERTIES
  MinDelay

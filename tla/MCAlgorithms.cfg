SPECIFICATION Spec
CONSTANTS
  Dataset = 2
  Concurrency = 2
INVARIANTS
  PrecedentsAreTheBest
  EvaluatedAsProduced
  PrecedentsArePast
  NoLookAhead
  FloorLosesNothing
  ConsolidatedOnce
  EveryVerdictCounted
  ScoredAlike
  ExitFollowsEntry
  RangeOfTheDay
  NewsOfTheDay
  LeftResetIsReported
  PrecedentsWhole
  ScoresAddUp
  MentionsAccountedFor

CONSTANTS
  Handlers = {h1, h2}
  Keys = {k1, k2}
  Values = {v1, v2}
  Created = {v1}
  NoRow = NoRow
  NoValue = NoValue
  NoHandler = NoHandler
  MaxWrites = 3
SPECIFICATION FairSpec
INVARIANTS
  TypeOK
  HistoryMatchesTable
  CopiesArePastVersions
  StaleOnlyByRaceOrFailure
  EventsFollowCommits
PROPERTIES
  ImplementsStore
  CacheConverges

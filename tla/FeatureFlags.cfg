CONSTANTS
  Flags = {1, 2}
  Asked = {1}
  Defaults = {TRUE}
  Initial = {"off"}
  Kinds = {"eval", "flag", "list", "sync"}
  Handlers = {h1}
  Syncers = {s}
  PageSize = 1
  None = None
  NoFlag = NoFlag
  MaxChanges = 1
  MaxFaults = 1
SPECIFICATION FairSpec
INVARIANTS
  TypeOK
  StaleExplained
  ListGapsExplained
PROPERTIES
  CachesConverge
  SyncRecurs

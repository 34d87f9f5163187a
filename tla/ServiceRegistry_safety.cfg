CONSTANTS
  i1 = i1
  i2 = i2
  self = self
  asr = asr
  config = config
  Instances = {i1, self}
  Services = {asr, config}
  ServiceOf <- MCOneServiceOf
  Self = self
  Queried = {asr}
  Handlers = {h1, h2}
  Monitor = Monitor
  Nobody = Nobody
  NoEntry = NoEntry
  NoRow = NoRow
  NoInstance = NoInstance
  NoService = NoService
  MaxLives = 2
  MaxFaults = 1
SPECIFICATION Spec
SYMMETRY Symmetry
INVARIANTS
  TypeOK
  AnsweredIsPersisted
  StaleListExplained
  DeregisteredStaysGone

CONSTANTS
  i1 = i1
  i2 = i2
  self = self
  asr = asr
  config = config
  Instances = {i1, self}
  Services = {asr, config}
  ServiceOf <- MCOneServiceOf
  Self = self
  Queried = {asr}
  Handlers = {h1}
  Monitor = Monitor
  Nobody = Nobody
  NoEntry = NoEntry
  NoRow = NoRow
  NoInstance = NoInstance
  NoService = NoService
  MaxLives = 1
  MaxFaults = 1
SPECIFICATION FairSpec
PROPERTIES
  EmptyServicesUnknown

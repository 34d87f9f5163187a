CONSTANTS
  i1 = i1
  i2 = i2
  self = self
  asr = asr
  config = config
  Instances = {i1, i2, self}
  Services = {asr, config}
  ServiceOf <- MCServiceOf
  Self = self
  Queried = {asr}
  Handlers = {h1}
  Monitor = Monitor
  Nobody = Nobody
  NoEntry = NoEntry
  NoRow = NoRow
  NoInstance = NoInstance
  NoService = NoService
  MaxLives = 2
  MaxFaults = 1
SPECIFICATION FairSpec
PROPERTIES
  ListConverges
  HealthConverges

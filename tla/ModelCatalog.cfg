CONSTANTS
  Models = {m1, m2}
  Services = {s}
  Existing = {m1, m2}
  Names = {n1, n2}
  Tasks = {t1, t2}
  Handlers = {h1, h2, h3}
  None = None
  Keep = Keep
  NoItem = NoItem
  MaxRequests = 3
  MaxFaults = 1
SPECIFICATION Spec
SYMMETRY Symmetry
CHECK_DEADLOCK FALSE
INVARIANTS
  TypeOK
  ServicesHaveModels
  ModelCopiesExplained
  ServiceCopiesExplained
  NoUpdateLost

CONSTANTS
  Tabs = {t1, t2}
  Procs = {p1, p2}
  MaxSessions = 2
SPECIFICATION Spec
SYMMETRY Symmetry
INVARIANTS
  TypeOK
  TokensOfOneSession
  UserOfTokens
  SignedOutStays
PROPERTIES
  CallsEnd

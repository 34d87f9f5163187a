CONSTANTS
  admin = admin
  user = user
  Users = {user}
  Roles = {1, 2, 3}
  ADMIN = 1
  Supers = {user}
  Initial = {{}, {1}, {2}, {1, 2}, {1, 2, 3}}
  Handlers = {h1, h2}
  NoRow = NoRow
  NoRole = NoRole
  NoUser = NoUser
  MaxAssigns = 2
  MaxFaults = 1
SPECIFICATION LiveSpec
INVARIANTS
  TypeOK
  DuplicatesOverlap
  NoDeadlock
PROPERTIES
  RequestsEnd
  DuplicatesHeal

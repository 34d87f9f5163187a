CONSTANTS
  admin = admin
  user = user
  Users = {user}
  Roles = {1, 2}
  ADMIN = 1
  Supers = {user}
  Initial = {{1}}
  Handlers = {h1, h2}
  NoRow = NoRow
  NoRole = NoRole
  NoUser = NoUser
  MaxAssigns = 2
  MaxFaults = 0
SPECIFICATION Spec
SYMMETRY Symmetry
INVARIANT OneRolePerUser

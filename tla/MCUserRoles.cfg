SPECIFICATION Spec
CONSTANTS
  Requests = {r1, r2}
  Keys = {k1, k2}
  Calls <- AllCalls
  AdminCalls <- Changes
  Ttl = 2
  Debug = TRUE
  MaxTime = 4
  MaxChanges = 2
  None = None
  ada = ada
  Users = {ada}
  admin = admin
  member = member
  Roles = {admin, member}
SYMMETRY Symmetry
INVARIANTS TypeOK AcknowledgedRoleTookHold CachedRolesHaveCauses
PROPERTIES RemovedKeysAreForgotten KeysAreLearnedInTime
CHECK_DEADLOCK FALSE

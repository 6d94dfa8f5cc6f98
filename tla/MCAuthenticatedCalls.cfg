SPECIFICATION Spec
CONSTANTS
  register = register  authorize = authorize
  Calls = {register, authorize}
  Hiding = {authorize}
  MaxAuthRetries = 3
  MaxExpirations = 3
  Nobody = Nobody
CHECK_DEADLOCK FALSE
INVARIANTS
  TypeOK
  ServedOnce
  RefusedTwiceOnlyIfExpired
PROPERTY
  CallsEnd

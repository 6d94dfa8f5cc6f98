SPECIFICATION Spec
CONSTANTS
  dep = dep  svc = svc  ev = ev  key = key  evKey = evKey
  Objects = {dep, svc, ev}
  KindOf <- MCKindOf
  KeyOf <- MCKeyOf
  RefOf <- MCRefOf
  Filtered = {}
  Existing = {dep, ev}
  MaxRetries = 1
  MaxChanges = 3
  NoEvent = NoEvent
CHECK_DEADLOCK FALSE
INVARIANTS
  GaugeFollowsCluster
  WarningsNotOvercounted
PROPERTIES
  MissingOnlyWhileUndelivered
  EventsHandled

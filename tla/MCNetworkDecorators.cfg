SPECIFICATION Spec
CONSTANTS
  f1 = f1  f2 = f2
  Fragments = {f1, f2}
  Exposing = {f1}
  PortOf <- MCPortOf
  MaxStageRetries = 2
CHECK_DEADLOCK FALSE
INVARIANTS
  IstioRetriesAreAccepted
  RoutesHavePorts

SPECIFICATION Spec
CONSTANTS
  f1 = f1  s1 = s1  s2 = s2  app = app
  dep1 = dep1  ing1 = ing1  dep2 = dep2  dep3 = dep3
  Fragments = {f1}
  ServiceInstances = {s1, s2}
  Uids = {dep1, ing1, dep2, dep3}
  Apps = {app}
  AppOf <- MCAppOf
  FragmentLabel <- MCFragmentLabel
  ServiceLabel <- MCServiceLabel
  Deployments = {dep1, dep2, dep3}
  Announcing = {ing1}
INVARIANTS
  TypeOK
  PendingChecksExact
  EndpointsOnce
  StatusSound
  DoneSound
  ChecksBounded
  WorstStatusIgnoresOrder

SPECIFICATION ReportSpec
CONSTANTS
  f1 = f1  s1 = s1  app = app  dep1 = dep1  Nobody = Nobody
  Fragments = {f1}
  ServiceInstances = {s1}
  Uids = {dep1}
  Apps = {app}
  AppOf <- MCAppOf
  FragmentLabel <- MCFragmentLabel
  ServiceLabel <- MCServiceLabel
  Deployments = {dep1}
  Announcing = {}
  Lossy = TRUE
INVARIANTS
  OnlyRacesLoseUpdates
  OnlyEventsHideFragments
  GoneWasTold
PROPERTIES
  TerminatingLeaves

SPECIFICATION Spec
CONSTANTS
  f1 = f1  f2 = f2  r1 = r1  r2 = r2  u1 = u1  u2 = u2
  Fragments = {f1, f2}
  Undeploys = {u1, u2}
  NumStages = 2
  Requests = {r1, r2}
  MaxDeletions = 2
  MaxRestarts = 1
SYMMETRY Symmetry
CHECK_DEADLOCK FALSE
INVARIANTS
  DeployedKeepsNamespace
  NothingAfterUndeploy

  

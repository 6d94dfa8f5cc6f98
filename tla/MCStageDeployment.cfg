SPECIFICATION Spec
CONSTANTS
  s1 = s1  s2 = s2
  lb1 = lb1  pvc1 = pvc1  svc2 = svc2
  Fragment = fragment
  App = app
  ServiceInstances = {s1, s2}
  NumStages = 2
  Objects = {lb1, pvc1, svc2}
  StageOf <- MCStageOf
  ServiceOf <- MCServiceOf
  KindOf <- MCKindOf
  Policy = "LIMITED_RETRY"
  MaxStageRetries = 2
  MaxEventRetries = 1
  WithUndeploy = TRUE
INVARIANTS
  StageOrder
  RetriesBounded
  RegistryFollowsCluster
  RetryMeetsOnlyBalancers
PROPERTIES
  PassedMeansStarted
  FailedLeavesNothing
  RequestReturns

SPECIFICATION Spec
CONSTANTS
  valid1 = valid1  valid2 = valid2  broken = broken
  Requests = {valid1, valid2, broken}
  Valid = {valid1, valid2}
  MaxAccepted = 5
INVARIANTS
  QueueOK
  NextRequestFindsOne
PROPERTY PromiseKept

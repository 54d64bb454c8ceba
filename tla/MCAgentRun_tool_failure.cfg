SPECIFICATION Spec
CONSTANTS
  MaxIterations = 1
  MaxTools = 2
  MaxRequests = 1
  Fingerprints = {f1}
INVARIANT FailingToolKeepsScan
CHECK_DEADLOCK FALSE

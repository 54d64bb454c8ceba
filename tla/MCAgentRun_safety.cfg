SPECIFICATION LiveSpec
CONSTANTS
  MaxIterations = 2
  MaxTools = 2
  MaxRequests = 2
  Fingerprints = {f1, f2}
INVARIANTS
  TypeOK
  FindingsComplete
  TrafficAudited
PROPERTIES
  ChecksAtomic
  AgentEnds
CHECK_DEADLOCK FALSE

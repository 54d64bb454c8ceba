SPECIFICATION Spec
CONSTANTS
  MaxAttempts = 2
  MaxTries = 2
  Lease = 0
  Timeout = 3
  RequeueAfter = 0
  QueueMaxAge = 1
  Reapers = {r1}
  Null = Null
INVARIANTS
  TypeOK
  ReportIntegrity
  ErrorCodeHonest
  ProbesNotReplayed
  SessionFailsWithScan
PROPERTIES
  FencedFinish
  TerminalFinal
  BudgetNeverExtended
  ImplementsContract

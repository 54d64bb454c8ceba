SPECIFICATION MigratedSpec
CONSTANTS
  MaxAttempts = 2
  MaxTries = 1
  Lease = 0
  Timeout = 2
  RequeueAfter = 0
  QueueMaxAge = 1
  Reapers = {r1}
  Null = Null
PROPERTY MigratedScanEnds

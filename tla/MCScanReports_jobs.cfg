SPECIFICATION Spec
CONSTANTS
  Worker = worker
  AutoJob = auto
  Jobs = {auto, again}
  Findings = {f1}
  MaxRevision = 2
  MaxTries = 2
INVARIANTS TypeOK FormatsAgree CompletedHasReport
  EnrichmentKeepsFindings EnrichmentAtomic
PROPERTIES ImplementsLog JobsEnd
CHECK_DEADLOCK FALSE

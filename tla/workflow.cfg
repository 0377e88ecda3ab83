SPECIFICATION MCFairSpec
CONSTANTS
  None = None
  Tasks = {"fetch", "parse", "validate", "store"}
  DependsOn <- Diamond
  MaxRetries <- RetryParse
  Cancelling = TRUE
  Interruptions = FALSE
  Parts = {"workflow", "cluster"}
  Nodes = {t1}
  Multiplicity = 1
  Cluster = {h1, h2}
  Joining = {}
  MaxFailures = 2
  MaxOutages = 1
  MaxSends = 2
CHECK_DEADLOCK FALSE
INVARIANTS
  GivenUpForCause
  RunsToCompletion
PROPERTIES
  RunReturns
  HubsRecover

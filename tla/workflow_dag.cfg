SPECIFICATION MCSpec
CONSTANTS
  None = None
  Tasks = {"fetch", "parse", "validate", "store"}
  DependsOn <- Diamond
  MaxRetries <- RetryParse
  Cancelling = FALSE
  Interruptions = TRUE
  Parts = {"workflow", "order", "cluster"}
  Nodes = {t1, t2, t3}
  Multiplicity = 2
  Cluster = {h1, h2}
  Joining = {j1}
  MaxFailures = 2
  MaxOutages = 1
  MaxSends = 1
CHECK_DEADLOCK FALSE
INVARIANTS
  DependenciesFirst
  OrdersOrRaises
  HandledOncePerHub
PROPERTIES
  ImplementsDagRun

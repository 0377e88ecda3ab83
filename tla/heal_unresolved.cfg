SPECIFICATION ClusterSpec
CONSTANTS
  Cluster = {h1, h2}
  Joining = {j1}
  MaxFailures = 2
  MaxOutages = 1
  MaxSends = 1
INVARIANT HealResolves
CHECK_DEADLOCK FALSE

SPECIFICATION HubFairSpec
CONSTANTS
  None = None
  k1 = k1
  PyHubs = {py, py2}
  TsHubs = {}
  Peers <- AllPeers
  Agents = {alice}
  Keys = {k1}
  Challenges = {c1}
  MaxPending = 1
  NonceTTL = 1
  DeleteWindow = 1
  Horizon = 1
  Deletes <- DatedDeletes
  MaxProofs = 1
  Strays = {}
CHECK_DEADLOCK FALSE
PROPERTY ReachesPeers

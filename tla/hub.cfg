SPECIFICATION HubSpec
CONSTANTS
  None = None
  k1 = k1
  PyHubs = {py}
  TsHubs = {ts}
  Peers <- AllPeers
  Agents = {alice}
  Keys = {k1, k2}
  Challenges = {c1, c2}
  MaxPending = 1
  NonceTTL = 0
  DeleteWindow = 0
  Horizon = 1
  Deletes <- DatedDeletes
  MaxProofs = 1
  Strays <- StrayCards
CHECK_DEADLOCK FALSE
SYMMETRY HubSymmetry
INVARIANTS
  ChallengeServesOnce
  EntriesProven
PROPERTIES
  OwnEntriesKept

SPECIFICATION MCSpec
CONSTANTS
  Keys = {k1, k2, k3}
  MaxKeys = 2
  TTL = 3
  Lag = 1
  Horizon = 6
  MaxAccepts = 3
  Burst = 2
  Rate = 2
  Part = 3
  MaxTime = 9
  MaxAdmits = 8
  s1 = s1
  s2 = s2
  p1 = p1
  p2 = p2
  Subs = {s1, s2}
  Publishers = {p1, p2}
  Sources <- OneFiltered
  ReplaySize = 2
  MaxSize = 2
  MaxEvents = 4
  Connections = {c1, c2, c3}
  MaxConnections = 1
  MaxSent = 3
  PluginNames = {q1, q2, q3}
  MaxInstalls = 4
  MaxDispatches = 1
  TaskIds = {"t1", "t2"}
  NoTask = "-"
  MaxHops = 3
  BridgeDids = {"d1", "d2"}
  Fresh = "fresh"
  Terms = {"t1", "t2"}
  MaxStamp = 1
  Contents = {"c1", "c2"}
  Links <- SomeLinks
  MaxRecords = 2
  MaxProcesses = 2
  MaxDamage = 1
SYMMETRY KeySymmetry
CHECK_DEADLOCK FALSE
INVARIANTS
  AcceptedOnceInWindow
  RateBounded
  OldestLostAndCounted
  PlacesBounded
  StreamReadInOrder
  ChainsKeepMeaning
  AnswersAreRecognised
  VerifiesAsSigned
  VerifiedIsHistory
PROPERTIES
  ImplementsFeed
  NobodySkipped

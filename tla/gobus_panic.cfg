SPECIFICATION GoSpec
CONSTANTS
  p1 = p1
  p2 = p2
  s1 = s1
  s2 = s2
  None = None
  Subs = {s1}
  Publishers = {p1, p2}
  Closers = {c1}
  Sweepers = {}
  Sources <- OneFiltered
  ReplaySize = 1
  Capacity = 1
  MaxEvents <- TwoAndOne
CHECK_DEADLOCK FALSE
INVARIANT PublishSurvivesClose

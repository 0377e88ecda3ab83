SPECIFICATION MCSpec
CONSTANTS
  LastTick = 10
  PublicKeys = {ka, kb}
  Malformed = Malformed
  NotReplaced = NotReplaced
  MaxAge = 3
  Grace = 1
  Ages = {1, 5}
  MaxRegistrations = 3
  Issuers = {"i1", "i2"}
  IssuerKeys = {x1, x2}
  Untrusted = ""
  Attestations = {"search", "code"}
  Lifetimes = {1}
  MaxIssued = 2
  MaxEdits = 1
  Agents = {"a1", "a2"}
  Capabilities = {"c1", "c2"}
  Anything = "*"
  Offers <- MCOffers
  Ttls = {0, 1}
  TokenIds = {"t1", "t2"}
  NoIdentity = NoIdentity
  Passphrases = {"p"}
  NoPassphrase = ""
  MaxFresh = 2
  MaxProofs = 3
  Hubs = {"g1", "g2"}
  Dids = {"d1", "d2"}
  Unparsable = {}
  Pulls = {p1, p2}
  Limit = 1
  MaxVersion = 2
  Beating = {b1}
  Interval = 2
  PostTimeout = 1
  Timeout = 8
  MaxLost = 1
  Names = {"d1", "d2", "d3"}
  Readers = {reader}
  CacheTtl = 1
  MaxEntries = 2
  FillTime = 1
  MaxWrites = 3
  Urls <- MCUrls
  ManualUrl <- MCManualUrl
  Callers = {c1, c2}
  DnsTtl = 1
  ZoneTtl = 1
  FetchTime = 1
  MaxPublish = 2
  Requests = {r1, r2}
  PerMinute = 1
  PerHour = 1
  Minute = 2
  Hour = 4
CHECK_DEADLOCK FALSE
INVARIANTS
  RotationLeavesNoGap
  AcceptsAsIssued
  AnswersAsGranted
  LineageIntact
  PagesMissNothing
  RunningIsAlive
  StalenessBounded
  LeadsToPublishedHub
  LimitsHold
PROPERTIES
  NoRevival

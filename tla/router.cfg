SPECIFICATION RouterSpec
CONSTANTS
  alice = alice
  bob = bob
  srv = srv
  secret = secret
  aliceKey = aliceKey
  None = None
  NoLimit = NoLimit
  Keys = {i1, i2}
  MaxKeys = 3
  MaxAge = 2
  MaxSkew = 1
  TTL = 5
  Lag = 1
  Horizon = 7
  MaxAccepts = 4
  Timestamps = {2}
  Bodies <- RouterBodies
  StoreTTL = NoLimit
  TokenIds = {"tok"}
  AllowedSchemes <- Schemes
  HmacSecret = secret
  HmacSecrets <- NoFunction
  TrustedKeys <- AliceTrusted
  ExpectedRecipient = None
  Self = srv
  HandledIntents = {"ask"}
  HaveCrypto = TRUE
  RouterSeenMax = 1
  RouterSeenTTL = 4
SYMMETRY IdSymmetry
CHECK_DEADLOCK FALSE
INVARIANTS
  DispatchedOncePerCache

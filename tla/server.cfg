SPECIFICATION ServerSpec
CONSTANTS
  alice = alice
  bob = bob
  srv = srv
  secret = secret
  otherKey = otherKey
  None = None
  NoLimit = NoLimit
  Keys = {i1, i2, i3}
  MaxKeys = 2
  MaxAge = 2
  MaxSkew = 1
  TTL = 5
  Lag = 1
  Horizon = 6
  MaxAccepts = 3
  Timestamps = {1}
  Bodies <- ServerBodies
  StoreTTL = NoLimit
  TokenIds = {"tok"}
  AllowedSchemes <- Schemes
  HmacSecret = secret
  HmacSecrets <- NoFunction
  TrustedKeys <- NoFunction
  ExpectedRecipient = None
  Self = srv
  HandledIntents = {"ask"}
  HaveCrypto = TRUE
SYMMETRY IdSymmetry
CHECK_DEADLOCK FALSE
INVARIANTS
  SignedMessageOnce
  MaxUsesEnforced
  OnlyVerifiedDispatched
PROPERTIES
  ForgetsOnlyUnderLoad

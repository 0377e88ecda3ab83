----------------------------- MODULE MCIdentity -----------------------------
(***************************************************************************)
(* The components that tell who an agent is, what it may do, whether it    *)
(* lives and where it is, side by side.  They share no state but the clock *)
(* they read, so in a behaviour one of them, `part', moves and the others  *)
(* keep their initial states.                                              *)
(***************************************************************************)
EXTENDS KeyTrust, Credentials, Autonomy, Migration, Registry, Heartbeat,
        DiscoveryCache, DnsDiscovery, RedisRateLimiter

VARIABLE part

\* Bound: where the clock stops for each component, 0 for those without one.
Horizon ==
  [keys |-> 5, credentials |-> 2, autonomy |-> 2, migration |-> 0, registry |-> 0, heartbeat |-> 10,
   cache |-> 3, dns |-> 3, rates |-> 4]

MCInit ==
  /\ part \in DOMAIN Horizon
  /\ ClockInit
  /\ KeyTrustInit /\ CredentialsInit /\ AutonomyInit /\ MigrationInit /\ RegistryInit /\ HeartbeatInit
  /\ CacheInit /\ DnsInit /\ RateInit
  /\ failOpen \/ part = "rates"

Keep(p, v) == IF part = p THEN TRUE ELSE UNCHANGED v

MCNext ==
  /\ \/ part = "keys" /\ KeyTrustNext
     \/ part = "credentials" /\ CredentialsNext
     \/ part = "autonomy" /\ AutonomyNext
     \/ part = "migration" /\ MigrationNext /\ UNCHANGED now
     \/ part = "registry" /\ RegistryNext /\ UNCHANGED now
     \/ part = "heartbeat" /\ HeartbeatNext
     \/ part = "cache" /\ CacheNext
     \/ part = "dns" /\ DnsNext
     \/ part = "rates" /\ RateNext
  /\ now' <= Horizon[part]
  /\ Keep("keys", keyVars)
  /\ Keep("credentials", credentialVars)
  /\ Keep("autonomy", autonomyVars)
  /\ Keep("migration", migrationVars)
  /\ Keep("registry", registryVars)
  /\ Keep("heartbeat", heartbeatVars)
  /\ Keep("cache", cacheVars)
  /\ Keep("dns", dnsVars)
  /\ Keep("rates", rateVars)
  /\ UNCHANGED part

mcVars ==
  <<part, now, keyVars, credentialVars, autonomyVars, migrationVars, registryVars, heartbeatVars,
    cacheVars, dnsVars, rateVars>>

MCSpec == MCInit /\ [][MCNext]_mcVars

-----------------------------------------------------------------------------
MCOffers == {{"c1"}, {"*"}}

MCUrls ==
  {[scheme |-> "https", host |-> "a", port |-> 0, path |-> NoPath],
   [scheme |-> "http", host |-> "b", port |-> 8090, path |-> NoPath]}

MCManualUrl == [scheme |-> "http", host |-> "m", port |-> 8090, path |-> NoPath]
=============================================================================

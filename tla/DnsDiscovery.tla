---------------------------- MODULE DnsDiscovery ----------------------------
(***************************************************************************)
(* How a client finds the hub of a domain (dns_discovery.py, discover_hub) *)
(* among what the domain publishes about it: the zone file's SRV and TXT   *)
(* records, the well-known document, the DID document and an agent's       *)
(* description, tried in this order, then the caller's manual URL; and the *)
(* cache of the answers.                                                   *)
(*                                                                         *)
(* The domain is outside: it moves its hub and updates or withdraws the    *)
(* channels one at a time, the zone file's two records together.  A lookup *)
(* that fails, for whatever reason, is taken for a channel without a hub.  *)
(* Resolvers keep the records of the zone for their TTL: a DNS answer may  *)
(* be as old as that.                                                      *)
(***************************************************************************)
EXTENDS Clock, FiniteSets

CONSTANTS
  Urls,          \* the hub's URLs: [scheme, host, port, path], port 0 for none
  Callers,       \* callers of discover_hub, with the default scheme
  ManualUrl,     \* the manual_url they pass
  DnsTtl,        \* _DNS_CACHE_TTL
  ZoneTtl,       \* how old a DNS answer may be: the TTL of the records, 3600 s
  FetchTime,     \* bound: the time one fetch takes
  MaxPublish     \* bound: changes of the channels

ASSUME DnsAssumption ==
  /\ DnsTtl \in Nat \ {0}
  /\ {ZoneTtl, FetchTime, MaxPublish} \subseteq Nat
  /\ \A u \in Urls \cup {ManualUrl} : u.scheme \in {"http", "https"} /\ u.port \in Nat

VARIABLES
  published,  \* what each channel says of the hub: a URL, EmptyUrl, NoUrl
  takenDown, \* <<channel, URL>> -> when it was last taken down
  changes,    \* changes of the channels so far
  dnsCache,   \* _dns_cache and _dns_cache_ts for the domain
  discovering \* each call: the fetch it awaits, and when that began

dnsVars == <<published, takenDown, changes, dnsCache, discovering>>

NoPath == "none"  \* the empty path

NoUrl == [scheme |-> "none", host |-> "none", port |-> 0, path |-> NoPath]

\* The hub_url of a well-known document that names no hub: the empty string.
EmptyUrl == [scheme |-> "none", host |-> "none", port |-> 0, path |-> "empty"]

Channels == {"dns", "dns-aid", "well-known", "did-web", "anp"}

\* What is published at a time: one zone file, or one document.
Files == {{"dns", "dns-aid"}, {"well-known"}, {"did-web"}, {"anp"}}

Zone == {"dns", "dns-aid"}

NotAsking == [awaits |-> "none", since |-> 0]

\* Mutant: the record of a URL without a port names port 80.
SrvRecord80(u) == [host |-> u.host, port |-> IF u.port = 0 THEN 80 ELSE u.port]

\* The SRV line of generate_zone_file.
SrvRecord(u) == [host |-> u.host, port |-> IF u.port = 0 THEN 443 ELSE u.port]

\* The URL discover_hub makes of it with its default scheme.
UrlOfSrv(r) == [scheme |-> "https", host |-> r.host, port |-> r.port, path |-> NoPath]

(* The URL a client reads from a channel: the TXT record's hub=, the       *)
(* hub_url of the well-known document, the first service of the DID        *)
(* document, "roar-hub", and registeredHub of the description say it       *)
(* as it is.                                                               *)
ReadFrom(channel, u) ==
  IF u # NoUrl /\ channel = "dns" THEN UrlOfSrv(SrvRecord(u)) ELSE u

\* u was what the channel published at t or later.
ShownSince(channel, u, t) ==
  \/ published[channel] = u
  \/ <<channel, u>> \in DOMAIN takenDown /\ takenDown[<<channel, u>>] >= t

\* What a lookup may find: what was there at t or later, or nothing when it fails.
Found(channel, t) ==
  {NoUrl} \cup {ReadFrom(channel, u) : u \in {v \in Urls \cup {EmptyUrl} : ShownSince(channel, v, t)}}

-----------------------------------------------------------------------------
DnsInit ==
  /\ published = [ch \in Channels |-> NoUrl]
  /\ takenDown = [x \in {} |-> 0]
  /\ changes = 0
  /\ dnsCache = [url |-> NoUrl, source |-> "none", at |-> 0]
  /\ discovering = [c \in Callers |-> NotAsking]

Publish(file, u) ==
  LET replaced == {<<ch, published[ch]>> : ch \in file} IN
  /\ changes < MaxPublish
  /\ u = EmptyUrl => file = {"well-known"}
  /\ changes' = changes + 1
  /\ \E ch \in file : published[ch] # u
  /\ published' = [ch \in Channels |-> IF ch \in file THEN u ELSE published[ch]]
  /\ takenDown' = [x \in DOMAIN takenDown \cup replaced |->
                        IF x \in replaced THEN now ELSE takenDown[x]]
  /\ UNCHANGED <<dnsCache, discovering>>

\* _cache_get finds an answer.
CacheAnswers == dnsCache.url # NoUrl /\ now - dnsCache.at < DnsTtl

\* _cache_put, and the call returns its result.
Return(c, url, source) ==
  /\ dnsCache' = [url |-> url, source |-> source, at |-> now]
  /\ discovering' = [discovering EXCEPT ![c] = NotAsking]

Await(c, strategy) ==
  /\ discovering' = [discovering EXCEPT ![c] = [awaits |-> strategy, since |-> now]]
  /\ UNCHANGED dnsCache

\* The answer is the cached one, and nothing changes.
CacheHit(c) ==
  /\ discovering[c] = NotAsking
  /\ CacheAnswers
  /\ UNCHANGED dnsVars

\* Nothing in the cache: the DNS lookups block, then the first fetch is awaited.
Discover(c) ==
  /\ discovering[c] = NotAsking
  /\ ~CacheAnswers
  /\ \E srv \in Found("dns", now - ZoneTtl), txt \in Found("dns-aid", now - ZoneTtl) :
       \/ srv # NoUrl /\ Return(c, srv, "dns")
       \/ srv = NoUrl /\ txt # NoUrl /\ Return(c, txt, "dns-aid")
       \/ /\ srv = NoUrl /\ txt = NoUrl
          /\ Await(c, "well-known")
  /\ UNCHANGED <<published, takenDown, changes>>

\* fetch_well_known: a document that names no hub is an answer, and is cached.
WellKnownAnswers(c) ==
  /\ discovering[c].awaits = "well-known"
  /\ \E u \in Found("well-known", discovering[c].since) :
       IF u # NoUrl THEN Return(c, u, "well-known") ELSE Await(c, "did-web")
  /\ UNCHANGED <<published, takenDown, changes>>

DidWebAnswers(c) ==
  /\ discovering[c].awaits = "did-web"
  /\ \E u \in Found("did-web", discovering[c].since) :
       IF u # NoUrl THEN Return(c, u, "did-web") ELSE Await(c, "anp")
  /\ UNCHANGED <<published, takenDown, changes>>

\* Nothing anywhere: the manual URL, which is cached like the others, or None.
AnpAnswers(c) ==
  /\ discovering[c].awaits = "anp"
  /\ \E u \in Found("anp", discovering[c].since) :
       \/ u # NoUrl /\ Return(c, u, "anp")
       \/ u = NoUrl /\ Return(c, ManualUrl, "manual")
       \/ /\ u = NoUrl
          /\ discovering' = [discovering EXCEPT ![c] = NotAsking]
          /\ UNCHANGED dnsCache
  /\ UNCHANGED <<published, takenDown, changes>>

DnsNext ==
  \/ /\ \A c \in Callers : discovering[c] # NotAsking => now < discovering[c].since + FetchTime
     /\ Tick /\ UNCHANGED dnsVars
  \/ /\ UNCHANGED now
     /\ \/ \E file \in Files, u \in Urls \cup {NoUrl, EmptyUrl} : Publish(file, u)
        \/ \E c \in Callers :
             \/ CacheHit(c) \/ Discover(c)
             \/ WellKnownAnswers(c) \/ DidWebAnswers(c) \/ AnpAnswers(c)

DnsSpec == ClockInit /\ DnsInit /\ [][DnsNext]_<<now, dnsVars>>

-----------------------------------------------------------------------------
Port(u) == IF u.port # 0 THEN u.port ELSE IF u.scheme = "https" THEN 443 ELSE 80

\* Where requests to a URL go.
HostOf(u) == <<u.scheme, u.host, Port(u)>>

\* URLs whose SRV record can say all there is to say.
IsPlain(u) == u.scheme = "https" /\ u.path = NoPath

\* How old an answer of a channel may be when it is cached.
AgeOf(channel) == IF channel \in Zone THEN ZoneTtl ELSE FetchTime

(* Whatever strategy finds it, the hub a client is given is one the domain *)
(* has published of late, or none when the well-known document named none. *)
(* The strategies lead to the same origin, for a hub whose URL is https    *)
(* and has no path (SRV records carry neither); and a hub that has moved   *)
(* is given out for the cache's TTL and, before that, the time of one      *)
(* fetch or the TTL of the zone, no longer, also when a slow call replaces *)
(* what a later one has found.                                             *)
LeadsToPublishedHub ==
  CacheAnswers /\ dnsCache.source # "manual" =>
    \E u \in Urls \cup {EmptyUrl} :
      /\ ShownSince(dnsCache.source, u, now - DnsTtl - AgeOf(dnsCache.source) + 1)
      /\ dnsCache.url = ReadFrom(dnsCache.source, u)
      /\ IsPlain(u) => HostOf(dnsCache.url) = HostOf(u)
=============================================================================

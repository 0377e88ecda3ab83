--------------------------- MODULE DiscoveryCache ---------------------------
(***************************************************************************)
(* Looking agents up: the persistent directory (sqlite_directory.py,       *)
(* SQLiteAgentDirectory), the TTL and LRU cache that clients keep before   *)
(* it (discovery_cache.py), used as its module's documentation shows: get, *)
(* and on a miss the directory's lookup, then put.                         *)
(*                                                                         *)
(* An entry is a version, counted over the directory's registrations, 0    *)
(* for none.  A lookup and its put are two steps, of clients that share    *)
(* the cache; the directory may change in between.                         *)
(***************************************************************************)
EXTENDS Clock, SequencesExt

CONSTANTS
  Names,         \* the DIDs
  Readers,       \* the clients
  CacheTtl,      \* default_ttl
  MaxEntries,    \* max_entries
  FillTime,      \* bound: the time between a lookup and its put
  MaxWrites      \* bound: registrations and removals in the directory

ASSUME CacheAssumption ==
  /\ {CacheTtl, MaxEntries} \subseteq Nat \ {0}
  /\ {FillTime, MaxWrites} \subseteq Nat

VARIABLES
  stored,     \* the committed rows: DID -> version
  unwritten,  \* the statement executed and not committed, or None
  writes,     \* the versions so far
  replacedAt, \* version -> the time from which it was not in the directory
  kept,       \* _cache: DID -> version and cached_at
  order,      \* the order of _cache: oldest use first
  filling     \* each reader between lookup and put

cacheVars ==
  <<stored, unwritten, writes, replacedAt, kept, order, filling>>

Missing == [version |-> 0, at |-> 0]

NoWrite == [did |-> "none", version |-> 0]

NotFilling == [did |-> "none", version |-> 0, since |-> 0]

\* _CacheEntry.expired
Expired(d) == now - kept[d].at > CacheTtl

Cached == Range(order)

MovedToEnd(s, d) == SelectSeq(s, LAMBDA e : e # d) \o <<d>>

-----------------------------------------------------------------------------
CacheInit ==
  /\ stored = [d \in Names |-> 0]
  /\ unwritten = NoWrite
  /\ writes = 0
  /\ replacedAt = <<>>
  /\ kept = [d \in Names |-> Missing]
  /\ order = <<>>
  /\ filling = [r \in Readers |-> NotFilling]

\* register and unregister execute their statement, and then commit it.
Execute(d, version) ==
  /\ unwritten = NoWrite /\ writes < MaxWrites
  /\ writes' = writes + 1
  /\ unwritten' = [did |-> d, version |-> version]
  /\ UNCHANGED <<stored, replacedAt, kept, order, filling>>

Register(d) == Execute(d, writes + 1)

UnregisterDid(d) == stored[d] # 0 /\ Execute(d, 0)

\* The commit, and the call returns.
Commit ==
  LET d == unwritten.did IN
  /\ unwritten # NoWrite
  /\ replacedAt' = IF stored[d] = 0 THEN replacedAt
                   ELSE [v \in DOMAIN replacedAt \cup {stored[d]} |->
                           IF v = stored[d] THEN now ELSE replacedAt[v]]
  /\ stored' = [stored EXCEPT ![d] = unwritten.version]
  /\ unwritten' = NoWrite
  /\ UNCHANGED <<writes, kept, order, filling>>

\* The process ends: the file keeps the rows, the cache and the calls are gone.
Restart ==
  /\ unwritten' = NoWrite
  /\ kept' = [d \in Names |-> Missing]
  /\ order' = <<>>
  /\ filling' = [r \in Readers |-> NotFilling]
  /\ UNCHANGED <<stored, writes, replacedAt>>

\* Mutant: a hit renews the entry's time.
HitRenews(d) ==
  /\ d \in Cached /\ ~Expired(d)
  /\ order' = MovedToEnd(order, d)
  /\ kept' = [kept EXCEPT ![d].at = now]
  /\ UNCHANGED <<stored, unwritten, writes, replacedAt, filling>>

\* get, a hit.
Hit(d) ==
  /\ d \in Cached /\ ~Expired(d)
  /\ order' = MovedToEnd(order, d)
  /\ UNCHANGED <<stored, unwritten, writes, replacedAt, kept, filling>>

Drop(gone) ==
  /\ order' = SelectSeq(order, LAMBDA d : d \notin gone)
  /\ kept' = [d \in Names |-> IF d \in gone THEN Missing ELSE kept[d]]

(* get, a miss: an expired entry goes.  The reader looks the DID up; an    *)
(* uncommitted statement of its own process is visible to it.              *)
Miss(r, d) ==
  /\ filling[r] = NotFilling
  /\ d \notin Cached \/ Expired(d)
  /\ Drop({d})
  /\ LET found == IF unwritten.did = d THEN unwritten.version ELSE stored[d] IN
       filling' = IF found = 0 THEN filling
                  ELSE [filling EXCEPT ![r] = [did |-> d, version |-> found, since |-> now]]
  /\ UNCHANGED <<stored, unwritten, writes, replacedAt>>

\* put, and the eviction from the front.
Put(r) ==
  LET d == filling[r].did
      entries == MovedToEnd(order, d)
      over == Max({0, Len(entries) - MaxEntries}) IN
  /\ filling[r] # NotFilling
  /\ order' = SubSeq(entries, 1 + over, Len(entries))
  /\ kept' = [e \in Names |->
                IF e = d THEN [version |-> filling[r].version, at |-> now]
                ELSE IF \E i \in 1 .. over : entries[i] = e THEN Missing
                ELSE kept[e]]
  /\ filling' = [filling EXCEPT ![r] = NotFilling]
  /\ UNCHANGED <<stored, unwritten, writes, replacedAt>>

Invalidate(d) ==
  /\ d \in Cached
  /\ Drop({d})
  /\ UNCHANGED <<stored, unwritten, writes, replacedAt, filling>>

Clear ==
  /\ order # <<>>
  /\ Drop(Names)
  /\ UNCHANGED <<stored, unwritten, writes, replacedAt, filling>>

\* search drops what has expired; it moves nothing.
Search ==
  /\ Drop({d \in Cached : Expired(d)})
  /\ UNCHANGED <<stored, unwritten, writes, replacedAt, filling>>

CacheNext ==
  \/ /\ \A r \in Readers : filling[r] # NotFilling => now < filling[r].since + FillTime
     /\ Tick /\ UNCHANGED cacheVars
  \/ /\ UNCHANGED now
     /\ \/ \E d \in Names :
             Register(d) \/ UnregisterDid(d) \/ Hit(d) \/ Invalidate(d)
        \/ \E r \in Readers, d \in Names : Miss(r, d)
        \/ \E r \in Readers : Put(r)
        \/ Commit \/ Restart \/ Clear \/ Search

CacheSpec == ClockInit /\ CacheInit /\ [][CacheNext]_<<now, cacheVars>>

-----------------------------------------------------------------------------
(* A cached answer is out of date by the TTL and the time of one fill at   *)
(* most: the version a get can return was still the directory's that long  *)
(* ago, whatever was registered, removed, looked up, put and invalidated   *)
(* in which order.  (invalidate does not shorten this: a fill under way    *)
(* puts the entry it has read back.)                                       *)
StalenessBounded ==
  \A d \in Names :
    d \in Cached /\ ~Expired(d) /\ kept[d].version \in DOMAIN replacedAt =>
      now - replacedAt[kept[d].version] <= CacheTtl + FillTime
=============================================================================

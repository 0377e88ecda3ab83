# TLA+ models and proofs of the ROAR protocol SDKs

This directory holds TLA+ specifications of the parts of this repository that keep state and decide
something: replay protection and message verification, delegation tokens, the message server and its
router, the event buses of Python and Go, workflows, discovery hubs, their federation, clusters and
registry, heartbeats and caches, keys, credentials, grants and identity migration, transactions and
the audit log, bridges to other protocols, plugins and rate limits. TLC checks them on small
instances; TLAPS proves every safety property that these instances check for every value of the
constants that the assumptions of the modules allow. What stays with TLC is liveness. Paths below
are relative to `src/`; Python files without a directory are in `python/src/roar_sdk/`.

## 1. The system

ROAR is an agent-to-agent protocol: a signed message envelope, agent cards and discovery hubs,
delegation tokens, event streaming, and SDKs in Python (the most complete), TypeScript, Go and Rust.

### Components

| Component | State it keeps | Operations | What is hard | What makes it correct |
|---|---|---|---|---|
| Deduplication guard (`dedup.py`) | an ordered dict of id to time | `is_duplicate`, `mark_seen`, `clear` | the clock is read twice in a call; order of insertion against order of time; the capacity limit | an id passes once per TTL unless the capacity loop popped it |
| Verification (`verifier.py`, `types.py`) | the guard | `StrictMessageVerifier.verify`, `ROARMessage.verify` | the id is recorded before the signature is checked; two windows | the window of the timestamp closes before the guard forgets |
| Delegation tokens (`delegation.py`, `token_store.py`) | a use counter per token | `get_and_increment`, `verify_token` | counted before verified; other claims under the same id; expiry between reads of the clock | at most `max_uses` dispatches |
| Message server (`server.py`) | guard, token store, handlers | `serve()`'s endpoint, `handle_message` | repeated, late, reordered deliveries; restarts; failures in the middle | nothing unverified reaches a handler, one signed message is handled once |
| Router (`router.py`) | its own replay cache, token bucket, SSE connections | POST, WebSocket, SSE | two caches, two verifications at different times; limits checked early and counted late | once per cache; the rate over every interval; no place leaks |
| Event bus (`streaming.py`, `go/streaming.go`) | subscriptions, queues, replay buffer, counters | publish, subscribe, get, close, close all | full queues, readers suspended while the subscription closes; in Go goroutines and two mutexes | every event is received, queued or counted as dropped, in order |
| Event stream reader (`transports/http.py`) | a text buffer | read a chunk, yield events | chunks that end anywhere | every event once, whole and in order |
| Workflow engine (`workflow.py`) | tasks, statuses, retries, checkpoints | add, cancel, run, checkpoint and restore, order and batches | other coroutines at every await; retries and timeouts; restart; repeated edges | dependencies first, bounded attempts, a final status for all |
| Discovery hub and federation (`hub.py`, `hub_auth.py`, `ts/src/hub.ts`) | directory, pending challenges, peers | register, challenge, delete, push, pull, sync, export | late, repeated, wrong answers; stale snapshots; full store; cards of another's DID | every entry can be traced to a registration or a post, federation replaces nothing |
| Hub cluster (`ha.py`) | health of each hub | health check, send, detect and heal split brains | the monitor and a send count failures of one hub between each other's awaits, also while it is reachable; answers that fail after the request was handled | a hub handles one send once; hubs recover when their failures end |
| Public registry (`registry.py`) | agents and hubs | register hubs, pull, ingest, list | overlapping pulls answered in any order; paging meanwhile | a pager misses nobody |
| Heartbeat (`heartbeat.py`) | last beats; the loop of each agent | beat, reap, start, stop | beats lost, late, recorded long before they are answered, after the agent has left | a running agent is not taken for dead |
| Directory and its cache (`sqlite_directory.py`, `discovery_cache.py`) | entries, a TTL and LRU cache | register, look up, get, put, invalidate | a fill that began before a change; restarts before the commit | staleness is bounded |
| DNS discovery (`dns_discovery.py`, `well_known.py`) | a cache of hub URLs | `discover_hub` over five strategies | the domain moves its hub while calls run; resolvers keep old records; one URL in several encodings; a document without a hub | clients are led to what is or of late was published |
| Key trust (`key_trust.py`) | a list of keys with times | register, rotate, purge | grace periods in a row | rotation leaves no gap; no key revives |
| Migration (`migration.py`) | the identity, its proofs, an export | migrate, rotate, move, export, import | a crash between any two of them and the program's own steps | peers can follow a program that publishes before it takes up |
| Credentials (`verifiable_credentials.py`) | trust chain, revocations | issue, verify, revoke, trust, drop | edited copies; keys that change | accepted just as issued |
| Autonomy (`autonomy.py`) | grants and an index | grant, revoke, ask, clean up | stale ids in the index | answers as if all grants were kept |
| Transactions (`transaction.py`) | a transaction, receipts | sign, commit, verify | calls that raise halfway; fields that change in any status | it verifies as long as it is what was signed last |
| Audit log (`audit.py`) | a hash chain, a file | record, export, load, verify | files with forged lines, chains of two processes | what verifies, up to its last signature, happened |
| Bridges (`event_bridge.py`, `bridge.py`, `adapters/detect.py`) | subscriptions | translate and route | several hops, each of which keeps other fields | ends stay ends; answers are recognised |
| Plugins (`plugin.py`) | a list | register, unregister, hooks | callbacks that change the list under the loop | nobody is skipped |
| Rate limit middleware (`middleware/rate_limiter.py`) | counters in Redis | one request | processes interleave; the clock passes a minute; Redis fails between two commands, or the handler does | limits hold per calendar window when failing closed |

Not modelled: identity formats (`did_*.py`), the field copying of the protocol adapters, the
authentication middleware, tracing, the command line, the browser bundle, and the servers in
TypeScript, Go and Rust. Section 7 says why.

### How they interact

A message arrives at `ROARServer.serve()`'s endpoint or at the router. With a signing secret,
`serve()` asks the strict verifier, which asks the guard and only then checks the signature; without
one it asks the guard alone. `handle_message` then checks the delegation token against the token
store and calls the handler. No await lies between the verification and the call of the handler, so
one delivery is atomic as regards other deliveries, but it reads the clock up to six times. The
router does the same with its own cache and verifies twice. The server publishes events to the bus;
SSE clients subscribe to it through the router, and event bridges pass events on to other protocols.
Agents register on hubs by answering a challenge, hubs copy their entries to one another, the
registry pulls from hubs, and clients find hubs by DNS and agents by the directory, through caches.
The workflow engine uses whatever `send_fn` it is given. Keys, credentials, grants and audit are
libraries that the application calls.

## 2. Modules

```
IdempotencyGuard                      EventFeed (abstract)       DagRun (abstract)
   |                                    |          |                |
StrictVerifier  TokenStore            EventBus  GoEventBus       Workflow
   |             |                      |          |                |
ROARServer ------+                      |      MCGoEventBus     MCWorkflow: Workflow,
   |        \                           |                       ExecutionOrder, HubCluster
RoarRouter  MCROARServer             MCEdge: IdempotencyGuard, TokenBucket, EventBus,
   |                                    SseStream, SseReader, PluginManager, EventBridge,
MCRoarRouter                            BridgeRouter, Transaction, AuditLog
                                     MCIdentity, on Clock: KeyTrust, Credentials, Autonomy,
Hub - MCHub                             Migration, Registry, Heartbeat, DiscoveryCache,
                                        DnsDiscovery, RedisRateLimiter

Proofs: ROARServerProofs   guard, server, router
        StreamProofs       EventBus, SseReader        GoStreamProofs   GoEventBus
        EdgeProofs         rate limits, SseStream, bridges, Transaction, AuditLog, plugins
        IdentityProofs     the components of MCIdentity (without RedisRateLimiter), HubCluster
        WorkflowProofs     Workflow, ExecutionOrder   HubProofs        Hub
        Subsequence        what filtering a sequence keeps (used by both buses)
```

`PROJECT.json` maps each definition to its lines. In every module a definition that a comment calls
`Mutant:` is a plausible mistake in the definition that follows it. No specification uses it:
putting it in place of the real one must make the property it belongs to fail, which shows that the
property can see that code.

`MCEdge`, `MCIdentity` and `MCWorkflow` put components that share no state next to each other: a
variable `part`, fixed in the initial state, names the one that moves, and the others keep an
initial state. The states of such a run are the sum, not the product, of the components' states, and
each property is checked on its own component. Where the components share the clock, `Horizon` gives
each its own end of time.

### Messages

**IdempotencyGuard** is `dedup.py`. `seen` is the ordered dict as a sequence of `[key, ts]`, the
front first; `IsDuplicate` evicts the expired prefix at one time, looks the key up at a second time,
records it and pops from the front down to `max_keys`, as the code does. `mark_seen` overwrites
without moving. `accepted` and `forgotten` are history variables.

**StrictVerifier** is the order of checks in `verifier.py` and the verdict of `types.py`'s
`ROARMessage.verify`. A signature is abstracted to the key under which it verifies. **TokenStore**
is `get_and_increment` of both stores; with `StoreTTL` a number it is Redis, whose counter expires
and survives restarts, with `NoLimit` the in-memory one. **ROARServer** composes them:
`ReceiveMessage` is the endpoint with `handle_message`, for any message of `Messages` at any time,
so that lost, late, repeated and reordered deliveries are all there; `Restart` is a new process,
perhaps with another configuration. **RoarRouter** extends it with POST, WebSocket, the router's
cache and the second verification; the strict verifier is the caller's, with a guard or without one,
and any TTL. **TokenBucket** is the router's rate limiter, counted in parts of a token in place of
floating point. **RedisRateLimiter** is the middleware: each request is a process with a program
counter. It reads the clock twice, once for the minute and once for the hour, and its two
transactions with Redis interleave with those of others; each may fail with none, one or both of
`INCR` and `EXPIRE` executed, and the keys expire by themselves.

### Events

**EventFeed** is what a bus promises: a subscriber receives only matching events, none published
after its subscription ended, no event twice, and those of one publisher in order; events may be
lost. **EventBus** (`streaming.py`) and **GoEventBus** (`go/streaming.go`) implement it. In the
Python bus `publish`, `subscribe` and `close` contain no await and are one step; a reader suspended
in `get()` is in `waiting`, and is resumed with an event or a timeout. In the Go bus each goroutine
has a program counter, and acquiring a mutex, looking at `IsClosed`, sending on a channel, draining
it and closing it are steps of their own. **SseStream** is the endpoint's limit on connections and
the life of its generators; **SseReader** is the client that cuts the text back into events, with a
text of half lines and line ends that arrives in chunks cut anywhere. **EventBridge** translates
events along a chain of protocols, **BridgeRouter** detects a request's protocol by its fields and
answers it. **PluginManager** runs hooks over the live list, by position, while the callbacks
register and unregister.

### Workflows

**DagRun** is what running a workflow promises, and **Workflow** (`workflow.py`) implements it. Each
stretch between two awaits is one action. At every await other coroutines may add and cancel tasks
or take a checkpoint, `run()` may be cancelled and the process restarted from the checkpoint.
**ExecutionOrder** is the pair of graph algorithms, `_check_cycles` and `get_execution_order`, step
by step.

### Discovery

**Hub** is the Python hub with its challenge store and the TypeScript hub as a peer. Handlers are
one step (nothing is awaited after the body was read); push and pull await every peer, so their
snapshots are variables and everything else may happen in between. The peers of a push are visited
in any order; the code visits them in the order of the list. An agent card is the DID and the key it
states. Whoever registers it proves to hold the key that his request names, and the code compares
neither this key nor the request's DID with the card's; so any card may be registered by anybody,
and `registered` records which challenge brought it. A delete proof is `[did, key, at]`, with any
time its signer likes. `Strays` are entries that strangers post to a TypeScript hub.

**HubCluster** is the client of several hubs. A request, its handling by the hub and the end of the
request are separate steps; a request may fail whether or not the hub was reachable and handled it.
Health checks, outages, and the agents' own registrations and deletes at the hubs come in between;
which hub `_pick_hub` takes is free. `HealPair` is one request of `heal_split_brain` with what
`receive_sync` of `hub.py` does with it. **Registry** pulls from hubs, whose pages are answered in
any order, while a client pages through the result. **Heartbeat** joins the client's loop and the
hub's tracker: a post is recorded and then answered, or lost, or given up by the client and still
arrives, even after the agent has left. **DiscoveryCache** is the SQLite directory with the cache
before it; a lookup and its `put` are two steps. **DnsDiscovery** is `discover_hub` next to a domain
that publishes its hub in five places; each strategy has its encoding of the URL, DNS answers may be
as old as the zone's TTL, and a well-known document may name no hub, which is an answer too.

### Identity

**KeyTrust** is the list of keys of one DID, rotation as its two halves, mark and register, of which
the second may refuse. **Migration** is the migrator, an exported file and crashes. The migrator
only returns a new identity and its proof; taking the one up and publishing the other are steps of
the agent's program, which is not in the repository: the model's program publishes a proof before it
takes up the identity, and may crash between the two, or do neither. A proof carries the DIDs and no
key. **Credentials** pairs issuers, verifier and copies that differ from what was issued in one
field. **Autonomy** keeps grants and the index by grantee as two structures, as the code does, and
compares the answers with the history of grants. **Transaction** has every call that can raise end
in the state it had reached, and a party that sets fields in any status. **AuditLog** is processes
that record, a file whose lines are lost, exchanged, or altered in any field (content, links, hash,
signature, where the key's signatures can only be copied from where it made them), and a reader that
verifies links, hashes and signatures.

## 3. What is checked

Every run finishes within five minutes with two workers. Safety is checked on every reachable state
of the instance.

| Run | Instance | Question |
|---|---|---|
| `edge` | guard: 3 interchangeable keys, 2 places, TTL 3, time to 6; rate limiter: burst 2, 2/3 of a token per unit, time to 9; bus: 2 publishers with 4 events together, 2 subscribers, one filtered, queues and replay of 2; 3 SSE connections for 1 place; 3 events in chunks; 3 plugins, 4 registrations; 3 hops between bridges; 2 terms and 2 times of a transaction, set, signed and committed in any order; 2 audit records of each of 2 processes, one damage to any field with every hash of up to two contents | Does a key pass once per TTL although `mark_seen` disturbs the order that eviction relies on (`AcceptedOnceInWindow`)? Is the rate kept over every interval (`RateBounded`)? Do queue and counters account for every event, and is what is lost the oldest (`OldestLostAndCounted`, `ImplementsFeed`)? Does no SSE place leak (`PlacesBounded`), is the stream read whole (`StreamReadInOrder`), is no plugin skipped (`NobodySkipped`), do chains of bridges keep beginnings, ends and tasks (`ChainsKeepMeaning`) and recognise each other's answers (`AnswersAreRecognised`), does a transaction verify exactly as long as it is what was signed (`VerifiesAsSigned`), and does a log that verifies tell what happened up to its last signature (`VerifiedIsHistory`)? |
| `identity` | 2 keys with ages 1 and 5, 3 registrations, grace 1, time to 5; 2 issuers with 2 keys, 2 credentials, one edit; 2 grants between 2 agents; migrations with 3 proofs and crashes; 2 hubs, 2 overlapping pulls, pages of 1; one agent with interval 2, post timeout 1, timeout 8 and one loss in a row, time to 10; 3 directory names, 2 cache places, 3 writes; a hub that moves, or names no hub, twice, with a zone TTL of 1; 2 requests at limits of 1, a minute of 2 ticks and an hour of 4, failing open and closed | `RotationLeavesNoGap`, `NoRevival`, `AcceptsAsIssued`, `AnswersAsGranted`, `LineageIntact`, `PagesMissNothing`, `RunningIsAlive`, `StalenessBounded`, `LeadsToPublishedHub`, `LimitsHold`, each described in its module |
| `server` | 3 ids, 2 places in the guard, window 2+1, TTL 5, six kinds of messages: plain, without a handler, under another key, with a good token and with copies of it that were altered, expired or belong to somebody else; with and without a secret; restarts | `SignedMessageOnce`, `MaxUsesEnforced`, `OnlyVerifiedDispatched`, and `ForgetsOnlyUnderLoad`: only ids that are all in their window push out another |
| `router` | 2 ids, HMAC, Ed25519 and a wrong key, cache limit 1, time to 7; without a strict verifier, with one that has a guard, and with one that has none | `DispatchedOncePerCache`: POST and WebSocket together deliver a message once per replay cache in front of them, although the cache forgets; of a strict verifier without a guard nothing is promised |
| `gobus` | 2 publishers (2 and 1 events), one channel of 1, one goroutine that closes it, one that closes all; the subscription listens to all (the theorem is about any filter) | the accounts and the feed with goroutines; calls return unless Close has met CloseAll |
| `workflow` | a diamond of four tasks, one tried twice, tasks added and cancelled at any time; a cluster of two hubs, two failures until a hub is given up, one outage, two sends | reasons for giving up, a final status for all, every run returns (`GivenUpForCause`, `RunsToCompletion`, `RunReturns`); a hub whose requests stop failing is healthy again (`HubsRecover`) |
| `workflow_dag` | the diamond with checkpoints, interruptions and restarts, without `cancel_task`; all graphs of three tasks with repeated edges, every set of unfinished tasks; the cluster with one agent that registers, one send | dependencies first, `ImplementsDagRun`; Kahn's algorithm and the batches against definitions by sets (`OrdersOrRaises`); one send is handled once per hub (`HandledOncePerHub`) |
| `hub` | a Python and a TypeScript hub, one DID with 2 keys, 2 challenges, 1 pending at most, one delete proof, dated now or ahead, and one stray card | `ChallengeServesOnce`, `EntriesProven`, `OwnEntriesKept` |
| `gobus_panic`, `hub_unreached`, `heal_unresolved`, `receipt_unsigned` | small instances of `GoEventBus`, `Hub`, `HubCluster`, `Transaction` | findings, see section 6 |

### Bounds and why they are enough

Constants named `Max...` and the horizons `Horizon`, `LastTick` and `MaxTime` bound clocks,
histories, faults and external events; they are guards of the actions that would go beyond, and no
property mentions them, except where a promise depends on a number of faults (`MaxLost` in
`RunningIsAlive`) or the bound is one of the code (`MaxConnections`). The horizons exceed the
longest window of the instance: the guard's TTL passes, a message can be sent again to the server
and the router after their caches have let go of it, a rotated key expires and is purged, an agent
is reaped and beats again, a cache entry expires and is filled again. Capacities are one or two, so
that full and overfull happen after a few steps, and there is always one more key, event, connection
or entry than fits. The proportions of the code are kept: the guard's TTL (600 s) is longer than the
verifier's window (300 s + 30 s), the router's 600 s exactly twice 300 s, the tracker's 300 s longer
than the losses times interval and post timeout (60 s and 5 s). `CHECK_DEADLOCK FALSE` appears where
the instance stops at such a bound. An altered audit line takes its links and hashes from `Links`,
all contents of up to two entries, so that the right hash of an altered entry is among them.
`Deletes` and `Strays` use one of the two keys, which is enough for somebody's key to be the listed
one or not. Symmetry is used only for ids and challenges, which the specifications compare for
equality and nothing else, and not with a liveness property.

### Fairness

- `WorkflowFairness`: the event loop runs what can run, and every send ends, because
  `asyncio.wait_for` raises after `timeout_seconds` (`workflow.py:312`). Nothing is assumed of the
  coroutines that add and cancel.
- `ClusterFairness`: the monitor's loop goes on, and a health check ends in an answer or in its
  timeout. Nothing is assumed of the network, of sends or of registrations: `HubsRecover` speaks of
  hubs for which, from some moment on, no check and no send fails.
- `MCFairSpec` joins the two: fairness is owed by the component that moves.
- `GoFairSpec`: a goroutine that can take its next step takes it in the end; nobody is obliged to
  call Publish, Close or CloseAll.
- `HubFairSpec`: somebody calls push and pull again and again, and a peer that is tried infinitely
  often is reached.

## 4. What is proved

TLAPS checks every leaf (SMT, Zenon, and PTL for the temporal steps). Theorems name the properties
of the runs where they state one; the type invariants of these components and the strengthenings
below appear in proofs only.

**The guard** (`ROARServerProofs`, from `GuardAssumption`: `MaxKeys` is a positive natural number,
the rest are natural numbers): `Spec => []TypeOK` and `Spec => []AcceptedOnceInWindow`, that is for
any number of keys, any capacity, TTL and duration of calls. `AcceptedOnceInWindow` speaks about the
history only and is not inductive; `GuardInv` adds `RemembersWindow`, which ties the history to the
dict: the latest acceptance of a key that was not popped and is within its TTL has an entry in
`seen` that is at least as young. A step may remove an entry only if it is expired or if the
capacity loop pops it, and then the key is in `forgotten`. Lemmas state what removing an element and
dropping a prefix do to a sequence.

**The server** (`ROARServerProofs`, from the assumptions of the modules it is built of): the types,
`HandledOncePerWindow` (one id passes once per window), `SignedMessageOnce`,
`OnlyVerifiedDispatched` and, for the in-memory store, `MaxUsesEnforced`. The invariant `ServerInv`
consists of the guard's invariant, `LogAligned` (the log runs in step with the guard's history,
which carries over what the guard promises), and `LogInWindow` (with a secret, what was logged had
its timestamp in the window at that time). `SignedMessageOnce` then needs no further induction: two
acceptances of one id lie a TTL apart, two verifications of one timestamp at most the width of the
window, and `OutlivesWindow` (`MaxAge + MaxSkew + Lag < TTL`), the premise of the property, excludes
both together. `serve()`'s constants 300, 30 and 600 satisfy it as long as a delivery takes less
than 270 s. For tokens the invariant is extended by `UsesCovered`: the counter is at least the
number of dispatches with the token. `ForgetsOnlyUnderLoad` is an action property; it needs
`SeenInOrder`: without `mark_seen`, which a server never calls, the entries of the dict are in the
order of their times.

**The router** (`ROARServerProofs`, from `RouterAssumption` and `RouterWindowAssumption`: `2 *
MaxAge <= RouterSeenTTL`, with equality in the code): `DispatchedOncePerCache`, for any TTL and with
or without a guard. Its premise `ReplayProtected` holds where there is no strict verifier, or one
whose guard outlives the window; nothing is promised of the others, which the router accepts just as
well (section 6). `RouterInv` bounds the dispatches of an id with a timestamp by what they have used
up (`Spent`): an entry of the guard that is as late as the timestamp, and an entry of the router's
`_seen` or, once that has been purged, the window itself, as the second verification lets nothing
through with this timestamp any more. That `_seen` outlives the window exactly is what makes the
exchange of one for the other possible. Ids that the guard's capacity loop popped are excluded, as
in the property.

**The rate limiter** (`EdgeProofs`, from `BucketAssumption`): `BucketTypeOK`, `RateBounded` and
`RefusalIsFree`. `RateBounded` speaks about pairs of admitted requests. `LimiterInv` adds what the
bucket owes to the history: for each admitted request, what was spent from it on and what the bucket
holds together are at most a full bucket and the refill since then; and what the bucket holds is at
least the refill since the last admission, or a full bucket. The refill of two adjacent intervals
adds up (`RefillAdds`), which is where the code's floating point would need a tolerance that the
model does not have.

**SSE places and the Redis limiter** (`EdgeProofs`): `PlacesBounded`, for any number of connections:
unless admissions overlapped, one request at most is between the check and its place, and then there
is room for it. `LimitsHold`, for any requests, limits and lengths of minute and hour, whichever of
the two commands fails: a counter does not go before the window it is named for is over
(`KeptOver`), since `EXPIRE` sets it to a whole window and without it the key stays; so `INCR` hands
each request that is counted in the window it read a count of its own (`Apart`), no greater than the
counter (`Covered`), and who runs while the limiter fails closed has two counts within the limits
(`Sound`); those who run are then no more than the counts there are, by an injection into `1 ..
PerMinute`.

**The event bus** (`StreamProofs`, from `BusAssumption`, for any publishers, filters, queue and
replay sizes): `OldestLostAndCounted`, `ImplementsFeed` and, as a consequence of the feed alone,
that events of one publisher are received in order (`DeliversInOrder`). `BusInv` says of every queue
that it is in the order of publication, that it has all that matches behind its first event
(`Closed`; only from the subscription on when a replay may not fit the queue), and that received,
queued and dropped events add up to those offered (`Accounted`). The refinement maps what is due to
a subscriber to the queue. Filtering a sequence is defined in `Subsequence` by the places that are
kept, because little can be proved of the recursive `SelectSeq`; its lemmas say what these sequences
contain and in which order.

**The Go event bus** (`GoStreamProofs`, from `GoBusAssumption`, for any number of publishing,
closing and sweeping goroutines; a goroutine that publishes is none of those that close):
`NothingLostUncounted` and `ImplementsFeed`, between any two steps of any of them. `GoInv` adds to
the accounts what is on its way: a publisher in a call carries its last event, its target asks for
that event and is none of those it still has to visit (`PublishersOK`), it may have put the event
into the channel, taken another one out, or neither (`OnTheWay`, `Dropping`); each channel has the
events of a publisher in order and before the one on its way (`ChannelInOrder`). What is due to a
subscriber is what its channel holds and what is on its way there.

**The stream reader** (`StreamProofs`): `StreamReadInOrder`, for any number of events and any
chunks. `ReaderInv` says that buffer and wire together are the text of the events not yielded yet,
half line by half line, wherever the border between the two runs.

**Bridges** (`EdgeProofs`): `AnswersAreRecognised`, with the invariant that the last answer is in
the form of its protocol, and `ChainsKeepMeaning`, which is inductive as it stands: each of the four
translations keeps beginnings, ends and tasks of any event that has kept them.

**Transactions, audit, plugins** (`EdgeProofs`): `VerifiesAsSigned`, for any terms, and fields set,
signed and committed in any order: the signature is always the one that was made last, over what
`agreed` keeps. `VerifiedIsHistory`, for any processes, records and damage: every signature of the
key, wherever it has been copied to, is of a hash that a process recorded (`Vouched`). Nothing like
that holds of the entries, whose fields may be anything; but in a file that verifies each hash has
the contents of all entries up to it (`ChainHasContents`, by a least counterexample), so a signature
of it vouches for all of them. `NobodySkipped`: while nobody is unregistered the list only grows,
and has run up to the position of the dispatch (`RunsTheList`).

**The workflow engine** (`WorkflowProofs`, from `WorkflowAssumption` and `NoneAssumption`, for any
DAG): `WorkflowTypeOK`, `DependenciesFirst`, `AttemptsBounded` and `GivenUpForCause`. The invariant
`WorkflowInv` has three parts. `ControlOK`: coroutines exist only while `gather` runs. `SnapshotOK`
holds of the tasks now and of the tasks in the checkpoint, so that a restart restores something
sound: dependencies were added before their dependents, a failed task used all its attempts, and a
cancelled one was cancelled by somebody or has a dependency that will not complete. `CoroutineOK`
relates a task's coroutine to its status: one that is scheduled has sent nothing and may have been
cancelled meanwhile, one that is sending has sent as often as `attempt` says. Without it
`DependenciesFirst` is not inductive, since a coroutine starts long after `get_ready_tasks` looked
at the dependencies.

`EngineImplementsDagRun` proves that every step of the engine, checkpoint, interruption and restart
included, is a step of `DagRun` or none, while nobody calls `cancel_task` (`~Cancelling`, as in the
run `workflow_dag`). `CompletesUninterrupted` proves `RunsToCompletion` while `run()` is not
cancelled and the process not restarted (`~Interruptions`, as in `workflow`). Both need an invariant
of their own: `Undisturbed`, that a scheduled task is still pending with completed dependencies, and
`Accounted`, that a running task has a coroutine.

**The graph algorithms** (`WorkflowProofs`, from `OrderAssumption`, for any finite set of tasks, any
lists of dependencies and any choice of the queue): `OrdersOrRaises`. In-degrees are numbers of
places in a list (`Degree`), so that taking tasks out of a set subtracts (`DegreeIs`) and repeated
edges count. While `_check_cycles` runs, in-degrees are those without the visited tasks, the queue
is whatever has none left, and no set of tasks each of which names another of the set contains a
visited task; so what is left when the queue is empty is a cycle, or nothing is. While the batches
are made, the same holds of what is not placed yet, and a task of a batch waits for earlier batches
only, and for the one just before it.

**The hubs** (`HubProofs`, from `HubAssumption`, for any number of Python and TypeScript hubs,
peers, DIDs, keys, challenges, stray cards and delete proofs): `HubTypeOK`, `ChallengeServesOnce`,
`EntriesProven` and `OwnEntriesKept`. `HubInv` consists of `ChallengesOK` (a pending challenge was
issued here, for this card, and has served nobody), `PendingBounded`, and `CopiesOK`: not only the
directories but every copy that is under way, in a push, in an answer to a pull or in the hands of
the courier, is `Genuine`, that is all its entries can be traced (`Traced`), to a registration of
their card or to a stray card that was posted to a TypeScript hub. `EntriesProven` alone is not
inductive because a copy taken long ago is merged later. That a copy stays genuine (`GenuineStays`)
rests on challenges being issued once and registrations never being taken back. Without TypeScript
hubs nothing is stray. `OwnEntriesKept` is an action property and follows by going through the
actions, with the invariant that proofs are what somebody signed (`SignedProofs`). What neither
says: that the card's key, or its DID, belongs to whoever registered it.

**Key trust** (`IdentityProofs`, from `KeyTrustAssumption`, for any keys, ages and grace period):
`RotationLeavesNoGap` and `NoRevival`. The first is not inductive. `KeyInv` says of a key on its way
out (`Covered`) that it lasts no longer than the grace period from now, that its successor's entry
outlasts it, and that so does an entry nobody has rotated; that the grace period is no longer than
the age rotation gives the new key is what makes a successor outlast the key it replaces. The list
is a set of numbered entries, so that its first entry exists is a fact about numbers below a bound
(`FirstIsOne`, by well-founded minima). `NoRevival` follows from going through the actions: a
rotation gives a key no more time than it had.

**Credentials, grants, migration** (`IdentityProofs`): `AcceptsAsIssued`, for any issuers, keys,
contents and edits: a copy carries the signature of something issued, and a signature determines
what it is over, so a copy that verifies is the original. `AnswersAsGranted`, for any agents,
capabilities and grants: a token that is there is its grant, revoked if that was withdrawn, and in
the list of its grantee; a grant whose token is gone is over. `LineageIntact`: the agent is what it
has been, in memory, in the file and in what is being written to it, so a crash returns it to an
identity with a lineage; and what the migrator has returned follows, by a proof signed with the key
of before, on something the agent has been, also if a crash or another migration came in between.
The property quantifies over sets closed under such proofs, which is reachability without recursion.

**Where agents are found** (`IdentityProofs`): `StalenessBounded`, for any names, clients, TTL and
fill time: a version is in one row only and does not come back once replaced (`VersionsOnce`), a
fill's version was there when the client looked (`FreshFill`), and what was put was there a fill
before (`FreshEntry`). `LeadsToPublishedHub`, for any hubs, callers and TTLs: what a call awaits is
as old as a fetch at most (`AwaitsInTime`), and what the cache holds was no older than a fetch, or
than the TTL of the zone, when it was put there (`AgeOf`). `PagesMissNothing`, for any agents and
page sizes: since pulls only append or replace in place, a client has seen what is listed before its
offset and nothing behind it (`Paging`).

**Heartbeats** (`IdentityProofs`, from `HeartbeatAssumption`, for any agents, intervals and
timeouts): `RunningIsAlive`, whose premise is the margin: `(MaxLost + 1) * (Interval + PostTimeout)
+ PostTimeout < Timeout`, which the defaults 60, 5 and 300 meet for three losses in a row when a
post lasts 5 s. `OnTime` relates three things that the property does not mention: what the loop is
doing, until when, and how many beats were lost since the last that came through. Each loss costs
one interval and one post (`LossesCost`), the answer to the beat that was recorded may cost another
post, and the sum stays below the timeout as long as losses in a row are bounded; beats that arrive
late only make an agent younger.

**The hub cluster** (`IdentityProofs`, from `ClusterAssumption`, for any finite set of hubs):
`HandledOncePerHub`. The property counts what hubs have done; `TriedFirst` ties it to what the
client knows: the message was handled at tried hubs only, and at the hub that is asked with the pick
that asks it. A hub that comes up again in `_pick_hub` is found in `tried`.

### Model-checked only

- Liveness (`RunReturns`, `CallsReturn`, `HubsRecover`, `ReachesPeers`): the prover does not reason
  about fairness.
- That runs of two components on one clock (`MCEdge`, `MCIdentity`, `MCWorkflow`) behave as their
  components do: the theorems are about the components' own specifications (`BusSpec`, `CacheSpec`,
  ...), whose next-state relations the MC modules use.
- With the Redis store `MaxUsesEnforced` does not hold (section 6); the store is in `TokenStore`,
  but neither run nor theorem uses it.

## 5. Abstractions

- The clock does not go back. The code uses `time.time()`, which may be set back; then none of the
  windows means anything.
- A message is its id, its timestamp and what the checks look at; ids are model values, signatures
  are keys, or pairs of a key and what was signed. Hashes do not collide. Whether resolving a DID
  succeeds is a free choice.
- `signing`, `strict` and `failOpen` are chosen in the initial state: they are settings of the
  process.
- In-memory replay protection is lost with the process, on purpose (`docs/PRIVACY.md:56`): histories
  start anew with `Restart`.
- In `Hub`, at most one push and one pull run per hub at a time; the code does not prevent more.
  `courier` is a federation client outside this repository that holds the shared secret and posts
  what it has read; strangers, who do not, post to TypeScript hubs. That a challenge expires between
  the eviction and the second look is covered by `valid = FALSE`.
- In `Workflow`, a task's payload and result are left out, and so is tracing.
- In `EventBus`, filters are reduced to the publisher, which is one of three lists that are compared
  alike. A replay that does not fit the queue keeps the oldest events, so what
  `OldestLostAndCounted` says of the order of losses begins with the subscription then.
- In `GoEventBus`, a goroutine that publishes does not call Close or CloseAll as well; a program
  that does so in one goroutine has fewer interleavings, not more.
- `DispatchedOncePerCache` leaves out ids that the guard's capacity loop popped: under such load the
  guard forgets, on purpose.
- In `HubCluster`, one send, one repair and any number of health checks run at a time; latencies
  only weight a random choice and are left out. An outage may cost a hub its memory. An agent's
  registration at a hub and its deletion are one step each; `Hub` has their challenges and proofs.
- In `Heartbeat`, a post lasts `PostTimeout` at most; `_timeout` bounds each of its phases
  (connecting, writing, reading), so the constant may stand for several of them. A sleeping loop
  wakes on time. A busy event loop adds to each round and belongs in the margin of `RunningIsAlive`.
- In `DiscoveryCache` and `DnsDiscovery`, a fill or a fetch takes a bounded time (`FillTime`,
  `FetchTime`); the bound is part of the promise.
- In `Registry`, what hubs have is a version of each agent; searches filter the list that is paged.
  Which of two registrations of one DID wins follows the code (the more recent `registered_at`), but
  no property is about it.
- In `EventBridge` and `BridgeRouter`, an event or message is the fields the code branches on.
- In `RedisRateLimiter`, requests are those of one client address; the processes and Redis share one
  clock, and Redis keeps its data.
- In `AuditLog`, a hash stands for the contents that are hashed into it, a signature for the hash
  that was signed; nobody but the processes has the key. Sequence numbers and times are content.
- In `Migration`, one agent program runs; which of the proofs its peers have seen is left open.

## 6. Disagreements between the code and what is said of it

Four are shown by runs:

- `gobus_panic`: `Publish` checks `IsClosed` and sends later without the subscription's mutex
  (`go/streaming.go:211`). A `Close` in between closes the channel, and the send panics.
- `hub_unreached`: `push_to_peers` and `pull_from_peers` (`hub.py:442`) send no Authorization
  header, which a Python hub's federation endpoints demand; between Python hubs nothing is ever
  exchanged.
- `heal_unresolved`: `heal_split_brain` (`ha.py:261`) posts the other hub's URL, without that header
  and without entries; any answer counts as a sync, so a split brain is reported as healed and
  stays. The trace: an agent registers at one of two hubs, the healing begins, both directions are
  synced, and the other hub lacks it.
- `receipt_unsigned`: `verify_receipt` (`transaction.py:218`) says it verifies both signatures and
  looks at one.

Others came up while modelling. The models follow the code; no run is devoted to them:

- `dedup.py:83` says that expired keys are at the front. After `mark_seen` they need not be; they
  then stay longer, which `AcceptedOnceInWindow` shows to be harmless.
- `dedup.py:31` speaks of LRU eviction. Neither a duplicate nor `mark_seen` moves a key: it is first
  in, first out.
- `token_store.py:105`: the Redis counter expires 86400 s after its first use; a token that lives
  longer can be used `max_uses` times again.
- `server.py:321` builds the verifier without `expected_recipient_did`, against
  `spec/04-exchange.md:144`.
- `router.py:246`: with a strict verifier POST and WebSocket keep different caches, so one message
  passes once on each, against `spec/04-exchange.md:146`. `DispatchedOncePerCache` states what is
  kept.
- `router.py:166`, `verifier.py:40`: the router takes any strict verifier, whose guard is None by
  default (`tests/test_conformance_replay.py:123` shows that a replay then passes) or remembers for
  300 s by default (`dedup.py:35`), less than the window of 330 s. With either, POST delivers a
  message again as long as its timestamp is good. `DispatchedOncePerCache` has the guard that
  outlives the window as its premise.
- `router.py:87` speaks of "Max requests per minute"; the bucket begins full and refills, so that
  about twice as many pass in the first minute. `RateBounded` states what is kept.
- `router.py:196` verifies again as HMAC, so Ed25519 messages the strict verifier accepted
  (`router.py:165`) are refused when a secret is set.
- `router.py:132` purges only expired entries: within 600 s the cache is not bounded by `_SEEN_MAX`
  (`router.py:117`).
- `streaming.py:139`: a replay larger than the queue keeps the oldest events; `streaming.py:5` says
  the oldest are dropped.
- `go/streaming.go:257`: `CloseAll` takes the bus's mutex and then the subscriptions', `Close` the
  other way round; together they can wait for each other for good. `CallsReturn` says that this is
  the only such case.
- `workflow.py:358`: a task that was RUNNING when `run()` was cancelled or the checkpoint was taken
  is never ready again and is left RUNNING (`workflow.py:339` promises completion).
- `workflow.py:316`: a task cancelled while its send is under way becomes COMPLETED when it ends,
  although `workflow.py:220` calls CANCELLED terminal.
- `hub.py:365`: entries imported by sync lose their `hub_url`, against `types.py:88`.
- `hub.py:234`, `ts/src/hub.ts:232`: the card of a registration is listed under its own DID, which
  is compared neither with the DID of the challenge nor the card's key with the key that answered
  it: with any key one can list a card for another's DID or replace the card that is there.
  `spec/02-discovery.md:179` says that the challenge "prevents unauthorized registration and ensures
  the registrant controls the claimed Ed25519 key pair". `EntriesProven` says how far an entry can
  be traced, not whose it is.
- `hub.py:279`: a delete proof is verified with the key that is listed, so whoever replaced a card
  can delete it. `hub.py:271` takes the difference of the times without a sign: a proof dated 60 s
  ahead is good for 120 s. Its nonce is not remembered: the same proof deletes a later registration,
  too.
- `ts/src/hub.ts:289`: sync and export of the TypeScript hub ask for no secret, against
  `spec/02-discovery.md:277`; anybody can post entries for DIDs that are not listed there, and pulls
  carry them on to Python hubs.
- `ha.py:150`: `register_agent` posts to `/roar/agents`, which the hubs in Python, TypeScript and
  Rust do not have. The Go hub has it (`go/hub.go:151`) and no federation. The cluster's
  registrations reach nobody who could sync them.
- `ha.py:109`, `ha.py:199`: any exception counts as a failure of the hub, also a slow handler or an
  answer that is not JSON, and so does a status other than 200 of a health check. A hub that is
  reachable can be marked unhealthy again and again; `HubsRecover` speaks of hubs whose requests
  stop failing.
- `dns_discovery.py:686`: a well-known document without `hub_url` ends the search; did:web, the
  agent description and the manual URL are not tried, and the empty URL is cached. The zone's TTL of
  3600 s (`dns_discovery.py:216`, `docs/DNS-DISCOVERY.md:156`) adds to the cache's: a hub that moved
  may be given out for as long as both.
- `migration.py:45`: a proof carries DIDs and no key. After a rotation of a did:roar or did:web,
  which keeps the DID, peers must learn the new key elsewhere. A program that publishes a proof and
  crashes before it exports has led its peers to an identity that nobody holds.
- `audit.py:150` says that any modification breaks the chain and invalidates signatures. Where the
  signatures are stripped the hashes can be computed anew, a tail can be cut off, and unsigned
  entries can be added: all of these verify. `VerifiedIsHistory` says what signatures vouch for.
- `transaction.py:28`: the fields of a transaction may be set in any status. `commit_transaction`
  (`transaction.py:128`) signs whatever terms it finds, whether or not the present signature is of
  them; terms changed after that no longer verify.
- `plugin.py:129`: `on_unload` is said to be called before removal; it is called after.
- `transports/http.py:20` promises `ConnectionError` whenever a request fails; only refused
  connections and error statuses are turned into it, a timeout is not.
- `middleware/rate_limiter.py:193`: the handler for Redis failures also catches what the application
  raises; failing open it calls the application a second time. `LimitsHold` states the bound of two.
- `middleware/rate_limiter.py:4`, `PRODUCTION-HARDENING.md:48`, `THREAT-MODEL.md:284` promise
  sliding windows. The windows are calendar minutes and hours: around the end of one, twice the
  limit passes. And a request is counted under the minute it read; when it is delayed past that
  minute's end, the counter may have expired, and it is counted from one.
- `did_document.py:104` writes keys in multibase base16 (`f`), `did_resolver.py:135` reads base58btc
  (`z`) only.
- `signing.py:116`: the body of a card's signature is said to cover all identity fields; it covers
  the DID and the capabilities.
- `transports/grpc.py:172` passes dictionaries with `bytes` values to `json.dumps`, which raises.
- `rust/src/streaming.rs:53`: `events_dropped` is reported and never updated.

## 7. Not modelled, and the plan

| Part | Why |
|---|---|
| TypeScript server, router, stores | the design of the Python modules that are modelled; a second model would repeat them. Their differences are in the hub (`ts/src/hub.ts`), which is a peer in `Hub` |
| Go server and hub (`go/server.go`, `go/hub.go`) | handlers under one mutex are one step each; the replay cache is the Python guard with another order of checks |
| Rust crate | its server and hub handle one connection at a time; its bus is planned |
| Identity formats (`did_*.py`) | parsing and encoding without state; what resolution returns is a choice in `ROARServer` |
| Protocol adapters (`adapters/*.py`) | copy fields between message formats; what matters to routing is in `BridgeRouter` |
| The rest of `client.py`, `transports/*.py` | one request and one answer, without retries or fallback; on stdio concurrent sends may take each other's answers, of which the code promises nothing |
| Authentication middleware | a stateless check of a header |
| Tracing, command line, ASGI entry point, browser bundle | observation and wiring |

Next, in this order:

1. The Rust bus (`rust/src/streaming.rs`) as a third implementation of `EventFeed`, with its locks.
2. The replay caches of Go and TypeScript as implementations of an abstract "handled at most once",
   with the guard and the router's cache.
3. Discovery end to end: `Hub`, `Registry` and `DiscoveryCache` composed, from a registration to a
   lookup.
4. Proofs: that every implementation of `EventFeed` delivers in order, for the Go bus too; a bound
   on the dispatches when the guard is at capacity; the promises of `HubCluster` beyond one send.

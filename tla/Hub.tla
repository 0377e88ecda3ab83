---------------------------------- MODULE Hub --------------------------------
(***************************************************************************)
(* Discovery hubs that federate: ROARHub (hub.py) with its ChallengeStore  *)
(* (hub_auth.py) and AgentDirectory (types.py), and the TypeScript hub     *)
(* (ts/src/hub.ts) as a peer.                                              *)
(*                                                                         *)
(* Requests and answers may be lost, late or repeated.  Handlers await     *)
(* nothing once they have read the body, so each is one step; a push to    *)
(* the peers and a pull from them await every peer in turn, and the hub    *)
(* moves on meanwhile.                                                     *)
(*                                                                         *)
(* A card is the DID and the public key it states.  Whoever registers it   *)
(* proves to hold the key that the request names next to the card; neither *)
(* this key nor the DID of the request is compared with the card's.        *)
(*                                                                         *)
(* An external federation client that holds the secret (`courier') reads   *)
(* the export of one hub and posts it to another.  The TypeScript hub asks *)
(* for no secret: there anybody posts entries of his own making.           *)
(***************************************************************************)
EXTENDS Integers, FiniteSets

CONSTANTS
  PyHubs, TsHubs,  \* Python and TypeScript hubs
  Peers,           \* _peers of each Python hub
  Agents,          \* DIDs
  Keys,            \* public keys
  Challenges,      \* challenge ids; each is issued once
  MaxPending,      \* MAX_PENDING
  NonceTTL,        \* NONCE_TTL_SECONDS
  DeleteWindow,    \* how far the time of a delete proof may be off
  Horizon,         \* bound: the clock stops here
  Deletes,         \* delete proofs that somebody may sign: [did, key, at]
  MaxProofs,       \* bound: delete proofs signed
  Strays,          \* entries posted to TypeScript hubs, of cards nobody registered
  None

Hubs == PyHubs \cup TsHubs

Cards == [did : Agents, key : Keys]

\* A card listed by a hub: the challenge it was registered with, if any, and hub_url.
Entries == [card : Cards, from : Challenges \cup {None}, home : Hubs \cup {None}]

ASSUME HubAssumption ==
  /\ PyHubs \cap TsHubs = {}
  /\ Peers \in [PyHubs -> SUBSET Hubs]
  /\ MaxPending \in Nat /\ NonceTTL \in Nat /\ DeleteWindow \in Nat
  /\ Horizon \in Nat /\ MaxProofs \in Nat
  /\ Deletes \subseteq [did : Agents, key : Keys, at : Int]
  /\ Strays \subseteq {e \in Entries : e.from = None}
  /\ None \notin Hubs \cup Challenges \cup Entries
  /\ None \notin [card : Cards, hub : Hubs, at : Nat]

VARIABLES
  clock,
  pending,    \* _pending of each hub: set of [id, card, expires]
  directory,  \* _agents of each hub: the entry of each agent, or None
  pushing,    \* a running push_to_peers: [to, entries], or None
  pulling,    \* a running pull_from_peers: [from, answer], or None
  courier,    \* the export in the hands of the external client
  proofs,     \* delete proofs that were signed: [did, key, at]
  issued,     \* history: for each challenge its [card, hub, at], or None
  registered  \* history: completed registrations [id, hub, at]

hubVars == <<clock, pending, directory, pushing, pulling, courier, proofs, issued, registered>>
transfers == <<pushing, pulling, courier>>

Nowhere == [a \in Agents |-> None]

\* What _evict_expired leaves.
Live(h) == {c \in pending[h] : c.expires >= clock}

\* Mutant: an entry that is there is replaced.
MergedOver(mine, theirs) ==
  [a \in Agents |-> IF theirs[a] # None THEN theirs[a] ELSE mine[a]]

\* Only agents that are not in the directory are imported.
Merged(mine, theirs) ==
  [a \in Agents |-> IF mine[a] = None THEN theirs[a] ELSE mine[a]]

\* Entries as receive_sync makes them: directory.register(entry.agent_card).
Reregistered(theirs) ==
  [a \in Agents |-> IF theirs[a] = None THEN None ELSE [theirs[a] EXCEPT !.home = None]]

-----------------------------------------------------------------------------
HubInit ==
  /\ clock = 0
  /\ pending = [h \in Hubs |-> {}]
  /\ directory = [h \in Hubs |-> Nowhere]
  /\ pushing = [h \in PyHubs |-> None]
  /\ pulling = [h \in PyHubs |-> None]
  /\ courier = Nowhere
  /\ proofs = {}
  /\ issued = [c \in Challenges |-> None]
  /\ registered = {}

Full(h) == Cardinality(Live(h)) >= MaxPending

\* POST /roar/agents/register: the challenge, or 503 when the store is full.
Register(h, card) ==
  /\ \/ /\ ~Full(h)
        /\ \E c \in Challenges :
             /\ issued[c] = None
             /\ issued' = [issued EXCEPT ![c] = [card |-> card, hub |-> h, at |-> clock]]
             /\ pending' = [pending EXCEPT ![h] =
                  Live(h) \cup {[id |-> c, card |-> card, expires |-> clock + NonceTTL]}]
     \/ /\ Full(h)
        /\ pending' = [pending EXCEPT ![h] = Live(h)]
        /\ UNCHANGED issued
  /\ UNCHANGED <<clock, directory, transfers, proofs, registered>>

\* Mutant: a challenge that was answered stays.
ConsumeKept(h, c) == pending' = [pending EXCEPT ![h] = Live(h)]

\* consume: the challenge is gone, whatever the signature turns out to be.
Consume(h, c) ==
  pending' = [pending EXCEPT ![h] = {p \in Live(h) : p # c}]

\* directory.register(card): the card's own DID is the index, whoever had it before.
Stored(h, c) ==
  [directory EXCEPT ![h][c.card.did] = [card |-> c.card, from |-> c.id, home |-> h]]

\* Mutant: the card is registered before the signature is verified.
AnsweredEarly(h, c, valid) ==
  /\ directory' = Stored(h, c)
  /\ registered' = IF valid THEN registered \cup {[id |-> c.id, hub |-> h, at |-> clock]}
                            ELSE registered

\* What the answer to challenge c does to the directory.
Answered(h, c, valid) ==
  \/ /\ valid
     /\ directory' = Stored(h, c)
     /\ registered' = registered \cup {[id |-> c.id, hub |-> h, at |-> clock]}
  \/ /\ ~valid
     /\ UNCHANGED <<directory, registered>>

(* POST /roar/agents/challenge naming id.  Valid: the nonce is signed with *)
(* the key that the request named.  Not valid: it is not, the card is      *)
(* refused, or the challenge expired since the eviction.                   *)
CompleteChallenge(h, id, valid) ==
  /\ \/ \E c \in Live(h) :
          /\ c.id = id
          /\ Consume(h, c)
          /\ Answered(h, c, valid)
     \/ /\ \A c \in Live(h) : c.id # id
        /\ pending' = [pending EXCEPT ![h] = Live(h)]
        /\ UNCHANGED <<directory, registered>>
  /\ UNCHANGED <<clock, transfers, proofs, issued>>

\* Somebody signs a delete proof with some key, and dates it as he likes.
SignDelete(p) ==
  /\ Cardinality(proofs) < MaxProofs
  /\ proofs' = proofs \cup {p}
  /\ UNCHANGED <<clock, pending, directory, transfers, issued, registered>>

\* abs(time.time() - timestamp) <= 60
Timely(p) == clock - p.at <= DeleteWindow /\ p.at - clock <= DeleteWindow

(* DELETE /roar/agents/{did}: the proof must be signed with the key of the *)
(* card that is listed.  It may come late or again, also after the card    *)
(* was registered anew; its nonce is not remembered.  The TypeScript hub   *)
(* has no such endpoint.                                                   *)
Unregister(h, p) ==
  /\ h \in PyHubs
  /\ Timely(p)
  /\ directory[h][p.did] # None
  /\ directory[h][p.did].card.key = p.key
  /\ directory' = [directory EXCEPT ![h][p.did] = None]
  /\ UNCHANGED <<clock, pending, transfers, proofs, issued, registered>>

-----------------------------------------------------------------------------
\* push_to_peers takes its snapshot.
PushStart(h) ==
  /\ pushing[h] = None
  /\ Peers[h] # {}
  /\ pushing' = [pushing EXCEPT ![h] = [to |-> Peers[h], entries |-> directory[h]]]
  /\ UNCHANGED <<clock, pending, directory, pulling, courier, proofs, issued, registered>>

\* On to the next peer; the push ends with the last.
PushNext(h, g) ==
  pushing' = [pushing EXCEPT ![h] =
    IF pushing[h].to = {g} THEN None ELSE [pushing[h] EXCEPT !.to = @ \ {g}]]

(* The post reaches peer g.  It carries no Authorization header, which a   *)
(* Python peer answers with 401 or 503.                                    *)
PushArrives(h, g) ==
  /\ pushing[h] # None
  /\ g \in pushing[h].to
  /\ directory' = [directory EXCEPT ![g] =
       IF g \in PyHubs THEN @ ELSE Merged(@, pushing[h].entries)]
  /\ PushNext(h, g)
  /\ UNCHANGED <<clock, pending, pulling, courier, proofs, issued, registered>>

PushLost(h, g) ==
  /\ pushing[h] # None
  /\ g \in pushing[h].to
  /\ PushNext(h, g)
  /\ UNCHANGED <<clock, pending, directory, pulling, courier, proofs, issued, registered>>

\* pull_from_peers begins.
PullStart(h) ==
  /\ pulling[h] = None
  /\ Peers[h] # {}
  /\ pulling' = [pulling EXCEPT ![h] = [from |-> Peers[h], answer |-> None]]
  /\ UNCHANGED <<clock, pending, directory, pushing, courier, proofs, issued, registered>>

\* Peer g answers; a Python hub refuses the request, which has no secret.
PullAnswered(h, g) ==
  /\ pulling[h] # None
  /\ pulling[h].answer = None
  /\ g \in pulling[h].from
  /\ pulling' = [pulling EXCEPT ![h] =
       [from |-> @.from \ {g}, answer |-> IF g \in PyHubs THEN Nowhere ELSE directory[g]]]
  /\ UNCHANGED <<clock, pending, directory, pushing, courier, proofs, issued, registered>>

PullNext(h) ==
  pulling' = [pulling EXCEPT ![h] =
    IF pulling[h].from = {} THEN None ELSE [pulling[h] EXCEPT !.answer = None]]

\* The answer is merged as it is, entry by entry, into the directory of now.
PullImports(h) ==
  /\ pulling[h] # None
  /\ pulling[h].answer # None
  /\ directory' = [directory EXCEPT ![h] = Merged(@, pulling[h].answer)]
  /\ PullNext(h)
  /\ UNCHANGED <<clock, pending, pushing, courier, proofs, issued, registered>>

\* No answer of peer g, or none that can be read: on to the next peer.
PullLost(h, g) ==
  /\ pulling[h] # None
  /\ pulling[h].answer = None
  /\ g \in pulling[h].from
  /\ pulling' = [pulling EXCEPT ![h] =
       IF pulling[h].from = {g} THEN None
         ELSE [pulling[h] EXCEPT !.from = pulling[h].from \ {g}]]
  /\ UNCHANGED <<clock, pending, directory, pushing, courier, proofs, issued, registered>>

\* GET /roar/federation/export, with the secret where it is asked for.
CourierReads(h) ==
  /\ courier' = directory[h]
  /\ UNCHANGED <<clock, pending, directory, pushing, pulling, proofs, issued, registered>>

\* POST /roar/federation/sync, with the secret where it is asked for.
CourierPosts(h) ==
  /\ directory' = [directory EXCEPT ![h] =
       Merged(@, IF h \in PyHubs THEN Reregistered(courier) ELSE courier)]
  /\ UNCHANGED <<clock, pending, transfers, proofs, issued, registered>>

\* The same endpoint of a TypeScript hub, which asks nobody for a secret.
AnyonePosts(h, e) ==
  /\ h \in TsHubs
  /\ directory' = [directory EXCEPT ![h] =
       Merged(@, [a \in Agents |-> IF a = e.card.did THEN e ELSE None])]
  /\ UNCHANGED <<clock, pending, transfers, proofs, issued, registered>>

-----------------------------------------------------------------------------
\* The process restarts: a hub keeps everything in memory.
Restart(h) ==
  /\ pending' = [pending EXCEPT ![h] = {}]
  /\ directory' = [directory EXCEPT ![h] = Nowhere]
  /\ pushing' = [g \in PyHubs |-> IF g = h THEN None ELSE pushing[g]]
  /\ pulling' = [g \in PyHubs |-> IF g = h THEN None ELSE pulling[g]]
  /\ UNCHANGED <<clock, courier, proofs, issued, registered>>

Tick ==
  /\ clock < Horizon
  /\ clock' = clock + 1
  /\ UNCHANGED <<pending, directory, transfers, proofs, issued, registered>>

Registration(h) ==
  \/ \E card \in Cards : Register(h, card)
  \/ \E id \in Challenges, valid \in BOOLEAN : CompleteChallenge(h, id, valid)
  \/ \E p \in proofs : Unregister(h, p)

Federation(h) ==
  \/ PushStart(h)
  \/ \E g \in Hubs :
       PushArrives(h, g) \/ PushLost(h, g) \/ PullAnswered(h, g) \/ PullLost(h, g)
  \/ PullStart(h) \/ PullImports(h)

HubNext ==
  \/ \E h \in Hubs : Registration(h) \/ CourierReads(h) \/ CourierPosts(h) \/ Restart(h)
  \/ \E h \in TsHubs, e \in Strays : AnyonePosts(h, e)
  \/ \E h \in PyHubs : Federation(h)
  \/ \E p \in Deletes : SignDelete(p)
  \/ Tick

HubSpec == HubInit /\ [][HubNext]_hubVars

(* Whoever runs the hubs calls push_to_peers and pull_from_peers again and *)
(* again (nothing in the SDK does), and a peer that is asked often enough  *)
(* is reached.                                                             *)
HubFairSpec ==
  /\ HubSpec
  /\ \A h \in PyHubs :
       /\ WF_hubVars(PushStart(h)) /\ WF_hubVars(PullStart(h)) /\ WF_hubVars(PullImports(h))
       /\ \A g \in Hubs : SF_hubVars(PushArrives(h, g)) /\ SF_hubVars(PullAnswered(h, g))

-----------------------------------------------------------------------------
\* Types; no hub has more than MAX_PENDING challenges open.
HubTypeOK ==
  /\ \A h \in Hubs :
       /\ pending[h] \subseteq [id : Challenges, card : Cards, expires : Nat]
       /\ Cardinality(pending[h]) <= MaxPending
       /\ directory[h] \in [Agents -> Entries \cup {None}]
  /\ courier \in [Agents -> Entries \cup {None}]
  /\ registered \subseteq [id : Challenges, hub : Hubs, at : Nat]

(* A challenge registers a card at most once, at the hub that issued it    *)
(* and before it expires, however often and late the answer is delivered   *)
(* (spec/02-discovery.md, "delete the challenge (preventing replay)").     *)
ChallengeServesOnce ==
  /\ \A r \in registered :
       /\ r.hub = issued[r.id].hub
       /\ r.at <= issued[r.id].at + NonceTTL
  /\ \A r, q \in registered : r.id = q.id => r = q
  /\ \A h \in Hubs : \A c \in pending[h] : \A r \in registered : r.id # c.id

(* Every entry on any hub, wherever it was copied from, is listed under    *)
(* the DID of its card; and the card is one that somebody registered by    *)
(* answering its challenge with the key he had named, at the hub that the  *)
(* entry names, if it names one, and as it was sent.  The one exception is *)
(* what was posted to a TypeScript hub.  That the key he named is the      *)
(* card's, or the DID his, nobody checks.                                  *)
EntriesProven ==
  \A h \in Hubs, a \in Agents :
    directory[h][a] # None =>
      LET e == directory[h][a] IN
      /\ e.card.did = a
      /\ IF e.from = None
           THEN TsHubs # {} /\ \E s \in Strays : s.card = e.card /\ e.home \in {s.home, None}
           ELSE
              /\ issued[e.from].card = e.card
              /\ \E r \in registered : r.id = e.from /\ e.home \in {r.hub, None}

(* What a hub lists for a DID changes only when a challenge is answered at *)
(* this hub, and then it is that challenge's card; and it disappears only  *)
(* by a delete proof signed with the listed key and dated close to now, or *)
(* with the process.  Federation never replaces or removes an entry ("MUST *)
(* NOT overwrite locally-registered agents", spec/02-discovery.md).        *)
OwnEntriesKept ==
  [][\A h \in Hubs, a \in Agents :
       directory[h][a] # None /\ directory'[h][a] # directory[h][a] =>
         \/ \E r \in registered' \ registered :
              /\ r.hub = h
              /\ directory'[h][a] = [card |-> issued[r.id].card, from |-> r.id, home |-> h]
         \/ /\ directory'[h][a] = None
            /\ \E p \in proofs :
                 /\ p.did = a /\ p.key = directory[h][a].card.key
                 /\ clock \in p.at - DeleteWindow .. p.at + DeleteWindow
         \/ Restart(h)]_hubVars

(* An agent that stays registered on a hub is in time listed by each of    *)
(* its peers ("Federates with other hubs by syncing entries (push/pull)",  *)
(* hub.py:7).                                                              *)
ReachesPeers ==
  \A h \in PyHubs, a \in Agents : \A g \in Peers[h] :
    directory[h][a] # None ~> (directory[g][a] # None \/ directory[h][a] = None)
=============================================================================

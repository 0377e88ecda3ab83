------------------------------ MODULE Registry ------------------------------
(***************************************************************************)
(* The public registry (registry.py, PublicRegistry), the hubs it pulls    *)
(* agents from, and clients that page through what it lists.               *)
(*                                                                         *)
(* A version of an agent's entry is its registered_at, 0 when the hub does *)
(* not have the agent.  Versions grow over all hubs: registered_at is the  *)
(* time of the registration, and a federated copy keeps it.  What a hub    *)
(* does in between is external (it is the module Hub): an agent registers, *)
(* again or elsewhere, leaves, or is copied to another hub.                *)
(***************************************************************************)
EXTENDS Integers, FiniteSets, SequencesExt

CONSTANTS
  Hubs,
  Dids,
  Unparsable,   \* entries of these make DiscoveryEntry(**raw) raise
  Pulls,        \* calls of pull_from_hubs
  Limit,        \* the page size
  MaxVersion    \* bound: registrations at the hubs

ASSUME RegistryAssumption ==
  /\ IsFiniteSet(Dids) /\ Unparsable \subseteq Dids
  /\ Limit \in Nat \ {0} /\ MaxVersion \in Nat

VARIABLES
  exports,    \* what each hub would export: DID -> version
  latest,     \* the latest version
  sources,    \* _hubs
  agents,     \* _agents: DID -> version, 0 for none
  listing,    \* the order of _agents, which is that of insertion
  directory,  \* _directory._agents, as the versions
  todo,       \* each pull: the hubs still to ask
  answer,     \* each pull: the export that has been awaited
  walk        \* one client paging: the offset, what was listed at the start, the pages

registryVars ==
  <<exports, latest, sources, agents, listing, directory, todo, answer, walk>>

Nothing == [d \in Dids |-> 0]

Resting == [at |-> 0, goal |-> {}, seen |-> <<>>, open |-> FALSE]

-----------------------------------------------------------------------------
RegistryInit ==
  /\ exports = [h \in Hubs |-> Nothing]
  /\ latest = 0
  /\ sources = {}
  /\ agents = [d \in Dids |-> 0]
  /\ listing = <<>>
  /\ directory = [d \in Dids |-> 0]
  /\ todo = [p \in Pulls |-> {}]
  /\ answer = [p \in Pulls |-> Nothing]
  /\ walk = Resting

AgentRegisters(h, d) ==
  /\ latest < MaxVersion
  /\ latest' = latest + 1
  /\ exports' = [exports EXCEPT ![h][d] = latest']
  /\ UNCHANGED <<sources, agents, listing, directory, todo, answer, walk>>

\* h takes a newer entry over from another hub, registered_at and all.
Federates(h, other, d) ==
  /\ exports[other][d] > exports[h][d]
  /\ exports' = [exports EXCEPT ![h][d] = exports[other][d]]
  /\ UNCHANGED <<latest, sources, agents, listing, directory, todo, answer, walk>>

AgentLeaves(h, d) ==
  /\ exports[h][d] > 0
  /\ exports' = [exports EXCEPT ![h][d] = 0]
  /\ UNCHANGED <<latest, sources, agents, listing, directory, todo, answer, walk>>

RegisterHub(h) ==
  /\ h \notin sources
  /\ sources' = sources \cup {h}
  /\ UNCHANGED <<exports, latest, agents, listing, directory, todo, answer, walk>>

\* pull_from_hubs goes over the hubs there are when it starts.
StartPull(p) ==
  /\ todo[p] = {} /\ answer[p] = Nothing
  /\ sources # {}
  /\ todo' = [todo EXCEPT ![p] = sources]
  /\ UNCHANGED <<exports, latest, sources, agents, listing, directory, answer, walk>>

(* The next hub answers: with its table as it is now, or with nothing that *)
(* can be ingested.  That is an error of the request, or an error object,  *)
(* as of a hub that wants credentials, which has no "entries" and passes   *)
(* for an empty export.                                                    *)
HubAnswers(p) ==
  /\ answer[p] = Nothing
  /\ \E h \in todo[p] :
       /\ \E a \in {exports[h], Nothing} : answer' = [answer EXCEPT ![p] = a]
       /\ todo' = [todo EXCEPT ![p] = @ \ {h}]
  /\ UNCHANGED <<exports, latest, sources, agents, listing, directory, walk>>

\* Which entries of an export _ingest_entry takes over.
Taken(versions, d) == versions[d] > 0 /\ versions[d] >= agents[d]

\* Mutant: an update moves its agent to the end of the listing.
ListedMoved(versions, new) ==
  SelectSeq(listing, LAMBDA d : versions[d] = 0) \o
    SetToSeq(Range(listing) \cap {d \in Dids : versions[d] > 0}) \o new

\* Assigning a key the dict has keeps its place.
Listed(versions, new) == listing \o new

\* The entries one by one; an entry that does not parse is skipped.
Ingest(p) ==
  LET versions == [d \in Dids |-> IF d \in Unparsable THEN 0 ELSE answer[p][d]] IN
  /\ answer[p] # Nothing
  /\ agents' = [d \in Dids |-> IF Taken(versions, d) THEN versions[d] ELSE agents[d]]
  /\ directory' = [d \in Dids |-> IF Taken(versions, d) THEN versions[d] ELSE directory[d]]
  /\ \E new \in SetToSeqs({d \in Dids : versions[d] > 0} \ Range(listing)) :
       listing' = Listed(versions, new)
  /\ answer' = [answer EXCEPT ![p] = Nothing]
  /\ UNCHANGED <<exports, latest, sources, todo, walk>>

\* A client asks for the first page, or for the next one.
Page(offset) == SubSeq(listing, offset + 1, Min({offset + Limit, Len(listing)}))

FirstPage ==
  /\ ~walk.open
  /\ walk' = [at |-> Limit, goal |-> Range(listing), seen |-> Page(0), open |-> TRUE]
  /\ UNCHANGED <<exports, latest, sources, agents, listing, directory, todo, answer>>

NextPage ==
  /\ walk.open
  /\ \/ /\ Page(walk.at) # <<>>
        /\ walk' = [walk EXCEPT !.at = @ + Limit, !.seen = @ \o Page(walk.at)]
     \/ /\ Page(walk.at) = <<>>
        /\ walk' = [walk EXCEPT !.open = FALSE]
  /\ UNCHANGED <<exports, latest, sources, agents, listing, directory, todo, answer>>

RegistryNext ==
  \/ \E h \in Hubs, d \in Dids : AgentRegisters(h, d) \/ AgentLeaves(h, d)
  \/ \E h, other \in Hubs, d \in Dids : Federates(h, other, d)
  \/ \E h \in Hubs : RegisterHub(h)
  \/ \E p \in Pulls : StartPull(p) \/ HubAnswers(p) \/ Ingest(p)
  \/ FirstPage
  \/ NextPage

RegistrySpec == RegistryInit /\ [][RegistryNext]_registryVars

-----------------------------------------------------------------------------

(* Paging is stable while pulls add and update agents: a client that walks *)
(* the unfiltered list page by page sees every agent that was there when   *)
(* it began, and sees none twice.                                          *)
PagesMissNothing ==
  /\ IsInjective(walk.seen)
  /\ ~walk.open => walk.goal \subseteq Range(walk.seen)
=============================================================================

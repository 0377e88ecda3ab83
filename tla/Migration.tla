----------------------------- MODULE Migration ------------------------------
(***************************************************************************)
(* Identity migration (migration.py, IdentityMigrator): an agent changes   *)
(* its DID method, rotates its key, announces a move to another hub, and   *)
(* exports its identity to a file from which it comes back after a crash.  *)
(*                                                                         *)
(* Key pairs and did:roar identifiers are numbered in the order in which   *)
(* they are generated; a did:key names its key; a did:web is made from the *)
(* display name, which no migration changes.  A signature is the key and   *)
(* the body it was made over.                                              *)
(*                                                                         *)
(* The library only returns the new identity and the proof: what becomes   *)
(* of them is up to the agent's program, which is not in the repository.   *)
(* The program here keeps what it has been given as long as it runs,       *)
(* publishes proofs when it likes, and takes up an identity only when the  *)
(* proof that leads to it is published; a crash may come between any two   *)
(* of these steps.  `held' and `proofs' are history: what the agent has    *)
(* been and what it has published.                                         *)
(***************************************************************************)
EXTENDS Integers, FiniteSets

CONSTANTS
  NoIdentity,    \* the process is down, or the file is missing or torn
  Passphrases,   \* non-empty passphrases
  NoPassphrase,         \* the empty one
  MaxFresh,      \* bound: key pairs and did:roar identifiers generated
  MaxProofs      \* bound: different proofs returned or published

ASSUME MigrationAssumption ==
  NoPassphrase \notin Passphrases /\ MaxFresh \in Nat /\ MaxProofs \in Nat

VARIABLES
  identity,   \* [did, key] in memory, the private key with it
  fresh,      \* generated so far
  file,       \* the exported file
  writing,    \* what export_identity is about to write, between open and close
  returned,   \* what the migrator has returned to the program that runs now
  held,
  proofs

migrationVars == <<identity, fresh, file, writing, returned, held, proofs>>

Did(method, n) == [method |-> method, n |-> n, at |-> "home"]
DidKey(k) == Did("key", k)
DidRoar(n) == Did("roar", n)
DidWeb == Did("web", 0)

Origin == [did |-> DidRoar(0), key |-> 0]

Proof(old, new, reason, key) ==
  [old |-> old, new |-> new, reason |-> reason,
   signature |-> [by |-> key, over |-> <<old, new, reason>>]]

VerifyMigration(p, key) == p.signature = [by |-> key, over |-> <<p.old, p.new, p.reason>>]

-----------------------------------------------------------------------------
MigrationInit ==
  /\ identity = Origin
  /\ fresh = 0
  /\ file = NoIdentity
  /\ writing = NoIdentity
  /\ returned = {}
  /\ held = {Origin}
  /\ proofs = {}

Running == identity # NoIdentity /\ writing = NoIdentity

\* A call returns an identity, or none, and a proof.
GivesBack(i, p) ==
  /\ returned' = returned \cup {[identity |-> i, proof |-> p]}
  /\ Cardinality(proofs \cup {r.proof : r \in returned'}) <= MaxProofs
  /\ UNCHANGED <<identity, file, writing, held, proofs>>

\* The key stays; did:roar is a new identifier, the others are determined.
MigrateDidMethod(did) ==
  /\ Running
  /\ \/ did \in {DidKey(identity.key), DidWeb} /\ UNCHANGED fresh
     \/ fresh < MaxFresh /\ did = DidRoar(fresh + 1) /\ fresh' = fresh + 1
  /\ GivesBack([did |-> did, key |-> identity.key],
               Proof(identity.did, did, "did_method_change", identity.key))

\* Mutant: the new key signs, which nobody knows yet.
RotateKeysSelfSigned ==
  LET k == fresh + 1
      did == IF identity.did.method = "key" THEN DidKey(k) ELSE identity.did IN
  /\ Running
  /\ fresh < MaxFresh
  /\ fresh' = k
  /\ GivesBack([did |-> did, key |-> k], Proof(identity.did, did, "key_rotation", k))

\* A did:key changes with its key; any other DID stays.
RotateKeys ==
  LET k == fresh + 1
      did == IF identity.did.method = "key" THEN DidKey(k) ELSE identity.did IN
  /\ Running
  /\ fresh < MaxFresh
  /\ fresh' = k
  /\ GivesBack([did |-> did, key |-> k],
               Proof(identity.did, did, "key_rotation", identity.key))

\* transfer_to_hub: the hub is part of new_did; there is no new identity.
TransferToHub ==
  /\ Running
  /\ GivesBack(NoIdentity,
               Proof(identity.did, [identity.did EXCEPT !.at = "hub"], "hub_transfer", identity.key))
  /\ UNCHANGED fresh

\* The program's own steps.
PublishProof(r) ==
  /\ Running
  /\ r \in returned
  /\ proofs' = proofs \cup {r.proof}
  /\ UNCHANGED <<identity, fresh, file, writing, returned, held>>

TakeUp(r) ==
  /\ Running
  /\ r \in returned /\ r.identity # NoIdentity
  /\ r.proof \in proofs
  /\ identity' = r.identity
  /\ held' = held \cup {r.identity}
  /\ returned' = returned \ {r}
  /\ UNCHANGED <<fresh, file, writing, proofs>>

\* open(path, "w") truncates the last export.
OpenExport(pass) ==
  /\ Running
  /\ writing' = [content |-> identity, passphrase |-> pass]
  /\ file' = NoIdentity
  /\ UNCHANGED <<identity, fresh, returned, held, proofs>>

WriteExport ==
  /\ writing # NoIdentity
  /\ file' = writing
  /\ writing' = NoIdentity
  /\ UNCHANGED <<identity, fresh, returned, held, proofs>>

Crash ==
  /\ identity # NoIdentity
  /\ identity' = NoIdentity
  /\ writing' = NoIdentity
  /\ returned' = {}
  /\ UNCHANGED <<fresh, file, held, proofs>>

\* A plain file ignores the passphrase; the wrong one raises ValueError.
ImportIdentity(pass) ==
  /\ identity = NoIdentity
  /\ file # NoIdentity
  /\ file.passphrase \in {NoPassphrase, pass}
  /\ identity' = file.content
  /\ UNCHANGED <<fresh, file, writing, returned, held, proofs>>

MigrationNext ==
  \/ \E did \in {DidKey(k) : k \in 0 .. fresh} \cup {DidWeb, DidRoar(fresh + 1)} :
       MigrateDidMethod(did)
  \/ RotateKeys
  \/ TransferToHub
  \/ \E r \in returned : PublishProof(r) \/ TakeUp(r)
  \/ \E pass \in Passphrases \cup {NoPassphrase} : OpenExport(pass) \/ ImportIdentity(pass)
  \/ WriteExport
  \/ Crash

MigrationSpec == MigrationInit /\ [][MigrationNext]_migrationVars

-----------------------------------------------------------------------------
\* What p tells a peer that knows i.  A proof carries no key: it is the old
\* one after a change of method, and part of a new did:key; for any other DID
\* that rotates its key, the peer has to learn the new one from elsewhere.
TakesTo(i, p, j) ==
  /\ p.old = i.did /\ p.new = j.did
  /\ VerifyMigration(p, i.key)
  /\ \/ p.reason = "did_method_change" /\ j.key = i.key
     \/ p.reason = "key_rotation" /\ (j.did.method = "key" => j.did = DidKey(j.key))

LeadsTo(i, j) == \E p \in proofs : TakesTo(i, p, j)

(* Whatever the agent has been, a peer that knew its first identity can    *)
(* follow it there: every identity it ever took up is at the end of a      *)
(* chain of published proofs, each of which verify_migration accepts under *)
(* the key of the identity before it, also when a crash between two steps  *)
(* has thrown the agent back to an older export and it has gone on from    *)
(* there.  It takes a program that publishes a proof before it takes up    *)
(* the identity, and a peer that learns the new key of a did:roar or a     *)
(* did:web elsewhere: the proof of such a rotation does not carry it.      *)
LineageIntact ==
  \A known \in SUBSET held :
    /\ Origin \in known
    /\ \A i \in known, j \in held : LeadsTo(i, j) => j \in known
    => known = held
=============================================================================

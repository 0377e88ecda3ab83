------------------------------ MODULE AuditLog ------------------------------
(***************************************************************************)
(* The audit log (audit.py): entries chained by their hashes and signed by *)
(* the process that records them, exported to a file of lines, loaded by a *)
(* reader and verified with the public key.  On the way lines of the file  *)
(* may be lost, exchanged, or altered in any of their fields: the content, *)
(* the links of the chain, recomputed or not, and the signature.           *)
(*                                                                         *)
(* An entry's hash stands for everything that is hashed into it: it is the *)
(* sequence of the contents from the first entry on, and no two differing  *)
(* entries share one.  A signature is the hash that was signed: the key's  *)
(* own, which may be copied from where it was made, or some other's.       *)
(***************************************************************************)
EXTENDS Integers, SequencesExt

CONSTANTS
  Contents,      \* what is recorded of a message: parties, intent, hash, time
  Links,         \* bound: the hashes that an altered line may carry
  MaxRecords,    \* bound: entries of one log
  MaxProcesses,  \* bound: logs with the private key, one after the other
  MaxDamage      \* bound: changes to the file by others

ASSUME AuditAssumption ==
  /\ Links \subseteq Seq(Contents)
  /\ {MaxRecords, MaxProcesses, MaxDamage} \subseteq Nat

VARIABLES
  log,       \* _entries of the process that has the key
  recorded,  \* what each process has recorded: a sequence of contents
  lines,     \* the file
  damage,    \* changes to it so far
  reader     \* _entries of a log loaded from it

auditVars == <<log, recorded, lines, damage, reader>>

\* The hash of an entry, and "genesis".
HashEntry(prev, content) == Append(prev, content)
Genesis == <<>>

\* _sign_entry, a signature that the key has not made, and none.
SignEntry(hash) == [by |-> "key", of |-> hash]
OtherSignature == [by |-> "other", of |-> Genesis]
NoSignature == [by |-> "none", of |-> Genesis]

AuditEntry(prev, content, signature) ==
  [prev |-> prev, content |-> content, hash |-> HashEntry(prev, content), signature |-> signature]

LastHash(entries) == IF entries = <<>> THEN Genesis ELSE Last(entries).hash

\* What a line may be altered to: the key's signatures are those it has made.
Made == UNION {{SignEntry(SubSeq(recorded[p], 1, n)) : n \in 1 .. Len(recorded[p])} :
                 p \in DOMAIN recorded}
Alterations ==
  [prev : Links, content : Contents, hash : Links,
   signature : {NoSignature, OtherSignature} \cup Made]

-----------------------------------------------------------------------------
AuditInit ==
  /\ log = <<>> /\ recorded = <<Genesis>>
  /\ lines = <<>> /\ damage = 0
  /\ reader = <<>>

\* record, with the key.
Record(c) ==
  /\ Len(log) < MaxRecords
  /\ log' = Append(log, AuditEntry(LastHash(log), c, SignEntry(HashEntry(LastHash(log), c))))
  /\ recorded' = [recorded EXCEPT ![Len(recorded)] = Append(@, c)]
  /\ UNCHANGED <<lines, damage, reader>>

(* The process ends and another begins: a new log, since one that is       *)
(* loaded has no key to go on with.                                        *)
RestartLog ==
  /\ Len(recorded) < MaxProcesses
  /\ log' = <<>>
  /\ recorded' = Append(recorded, Genesis)
  /\ UNCHANGED <<lines, damage, reader>>

\* export_jsonl replaces the file; a crash leaves the lines written so far.
ExportJsonl ==
  /\ \E n \in 0 .. Len(log) : lines' = SubSeq(log, 1, n)
  /\ UNCHANGED <<log, recorded, damage, reader>>

Damaged(with) ==
  /\ damage < MaxDamage
  /\ damage' = damage + 1
  /\ lines' = with
  /\ UNCHANGED <<log, recorded, reader>>

LineLost(i) == Damaged(RemoveAt(lines, i))

LinesExchanged(i, j) == Damaged([lines EXCEPT ![i] = lines[j], ![j] = lines[i]])

LineAltered(i, entry) == Damaged([lines EXCEPT ![i] = entry])

\* load_jsonl
LoadJsonl ==
  /\ reader' = lines
  /\ UNCHANGED <<log, recorded, lines, damage>>

\* record on a loaded log, which has no key.
RecordUnsigned(c) ==
  /\ reader # <<>> /\ Len(reader) < MaxRecords
  /\ reader' = Append(reader, AuditEntry(LastHash(reader), c, NoSignature))
  /\ UNCHANGED <<log, recorded, lines, damage>>

(* verify_chain with the public key: the links, the hashes, and whatever   *)
(* carries a signature.                                                    *)
LinksHold(entries) ==
  \A i \in DOMAIN entries :
    /\ entries[i].prev = LastHash(SubSeq(entries, 1, i - 1))
    /\ entries[i].hash = HashEntry(entries[i].prev, entries[i].content)

VerifyChain(entries) ==
  /\ LinksHold(entries)
  /\ \A i \in DOMAIN entries :
       entries[i].signature # NoSignature => entries[i].signature = SignEntry(entries[i].hash)

AuditNext ==
  \/ \E c \in Contents : Record(c) \/ RecordUnsigned(c)
  \/ RestartLog \/ ExportJsonl \/ LoadJsonl
  \/ \E i, j \in DOMAIN lines : i < j /\ LinesExchanged(i, j)
  \/ \E i \in DOMAIN lines : LineLost(i) \/ \E entry \in Alterations : LineAltered(i, entry)

AuditSpec == AuditInit /\ [][AuditNext]_auditVars

-----------------------------------------------------------------------------
(* A log that verifies tells what happened: the entries up to its last     *)
(* signed one are the beginning of what one process recorded, with nothing *)
(* left out, exchanged or altered in between, also where the hashes were   *)
(* computed anew, or signatures copied from entry to entry and from log to *)
(* log.                                                                    *)
VerifiedIsHistory ==
  VerifyChain(reader) =>
    \A i \in DOMAIN reader :
      reader[i].signature # NoSignature =>
        \E p \in DOMAIN recorded :
          IsPrefix([k \in 1 .. i |-> reader[k].content], recorded[p])
=============================================================================

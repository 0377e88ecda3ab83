----------------------------- MODULE EdgeProofs -----------------------------
(***************************************************************************)
(* Proofs about what stands between an agent and its peers: bridged        *)
(* requests and events, transactions, the log of messages, the plugins     *)
(* they pass through, and the limits the routers enforce, for any chains,  *)
(* contents, rates and numbers of requests and connections.                *)
(***************************************************************************)
EXTENDS BridgeRouter, EventBridge, Transaction, AuditLog, PluginManager, TokenBucket, SseStream,
        RedisRateLimiter, SequenceTheorems, FiniteSetTheorems, WellFoundedInduction, TLAPS

(***************************************************************************)
(* Bridged requests                                                        *)
(***************************************************************************)

\* The strengthening: the last answer is the answer of its protocol.
BridgeInv ==
  bridged.protocol \in Protocols => bridged.message = Response(bridged.protocol)

\* Whatever preference is kept, an agent is answered in one of the protocols.
LEMMA FormIsProtocol ==
  ASSUME NEW did
  PROVE  FormOf(did) \in Protocols
BY DEF FormOf, Protocols

\* Each step leaves an answer in the form of its protocol.
THEOREM BridgeInvariance == BridgeSpec => []BridgeInv
<1>1. BridgeInit => BridgeInv
  <2>1. NoAnswer.protocol \notin Protocols
    BY DEF NoAnswer, Protocols
  <2> QED
    BY <2>1 DEF BridgeInit, BridgeInv
<1>2. BridgeInv /\ [BridgeNext]_routerVars => BridgeInv'
  <2> SUFFICES ASSUME BridgeInv, [BridgeNext]_routerVars
               PROVE  BridgeInv'
    OBVIOUS
  <2>1. ASSUME NEW m, BridgeMessage(m)
        PROVE  BridgeInv'
    <3> DEFINE protocol == DetectProtocol(m)
               did == Target(m, protocol)
    <3>1. CASE protocol = "unknown"
      BY <2>1, <3>1 DEF BridgeMessage, BridgeInv, NoAnswer, Protocols
    <3>2. CASE protocol # "unknown" /\ protocol \notin Protocols
      BY <2>1, <3>2 DEF BridgeMessage, BridgeInv, NoAnswer, Protocols
    <3>3. CASE protocol # "unknown" /\ protocol \in Protocols
      BY <2>1, <3>3 DEF BridgeMessage, BridgeInv, Response
    <3> QED
      BY <3>1, <3>2, <3>3
  <2>2. CASE UNCHANGED bridged
    BY <2>2 DEF BridgeInv, Response
  <2> QED
    BY <2>1, <2>2 DEF BridgeNext, routerVars, RegisterAgentVia, HubChanges
<1> QED
  BY <1>1, <1>2, PTL DEF BridgeSpec

\* How the messages of the three protocols are told (detect.py).
LEMMA Detects ==
  ASSUME NEW m
  PROVE  /\ {"roar", "intent"} \subseteq m.fields => DetectProtocol(m) = "roar"
         /\ /\ ~({"roar", "intent"} \subseteq m.fields) /\ {"role", "content"} \subseteq m.fields
            /\ "tool_calls" \notin m.fields
            => DetectProtocol(m) = "acp"
         /\ /\ ~({"roar", "intent"} \subseteq m.fields) /\ ~({"role", "content"} \subseteq m.fields)
            /\ "jsonrpc" \in m.fields /\ m.method # "mcp" /\ {"status", "id"} \subseteq m.result
            => DetectProtocol(m) = "a2a"
BY DEF DetectProtocol

\* The forms of the answers.
LEMMA Answers ==
  /\ Response("roar") = Message({"roar", "intent", "id", "from", "to", "payload"}, "none", {}, Fresh)
  /\ Response("a2a") = Message({"jsonrpc", "id", "result"}, "none",
                               {"id", "status", "artifacts", "task_id", "from", "to", "payload"},
                               Fresh)
  /\ Response("acp") = Message({"role", "content"}, "none", {}, Fresh)
<1>1. Response("roar") = Message({"roar", "intent", "id", "from", "to", "payload"}, "none", {}, Fresh)
  BY Zenon DEF Response
<1>2. Response("a2a") = Message({"jsonrpc", "id", "result"}, "none",
                                {"id", "status", "artifacts", "task_id", "from", "to", "payload"},
                                Fresh)
  BY "a2a" # "roar", "a2a" # "mcp", Zenon DEF Response
<1>3. Response("acp") = Message({"role", "content"}, "none", {}, Fresh)
  BY "acp" # "roar", "acp" # "mcp", "acp" # "a2a", Zenon DEF Response
<1> QED
  BY <1>1, <1>2, <1>3

\* Each of them is told by its fields.
LEMMA AnswersAreTold ==
  ASSUME NEW m
  PROVE  /\ m = Response("roar") => DetectProtocol(m) = "roar"
         /\ m = Response("a2a") => DetectProtocol(m) = "a2a"
         /\ m = Response("acp") => DetectProtocol(m) = "acp"
<1>1. ASSUME m = Response("roar")
      PROVE  DetectProtocol(m) = "roar"
  <2>1. m.fields = {"roar", "intent", "id", "from", "to", "payload"}
    BY <1>1, Answers DEF Message
  <2> QED
    BY <2>1, Detects
<1>2. ASSUME m = Response("a2a")
      PROVE  DetectProtocol(m) = "a2a"
  <2>1. /\ m.fields = {"jsonrpc", "id", "result"}
        /\ m.result = {"id", "status", "artifacts", "task_id", "from", "to", "payload"}
        /\ m.method = "none"
    BY <1>2, Answers DEF Message
  <2> QED
    BY <2>1, Detects
<1>3. ASSUME m = Response("acp")
      PROVE  DetectProtocol(m) = "acp"
  <2>1. m.fields = {"role", "content"}
    BY <1>3, Answers DEF Message
  <2> QED
    BY <2>1, Detects
<1> QED
  BY <1>1, <1>2, <1>3

(***************************************************************************)
(* An answer in ROAR, A2A or ACP form is recognised by the next bridge,    *)
(* whatever was bridged before (bridge.py, adapters/detect.py).            *)
(***************************************************************************)
THEOREM RecognisesAnswers == BridgeSpec => []AnswersAreRecognised
<1>1. BridgeInv => AnswersAreRecognised
  BY AnswersAreTold DEF BridgeInv, AnswersAreRecognised, Protocols
<1> QED
  BY <1>1, BridgeInvariance, PTL


(***************************************************************************)
(* Relayed events                                                          *)
(***************************************************************************)

(***************************************************************************)
(* However many bridges of either kind an event passes, it ends a stream   *)
(* only if it did when it was published, and a task's update stays the     *)
(* update of that task (event_bridge.py).                                  *)
(***************************************************************************)
THEOREM KeepsMeaning == EventBridgeSpec => []ChainsKeepMeaning
<1>1. EventBridgeInit => ChainsKeepMeaning
  BY DEF EventBridgeInit, ChainsKeepMeaning, NoEvent, Boundaries
<1>2. ChainsKeepMeaning /\ [EventBridgeNext]_bridgeVars => ChainsKeepMeaning'
  <2> SUFFICES ASSUME ChainsKeepMeaning, [EventBridgeNext]_bridgeVars
               PROVE  ChainsKeepMeaning'
    OBVIOUS
  <2>1. ASSUME NEW type, NEW session, NEW t, PublishNative(type, session, t)
        PROVE  ChainsKeepMeaning'
    BY <2>1 DEF PublishNative, Begin, ChainsKeepMeaning, TaskOf
  <2>2. ASSUME NEW state \in {"submitted", "working", "completed", "failed", "canceled"},
               NEW t \in TaskIds, IngestA2a(state, t)
        PROVE  ChainsKeepMeaning'
    BY <2>2 DEF IngestA2a, Begin, FromA2a, RoarType, ChainsKeepMeaning, Boundaries, TaskOf
  <2>3. CASE HopMcp
    BY <2>3 DEF HopMcp, Hop, ThroughMcp, OverMcp, ChainsKeepMeaning, Boundaries, TaskOf
  <2>4. CASE HopA2a
    BY <2>4 DEF HopA2a, Hop, ThroughA2a, FromA2a, A2aState, RoarType, ChainsKeepMeaning,
                Boundaries, TaskOf
  <2>5. CASE UNCHANGED bridgeVars
    BY <2>5 DEF bridgeVars, ChainsKeepMeaning, TaskOf
  <2> QED
    BY <2>1, <2>2, <2>3, <2>4, <2>5 DEF EventBridgeNext
<1> QED
  BY <1>1, <1>2, PTL DEF EventBridgeSpec

(***************************************************************************)
(* Transactions                                                            *)
(***************************************************************************)

Signatures == {Unsigned} \cup [by : {"initiator"}, body : Actions \X Terms \X Nat]

Transactions ==
  [action : Actions, terms : Terms, timestamp : Nat,
   status : {"pending", "signed", "committed"}, signature : Signatures]

(***************************************************************************)
(* The strengthening: the signature that the transaction carries is of     *)
(* what it was when the function that signed it returned.                  *)
(***************************************************************************)
TransactionInv ==
  /\ tx \in Transactions
  /\ agreed \subseteq Transactions
  /\ \/ agreed = {} /\ tx.signature = Unsigned
     \/ \E t \in agreed : agreed = {t} /\ tx.signature = Initiator(t)

\* A signature of a transaction is one, and a commit leaves a transaction.
LEMMA CommitParts ==
  ASSUME NEW t \in Transactions, NEW stamp \in 0 .. MaxStamp
  PROVE  /\ Initiator(t) \in Signatures
         /\ tx \in Transactions => Committed(stamp) \in Transactions
<1>1. Initiator(t) \in Signatures
  BY DEF Transactions, Initiator, Canonical, Signatures
<1>2. ASSUME tx \in Transactions
      PROVE  Committed(stamp) \in Transactions
  <2> DEFINE acted == [tx EXCEPT !.action = "commit"]
             stamped == [acted EXCEPT !.timestamp = stamp]
  <2>1. acted \in Transactions
    BY <1>2 DEF Transactions, Actions
  <2>2. stamped \in Transactions
    <3> HIDE DEF acted
    <3> QED
      BY <2>1 DEF Transactions
  <2>3. Committed(stamp) = [stamped EXCEPT !.status = "committed"]
    BY Zenon DEF Committed
  <2> QED
    <3> HIDE DEF stamped
    <3> QED
      BY <2>2, <2>3 DEF Transactions
<1> QED
  BY <1>1, <1>2

\* The type of a transaction, and what its signature is of.
THEOREM TransactionInvariance == TransactionSpec => []TransactionInv
<1>1. TransactionInit => TransactionInv
  <2> SUFFICES ASSUME TransactionInit
               PROVE  TransactionInv
    OBVIOUS
  <2>1. PICK terms \in Terms :
          tx = [action |-> "authorize", terms |-> terms, timestamp |-> 0, status |-> "pending",
                signature |-> Unsigned]
    BY DEF TransactionInit
  <2>2. Unsigned \in Signatures
    BY DEF Signatures
  <2> QED
    BY <2>1, <2>2 DEF TransactionInit, TransactionInv, Transactions, Actions
<1>2. TransactionInv /\ [TransactionNext]_txVars => TransactionInv'
  <2> SUFFICES ASSUME TransactionInv, [TransactionNext]_txVars
               PROVE  TransactionInv'
    OBVIOUS
  <2>0. tx \in Transactions
    BY DEF TransactionInv
  <2>1. ASSUME NEW action \in Actions, NEW terms \in Terms, NEW stamp \in 0 .. MaxStamp,
               SetFields(action, terms, stamp)
        PROVE  TransactionInv'
    <3> DEFINE acted == [tx EXCEPT !.action = action]
               changed == [acted EXCEPT !.terms = terms]
    <3>1. acted \in Transactions /\ acted.signature = tx.signature
      BY <2>0 DEF Transactions
    <3>2. changed \in Transactions /\ changed.signature = tx.signature
      <4> HIDE DEF acted
      <4> QED
        BY <3>1 DEF Transactions
    <3>3. tx' = [changed EXCEPT !.timestamp = stamp] /\ agreed' = agreed
      BY <2>1, Zenon DEF SetFields
    <3>4. tx' \in Transactions /\ tx'.signature = tx.signature
      <4> HIDE DEF changed
      <4> QED
        BY <3>2, <3>3, TransactionAssumption DEF Transactions
    <3> QED
      BY <3>3, <3>4 DEF TransactionInv
  <2>2. CASE SignTransaction
    <3> DEFINE sealed == [tx EXCEPT !.signature = Initiator(tx)]
    <3>1. Initiator(tx) \in Signatures
      BY <2>0, CommitParts, TransactionAssumption
    <3>2. /\ sealed \in Transactions /\ sealed.signature = Initiator(tx)
          /\ Canonical(sealed) = Canonical(tx)
      BY <2>0, <3>1 DEF Transactions, Canonical
    <3>3. tx' = [sealed EXCEPT !.status = "signed"] /\ agreed' = {tx'}
      BY <2>2, Zenon DEF SignTransaction
    <3>4. /\ tx' \in Transactions /\ tx'.signature = Initiator(tx)
          /\ Canonical(tx') = Canonical(tx)
      <4> HIDE DEF sealed
      <4> QED
        BY <3>2, <3>3 DEF Transactions, Canonical
    <3> QED
      BY <3>3, <3>4 DEF TransactionInv, Initiator
  <2>3. ASSUME NEW stamp \in 0 .. MaxStamp, CommitTransaction(stamp)
        PROVE  TransactionInv'
    <3> DEFINE c == Committed(stamp)
    <3>1. c \in Transactions
      BY <2>0, CommitParts
    <3>2. tx' = [c EXCEPT !.signature = Initiator(c)] /\ agreed' = {tx'}
      BY <2>3 DEF CommitTransaction
    <3> HIDE DEF c
    <3>3. Initiator(c) \in Signatures
      BY <3>1, CommitParts
    <3>4. tx' \in Transactions /\ tx'.signature = Initiator(c) /\ Canonical(tx') = Canonical(c)
      BY <3>1, <3>2, <3>3 DEF Transactions, Canonical
    <3> QED
      BY <3>2, <3>4 DEF TransactionInv, Initiator
  <2>4. ASSUME NEW stamp \in 0 .. MaxStamp, CommitRaises(stamp)
        PROVE  TransactionInv'
    <3>1. tx' = Committed(stamp) /\ agreed' = agreed
      BY <2>4 DEF CommitRaises
    <3>2. tx' \in Transactions
      BY <2>0, <3>1, CommitParts
    <3>3. Committed(stamp).signature = tx.signature
      BY <2>0 DEF Committed, Transactions
    <3> QED
      BY <3>1, <3>2, <3>3 DEF TransactionInv
  <2>5. CASE UNCHANGED <<tx, agreed>>
    BY <2>5 DEF TransactionInv
  <2> QED
    BY <2>1, <2>2, <2>3, <2>4, <2>5 DEF TransactionNext, CreateReceipt, CountersignReceipt, txVars
<1> QED
  BY <1>1, <1>2, PTL DEF TransactionSpec

(***************************************************************************)
(* A transaction verifies exactly as long as it is what it was when        *)
(* sign_transaction or commit_transaction returned, however often it was   *)
(* changed, signed and committed before (transaction.py).                  *)
(***************************************************************************)
THEOREM VerifiesWhatWasSigned == TransactionSpec => []VerifiesAsSigned
<1>1. TransactionInv => VerifiesAsSigned
  <2>1. ASSUME NEW t
        PROVE  Initiator(tx) # Unsigned
               /\ (Initiator(t) = Initiator(tx) <=>
                     tx.action = t.action /\ tx.terms = t.terms /\ tx.timestamp = t.timestamp)
    BY DEF Initiator, Canonical, Unsigned
  <2> QED
    BY <2>1 DEF TransactionInv, VerifiesAsSigned, VerifyTransaction
<1> QED
  BY <1>1, TransactionInvariance, PTL


(***************************************************************************)
(* The log of messages                                                     *)
(***************************************************************************)

LineSignatures == [by : {"key", "other", "none"}, of : Seq(Contents)]

Entries ==
  [prev : Seq(Contents), content : Contents, hash : Seq(Contents), signature : LineSignatures]

AuditTypeOK ==
  /\ {log, lines, reader} \subseteq Seq(Entries)
  /\ recorded \in Seq(Seq(Contents)) /\ recorded # <<>>

\* A process with the key has recorded what a signature of its key is of.
Vouched(e) ==
  e.signature.by = "key" => \E p \in DOMAIN recorded : IsPrefix(e.signature.of, recorded[p])

(***************************************************************************)
(* The strengthening: the signer's chain is at what it has recorded, and   *)
(* every signature of its key, in memory or in the file, is vouched for.   *)
(* Nothing is said of the entry that carries it, of its place, its content *)
(* or its hashes, any of which may have been altered in the file.          *)
(***************************************************************************)
AuditInv ==
  /\ AuditTypeOK
  /\ LastHash(log) = recorded[Len(recorded)]
  /\ \A entries \in {log, lines, reader} : \A i \in DOMAIN entries : Vouched(entries[i])

\* A prefix, element by element.
LEMMA PrefixIs ==
  ASSUME NEW S, NEW s \in Seq(S), NEW t \in Seq(S)
  PROVE  IsPrefix(s, t) <=> Len(s) <= Len(t) /\ \A i \in 1 .. Len(s) : s[i] = t[i]
<1>1. Len(s) \in Nat /\ Len(t) \in Nat
  BY LenProperties
<1>2. /\ SubSeq(s, 1, Len(s)) \in Seq(S)
      /\ Len(SubSeq(s, 1, Len(s))) = Len(s)
      /\ \A i \in 1 .. Len(s) : SubSeq(s, 1, Len(s))[i] = s[i]
  BY SubSeqFull
<1>3. ASSUME Len(s) <= Len(t)
      PROVE  /\ SubSeq(t, 1, Len(s)) \in Seq(S)
             /\ Len(SubSeq(t, 1, Len(s))) = Len(s)
             /\ \A i \in 1 .. Len(s) : SubSeq(t, 1, Len(s))[i] = t[i]
  <2>1. \A i \in 1 .. Len(s) : t[i] \in S
    BY <1>1, <1>3, ElementOfSeq
  <2> QED
    BY <2>1, <1>1, SubSeqProperties
<1>4. ASSUME IsPrefix(s, t)
      PROVE  Len(s) <= Len(t) /\ \A i \in 1 .. Len(s) : s[i] = t[i]
  <2>1. Len(s) <= Len(t) /\ SubSeq(s, 1, Len(s)) = SubSeq(t, 1, Len(s))
    BY <1>4, Zenon DEF IsPrefix
  <2> QED
    BY <2>1, <1>2, <1>3
<1>5. ASSUME Len(s) <= Len(t), \A i \in 1 .. Len(s) : s[i] = t[i]
      PROVE  IsPrefix(s, t)
  <2>1. \A i \in 1 .. Len(s) : SubSeq(s, 1, Len(s))[i] = SubSeq(t, 1, Len(s))[i]
    BY <1>2, <1>3, <1>5
  <2>2. SubSeq(s, 1, Len(s)) = SubSeq(t, 1, Len(s))
    BY <2>1, <1>2, <1>3, <1>5, SeqEqual
  <2> QED
    BY <2>2, <1>5, Zenon DEF IsPrefix
<1> QED
  BY <1>4, <1>5

\* What begins a sequence begins it when it has grown.
LEMMA PrefixGrows ==
  ASSUME NEW S, NEW s \in Seq(S), NEW t \in Seq(S), NEW c \in S
  PROVE  /\ IsPrefix(s, t) => IsPrefix(s, Append(t, c))
         /\ IsPrefix(s, s)
<1>1. Append(t, c) \in Seq(S) /\ Len(Append(t, c)) = Len(t) + 1
      /\ \A i \in 1 .. Len(t) : Append(t, c)[i] = t[i]
  BY AppendProperties
<1>2. Len(s) \in Nat /\ Len(t) \in Nat
  BY LenProperties
<1>3. IsPrefix(s, s)
  BY <1>2, PrefixIs
<1>4. ASSUME IsPrefix(s, t)
      PROVE  IsPrefix(s, Append(t, c))
  <2>1. Len(s) <= Len(t) /\ \A i \in 1 .. Len(s) : s[i] = t[i]
    BY <1>4, PrefixIs
  <2>2. Len(s) <= Len(Append(t, c)) /\ \A i \in 1 .. Len(s) : s[i] = Append(t, c)[i]
    BY <2>1, <1>1, <1>2
  <2> QED
    BY <2>2, <1>1, PrefixIs
<1> QED
  BY <1>3, <1>4

\* The last hash of a chain.
LEMMA LastHashIs ==
  ASSUME NEW entries \in Seq(Entries)
  PROVE  /\ LastHash(entries) \in Seq(Contents)
         /\ entries = <<>> => LastHash(entries) = <<>>
         /\ entries # <<>> => /\ Len(entries) \in DOMAIN entries
                              /\ LastHash(entries) = entries[Len(entries)].hash
<1>1. Len(entries) \in Nat /\ DOMAIN entries = 1 .. Len(entries)
  BY LenProperties
<1>2. CASE entries = <<>>
  BY <1>2, EmptySeq DEF LastHash, Genesis
<1>3. CASE entries # <<>>
  <2>1. Len(entries) \in 1 .. Len(entries)
    BY <1>3, EmptySeq
  <2>2. entries[Len(entries)] \in Entries
    BY <2>1, ElementOfSeq
  <2> QED
    BY <1>1, <1>3, <2>1, <2>2 DEF LastHash, Last, Entries
<1> QED
  BY <1>2, <1>3

\* Steps of others: what they leave in the file or in memory is vouched for.
LEMMA FileStep ==
  ASSUME AuditInv, UNCHANGED <<log, recorded>>,
         {lines', reader'} \subseteq Seq(Entries),
         \A i \in DOMAIN lines' : Vouched(lines'[i]),
         \A i \in DOMAIN reader' : Vouched(reader'[i])
  PROVE  AuditInv'
BY DEF AuditInv, AuditTypeOK, Vouched, LastHash, Genesis, Last

\* Steps of the signer: what was recorded stays recorded, and grows.
LEMMA SignerStep ==
  ASSUME AuditInv, UNCHANGED <<lines, reader>>,
         log' \in Seq(Entries), recorded' \in Seq(Seq(Contents)), recorded' # <<>>,
         LastHash(log)' = recorded'[Len(recorded')],
         \A p \in DOMAIN recorded : p \in DOMAIN recorded',
         \A p \in DOMAIN recorded, h \in Seq(Contents) :
           IsPrefix(h, recorded[p]) => IsPrefix(h, recorded'[p]),
         (\A i \in DOMAIN log : Vouched(log[i]))'
  PROVE  AuditInv'
<1>1. ASSUME NEW e \in Entries, Vouched(e)
      PROVE  e.signature.by = "key" =>
               \E p \in DOMAIN recorded' : IsPrefix(e.signature.of, recorded'[p])
  <2>1. e.signature.of \in Seq(Contents)
    BY DEF Entries, LineSignatures
  <2> QED
    BY <1>1, <2>1 DEF Vouched
<1>2. \A s \in Seq(Entries) : \A i \in DOMAIN s : s[i] \in Entries
  BY LenProperties, ElementOfSeq
<1>3. (\A i \in DOMAIN lines : Vouched(lines[i]))'
  BY <1>1, <1>2 DEF AuditInv, AuditTypeOK, Vouched
<1>4. (\A i \in DOMAIN reader : Vouched(reader[i]))'
  BY <1>1, <1>2 DEF AuditInv, AuditTypeOK, Vouched
<1> QED
  BY <1>3, <1>4 DEF AuditInv, AuditTypeOK

\* Recording signs what has been recorded so far.
LEMMA RecordKeepsInv ==
  ASSUME AuditInv, NEW c \in Contents, Record(c)
  PROVE  AuditInv'
<1> DEFINE n == Len(recorded)
           e == AuditEntry(LastHash(log), c, SignEntry(HashEntry(LastHash(log), c)))
           h == Append(recorded[n], c)
<1>1. /\ log \in Seq(Entries) /\ recorded \in Seq(Seq(Contents)) /\ recorded # <<>>
      /\ LastHash(log) = recorded[n]
      /\ log' = Append(log, e) /\ recorded' = [recorded EXCEPT ![n] = h]
      /\ UNCHANGED <<lines, reader>>
  BY DEF AuditInv, AuditTypeOK, Record
<1>2. n \in 1 .. n /\ n \in Nat /\ DOMAIN recorded = 1 .. n
  BY <1>1, EmptySeq, LenProperties
<1>3. recorded[n] \in Seq(Contents) /\ h \in Seq(Contents)
  BY <1>1, <1>2, ElementOfSeq, AppendProperties
<1>4. /\ recorded' \in Seq(Seq(Contents)) /\ Len(recorded') = n
      /\ \A p \in 1 .. n : recorded'[p] = IF p = n THEN h ELSE recorded[p]
  <2> HIDE DEF h
  <2> QED
    BY <1>1, <1>2, <1>3, ExceptSeq
<1>5. DOMAIN recorded' = 1 .. n /\ recorded' # <<>> /\ recorded'[n] = h
  <2> HIDE DEF h, n
  <2>1. DOMAIN recorded' = 1 .. n
    BY <1>4, LenProperties
  <2>2. recorded' # <<>>
    BY <1>2, <1>4
  <2> QED
    BY <2>1, <2>2, <1>2, <1>4
<1>6. e \in Entries /\ e.hash = h /\ e.signature.of = h
  BY <1>1, <1>3 DEF AuditEntry, HashEntry, SignEntry, Entries, LineSignatures
<1>7. /\ log' \in Seq(Entries) /\ log' # <<>> /\ Len(log') = Len(log) + 1
      /\ Len(log) \in Nat /\ DOMAIN log' = 1 .. Len(log) + 1 /\ DOMAIN log = 1 .. Len(log)
      /\ \A i \in 1 .. Len(log) : log'[i] = log[i]
      /\ log'[Len(log) + 1] = e
  <2> HIDE DEF e
  <2> QED
    BY <1>1, <1>6, AppendProperties, LenProperties
<1>8. LastHash(log)' = h
  BY <1>6, <1>7 DEF LastHash, Last
<1>9. \A p \in DOMAIN recorded, s \in Seq(Contents) :
        IsPrefix(s, recorded[p]) => IsPrefix(s, recorded'[p])
  <2> TAKE p \in DOMAIN recorded, s \in Seq(Contents)
  <2>1. CASE p = n
    BY <2>1, <1>2, <1>3, <1>4, PrefixGrows
  <2>2. CASE p # n
    BY <2>2, <1>2, <1>4
  <2> QED
    BY <2>1, <2>2
<1>10. (\A i \in DOMAIN log : Vouched(log[i]))'
  <2> SUFFICES ASSUME NEW i \in DOMAIN log'
               PROVE  log'[i].signature.by = "key" =>
                        \E p \in DOMAIN recorded' : IsPrefix(log'[i].signature.of, recorded'[p])
    BY DEF Vouched
  <2>1. CASE i = Len(log) + 1
    <3>1. IsPrefix(h, recorded'[n])
      BY <1>3, <1>5, PrefixGrows
    <3> QED
      <4> HIDE DEF h, e
      <4> QED
        BY <2>1, <3>1, <1>2, <1>5, <1>6, <1>7
  <2>2. CASE i # Len(log) + 1
    <3>1. i \in 1 .. Len(log) /\ log'[i] = log[i]
      BY <2>2, <1>7
    <3>2. log[i] \in Entries /\ Vouched(log[i])
      BY <3>1, <1>1, <1>7, ElementOfSeq DEF AuditInv
    <3>3. log[i].signature.of \in Seq(Contents)
      BY <3>2 DEF Entries, LineSignatures
    <3> QED
      BY <3>1, <3>2, <3>3, <1>2, <1>5, <1>9 DEF Vouched
  <2> QED
    BY <2>1, <2>2
<1> QED
  <2> HIDE DEF e, h
  <2> QED
    BY <1>1, <1>2, <1>4, <1>5, <1>7, <1>8, <1>9, <1>10, SignerStep

\* A new process has recorded nothing, and the others what they had.
LEMMA RestartKeepsInv ==
  ASSUME AuditInv, RestartLog
  PROVE  AuditInv'
<1> DEFINE n == Len(recorded)
<1>1. /\ recorded \in Seq(Seq(Contents)) /\ recorded # <<>>
      /\ log' = <<>> /\ recorded' = Append(recorded, <<>>) /\ UNCHANGED <<lines, reader>>
  BY DEF AuditInv, AuditTypeOK, RestartLog, Genesis
<1>2. <<>> \in Seq(Contents) /\ log' \in Seq(Entries)
  BY <1>1
<1>3. /\ recorded' \in Seq(Seq(Contents)) /\ recorded' # <<>> /\ Len(recorded') = n + 1
      /\ \A p \in 1 .. n : recorded'[p] = recorded[p]
      /\ recorded'[n + 1] = <<>>
  BY <1>1, <1>2, AppendProperties
<1>4. n \in Nat /\ DOMAIN recorded = 1 .. n /\ DOMAIN recorded' = 1 .. n + 1
  BY <1>1, <1>3, LenProperties
<1>5. LastHash(log)' = <<>>
  BY <1>1 DEF LastHash, Genesis
<1>6. (\A i \in DOMAIN log : Vouched(log[i]))'
  BY <1>1
<1> QED
  <2> HIDE DEF n
  <2> QED
    BY <1>1, <1>2, <1>3, <1>4, <1>5, <1>6, SignerStep

\* The file holds entries of the log it was written from.
LEMMA ExportKeepsInv ==
  ASSUME AuditInv, ExportJsonl
  PROVE  AuditInv'
<1>1. PICK n \in 0 .. Len(log) : lines' = SubSeq(log, 1, n)
  BY DEF ExportJsonl
<1>2. /\ log \in Seq(Entries) /\ reader \in Seq(Entries)
      /\ Len(log) \in Nat /\ DOMAIN log = 1 .. Len(log)
  BY LenProperties DEF AuditInv, AuditTypeOK
<1>3. /\ lines' \in Seq(Entries) /\ Len(lines') = n
      /\ \A i \in 1 .. n : lines'[i] = log[i]
  <2>1. \A i \in 1 .. n : log[i] \in Entries
    BY <1>2, ElementOfSeq
  <2> QED
    BY <1>1, <1>2, <2>1, SubSeqProperties
<1>4. DOMAIN lines' = 1 .. n
  BY <1>3, LenProperties
<1>5. /\ \A i \in DOMAIN lines' : Vouched(lines'[i])
      /\ \A i \in DOMAIN reader : Vouched(reader[i])
  BY <1>2, <1>3, <1>4 DEF AuditInv
<1> QED
  BY <1>2, <1>3, <1>5, FileStep DEF ExportJsonl

\* What a line may be altered to: none of the key's signatures is new.
LEMMA AlterationVouched ==
  ASSUME AuditInv, NEW e \in Alterations
  PROVE  e \in Entries /\ Vouched(e)
<1>1. e.prev \in Seq(Contents) /\ e.content \in Contents /\ e.hash \in Seq(Contents)
  BY AuditAssumption DEF Alterations
<1>2. CASE e.signature \in {NoSignature, OtherSignature}
  <2>1. <<>> \in Seq(Contents)
    OBVIOUS
  <2>2. /\ NoSignature.by = "none" /\ NoSignature \in LineSignatures
        /\ OtherSignature.by = "other" /\ OtherSignature \in LineSignatures
    BY <2>1 DEF NoSignature, OtherSignature, Genesis, LineSignatures
  <2>3. e.signature.by \in {"none", "other"} /\ e.signature \in LineSignatures
    BY <1>2, <2>2
  <2> QED
    BY <1>1, <2>3 DEF Alterations, Entries, Vouched
<1>3. CASE e.signature \in Made
  <2>0. PICK p \in DOMAIN recorded :
          \E n \in 1 .. Len(recorded[p]) : e.signature = SignEntry(SubSeq(recorded[p], 1, n))
    BY <1>3, Zenon DEF Made
  <2>1. PICK n \in 1 .. Len(recorded[p]) : e.signature = SignEntry(SubSeq(recorded[p], 1, n))
    BY <2>0
  <2> DEFINE r == recorded[p]
             s == SubSeq(r, 1, n)
  <2>2. r \in Seq(Contents)
    BY ElementOfSeq, LenProperties DEF AuditInv, AuditTypeOK
  <2>3. Len(r) \in Nat /\ DOMAIN r = 1 .. Len(r) /\ \A k \in 1 .. Len(r) : r[k] \in Contents
    BY <2>2, LenProperties, ElementOfSeq
  <2>4. /\ s \in Seq(Contents) /\ Len(s) = n /\ n <= Len(r)
        /\ \A k \in 1 .. n : s[k] = r[k]
    BY <2>2, <2>3, SubSeqProperties
  <2>5. IsPrefix(s, r)
    <3> HIDE DEF r, s
    <3> QED
      BY <2>2, <2>3, <2>4, PrefixIs
  <2>6. e.signature.by = "key" /\ e.signature.of = s /\ e.signature \in LineSignatures
    BY <2>1, <2>4 DEF SignEntry, LineSignatures
  <2> QED
    BY <1>1, <2>5, <2>6 DEF Alterations, Entries, Vouched
<1> QED
  BY <1>2, <1>3 DEF Alterations

\* A lost line, two lines exchanged and an altered line.
LEMMA DamageKeepsInv ==
  ASSUME AuditInv,
         \/ \E i \in DOMAIN lines : LineLost(i)
         \/ \E i, j \in DOMAIN lines : LinesExchanged(i, j)
         \/ \E i \in DOMAIN lines, e \in Alterations : LineAltered(i, e)
  PROVE  AuditInv'
<1>1. /\ lines \in Seq(Entries) /\ reader \in Seq(Entries)
      /\ Len(lines) \in Nat /\ DOMAIN lines = 1 .. Len(lines)
      /\ \A k \in 1 .. Len(lines) : lines[k] \in Entries /\ Vouched(lines[k])
      /\ \A k \in DOMAIN reader : Vouched(reader[k])
  BY LenProperties, ElementOfSeq DEF AuditInv, AuditTypeOK
<1>2. UNCHANGED <<log, recorded, reader>>
  BY DEF LineLost, LinesExchanged, LineAltered, Damaged
<1>3. ASSUME lines' \in Seq(Entries),
             \A k \in 1 .. Len(lines') : Vouched(lines'[k])
      PROVE  AuditInv'
  <2>1. DOMAIN lines' = 1 .. Len(lines')
    BY <1>3, LenProperties
  <2> QED
    BY <1>1, <1>2, <1>3, <2>1, FileStep
<1>4. ASSUME NEW i \in DOMAIN lines, LineLost(i)
      PROVE  AuditInv'
  <2> DEFINE a == SubSeq(lines, 1, i - 1)
             b == SubSeq(lines, i + 1, Len(lines))
  <2>1. lines' = a \o b
    BY <1>4 DEF LineLost, Damaged, RemoveAt
  <2>2. i \in 1 .. Len(lines)
    BY <1>1
  <2>3. /\ a \in Seq(Entries) /\ Len(a) = i - 1
        /\ \A k \in 1 .. i - 1 : a[k] = lines[k]
    BY <1>1, <2>2, SubSeqProperties
  <2>4. /\ b \in Seq(Entries) /\ Len(b) = Len(lines) - i
        /\ \A k \in 1 .. Len(lines) - i : b[k] = lines[i + k]
    BY <1>1, <2>2, SubSeqProperties, SMTT(30)
  <2> HIDE DEF a, b
  <2>5. /\ lines' \in Seq(Entries) /\ Len(lines') = Len(a) + Len(b)
        /\ \A k \in 1 .. Len(a) + Len(b) :
             lines'[k] = IF k <= Len(a) THEN a[k] ELSE b[k - Len(a)]
    BY <2>1, <2>3, <2>4, ConcatProperties
  <2>6. Len(lines') = Len(lines) - 1
    BY <1>1, <2>2, <2>3, <2>4, <2>5
  <2>7. ASSUME NEW k \in 1 .. Len(lines')
        PROVE  Vouched(lines'[k])
    <3>1. CASE k <= i - 1
      <4>1. lines'[k] = a[k] /\ a[k] = lines[k]
        BY <1>1, <2>2, <2>3, <2>5, <2>7, <3>1
      <4> QED
        BY <1>1, <2>6, <4>1
    <3>2. CASE ~(k <= i - 1)
      <4>1. k - (i - 1) \in 1 .. Len(lines) - i
        BY <1>1, <2>2, <2>6, <2>7, <3>2
      <4>2. lines'[k] = b[k - (i - 1)]
        BY <1>1, <2>2, <2>3, <2>5, <2>7, <3>2
      <4>3. b[k - (i - 1)] = lines[i + (k - (i - 1))]
        BY <2>4, <4>1
      <4>4. i + (k - (i - 1)) \in 1 .. Len(lines)
        BY <1>1, <2>2, <4>1
      <4> QED
        BY <1>1, <4>2, <4>3, <4>4
    <3> QED
      BY <3>1, <3>2
  <2> QED
    BY <1>3, <2>5, <2>7
<1>5. ASSUME NEW i \in DOMAIN lines, NEW j \in DOMAIN lines, LinesExchanged(i, j)
      PROVE  AuditInv'
  <2> DEFINE once == [lines EXCEPT ![i] = lines[j]]
  <2>1. i \in 1 .. Len(lines) /\ j \in 1 .. Len(lines)
    BY <1>1
  <2>2. /\ once \in Seq(Entries) /\ Len(once) = Len(lines)
        /\ \A k \in 1 .. Len(lines) : once[k] = IF k = i THEN lines[j] ELSE lines[k]
    BY <1>1, <2>1, ExceptSeq
  <2>3. lines' = [once EXCEPT ![j] = lines[i]]
    BY <1>5 DEF LinesExchanged, Damaged
  <2> HIDE DEF once
  <2>4. /\ lines' \in Seq(Entries) /\ Len(lines') = Len(lines)
        /\ \A k \in 1 .. Len(lines) : lines'[k] = IF k = j THEN lines[i] ELSE once[k]
    BY <1>1, <2>1, <2>2, <2>3, ExceptSeq
  <2> QED
    BY <1>1, <1>3, <2>1, <2>2, <2>4
<1>6. ASSUME NEW i \in DOMAIN lines, NEW e \in Alterations, LineAltered(i, e)
      PROVE  AuditInv'
  <2>1. i \in 1 .. Len(lines)
    BY <1>1
  <2>2. e \in Entries /\ Vouched(e)
    BY AlterationVouched
  <2>3. lines' = [lines EXCEPT ![i] = e]
    BY <1>6 DEF LineAltered, Damaged
  <2>4. /\ lines' \in Seq(Entries) /\ Len(lines') = Len(lines)
        /\ \A k \in 1 .. Len(lines) : lines'[k] = IF k = i THEN e ELSE lines[k]
    BY <1>1, <2>1, <2>2, <2>3, ExceptSeq
  <2>5. ASSUME NEW k \in 1 .. Len(lines')
        PROVE  Vouched(lines'[k])
    BY <1>1, <2>2, <2>4
  <2> QED
    BY <1>3, <2>4, <2>5
<1> QED
  BY <1>4, <1>5, <1>6

\* A log without the key adds entries that nobody has signed.
LEMMA UnsignedKeepsInv ==
  ASSUME AuditInv, NEW c \in Contents, RecordUnsigned(c)
  PROVE  AuditInv'
<1> DEFINE e == AuditEntry(LastHash(reader), c, NoSignature)
<1>1. lines \in Seq(Entries) /\ reader \in Seq(Entries)
  BY DEF AuditInv, AuditTypeOK
<1>2. LastHash(reader) \in Seq(Contents)
  BY <1>1, LastHashIs
<1>3. e \in Entries /\ e.signature.by = "none"
  <2>1. HashEntry(LastHash(reader), c) \in Seq(Contents)
    BY <1>2, AppendProperties DEF HashEntry
  <2> QED
    BY <1>2, <2>1 DEF AuditEntry, NoSignature, Genesis, Entries, LineSignatures
<1>4. reader' = Append(reader, e) /\ UNCHANGED <<log, recorded, lines>>
  BY DEF RecordUnsigned
<1> HIDE DEF e
<1>5. /\ reader' \in Seq(Entries) /\ Len(reader') = Len(reader) + 1
      /\ \A i \in 1 .. Len(reader) : reader'[i] = reader[i]
      /\ reader'[Len(reader) + 1] = e
  BY <1>1, <1>3, <1>4, AppendProperties
<1>6. /\ Len(reader) \in Nat /\ DOMAIN reader = 1 .. Len(reader)
      /\ DOMAIN reader' = 1 .. Len(reader) + 1
  BY <1>1, <1>5, LenProperties
<1>7. \A i \in DOMAIN reader : Vouched(reader[i])
  BY DEF AuditInv
<1>8. Vouched(e)
  BY <1>3 DEF Vouched
<1>9. \A i \in DOMAIN reader' : Vouched(reader'[i])
  BY <1>5, <1>6, <1>7, <1>8
<1>10. \A i \in DOMAIN lines : Vouched(lines[i])
  BY DEF AuditInv
<1> QED
  BY <1>1, <1>4, <1>5, <1>9, <1>10, FileStep

\* Every signature of the key is vouched for, whatever has happened to the file.
THEOREM AuditInvariance == AuditSpec => []AuditInv
<1>1. AuditInit => AuditInv
  <2> SUFFICES ASSUME AuditInit
               PROVE  AuditInv
    OBVIOUS
  <2>1. log = <<>> /\ lines = <<>> /\ reader = <<>> /\ recorded = << <<>> >>
    BY DEF AuditInit, Genesis
  <2>2. recorded \in Seq(Seq(Contents)) /\ Len(recorded) = 1 /\ recorded[1] = <<>>
    BY <2>1
  <2>3. LastHash(log) = <<>>
    BY <2>1 DEF LastHash, Genesis
  <2> QED
    BY <2>1, <2>2, <2>3 DEF AuditInv, AuditTypeOK
<1>2. AuditInv /\ [AuditNext]_auditVars => AuditInv'
  <2> SUFFICES ASSUME AuditInv, [AuditNext]_auditVars
               PROVE  AuditInv'
    OBVIOUS
  <2>1. CASE LoadJsonl
    <3>1. \A i \in DOMAIN lines : Vouched(lines[i])
      BY DEF AuditInv
    <3> QED
      BY <2>1, <3>1, FileStep DEF LoadJsonl, AuditInv, AuditTypeOK
  <2>2. CASE UNCHANGED auditVars
    BY <2>2 DEF auditVars, AuditInv, AuditTypeOK, Vouched, LastHash, Genesis, Last
  <2> QED
    BY <2>1, <2>2, RecordKeepsInv, UnsignedKeepsInv, RestartKeepsInv, ExportKeepsInv,
       DamageKeepsInv DEF AuditNext
<1> QED
  BY <1>1, <1>2, PTL DEF AuditSpec

(***************************************************************************)
(* In a chain that verifies the hash of an entry stands for the contents   *)
(* of the entries up to it: of the first entry where it did not, neither   *)
(* the previous hash nor its own would be right.                           *)
(***************************************************************************)
LEMMA ChainHasContents ==
  ASSUME NEW entries \in Seq(Entries), VerifyChain(entries), NEW i \in DOMAIN entries
  PROVE  entries[i].hash = [k \in 1 .. i |-> entries[k].content]
<1> DEFINE upto(n) == [k \in 1 .. n |-> entries[k].content]
           Bad == {n \in DOMAIN entries : entries[n].hash # upto(n)}
<1>1. /\ Len(entries) \in Nat /\ DOMAIN entries = 1 .. Len(entries)
      /\ \A n \in 1 .. Len(entries) :
           entries[n] \in Entries /\ entries[n].content \in Contents
  <2>1. Len(entries) \in Nat /\ DOMAIN entries = 1 .. Len(entries)
    BY LenProperties
  <2>2. \A n \in 1 .. Len(entries) : entries[n] \in Entries
    BY ElementOfSeq
  <2> QED
    BY <2>1, <2>2 DEF Entries
<1>2. SUFFICES ASSUME Bad # {}
               PROVE  FALSE
  OBVIOUS
<1>3. Bad \subseteq Nat
  BY <1>1
<1>4. PICK d \in Bad : \A n \in Bad : ~(n < d)
  <2> HIDE DEF Bad
  <2>1. PICK d \in Bad : \A n \in Bad : <<n, d>> \notin OpToRel(<, Nat)
    BY <1>2, <1>3, WFMin, NatLessThanWellFounded, Zenon
  <2>2. d \in Nat /\ \A n \in Bad : n \in Nat
    BY <1>3
  <2> QED
    BY <2>1, <2>2, Zenon DEF OpToRel
<1> DEFINE c == entries[d].content
           before == SubSeq(entries, 1, d - 1)
<1>5. d \in 1 .. Len(entries) /\ c \in Contents
  BY <1>1
<1>6. entries[d].prev = LastHash(before) /\ entries[d].hash = Append(entries[d].prev, c)
  BY <1>1, <1>5 DEF VerifyChain, LinksHold, HashEntry
<1>7. before \in Seq(Entries) /\ Len(before) = d - 1 /\ \A k \in 1 .. d - 1 : before[k] = entries[k]
  BY <1>1, <1>5, SubSeqProperties
<1> HIDE DEF before
<1>8. /\ upto(d - 1) \in Seq(Contents) /\ Len(upto(d - 1)) = d - 1
      /\ upto(d) \in Seq(Contents) /\ Len(upto(d)) = d
  <2>1. ASSUME NEW n \in 0 .. Len(entries)
        PROVE  upto(n) \in Seq(Contents) /\ Len(upto(n)) = n
    <3>1. upto(n) \in [1 .. n -> Contents] /\ n \in Nat
      BY <1>1
    <3> HIDE DEF upto
    <3>2. upto(n) \in Seq(Contents)
      BY <3>1, SeqDef
    <3>3. DOMAIN upto(n) = 1 .. n /\ DOMAIN upto(n) = 1 .. Len(upto(n)) /\ Len(upto(n)) \in Nat
      BY <3>1, <3>2, LenProperties
    <3> QED
      BY <3>1, <3>2, <3>3
  <2>2. d - 1 \in 0 .. Len(entries) /\ d \in 0 .. Len(entries)
    BY <1>1, <1>5
  <2> HIDE DEF upto
  <2> QED
    BY <2>1, <2>2
<1>9. entries[d].prev = upto(d - 1)
  <2>1. CASE d = 1
    <3>1. before = <<>>
      BY <1>7, <2>1, EmptySeq
    <3>2. upto(d - 1) = <<>>
      BY <1>8, <2>1, EmptySeq
    <3> QED
      BY <1>6, <1>7, <3>1, <3>2, LastHashIs
  <2>2. CASE d # 1
    <3>1. d - 1 \in 1 .. Len(entries) /\ d - 1 < d
      BY <1>1, <1>5, <2>2
    <3>2. entries[d - 1].hash = upto(d - 1)
      BY <1>1, <1>4, <3>1
    <3>3. before # <<>>
      BY <1>7, <3>1, EmptySeq
    <3>4. LastHash(before) = entries[d - 1].hash
      BY <1>1, <1>7, <3>1, <3>3, LastHashIs
    <3> QED
      BY <1>6, <3>2, <3>4
  <2> QED
    BY <2>1, <2>2
<1>10. Append(upto(d - 1), c) = upto(d)
  <2>1. /\ Append(upto(d - 1), c) \in Seq(Contents) /\ Len(Append(upto(d - 1), c)) = d
        /\ \A k \in 1 .. d - 1 : Append(upto(d - 1), c)[k] = upto(d - 1)[k]
        /\ Append(upto(d - 1), c)[d] = c
    BY <1>5, <1>8, AppendProperties
  <2>2. \A k \in 1 .. d : Append(upto(d - 1), c)[k] = upto(d)[k]
    BY <1>1, <1>5, <2>1
  <2> QED
    BY <1>8, <2>1, <2>2, SeqEqual
<1> QED
  BY <1>6, <1>9, <1>10

(***************************************************************************)
(* What verify_chain accepts and was signed is the beginning of what one   *)
(* process with the key has recorded, though lines were lost, exchanged    *)
(* and added, and any field of a line altered (audit.py).                  *)
(***************************************************************************)
THEOREM VerifiesHistory == AuditSpec => []VerifiedIsHistory
<1>1. AuditInv => VerifiedIsHistory
  <2> SUFFICES ASSUME AuditInv, VerifyChain(reader), NEW i \in DOMAIN reader,
                      reader[i].signature # NoSignature
               PROVE  \E p \in DOMAIN recorded :
                        IsPrefix([k \in 1 .. i |-> reader[k].content], recorded[p])
    BY DEF VerifiedIsHistory
  <2>1. reader[i].hash = [k \in 1 .. i |-> reader[k].content]
    BY ChainHasContents DEF AuditInv, AuditTypeOK
  <2>2. Vouched(reader[i])
    BY DEF AuditInv
  <2>3. reader[i].signature = SignEntry(reader[i].hash)
    BY DEF VerifyChain
  <2> QED
    BY <2>1, <2>2, <2>3 DEF Vouched, SignEntry
<1> QED
  BY <1>1, AuditInvariance, PTL

(***************************************************************************)
(* Plugins                                                                 *)
(***************************************************************************)

Dispatches ==
  [kind : {"none", "pipeline", "broadcast", "install"}, at : Nat, here : BOOLEAN,
   alive : BOOLEAN, ran : Seq(Nat), began : SUBSET Nat, removed : BOOLEAN]

(***************************************************************************)
(* While nobody is unregistered the list keeps what it has, and has run    *)
(* up to the position of the dispatch.                                     *)
(***************************************************************************)
RunsTheList ==
  /\ hook.at <= Len(plugins)
  /\ hook.began \subseteq Range(plugins)
  /\ \A i \in 1 .. hook.at : plugins[i] \in Range(hook.ran)

PluginInv ==
  /\ plugins \in Seq(Nat)
  /\ registrations \in Nat
  /\ hook \in Dispatches
  /\ hook.kind # "none" /\ ~hook.removed => RunsTheList

\* What a list without one of its elements is.
LEMMA RemovedAt ==
  ASSUME NEW S, NEW s \in Seq(S), NEW i \in DOMAIN s
  PROVE  RemoveAt(s, i) \in Seq(S)
<1>1. i \in 1 .. Len(s) /\ Len(s) \in Nat /\ \A j \in 1 .. Len(s) : s[j] \in S
  OBVIOUS
<1>2. SubSeq(s, 1, i - 1) \in Seq(S)
  BY <1>1, SubSeqProperties
<1>3. SubSeq(s, i + 1, Len(s)) \in Seq(S)
  BY <1>1, SubSeqProperties
<1> QED
  BY <1>2, <1>3, ConcatProperties DEF RemoveAt

\* A dispatch runs what the list has at its positions, one by one.
THEOREM PluginInvariance == PluginSpec => []PluginInv
<1>1. PluginInit => PluginInv
  BY DEF PluginInit, PluginInv, Dispatches, NoHook
<1>2. PluginInv /\ [PluginNext]_pluginVars => PluginInv'
  <2> SUFFICES ASSUME PluginInv, [PluginNext]_pluginVars
               PROVE  PluginInv'
    OBVIOUS
  <2>0. plugins \in Seq(Nat) /\ registrations \in Nat /\ hook \in Dispatches /\ Len(plugins) \in Nat
    BY DEF PluginInv
  <2>1. ASSUME NEW n \in PluginNames, RegisterPlugin(n)
        PROVE  PluginInv'
    <3>1. /\ plugins' = Append(plugins, registrations + 1) /\ registrations' = registrations + 1
          /\ UNCHANGED hook
      BY <2>1 DEF RegisterPlugin
    <3>2. /\ plugins' \in Seq(Nat) /\ Len(plugins') = Len(plugins) + 1
          /\ \A i \in 1 .. Len(plugins) : plugins'[i] = plugins[i]
      BY <2>0, <3>1, AppendProperties
    <3>3. Range(plugins) \subseteq Range(plugins')
      BY <2>0, <3>2, RangeEquality
    <3>4. hook.at \in Nat
      BY <2>0 DEF Dispatches
    <3>5. RunsTheList => RunsTheList'
      BY <2>0, <3>1, <3>2, <3>3, <3>4 DEF RunsTheList
    <3> QED
      BY <2>0, <3>1, <3>2, <3>5 DEF PluginInv
  <2>2. ASSUME NEW n \in PluginNames, UnregisterPlugin(n)
        PROVE  PluginInv'
    <3>1. plugins' \in Seq(Nat) /\ UNCHANGED registrations
      BY <2>0, <2>2, RemovedAt DEF UnregisterPlugin
    <3>2. CASE hook = NoHook /\ UNCHANGED hook
      BY <2>0, <3>1, <3>2 DEF PluginInv, NoHook
    <3>3. CASE hook' = [hook EXCEPT !.removed = TRUE]
      BY <2>0, <3>1, <3>3 DEF PluginInv, Dispatches
    <3> QED
      BY <2>2, <3>2, <3>3 DEF UnregisterPlugin
  <2>3. ASSUME NEW kind \in {"pipeline", "broadcast", "install"}, RunHook(kind)
        PROVE  PluginInv'
    <3> DEFINE of == [NoHook EXCEPT !.kind = kind]
               new == [of EXCEPT !.began = Range(plugins)]
    <3>1. hook' = new /\ UNCHANGED <<plugins, registrations>>
      BY <2>3 DEF RunHook
    <3>2. of \in Dispatches /\ of.at = 0
      <4>1. NoHook \in Dispatches /\ NoHook.at = 0
        BY DEF NoHook, Dispatches
      <4> QED
        BY <4>1 DEF Dispatches
    <3> HIDE DEF of
    <3>3. new \in Dispatches /\ new.at = 0 /\ new.began = Range(plugins)
      <4>1. Range(plugins) \in SUBSET Nat
        BY <2>0, RangeOfSeq
      <4> QED
        BY <3>2, <4>1 DEF Dispatches
    <3> HIDE DEF new
    <3> QED
      BY <2>0, <3>1, <3>3 DEF PluginInv, RunsTheList
  <2>4. CASE Call
    <3> DEFINE next == plugins[hook.at + 1]
               ran == Append(hook.ran, next)
               on == [hook EXCEPT !.at = hook.at + 1]
               here == [on EXCEPT !.here = TRUE]
               new == [here EXCEPT !.ran = ran]
    <3>1. /\ hook' = new /\ hook.at < Len(plugins)
          /\ UNCHANGED <<plugins, registrations>>
      BY <2>0, <2>4 DEF Call, Dispatches
    <3>2. hook.at \in Nat /\ hook.ran \in Seq(Nat) /\ next \in Nat
      BY <2>0, <3>1 DEF Dispatches
    <3> HIDE DEF next
    <3>3. /\ ran \in Seq(Nat) /\ next \in Range(ran) /\ Range(hook.ran) \subseteq Range(ran)
      <4>1. /\ ran \in Seq(Nat) /\ Len(ran) = Len(hook.ran) + 1 /\ ran[Len(hook.ran) + 1] = next
            /\ \A i \in 1 .. Len(hook.ran) : ran[i] = hook.ran[i]
        BY <3>2, AppendProperties
      <4> HIDE DEF ran
      <4>2. /\ Range(ran) = {ran[i] : i \in 1 .. Len(ran)}
            /\ Range(hook.ran) = {hook.ran[i] : i \in 1 .. Len(hook.ran)}
        BY <3>2, <4>1, RangeEquality
      <4>3. Len(hook.ran) \in Nat
        BY <3>2
      <4> QED
        BY <4>1, <4>2, <4>3
    <3> HIDE DEF ran
    <3>4. /\ on \in Dispatches /\ on.at = hook.at + 1 /\ on.kind = hook.kind
          /\ on.began = hook.began /\ on.removed = hook.removed
      <4>1. hook.at + 1 \in Nat
        BY <3>2
      <4> QED
        BY <2>0, <4>1 DEF Dispatches
    <3> HIDE DEF on
    <3>5. /\ here \in Dispatches /\ here.at = hook.at + 1 /\ here.kind = hook.kind
          /\ here.began = hook.began /\ here.removed = hook.removed
      BY <3>4 DEF Dispatches
    <3> HIDE DEF here
    <3>6. /\ new \in Dispatches /\ new.at = hook.at + 1 /\ new.kind = hook.kind
          /\ new.began = hook.began /\ new.removed = hook.removed /\ new.ran = ran
      BY <3>3, <3>5 DEF Dispatches
    <3> HIDE DEF new
    <3>7. RunsTheList => RunsTheList'
      <4> SUFFICES ASSUME RunsTheList
                   PROVE  RunsTheList'
        OBVIOUS
      <4>1. ASSUME NEW i \in 1 .. hook.at + 1
            PROVE  plugins[i] \in Range(ran)
        <5>1. CASE i = hook.at + 1
          BY <3>3, <5>1 DEF next
        <5>2. CASE i # hook.at + 1
          <6>1. i \in 1 .. hook.at
            BY <3>2, <5>2
          <6> QED
            BY <3>3, <6>1 DEF RunsTheList
        <5> QED
          BY <5>1, <5>2
      <4> QED
        BY <2>0, <3>1, <3>2, <3>6, <4>1 DEF RunsTheList
    <3> QED
      BY <2>0, <3>1, <3>6, <3>7 DEF PluginInv
  <2>5. CASE CallReturns
    <3>1. PICK alive \in {TRUE, hook.kind # "pipeline"} :
            hook' = [hook EXCEPT !.here = FALSE, !.alive = alive]
      BY <2>5 DEF CallReturns
    <3> DEFINE back == [hook EXCEPT !.here = FALSE]
               new == [back EXCEPT !.alive = alive]
    <3>2. hook' = new /\ UNCHANGED <<plugins, registrations>>
      BY <2>0, <2>5, <3>1 DEF CallReturns, Dispatches
    <3>3. /\ back \in Dispatches /\ back.at = hook.at /\ back.kind = hook.kind
          /\ back.began = hook.began /\ back.removed = hook.removed /\ back.ran = hook.ran
      BY <2>0 DEF Dispatches
    <3> HIDE DEF back
    <3>4. /\ new \in Dispatches /\ new.at = hook.at /\ new.kind = hook.kind
          /\ new.began = hook.began /\ new.removed = hook.removed /\ new.ran = hook.ran
      BY <3>1, <3>3 DEF Dispatches
    <3> HIDE DEF new
    <3> QED
      BY <2>0, <3>2, <3>4 DEF PluginInv, RunsTheList
  <2>6. CASE hook' = NoHook /\ UNCHANGED <<plugins, registrations>>
    BY <2>0, <2>6 DEF PluginInv, Dispatches, NoHook
  <2>7. CASE UNCHANGED pluginVars
    BY <2>7 DEF pluginVars, PluginInv, RunsTheList
  <2> QED
    BY <2>1, <2>2, <2>3, <2>4, <2>5, <2>6, <2>7 DEF PluginNext, CallRaises, DispatchEnds
<1> QED
  BY <1>1, <1>2, PTL DEF PluginSpec

(***************************************************************************)
(* A dispatch skips nobody, unless somebody was unregistered meanwhile.    *)
(***************************************************************************)
THEOREM SkipsNobody == PluginSpec => NobodySkipped
<1>1. ASSUME PluginInv
      PROVE  DispatchEnds /\ hook.alive /\ ~hook.removed => hook.began \subseteq Range(hook.ran)
  <2> SUFFICES ASSUME DispatchEnds, hook.alive, ~hook.removed
               PROVE  hook.began \subseteq Range(hook.ran)
    OBVIOUS
  <2>1. RunsTheList /\ hook.at >= Len(plugins)
    BY <1>1 DEF PluginInv, DispatchEnds
  <2>2. plugins \in Seq(Nat) /\ hook.at \in Nat
    BY <1>1 DEF PluginInv, Dispatches
  <2>3. Range(plugins) \subseteq Range(hook.ran)
    BY <2>1, <2>2 DEF RunsTheList, Range
  <2> QED
    BY <2>1, <2>3 DEF RunsTheList
<1> QED
  BY <1>1, PluginInvariance, PTL DEF NobodySkipped

(***************************************************************************)
(* The token bucket                                                        *)
(***************************************************************************)

\* Arithmetic of products.
LEMMA Distributes ==
  ASSUME NEW x \in Int, NEW y \in Int, NEW z \in Int
  PROVE  (x + y) * z = x * z + y * z
  BY Z3

\* A product of natural numbers is one.
LEMMA ProductNat ==
  ASSUME NEW x \in Nat, NEW z \in Nat
  PROVE  x * z \in Nat
  BY Z3

\* What an interval refills is the sum of what its two parts refill.
LEMMA RefillAdds ==
  ASSUME NEW a \in Nat, NEW b \in Nat, NEW c \in Nat, a <= b, b <= c
  PROVE  /\ (c - a) * Rate = (c - b) * Rate + (b - a) * Rate
         /\ (c - b) * Rate \in Nat /\ (b - a) * Rate \in Nat
<1>1. c - b \in Nat /\ b - a \in Nat /\ c - a = (c - b) + (b - a)
  OBVIOUS
<1>2. Rate \in Nat
  BY BucketAssumption
<1>3. ((c - b) + (b - a)) * Rate = (c - b) * Rate + (b - a) * Rate
  BY <1>1, <1>2, Distributes
<1>4. (c - b) * Rate \in Nat /\ (b - a) * Rate \in Nat
  BY <1>1, <1>2, ProductNat
<1> QED
  BY <1>1, <1>3, <1>4

(***************************************************************************)
(* What the bucket holds is bounded on both sides by the history: since    *)
(* any admitted request, all that came in is a full bucket and the refill, *)
(* and since the last one nothing was spent.                               *)
(***************************************************************************)
Spent(i) == (Len(admitted) - i + 1) * Part

LimiterInv ==
  /\ BucketTypeOK
  /\ \A i \in 1 .. Len(admitted) : admitted[i] <= last
  /\ \A i \in 1 .. Len(admitted) :
       Spent(i) + bucket <= Capacity + (last - admitted[i]) * Rate
  /\ admitted = <<>> => bucket = Capacity
  /\ admitted # <<>> =>
       bucket >= Capacity \/ bucket >= (last - admitted[Len(admitted)]) * Rate
  /\ RateBounded

\* The refill since the last look, capped.
LEMMA RefilledIs ==
  ASSUME BucketTypeOK
  PROVE  /\ Capacity \in Nat
         /\ (time - last) * Rate \in Nat
         /\ Refilled(time) \in 0 .. Capacity
         /\ Refilled(time) <= bucket + (time - last) * Rate
         /\ Refilled(time) = Capacity \/ Refilled(time) = bucket + (time - last) * Rate
<1>1. Capacity \in Nat
  BY BucketAssumption DEF Capacity
<1>2. (time - last) * Rate \in Nat
  BY RefillAdds DEF BucketTypeOK
<1>3. bucket \in Nat /\ bucket <= Capacity
  BY <1>1 DEF BucketTypeOK
<1> DEFINE refill == (time - last) * Rate
<1> HIDE DEF refill
<1> QED
  BY <1>1, <1>2, <1>3 DEF Refilled, refill

\* Part tokens more are spent on one more request.
LEMMA SpentMore ==
  ASSUME NEW n \in Nat, NEW i \in 1 .. n
  PROVE  /\ ((n + 1) - i + 1) * Part = (n - i + 1) * Part + Part
         /\ (n - i + 1) * Part \in Nat
<1>1. n - i + 1 \in Nat /\ (n + 1) - i + 1 = (n - i + 1) + 1 /\ Part \in Nat
  BY BucketAssumption
<1>2. ((n - i + 1) + 1) * Part = (n - i + 1) * Part + 1 * Part
  BY <1>1, Distributes
<1>3. (n - i + 1) * Part \in Nat
  BY <1>1, ProductNat
<1> QED
  BY <1>1, <1>2, <1>3

\* A full bucket owes nothing.
LEMMA InitLimiterInv == LimiterInit => LimiterInv
<1> SUFFICES ASSUME LimiterInit
             PROVE  LimiterInv
  OBVIOUS
<1>1. Capacity \in Nat
  BY BucketAssumption, ProductNat DEF Capacity
<1>2. admitted = <<>> /\ Len(admitted) = 0
  BY DEF LimiterInit, BucketInit
<1> QED
  BY <1>1, <1>2 DEF LimiterInit, BucketInit, LimiterInv, BucketTypeOK, RateBounded

\* An admitted request takes a token, and is added to the history.
LEMMA AdmittedInv ==
  ASSUME LimiterInv, Consume(time, TRUE), time' = time
  PROVE  LimiterInv'
<1> DEFINE n == Len(admitted)
<1>1. /\ Capacity \in Nat /\ (time - last) * Rate \in Nat
      /\ Refilled(time) \in 0 .. Capacity
      /\ Refilled(time) <= bucket + (time - last) * Rate
  BY RefilledIs DEF LimiterInv
<1>2. /\ time \in Nat /\ last \in Nat /\ last <= time /\ admitted \in Seq(Nat) /\ n \in Nat
      /\ bucket \in Nat
  BY <1>1 DEF LimiterInv, BucketTypeOK
<1>0. Capacity \in Nat /\ Refilled(time) \in Nat
  BY <1>1
<1>3. /\ Refilled(time) >= Part /\ last' = time /\ bucket' = Refilled(time) - Part
      /\ admitted' = Append(admitted, time)
  BY DEF Consume
<1>4. /\ admitted' \in Seq(Nat) /\ Len(admitted') = n + 1 /\ admitted'[n + 1] = time
      /\ \A i \in 1 .. n : admitted'[i] = admitted[i]
  BY <1>2, <1>3
<1>5. Part \in Nat /\ bucket' \in 0 .. Capacity
  BY <1>1, <1>3, BucketAssumption
<1>6. 0 * Rate = 0 /\ 1 * Part = Part
  BY BucketAssumption
<1>7. ASSUME NEW i \in 1 .. n
      PROVE  /\ admitted[i] \in Nat /\ admitted[i] <= last
             /\ ((n + 1) - i + 1) * Part + bucket' <= Capacity + (time - admitted[i]) * Rate
             /\ ((n + 1) - i + 1) * Part \in Nat
             /\ (time - admitted[i]) * Rate \in Nat
  <2>1. admitted[i] \in Nat /\ admitted[i] <= last
    BY <1>2 DEF LimiterInv
  <2>2. (n - i + 1) * Part + bucket <= Capacity + (last - admitted[i]) * Rate
    BY DEF LimiterInv, Spent
  <2>3. /\ (time - admitted[i]) * Rate = (time - last) * Rate + (last - admitted[i]) * Rate
        /\ (last - admitted[i]) * Rate \in Nat
    BY <1>2, <2>1, RefillAdds
  <2>4. /\ ((n + 1) - i + 1) * Part = (n - i + 1) * Part + Part
        /\ (n - i + 1) * Part \in Nat
    BY <1>2, SpentMore
  <2> DEFINE u == (time - last) * Rate
             v == (last - admitted[i]) * Rate
             w == (n - i + 1) * Part
  <2>5. u \in Nat /\ v \in Nat /\ w \in Nat /\ w + bucket <= Capacity + v /\ Refilled(time) <= bucket + u
    BY <1>1, <2>2, <2>3, <2>4
  <2>6. (time - admitted[i]) * Rate = u + v /\ ((n + 1) - i + 1) * Part = w + Part
    BY <2>3, <2>4
  <2> HIDE DEF u, v, w
  <2>7. w + Part + (Refilled(time) - Part) <= Capacity + (u + v) /\ w + Part \in Nat /\ u + v \in Nat
    BY <1>0, <1>2, <1>5, <2>5
  <2> QED
    BY <1>3, <2>1, <2>6, <2>7
<1>8. ASSUME NEW i \in 1 .. n + 1
      PROVE  /\ admitted'[i] \in Nat /\ admitted'[i] <= time
             /\ ((n + 1) - i + 1) * Part + bucket' <= Capacity + (time - admitted'[i]) * Rate
             /\ ((n + 1) - i + 1) * Part <= Capacity + (time - admitted'[i]) * Rate
  <2>1. CASE i \in 1 .. n
    <3> DEFINE w == ((n + 1) - i + 1) * Part
               u == (time - admitted[i]) * Rate
    <3>1. admitted'[i] = admitted[i] /\ admitted[i] \in Nat /\ admitted[i] <= time
      <4>1. admitted[i] \in Nat /\ admitted[i] <= last
        BY <1>7, <2>1
      <4> QED
        BY <1>2, <1>4, <2>1, <4>1
    <3>2. w + bucket' <= Capacity + u /\ w \in Nat /\ u \in Nat
      BY <1>7, <2>1
    <3> HIDE DEF w, u
    <3>3. bucket' \in Nat /\ Capacity + u \in Nat
      BY <1>0, <1>5, <3>2
    <3>4. w <= Capacity + u
      BY <3>2, <3>3
    <3> QED
      BY <3>1, <3>2, <3>4 DEF w, u
  <2>2. CASE i = n + 1
    <3>1. (n + 1) - i + 1 = 1 /\ admitted'[i] = time /\ time - admitted'[i] = 0
      BY <1>2, <1>4, <2>2
    <3>2. Part + bucket' <= Capacity + 0 /\ Part <= Capacity + 0
      BY <1>1, <1>3, <1>5
    <3> QED
      BY <1>2, <1>6, <3>1, <3>2
  <2> QED
    BY <1>2, <2>1, <2>2
<1>9. RateBounded'
  <2>1. ASSUME NEW i \in 1 .. n + 1, NEW j \in 1 .. n + 1, i <= j
        PROVE  (j - i + 1) * Part <= Capacity + (admitted'[j] - admitted'[i]) * Rate
    <3>1. CASE j = n + 1
      BY <1>4, <1>8, <3>1
    <3>2. CASE j # n + 1
      <4>1. i \in 1 .. n /\ j \in 1 .. n
        BY <1>2, <2>1, <3>2
      <4>2. (j - i + 1) * Part <= Capacity + (admitted[j] - admitted[i]) * Rate
        BY <2>1, <4>1 DEF LimiterInv, RateBounded
      <4> QED
        BY <1>4, <4>1, <4>2
    <3> QED
      BY <3>1, <3>2
  <2> QED
    BY <1>4, <2>1 DEF RateBounded, Capacity
<1>10. BucketTypeOK'
  BY <1>2, <1>3, <1>4, <1>5 DEF BucketTypeOK, Capacity
<1>11. \A i \in 1 .. Len(admitted') :
         /\ admitted'[i] <= last'
         /\ (Len(admitted') - i + 1) * Part + bucket' <= Capacity + (last' - admitted'[i]) * Rate
  BY <1>3, <1>4, <1>8
<1>12. admitted' # <<>> /\ bucket' >= (last' - admitted'[Len(admitted')]) * Rate
  <2>1. last' - admitted'[Len(admitted')] = 0
    BY <1>2, <1>3, <1>4
  <2>2. admitted' # <<>>
    BY <1>2, <1>3
  <2> QED
    BY <1>1, <1>5, <1>6, <2>1, <2>2
<1> QED
  BY <1>9, <1>10, <1>11, <1>12 DEF LimiterInv, Spent, Capacity

\* A refused request only fills the bucket up.
LEMMA RefusedInv ==
  ASSUME LimiterInv, Consume(time, FALSE), time' = time
  PROVE  LimiterInv'
<1> DEFINE n == Len(admitted)
           u == (time - last) * Rate
<1>1. /\ Capacity \in Nat /\ u \in Nat
      /\ Refilled(time) \in 0 .. Capacity
      /\ Refilled(time) <= bucket + u
      /\ Refilled(time) = Capacity \/ Refilled(time) = bucket + u
  BY RefilledIs DEF LimiterInv
<1>2. /\ time \in Nat /\ last \in Nat /\ last <= time /\ admitted \in Seq(Nat) /\ n \in Nat
      /\ bucket \in Nat
  BY <1>1 DEF LimiterInv, BucketTypeOK
<1>3. last' = time /\ bucket' = Refilled(time) /\ admitted' = admitted
  BY DEF Consume
<1>4. ASSUME NEW i \in 1 .. n
      PROVE  /\ admitted[i] \in Nat /\ admitted[i] <= time
             /\ (time - admitted[i]) * Rate = u + (last - admitted[i]) * Rate
             /\ (last - admitted[i]) * Rate \in Nat
  <2>1. admitted[i] \in Nat /\ admitted[i] <= last
    BY <1>2 DEF LimiterInv
  <2>2. admitted[i] <= time
    BY <1>2, <2>1
  <2>3. /\ (time - admitted[i]) * Rate = (time - last) * Rate + (last - admitted[i]) * Rate
        /\ (last - admitted[i]) * Rate \in Nat
    BY <1>2, <2>1, RefillAdds
  <2> QED
    BY <2>1, <2>2, <2>3
<1>5. ASSUME NEW i \in 1 .. n
      PROVE  Spent(i) + bucket' <= Capacity + (time - admitted[i]) * Rate
  <2> DEFINE v == (last - admitted[i]) * Rate
  <2>1. Spent(i) + bucket <= Capacity + v
    BY DEF LimiterInv
  <2>2. Spent(i) \in Nat
    BY <1>2, SpentMore DEF Spent
  <2>3. v \in Nat /\ (time - admitted[i]) * Rate = u + v
    BY <1>4
  <2> HIDE DEF u, v
  <2>4. Spent(i) + bucket' <= Capacity + (u + v)
    BY <1>1, <1>2, <1>3, <2>1, <2>2, <2>3
  <2> QED
    BY <2>3, <2>4
<1>6. ASSUME admitted # <<>>
      PROVE  bucket' >= Capacity \/ bucket' >= (time - admitted[n]) * Rate
  <2> DEFINE v == (last - admitted[n]) * Rate
  <2>1. n \in 1 .. n
    BY <1>2, <1>6
  <2>2. v \in Nat /\ (time - admitted[n]) * Rate = u + v
    BY <1>4, <2>1
  <2>3. bucket >= Capacity \/ bucket >= v
    BY <1>6 DEF LimiterInv
  <2> HIDE DEF u, v
  <2>4. bucket' >= Capacity \/ bucket' >= u + v
    BY <1>1, <1>2, <1>3, <2>2, <2>3
  <2> QED
    BY <2>2, <2>4
<1>7. BucketTypeOK'
  BY <1>1, <1>2, <1>3 DEF BucketTypeOK, Capacity
<1>8. RateBounded'
  BY <1>3 DEF LimiterInv, RateBounded, Capacity
<1>9. admitted' = <<>> => bucket' = Capacity
  <2>1. SUFFICES ASSUME admitted = <<>>
                 PROVE  bucket' = Capacity
    BY <1>3
  <2>2. bucket = Capacity
    BY <2>1 DEF LimiterInv
  <2> HIDE DEF u
  <2> QED
    BY <1>1, <1>3, <2>2
<1>10. \A i \in 1 .. n : admitted'[i] <= last'
  BY <1>3, <1>4
<1> HIDE DEF u
<1> QED
  BY <1>3, <1>5, <1>6, <1>7, <1>8, <1>9, <1>10 DEF LimiterInv, Spent, Capacity

\* Time passing changes neither bucket nor history.
LEMMA NextLimiterInv == LimiterInv /\ [LimiterNext]_limiterVars => LimiterInv'
<1> SUFFICES ASSUME LimiterInv, [LimiterNext]_limiterVars
             PROVE  LimiterInv'
  OBVIOUS
<1>1. CASE Wait
  BY <1>1 DEF Wait, bucketVars, LimiterInv, BucketTypeOK, RateBounded, Spent, Capacity
<1>2. CASE Request
  BY <1>2, AdmittedInv, RefusedInv DEF Request
<1>3. CASE UNCHANGED limiterVars
  BY <1>3 DEF limiterVars, bucketVars, LimiterInv, BucketTypeOK, RateBounded, Spent, Capacity
<1> QED
  BY <1>1, <1>2, <1>3 DEF LimiterNext

\* At every moment the history bounds what the bucket holds, from above and from below.
THEOREM LimiterInvariance == LimiterSpec => []LimiterInv
<1> QED
  BY InitLimiterInv, NextLimiterInv, PTL DEF LimiterSpec

\* Types; the bucket is never overdrawn nor overfull.
THEOREM LimiterTypeCorrect == LimiterSpec => []BucketTypeOK
<1>1. LimiterInv => BucketTypeOK
  BY DEF LimiterInv
<1> QED
  BY <1>1, LimiterInvariance, PTL

(* Between any two admitted requests there are at most max_tokens and what *)
(* the time between them refilled (TokenBucket.consume).                   *)
THEOREM BoundsTheRate == LimiterSpec => []RateBounded
<1>1. LimiterInv => RateBounded
  BY DEF LimiterInv
<1> QED
  BY <1>1, LimiterInvariance, PTL

(* However many requests were refused, the next is admitted as soon as one *)
(* token was refilled since the last that was.                             *)
THEOREM RefusesForFree == LimiterSpec => []RefusalIsFree
<1>1. LimiterInv => RefusalIsFree
  <2> SUFFICES ASSUME LimiterInv, admitted # <<>>, Burst >= 1,
                      (time - admitted[Len(admitted)]) * Rate >= Part
               PROVE  Refilled(time) >= Part
    BY DEF RefusalIsFree
  <2> DEFINE n == Len(admitted)
             u == (time - last) * Rate
             v == (last - admitted[n]) * Rate
  <2>1. /\ Capacity \in Nat /\ u \in Nat /\ Refilled(time) \in 0 .. Capacity
        /\ Refilled(time) = Capacity \/ Refilled(time) = bucket + u
    BY RefilledIs DEF LimiterInv
  <2>2. /\ time \in Nat /\ last \in Nat /\ last <= time /\ admitted \in Seq(Nat)
        /\ n \in 1 .. n /\ bucket \in Nat /\ Part \in Nat /\ Burst \in Nat
    BY <2>1, BucketAssumption DEF LimiterInv, BucketTypeOK
  <2>3. admitted[n] \in Nat /\ admitted[n] <= last
    BY <2>2 DEF LimiterInv
  <2>4. (time - admitted[n]) * Rate = u + v /\ v \in Nat
    BY <2>2, <2>3, RefillAdds
  <2>5. bucket >= Capacity \/ bucket >= v
    BY DEF LimiterInv
  <2>6. Capacity >= Part
    <3>1. Burst - 1 \in Nat /\ Burst = (Burst - 1) + 1
      BY <2>2
    <3>2. ((Burst - 1) + 1) * Part = (Burst - 1) * Part + 1 * Part
      BY <2>2, <3>1, Distributes
    <3>3. (Burst - 1) * Part \in Nat
      BY <2>2, <3>1, ProductNat
    <3> QED
      BY <2>2, <3>1, <3>2, <3>3 DEF Capacity
  <2>7. u + v >= Part
    BY <2>4
  <2> HIDE DEF u, v
  <2> QED
    BY <2>1, <2>2, <2>4, <2>5, <2>6, <2>7
<1> QED
  BY <1>1, LimiterInvariance, PTL


(***************************************************************************)
(* The places of the event streams                                         *)
(***************************************************************************)

Streaming == {c \in Connections : stage[c] \in {"connected", "subscribed"}}

(***************************************************************************)
(* The strengthening: unless a request was admitted while another had not  *)
(* started, at most one has not, and its place is still free.              *)
(***************************************************************************)
SseInv ==
  /\ stage \in [Connections -> {"none", "admitted", "connected", "subscribed", "closed"}]
  /\ overlapped \in BOOLEAN
  /\ activeSse = Streaming /\ IsFiniteSet(activeSse)
  /\ ~overlapped =>
       /\ Cardinality(activeSse) <= MaxConnections
       /\ \A c \in Starting : Starting = {c} /\ Cardinality(activeSse) < MaxConnections

\* Unless two admissions overlapped, one request at a time is between the check and its place.
THEOREM SseInvariance == SseSpec => []SseInv
<1>1. SseInit => SseInv
  <2> SUFFICES ASSUME SseInit
               PROVE  SseInv
    OBVIOUS
  <2>1. activeSse = {} /\ Streaming = {} /\ Starting = {}
    BY DEF SseInit, Streaming, Starting
  <2>2. IsFiniteSet({}) /\ Cardinality({}) = 0
    BY FS_EmptySet
  <2>3. IsFiniteSet(activeSse) /\ Cardinality(activeSse) <= MaxConnections
    BY <2>1, <2>2, SseAssumption
  <2>4. stage \in [Connections -> {"none", "admitted", "connected", "subscribed", "closed"}]
    BY DEF SseInit
  <2> QED
    BY <2>1, <2>3, <2>4 DEF SseInit, SseInv
<1>2. SseInv /\ [SseNext]_sseVars => SseInv'
  <2> SUFFICES ASSUME SseInv, [SseNext]_sseVars
               PROVE  SseInv'
    OBVIOUS
  <2> DEFINE n == Cardinality(activeSse)
  <2>0. activeSse = Streaming /\ IsFiniteSet(activeSse) /\ n \in Nat /\ MaxConnections \in Nat
    BY FS_CardinalityType, SseAssumption DEF SseInv
  <2>1. ASSUME NEW c \in Connections, Admit(c)
        PROVE  SseInv'
    <3>1. Streaming' = Streaming /\ Starting' = Starting \cup {c}
      BY <2>1 DEF Admit, SseInv, Streaming, Starting
    <3>2. n < MaxConnections
      BY <2>0, <2>1 DEF Admit, Room
    <3>3. ~overlapped' => Starting' = {c}
      BY <2>1, <3>1 DEF Admit
    <3> QED
      BY <2>0, <2>1, <3>1, <3>2, <3>3 DEF Admit, SseInv
  <2>2. ASSUME NEW c \in Connections, NeverStarts(c)
        PROVE  SseInv'
    <3>1. Streaming' = Streaming /\ Starting' = Starting \ {c} /\ c \in Starting
      BY <2>2 DEF NeverStarts, SseInv, Streaming, Starting
    <3> QED
      BY <2>0, <2>2, <3>1 DEF NeverStarts, SseInv
  <2>3. ASSUME NEW c \in Connections, Connected(c)
        PROVE  SseInv'
    <3>1. /\ Streaming' = Streaming \cup {c} /\ Starting' = Starting \ {c} /\ c \in Starting
          /\ c \notin Streaming
      BY <2>3 DEF Connected, SseInv, Streaming, Starting
    <3>2. IsFiniteSet(activeSse') /\ Cardinality(activeSse') = n + 1
      BY <2>0, <2>3, <3>1, FS_AddElement DEF Connected
    <3>3. ~overlapped' => Starting' = {} /\ n < MaxConnections
      BY <2>3, <3>1 DEF Connected, SseInv
    <3> QED
      BY <2>0, <2>3, <3>1, <3>2, <3>3 DEF Connected, SseInv
  <2>4. ASSUME NEW c \in Connections, SubscribeSse(c)
        PROVE  SseInv'
    <3>1. Streaming' = Streaming /\ Starting' = Starting
      BY <2>4 DEF SubscribeSse, SseInv, Streaming, Starting
    <3> QED
      BY <2>0, <2>4, <3>1 DEF SubscribeSse, SseInv
  <2>5. ASSUME NEW c \in Connections, Disconnect(c)
        PROVE  SseInv'
    <3>1. Streaming' = Streaming \ {c} /\ Starting' = Starting /\ c \in Streaming
      BY <2>5 DEF Disconnect, SseInv, Streaming, Starting
    <3>2. IsFiniteSet(activeSse') /\ Cardinality(activeSse') = n - 1
      BY <2>0, <2>5, <3>1, FS_RemoveElement DEF Disconnect
    <3>3. activeSse' = Streaming' /\ Cardinality(activeSse') < n
      BY <2>0, <2>5, <3>1, <3>2 DEF Disconnect
    <3>4. /\ Cardinality(activeSse') \in Nat
          /\ n <= MaxConnections => Cardinality(activeSse') <= MaxConnections
          /\ n < MaxConnections => Cardinality(activeSse') < MaxConnections
      BY <2>0, <3>2, <3>3, FS_CardinalityType
    <3>5. stage' \in [Connections -> {"none", "admitted", "connected", "subscribed", "closed"}]
      BY <2>5 DEF Disconnect, SseInv
    <3> QED
      BY <2>5, <3>1, <3>2, <3>3, <3>4, <3>5 DEF Disconnect, SseInv
  <2>6. CASE UNCHANGED sseVars
    BY <2>6 DEF sseVars, SseInv, Streaming, Starting
  <2> QED
    BY <2>1, <2>2, <2>3, <2>4, <2>5, <2>6 DEF SseNext
<1> QED
  BY <1>1, <1>2, PTL DEF SseSpec

(***************************************************************************)
(* _active_sse names exactly the streams that are open, and holds at most  *)
(* _MAX_SSE_CONNECTIONS of them unless a request was admitted before an    *)
(* earlier one had started (router.py, the /roar/events endpoint).         *)
(***************************************************************************)
THEOREM BoundsStreams == SseSpec => []PlacesBounded
<1>1. SseInv => PlacesBounded
  BY DEF SseInv, PlacesBounded, Streaming
<1> QED
  BY <1>1, SseInvariance, PTL


(***************************************************************************)
(* The counters in Redis                                                   *)
(***************************************************************************)

RateRequests ==
  [at : {"unsent", "clock", "minute", "hour", "decide", "running", "passed", "again", "answered",
         "refused", "raised"},
   minute : 0 .. LastTick, hour : 0 .. LastTick, minuteCount : Nat, hourCount : Nat,
   inMinute : BOOLEAN, inHour : BOOLEAN, runs : Nat]

Counters == [n : Nat, until : Nat]

RateTypeOK ==
  /\ now \in 0 .. LastTick
  /\ failOpen \in BOOLEAN
  /\ counts \in [RateKeys -> Counters]
  /\ request \in [Requests -> RateRequests]

\* No key expires before its window is over.
KeptOver(c) ==
  \A k \in RateKeys : c[k].until = Never \/ c[k].until \div Window(k) > k[2]

\* Where a request is, what it has been counted as, how often its handler ran.
Sound(r) ==
  /\ r.at \in {"unsent", "clock", "minute"} => r.minuteCount = 0 /\ ~r.inMinute
  /\ r.at \in {"unsent", "clock", "minute", "hour"} => r.hourCount = 0 /\ ~r.inHour
  /\ r.at \in {"hour", "decide"} => r.minuteCount # 0
  /\ r.at = "decide" => r.hourCount # 0
  /\ r.at \in {"unsent", "clock", "minute", "hour", "decide"} => r.runs = 0
  /\ r.at = "running" => r.runs = 1
  /\ r.at = "passed" => failOpen /\ r.runs <= 1
  /\ r.runs <= IF failOpen THEN 2 ELSE 1
  /\ r.runs > 0 /\ ~failOpen =>
       r.minuteCount \in 1 .. PerMinute /\ r.hourCount \in 1 .. PerHour

\* The windows of a request have begun.
Begun(r) == r.minute <= now \div Minute /\ r.hour <= now \div Hour

\* As long as a window lasts its counter is at least at what it gave a request.
Covered(r, c) ==
  /\ r.inMinute /\ now \div Minute = r.minute => r.minuteCount <= c[<<"m", r.minute>>].n
  /\ r.inHour /\ now \div Hour = r.hour => r.hourCount <= c[<<"h", r.hour>>].n

\* Two requests that a window counted while it lasted have different counts.
Apart(r, s) ==
  /\ r.inMinute /\ s.inMinute /\ r.minute = s.minute => r.minuteCount # s.minuteCount
  /\ r.inHour /\ s.inHour /\ r.hour = s.hour => r.hourCount # s.hourCount

(***************************************************************************)
(* The strengthening: no counter goes before its window is over, so that   *)
(* INCR gives every request that is counted in its own window a count of   *)
(* its own, and who runs while the limiter fails closed has two within the *)
(* limits.                                                                 *)
(***************************************************************************)
RateInv ==
  /\ RateTypeOK
  /\ KeptOver(counts)
  /\ \A q \in Requests : Sound(request[q]) /\ Begun(request[q]) /\ Covered(request[q], counts)
  /\ \A q, p \in Requests : q # p => Apart(request[q], request[p])

\* What one step of a request may do to it and to the counters.
LEMMA RequestStep ==
  ASSUME RateInv, UNCHANGED <<now, failOpen>>, NEW q \in Requests, NEW r \in RateRequests,
         request' = [request EXCEPT ![q] = r],
         counts' \in [RateKeys -> Counters], KeptOver(counts'),
         \A k \in RateKeys : now \div Window(k) = k[2] => counts[k].n <= counts'[k].n,
         Sound(r), Begun(r), Covered(r, counts'),
         \A p \in Requests \ {q} : Apart(r, request[p])
  PROVE  RateInv'
<1>1. RateTypeOK'
  BY DEF RateInv, RateTypeOK
<1>2. request'[q] = r /\ \A p \in Requests \ {q} : request'[p] = request[p]
  BY DEF RateInv, RateTypeOK
<1>3. ASSUME NEW p \in Requests
      PROVE  Sound(request[p])' /\ Begun(request[p])' /\ Covered(request[p], counts)'
  <2>1. CASE p = q
    BY <1>2, <2>1 DEF Sound, Begun, Covered
  <2>2. CASE p # q
    <3>1. request'[p] = request[p] /\ request[p] \in RateRequests
      BY <1>2, <2>2 DEF RateInv, RateTypeOK
    <3>2. Sound(request[p]) /\ Begun(request[p]) /\ Covered(request[p], counts)
      BY DEF RateInv
    <3> DEFINE m == <<"m", request[p].minute>>
               h == <<"h", request[p].hour>>
    <3>3. /\ m \in RateKeys /\ m[2] = request[p].minute /\ Window(m) = Minute
          /\ h \in RateKeys /\ h[2] = request[p].hour /\ Window(h) = Hour
      BY <3>1 DEF RateKeys, RateRequests, Window
    <3>4. /\ now \div Minute = request[p].minute => counts[m].n <= counts'[m].n
          /\ now \div Hour = request[p].hour => counts[h].n <= counts'[h].n
      BY <3>3
    <3>5. /\ counts[m].n \in Nat /\ counts'[m].n \in Nat
          /\ counts[h].n \in Nat /\ counts'[h].n \in Nat
          /\ request[p].minuteCount \in Nat /\ request[p].hourCount \in Nat
      BY <3>1, <3>3 DEF RateInv, RateTypeOK, Counters, RateRequests
    <3>6. Covered(request[p], counts')
      BY <3>2, <3>4, <3>5 DEF Covered
    <3> QED
      BY <3>1, <3>2, <3>6 DEF Sound, Begun, Covered
  <2> QED
    BY <2>1, <2>2
<1>4. ASSUME NEW p \in Requests, NEW o \in Requests, p # o
      PROVE  Apart(request[p], request[o])'
  <2>1. CASE p = q
    BY <1>2, <1>4, <2>1 DEF Apart
  <2>2. CASE o = q
    BY <1>2, <1>4, <2>2 DEF Apart
  <2>3. CASE p # q /\ o # q
    BY <1>2, <1>4, <2>3 DEF RateInv, Apart
  <2> QED
    BY <2>1, <2>2, <2>3
<1>5. KeptOver(counts)'
  BY DEF KeptOver, Never
<1> QED
  BY <1>1, <1>3, <1>4, <1>5 DEF RateInv

\* Steps that count nothing: only where the request is, and how often it ran.
LEMMA MoveStep ==
  ASSUME RateInv, UNCHANGED <<now, failOpen, counts>>, NEW q \in Requests, NEW r \in RateRequests,
         request' = [request EXCEPT ![q] = r],
         r.minute = request[q].minute, r.hour = request[q].hour,
         r.minuteCount = request[q].minuteCount, r.hourCount = request[q].hourCount,
         r.inMinute = request[q].inMinute, r.inHour = request[q].inHour,
         Sound(r)
  PROVE  RateInv'
<1>1. counts' \in [RateKeys -> Counters] /\ KeptOver(counts')
  BY DEF RateInv, RateTypeOK
<1>2. \A k \in RateKeys : counts[k].n <= counts'[k].n
  BY DEF RateInv, RateTypeOK, Counters
<1>3. Begun(r) /\ Covered(r, counts')
  BY DEF RateInv, Begun, Covered
<1>4. \A p \in Requests \ {q} : Apart(r, request[p])
  BY DEF RateInv, Apart
<1> QED
  BY <1>1, <1>2, <1>3, <1>4, RequestStep

\* The commands on the key of a window that has begun.
LEMMA ExecuteKeeps ==
  ASSUME RateInv, NEW k \in RateKeys, k[2] <= now \div Window(k),
         NEW incr \in BOOLEAN, NEW expire \in BOOLEAN, RunPipeline(k, incr, expire)
  PROVE  /\ counts' \in [RateKeys -> Counters]
         /\ KeptOver(counts')
         /\ Count(k) \in Nat
         /\ now \div Window(k) = k[2] => Count(k) = counts[k].n
         /\ \A j \in RateKeys : now \div Window(j) = j[2] => counts[j].n <= counts'[j].n
         /\ incr => counts'[k].n = Count(k) + 1
<1> DEFINE w == Window(k)
           n == Count(k) + IF incr THEN 1 ELSE 0
           until == IF expire /\ n > 0 THEN now + w
                    ELSE IF Count(k) = 0 THEN Never ELSE counts[k].until
           c == [n |-> n, until |-> until]
<1>1. w \in Nat \ {0} /\ now \in Nat /\ now <= LastTick /\ LastTick \in Nat /\ k[2] \in Nat
  BY RateAssumption, ClockAssumption DEF RateInv, RateTypeOK, RateKeys, Window
<1>2. counts[k] \in Counters /\ counts[k].n \in Nat /\ counts[k].until \in Nat
  BY DEF RateInv, RateTypeOK, Counters
<1>3. Count(k) \in Nat /\ (Count(k) = counts[k].n \/ Count(k) = 0)
  BY <1>2 DEF Count
<1>4. ASSUME now \div w = k[2]
      PROVE  Count(k) = counts[k].n
  <2>1. SUFFICES ASSUME now >= counts[k].until
                 PROVE  FALSE
    BY DEF Count
  <2>2. counts[k].until # Never
    BY <1>1, <2>1 DEF Never
  <2>3. counts[k].until \div w > k[2]
    BY <2>2 DEF RateInv, KeptOver
  <2>4. counts[k].until \div w <= now \div w /\ counts[k].until \div w \in Nat
    <3> HIDE DEF w
    <3> QED
      BY <1>1, <1>2, <2>1
  <2> QED
    BY <1>1, <1>4, <2>3, <2>4
<1>5. n \in Nat /\ (incr => n = Count(k) + 1) /\ Count(k) <= n
  BY <1>3
<1>6. until \in Nat /\ (until = Never \/ until \div w > k[2])
  <2>1. (now + w) \div w = now \div w + 1 /\ now \div w \in Nat
    <3> HIDE DEF w
    <3> QED
      BY <1>1
  <2>2. (now + w) \div w > k[2] /\ now + w \in Nat
    BY <1>1, <2>1
  <2>3. counts[k].until = Never \/ counts[k].until \div w > k[2]
    BY DEF RateInv, KeptOver
  <2>4. Never \in Nat
    BY <1>1 DEF Never
  <2>5. until = now + w \/ until = Never \/ until = counts[k].until
    OBVIOUS
  <2> HIDE DEF until, w
  <2> QED
    BY <1>2, <2>2, <2>3, <2>4, <2>5
<1>7. counts' = [counts EXCEPT ![k] = c]
  BY Zenon DEF RunPipeline
<1>8. c \in Counters /\ c.n = n /\ c.until = until
  <2> HIDE DEF n, until
  <2> QED
    BY <1>5, <1>6 DEF Counters
<1> HIDE DEF c, n, until
<1>9. /\ counts' \in [RateKeys -> Counters] /\ counts'[k] = c
      /\ \A j \in RateKeys \ {k} : counts'[j] = counts[j]
  BY <1>7, <1>8 DEF RateInv, RateTypeOK
<1>10. KeptOver(counts')
  BY <1>6, <1>8, <1>9 DEF KeptOver, RateInv
<1>11. ASSUME NEW j \in RateKeys, now \div Window(j) = j[2]
       PROVE  counts[j].n <= counts'[j].n
  <2>1. CASE j = k
    BY <1>2, <1>3, <1>4, <1>5, <1>8, <1>9, <1>11, <2>1
  <2>2. CASE j # k
    <3>1. counts[j].n \in Nat /\ counts'[j] = counts[j]
      BY <1>9, <2>2 DEF RateInv, RateTypeOK, Counters
    <3> QED
      BY <3>1
  <2> QED
    BY <2>1, <2>2
<1> QED
  BY <1>3, <1>4, <1>5, <1>8, <1>9, <1>10, <1>11

\* A request and its keys.
LEMMA RequestIs ==
  ASSUME RateInv, NEW q \in Requests
  PROVE  /\ request[q] \in RateRequests /\ Sound(request[q]) /\ Begun(request[q])
         /\ Covered(request[q], counts)
         /\ request[q].minuteCount \in Nat /\ request[q].hourCount \in Nat
         /\ request[q].runs \in Nat
         /\ MinuteKey(q) \in RateKeys /\ HourKey(q) \in RateKeys
         /\ MinuteKey(q)[2] = request[q].minute /\ Window(MinuteKey(q)) = Minute
         /\ HourKey(q)[2] = request[q].hour /\ Window(HourKey(q)) = Hour
<1>1. request[q] \in RateRequests
  BY DEF RateInv, RateTypeOK
<1>2. /\ request[q].minute \in 0 .. LastTick /\ request[q].hour \in 0 .. LastTick
      /\ request[q].minuteCount \in Nat /\ request[q].hourCount \in Nat
      /\ request[q].runs \in Nat
  BY <1>1 DEF RateRequests
<1>3. /\ MinuteKey(q) \in RateKeys /\ HourKey(q) \in RateKeys
      /\ MinuteKey(q)[2] = request[q].minute /\ Window(MinuteKey(q)) = Minute
      /\ HourKey(q)[2] = request[q].hour /\ Window(HourKey(q)) = Hour
  BY <1>2 DEF MinuteKey, HourKey, RateKeys, Window
<1> QED
  BY <1>1, <1>2, <1>3 DEF RateInv

\* The minute of a request is counted.
LEMMA MinuteStep ==
  ASSUME RateInv, NEW q \in Requests, CheckMinute(q), UNCHANGED now
  PROVE  RateInv'
<1> DEFINE k == MinuteKey(q)
           n == Count(k) + 1
           in == now \div Minute = request[q].minute
           moved == [request[q] EXCEPT !.at = "hour"]
           counted == [moved EXCEPT !.minuteCount = n]
           r == [counted EXCEPT !.inMinute = in]
<1>1. /\ request[q].at = "minute" /\ UNCHANGED <<now, failOpen>> /\ RunPipeline(k, TRUE, TRUE)
      /\ k \in RateKeys /\ k[2] = request[q].minute /\ Window(k) = Minute
      /\ request[q] \in RateRequests /\ Sound(request[q]) /\ Begun(request[q])
      /\ Covered(request[q], counts)
  BY RequestIs DEF CheckMinute, Is
<1>2. /\ counts' \in [RateKeys -> Counters] /\ KeptOver(counts') /\ Count(k) \in Nat /\ n \in Nat
      /\ in => Count(k) = counts[k].n
      /\ \A j \in RateKeys : now \div Window(j) = j[2] => counts[j].n <= counts'[j].n
      /\ counts'[k].n = n /\ n # 0
  <2>1. k[2] <= now \div Window(k)
    BY <1>1 DEF Begun
  <2> HIDE DEF k
  <2>2. /\ counts' \in [RateKeys -> Counters] /\ KeptOver(counts') /\ Count(k) \in Nat
        /\ now \div Window(k) = k[2] => Count(k) = counts[k].n
        /\ \A j \in RateKeys : now \div Window(j) = j[2] => counts[j].n <= counts'[j].n
        /\ counts'[k].n = n
    BY <1>1, <2>1, ExecuteKeeps
  <2> QED
    BY <1>1, <2>2
<1>3. request' = [request EXCEPT ![q] = r]
  BY Zenon DEF CheckMinute, RateInv, RateTypeOK
<1> HIDE DEF n, in
<1>4. in \in BOOLEAN
  BY DEF in
<1>5. moved \in RateRequests
  BY <1>1 DEF RateRequests
<1>6. counted \in RateRequests
  <2> HIDE DEF moved
  <2> QED
    BY <1>2, <1>5 DEF RateRequests
<1>7. /\ r \in RateRequests /\ r.at = "hour" /\ r.minuteCount = n /\ r.inMinute = in
      /\ r.minute = request[q].minute /\ r.hour = request[q].hour
      /\ r.hourCount = request[q].hourCount /\ r.inHour = request[q].inHour
      /\ r.runs = request[q].runs
  BY <1>1, <1>2, <1>4, <1>6 DEF RateRequests
<1> HIDE DEF r
<1>9. Sound(r) /\ Begun(r) /\ ~r.inHour
  BY <1>1, <1>2, <1>7 DEF Sound, Begun
<1>10. Covered(r, counts')
  BY <1>2, <1>7, <1>9 DEF Covered, MinuteKey
<1>11. ASSUME NEW p \in Requests \ {q}
       PROVE  Apart(r, request[p])
  <2>1. SUFFICES ASSUME in, request[p].inMinute, request[p].minute = request[q].minute
                 PROVE  n # request[p].minuteCount
    BY <1>7, <1>9 DEF Apart
  <2>2. now \div Minute = request[p].minute
    BY <2>1 DEF in
  <2>3. request[p].minuteCount <= counts[<<"m", request[p].minute>>].n
    BY <2>1, <2>2, RequestIs DEF Covered
  <2>4. request[p].minuteCount <= Count(k) /\ request[p].minuteCount \in Nat
    BY <1>2, <2>1, <2>3, RequestIs DEF MinuteKey
  <2> QED
    BY <1>2, <2>4 DEF n
<1> QED
  BY <1>1, <1>2, <1>3, <1>7, <1>9, <1>10, <1>11, RequestStep

\* The hour of a request is counted.
LEMMA HourStep ==
  ASSUME RateInv, NEW q \in Requests, CheckHour(q), UNCHANGED now
  PROVE  RateInv'
<1> DEFINE k == HourKey(q)
           n == Count(k) + 1
           in == now \div Hour = request[q].hour
           moved == [request[q] EXCEPT !.at = "decide"]
           counted == [moved EXCEPT !.hourCount = n]
           r == [counted EXCEPT !.inHour = in]
<1>1. /\ request[q].at = "hour" /\ UNCHANGED <<now, failOpen>> /\ RunPipeline(k, TRUE, TRUE)
      /\ k \in RateKeys /\ k[2] = request[q].hour /\ Window(k) = Hour
      /\ request[q] \in RateRequests /\ Sound(request[q]) /\ Begun(request[q])
      /\ Covered(request[q], counts)
  BY RequestIs DEF CheckHour, Is
<1>2. /\ counts' \in [RateKeys -> Counters] /\ KeptOver(counts') /\ Count(k) \in Nat /\ n \in Nat
      /\ in => Count(k) = counts[k].n
      /\ \A j \in RateKeys : now \div Window(j) = j[2] => counts[j].n <= counts'[j].n
      /\ counts'[k].n = n /\ n # 0
  <2>1. k[2] <= now \div Window(k)
    BY <1>1 DEF Begun
  <2> HIDE DEF k
  <2>2. /\ counts' \in [RateKeys -> Counters] /\ KeptOver(counts') /\ Count(k) \in Nat
        /\ now \div Window(k) = k[2] => Count(k) = counts[k].n
        /\ \A j \in RateKeys : now \div Window(j) = j[2] => counts[j].n <= counts'[j].n
        /\ counts'[k].n = n
    BY <1>1, <2>1, ExecuteKeeps
  <2> QED
    BY <1>1, <2>2
<1>3. request' = [request EXCEPT ![q] = r]
  BY Zenon DEF CheckHour, RateInv, RateTypeOK
<1> HIDE DEF n, in
<1>4. in \in BOOLEAN
  BY DEF in
<1>5. moved \in RateRequests
  BY <1>1 DEF RateRequests
<1>6. counted \in RateRequests
  <2> HIDE DEF moved
  <2> QED
    BY <1>2, <1>5 DEF RateRequests
<1>7. /\ r \in RateRequests /\ r.at = "decide" /\ r.hourCount = n /\ r.inHour = in
      /\ r.minute = request[q].minute /\ r.hour = request[q].hour
      /\ r.minuteCount = request[q].minuteCount /\ r.inMinute = request[q].inMinute
      /\ r.runs = request[q].runs
  BY <1>1, <1>2, <1>4, <1>6 DEF RateRequests
<1> HIDE DEF r
<1>9. Sound(r) /\ Begun(r)
  BY <1>1, <1>2, <1>7 DEF Sound, Begun
<1>10. Covered(r, counts')
  <2> DEFINE m == <<"m", request[q].minute>>
  <2>1. m \in RateKeys /\ m[2] = request[q].minute /\ Window(m) = Minute
    BY RequestIs DEF MinuteKey
  <2>2. now \div Minute = request[q].minute => counts[m].n <= counts'[m].n
    BY <1>2, <2>1
  <2>3. counts[m].n \in Nat /\ counts'[m].n \in Nat /\ request[q].minuteCount \in Nat
    BY <1>2, <2>1, RequestIs DEF RateInv, RateTypeOK, Counters
  <2> QED
    BY <1>1, <1>2, <1>7, <2>2, <2>3 DEF Covered, HourKey
<1>11. ASSUME NEW p \in Requests \ {q}
       PROVE  Apart(r, request[p])
  <2>0. Apart(request[q], request[p])
    BY DEF RateInv
  <2>1. SUFFICES ASSUME in, request[p].inHour, request[p].hour = request[q].hour
                 PROVE  n # request[p].hourCount
    BY <1>7, <2>0 DEF Apart
  <2>2. now \div Hour = request[p].hour
    BY <2>1 DEF in
  <2>3. request[p].hourCount <= counts[<<"h", request[p].hour>>].n
    BY <2>1, <2>2, RequestIs DEF Covered
  <2>4. request[p].hourCount <= Count(k) /\ request[p].hourCount \in Nat
    BY <1>2, <2>1, <2>3, RequestIs DEF HourKey
  <2> QED
    BY <1>2, <2>4 DEF n
<1> QED
  BY <1>1, <1>2, <1>3, <1>7, <1>9, <1>10, <1>11, RequestStep

\* A record with another stage.
LEMMA Moved ==
  ASSUME RateInv, NEW q \in Requests,
         NEW at \in {"passed", "refused", "answered", "raised", "running", "again"}
  PROVE  LET r == [request[q] EXCEPT !.at = at]
         IN  /\ r \in RateRequests /\ r.at = at
             /\ r.minute = request[q].minute /\ r.hour = request[q].hour
             /\ r.minuteCount = request[q].minuteCount /\ r.hourCount = request[q].hourCount
             /\ r.inMinute = request[q].inMinute /\ r.inHour = request[q].inHour
             /\ r.runs = request[q].runs
BY RequestIs DEF RateRequests

\* A call of Redis raises: the counters may have gone up, but nothing was given.
LEMMA RaisesStep ==
  ASSUME RateInv, NEW q \in Requests, NEW incr \in BOOLEAN, NEW expire \in BOOLEAN,
         CheckRaises(q, incr, expire), UNCHANGED now
  PROVE  RateInv'
<1> DEFINE at == IF failOpen THEN "passed" ELSE "refused"
           r == [request[q] EXCEPT !.at = at]
<1>1. /\ request[q] \in RateRequests /\ Sound(request[q]) /\ Begun(request[q])
      /\ Covered(request[q], counts)
  BY RequestIs
<1>2. /\ counts' \in [RateKeys -> Counters] /\ KeptOver(counts')
      /\ \A j \in RateKeys : now \div Window(j) = j[2] => counts[j].n <= counts'[j].n
  <2>1. PICK k \in {MinuteKey(q), HourKey(q)} : RunPipeline(k, incr, expire)
    BY DEF CheckRaises
  <2>2. k \in RateKeys /\ k[2] <= now \div Window(k)
    BY RequestIs DEF Begun
  <2> QED
    BY <2>1, <2>2, ExecuteKeeps
<1>3. request' = [request EXCEPT ![q] = r]
  BY Zenon DEF CheckRaises, To, RateInv, RateTypeOK
<1>4. request[q].at \in {"minute", "hour"} /\ UNCHANGED <<now, failOpen>> /\ failOpen \in BOOLEAN
  BY DEF CheckRaises, Is, RateInv, RateTypeOK
<1>5. /\ r \in RateRequests /\ r.at = at
      /\ r.minute = request[q].minute /\ r.hour = request[q].hour
      /\ r.minuteCount = request[q].minuteCount /\ r.hourCount = request[q].hourCount
      /\ r.inMinute = request[q].inMinute /\ r.inHour = request[q].inHour
      /\ r.runs = request[q].runs
  <2>1. at \in {"passed", "refused", "answered", "raised", "running", "again"}
    OBVIOUS
  <2> HIDE DEF at
  <2> QED
    BY <2>1, Moved
<1> HIDE DEF r
<1>6. Sound(r) /\ Begun(r)
  BY <1>1, <1>4, <1>5 DEF Sound, Begun
<1>7. Covered(r, counts')
  <2> DEFINE m == <<"m", request[q].minute>>
             h == <<"h", request[q].hour>>
  <2>1. /\ m \in RateKeys /\ m[2] = request[q].minute /\ Window(m) = Minute
        /\ h \in RateKeys /\ h[2] = request[q].hour /\ Window(h) = Hour
    BY RequestIs DEF MinuteKey, HourKey
  <2>2. /\ now \div Minute = request[q].minute => counts[m].n <= counts'[m].n
        /\ now \div Hour = request[q].hour => counts[h].n <= counts'[h].n
    BY <1>2, <2>1
  <2>3. /\ counts[m].n \in Nat /\ counts'[m].n \in Nat /\ request[q].minuteCount \in Nat
        /\ counts[h].n \in Nat /\ counts'[h].n \in Nat /\ request[q].hourCount \in Nat
    BY <1>2, <2>1, RequestIs DEF RateInv, RateTypeOK, Counters
  <2> QED
    BY <1>1, <1>5, <2>2, <2>3 DEF Covered
<1>8. \A p \in Requests \ {q} : Apart(r, request[p])
  BY <1>5 DEF RateInv, Apart
<1> QED
  BY <1>2, <1>3, <1>4, <1>5, <1>6, <1>7, <1>8, RequestStep

\* A request comes, and then reads the hour: its windows are those it reads.
LEMMA ClockStep ==
  ASSUME RateInv, NEW q \in Requests, UNCHANGED <<now, failOpen, counts>>,
         \/ /\ request[q].at = "unsent"
            /\ request' = [request EXCEPT ![q].at = "clock", ![q].minute = now \div Minute]
         \/ ReadHour(q)
  PROVE  RateInv'
<1>1. /\ request[q] \in RateRequests /\ Sound(request[q]) /\ Begun(request[q])
      /\ Covered(request[q], counts)
      /\ now \in 0 .. LastTick /\ LastTick \in Nat
  BY RequestIs, ClockAssumption DEF RateInv, RateTypeOK
<1>2. /\ now \div Minute \in 0 .. now /\ now \div Hour \in 0 .. now
      /\ now \div Minute \in 0 .. LastTick /\ now \div Hour \in 0 .. LastTick
  <2>1. now \div Minute \in 0 .. now
    BY <1>1, RateAssumption
  <2>2. now \div Hour \in 0 .. now
    BY <1>1, RateAssumption
  <2> QED
    BY <1>1, <2>1, <2>2
<1>3. PICK r \in RateRequests :
        /\ request' = [request EXCEPT ![q] = r]
        /\ r.at \in {"clock", "minute"}
        /\ r.minute \in {request[q].minute, now \div Minute}
        /\ r.hour \in {request[q].hour, now \div Hour}
        /\ r.minuteCount = request[q].minuteCount /\ r.hourCount = request[q].hourCount
        /\ r.inMinute = request[q].inMinute /\ r.inHour = request[q].inHour
        /\ r.runs = request[q].runs
  <2>1. CASE ReadHour(q)
    <3> DEFINE moved == [request[q] EXCEPT !.at = "minute"]
               r == [moved EXCEPT !.hour = now \div Hour]
    <3>1. request' = [request EXCEPT ![q] = r]
      BY <2>1, Zenon DEF ReadHour, RateInv, RateTypeOK
    <3>2. moved \in RateRequests
      BY <1>1 DEF RateRequests
    <3>3. /\ r \in RateRequests /\ r.at = "minute" /\ r.hour = now \div Hour
          /\ r.minute = request[q].minute
          /\ r.minuteCount = request[q].minuteCount /\ r.hourCount = request[q].hourCount
          /\ r.inMinute = request[q].inMinute /\ r.inHour = request[q].inHour
          /\ r.runs = request[q].runs
      BY <1>1, <1>2, <3>2 DEF RateRequests
    <3> HIDE DEF r
    <3> QED
      BY <3>1, <3>3
  <2>2. CASE request' = [request EXCEPT ![q].at = "clock", ![q].minute = now \div Minute]
    <3> DEFINE moved == [request[q] EXCEPT !.at = "clock"]
               r == [moved EXCEPT !.minute = now \div Minute]
    <3>1. request' = [request EXCEPT ![q] = r]
      BY <2>2, Zenon DEF RateInv, RateTypeOK
    <3>2. moved \in RateRequests
      BY <1>1 DEF RateRequests
    <3>3. /\ r \in RateRequests /\ r.at = "clock" /\ r.minute = now \div Minute
          /\ r.hour = request[q].hour
          /\ r.minuteCount = request[q].minuteCount /\ r.hourCount = request[q].hourCount
          /\ r.inMinute = request[q].inMinute /\ r.inHour = request[q].inHour
          /\ r.runs = request[q].runs
      BY <1>1, <1>2, <3>2 DEF RateRequests
    <3> HIDE DEF r
    <3> QED
      BY <3>1, <3>3
  <2> QED
    BY <2>1, <2>2
<1>4. /\ request[q].at \in {"unsent", "clock"} /\ ~request[q].inMinute /\ ~request[q].inHour
  BY <1>1 DEF ReadHour, Is, Sound
<1>5. Sound(r)
  BY <1>1, <1>3, <1>4 DEF Sound
<1>6. Begun(r)
  <2>1. request[q].minute <= now \div Minute /\ request[q].hour <= now \div Hour
    BY <1>1 DEF Begun
  <2> QED
    BY <1>2, <1>3, <2>1 DEF Begun
<1>7. Covered(r, counts')
  BY <1>3, <1>4 DEF Covered
<1>8. \A p \in Requests \ {q} : Apart(r, request[p])
  BY <1>3, <1>4 DEF Apart
<1>9. /\ counts' \in [RateKeys -> Counters] /\ KeptOver(counts')
      /\ \A k \in RateKeys : counts[k].n <= counts'[k].n
  BY DEF RateInv, RateTypeOK, Counters
<1> QED
  BY <1>3, <1>5, <1>6, <1>7, <1>8, <1>9, RequestStep

\* The steps that count nothing.
LEMMA AfterwardsStep ==
  ASSUME RateInv, NEW q \in Requests, UNCHANGED now,
         \/ Dispatch(q) \/ ReadHour(q) \/ Decide(q) \/ Returns(q) \/ HandlerRaises(q)
         \/ PassThrough(q) \/ Escapes(q)
  PROVE  RateInv'
<1>1. /\ request[q] \in RateRequests /\ Sound(request[q]) /\ request[q].runs \in Nat
      /\ request[q].minuteCount \in Nat /\ request[q].hourCount \in Nat
      /\ failOpen \in BOOLEAN /\ UNCHANGED <<now, failOpen, counts>>
  BY RequestIs DEF RateInv, RateTypeOK, Dispatch, ReadHour, Decide, Returns, HandlerRaises,
                   PassThrough, Escapes
<1>2. ASSUME NEW at \in {"passed", "refused", "answered", "raised"},
             To(q, at),
             at = "passed" => failOpen /\ request[q].runs <= 1
      PROVE  RateInv'
  <2> DEFINE r == [request[q] EXCEPT !.at = at]
  <2>1. request' = [request EXCEPT ![q] = r]
    BY <1>2, Zenon DEF To, RateInv, RateTypeOK
  <2>2. /\ r \in RateRequests /\ r.at = at
        /\ r.minute = request[q].minute /\ r.hour = request[q].hour
        /\ r.minuteCount = request[q].minuteCount /\ r.hourCount = request[q].hourCount
        /\ r.inMinute = request[q].inMinute /\ r.inHour = request[q].inHour
        /\ r.runs = request[q].runs
    BY <1>1 DEF RateRequests
  <2> HIDE DEF r
  <2>3. Sound(r)
    BY <1>1, <1>2, <2>2 DEF Sound
  <2> QED
    BY <1>1, <2>1, <2>2, <2>3, MoveStep
<1>3. ASSUME NEW at \in {"running", "again"},
             request' = [request EXCEPT ![q].at = at, ![q].runs = @ + 1],
             at = "running" => request[q].runs = 0 /\ Within(q)
                               /\ request[q].minuteCount # 0 /\ request[q].hourCount # 0,
             at = "again" => failOpen /\ request[q].runs <= 1
      PROVE  RateInv'
  <2> DEFINE moved == [request[q] EXCEPT !.at = at]
             r == [moved EXCEPT !.runs = request[q].runs + 1]
  <2>1. /\ moved \in RateRequests /\ moved.at = at /\ moved.runs = request[q].runs
        /\ moved.minute = request[q].minute /\ moved.hour = request[q].hour
        /\ moved.minuteCount = request[q].minuteCount /\ moved.hourCount = request[q].hourCount
        /\ moved.inMinute = request[q].inMinute /\ moved.inHour = request[q].inHour
    BY <1>1 DEF RateRequests
  <2>2. request' = [request EXCEPT ![q] = r]
    <3>1. request' = [request EXCEPT ![q] = [moved EXCEPT !.runs = moved.runs + 1]]
      BY <1>3 DEF RateInv, RateTypeOK
    <3> QED
      BY <2>1, <3>1
  <2>3. /\ r \in RateRequests /\ r.at = at
        /\ r.minute = request[q].minute /\ r.hour = request[q].hour
        /\ r.minuteCount = request[q].minuteCount /\ r.hourCount = request[q].hourCount
        /\ r.inMinute = request[q].inMinute /\ r.inHour = request[q].inHour
        /\ r.runs = request[q].runs + 1
    <3> HIDE DEF moved
    <3> QED
      BY <1>1, <2>1 DEF RateRequests
  <2> HIDE DEF r, moved
  <2>4. r.runs > 0 /\ ~failOpen =>
          r.minuteCount \in 1 .. PerMinute /\ r.hourCount \in 1 .. PerHour
    BY <1>1, <1>3, <2>3, RateAssumption DEF Within
  <2>5. r.runs <= IF failOpen THEN 2 ELSE 1
    BY <1>1, <1>3, <2>3
  <2>6. Sound(r)
    BY <1>3, <2>3, <2>4, <2>5 DEF Sound
  <2> QED
    BY <1>1, <2>2, <2>3, <2>6, MoveStep
<1>4. CASE Dispatch(q)
  <2>1. request[q].at = "unsent" /\ request[q].runs = 0
    BY <1>1, <1>4 DEF Dispatch, Is, Sound
  <2>2. CASE To(q, IF failOpen THEN "passed" ELSE "refused")
    BY <1>1, <1>2, <2>1, <2>2
  <2>3. CASE request' = [request EXCEPT ![q].at = "clock", ![q].minute = now \div Minute]
    BY <1>1, <2>1, <2>3, ClockStep
  <2> QED
    BY <1>4, <2>2, <2>3 DEF Dispatch
<1>5. CASE ReadHour(q)
  BY <1>1, <1>5, ClockStep
<1>6. CASE Decide(q)
  BY <1>1, <1>2, <1>3, <1>6 DEF Decide, Is, Sound
<1>7. CASE Returns(q)
  BY <1>2, <1>7 DEF Returns
<1>8. CASE HandlerRaises(q)
  <2>1. request[q].runs = 1
    BY <1>1, <1>8 DEF HandlerRaises, Is, Sound
  <2> QED
    BY <1>1, <1>2, <1>8, <2>1 DEF HandlerRaises
<1>9. CASE PassThrough(q)
  BY <1>1, <1>3, <1>9 DEF PassThrough, Is, Sound
<1>10. CASE Escapes(q)
  BY <1>2, <1>10 DEF Escapes
<1> QED
  BY <1>4, <1>5, <1>6, <1>7, <1>8, <1>9, <1>10

\* Time passes: a window that lasts has lasted, and one that is over stays so.
LEMMA TickStep ==
  ASSUME RateInv, UNCHANGED rateVars, now' \in 0 .. LastTick, now' >= now
  PROVE  RateInv'
<1>1. now \in Nat /\ now' \in Nat
  BY DEF RateInv, RateTypeOK
<1>2. /\ now \div Minute <= now' \div Minute /\ now \div Minute \in Nat /\ now' \div Minute \in Nat
      /\ now \div Hour <= now' \div Hour /\ now \div Hour \in Nat /\ now' \div Hour \in Nat
  <2>1. /\ now \div Minute <= now' \div Minute
        /\ now \div Minute \in Nat /\ now' \div Minute \in Nat
    BY <1>1, RateAssumption
  <2>2. /\ now \div Hour <= now' \div Hour
        /\ now \div Hour \in Nat /\ now' \div Hour \in Nat
    BY <1>1, RateAssumption
  <2> QED
    BY <2>1, <2>2
<1>3. ASSUME NEW q \in Requests
      PROVE  Sound(request[q])' /\ Begun(request[q])' /\ Covered(request[q], counts)'
  <2>1. /\ request[q].minute \in Nat /\ request[q].hour \in Nat
        /\ Sound(request[q]) /\ Begun(request[q]) /\ Covered(request[q], counts)
    BY RequestIs DEF RateRequests
  <2>2. Sound(request[q])'
    BY <2>1 DEF Sound, rateVars
  <2>3. Begun(request[q])'
    BY <1>2, <2>1 DEF Begun, rateVars
  <2>4. /\ now' \div Minute = request[q].minute => now \div Minute = request[q].minute
        /\ now' \div Hour = request[q].hour => now \div Hour = request[q].hour
    BY <1>2, <2>1 DEF Begun
  <2>5. Covered(request[q], counts)'
    BY <2>1, <2>4 DEF Covered, rateVars
  <2> QED
    BY <2>2, <2>3, <2>5
<1> QED
  BY <1>3 DEF RateInv, RateTypeOK, KeptOver, Never, Apart, rateVars

\* The counts of the requests of a window are different, and bound who runs.
THEOREM RateInvariance == RateSpec => []RateInv
<1>1. ClockInit /\ RateInit => RateInv
  <2> SUFFICES ASSUME ClockInit, RateInit
               PROVE  RateInv
    OBVIOUS
  <2>1. Unsent \in RateRequests /\ Never \in Nat
    BY ClockAssumption DEF Unsent, RateRequests, Never
  <2>2. RateTypeOK
    BY <2>1, ClockAssumption DEF ClockInit, RateInit, RateTypeOK, Counters
  <2>3. KeptOver(counts)
    BY DEF RateInit, KeptOver
  <2>4. now \div Minute \in Nat /\ now \div Hour \in Nat
    BY RateAssumption DEF ClockInit
  <2>5. ASSUME NEW q \in Requests
        PROVE  Sound(request[q]) /\ Begun(request[q]) /\ Covered(request[q], counts)
    <3>1. request[q] = Unsent /\ failOpen \in BOOLEAN
      BY DEF RateInit
    <3> QED
      BY <2>4, <3>1 DEF Unsent, Sound, Begun, Covered
  <2>6. \A q, p \in Requests : Apart(request[q], request[p])
    BY DEF RateInit, Unsent, Apart
  <2> QED
    BY <2>2, <2>3, <2>5, <2>6 DEF RateInv
<1>2. RateInv /\ [RateNext]_<<now, rateVars>> => RateInv'
  <2> SUFFICES ASSUME RateInv, [RateNext]_<<now, rateVars>>
               PROVE  RateInv'
    OBVIOUS
  <2>1. CASE Tick /\ UNCHANGED rateVars
    <3>1. now' \in 0 .. LastTick /\ now' >= now
      BY <2>1, ClockAssumption DEF Tick, RateInv, RateTypeOK
    <3> QED
      BY <2>1, <3>1, TickStep
  <2>2. CASE UNCHANGED <<now, rateVars>>
    <3>1. now' \in 0 .. LastTick /\ now' >= now
      BY <2>2 DEF RateInv, RateTypeOK
    <3> QED
      BY <2>2, <3>1, TickStep
  <2> QED
    BY <2>1, <2>2, MinuteStep, HourStep, RaisesStep, AfterwardsStep DEF RateNext
<1> QED
  BY <1>1, <1>2, PTL DEF RateSpec

\* Things numbered apart from 1 to n are no more than n.
LEMMA NumberedApart ==
  ASSUME NEW S, NEW n \in Nat, NEW f \in [S -> 1 .. n],
         \A a, b \in S : f[a] = f[b] => a = b
  PROVE  Cardinality(S) <= n
<1>1. f \in Injection(S, 1 .. n)
  BY DEF Injection, IsInjective
<1>2. IsFiniteSet(1 .. n) /\ Cardinality(1 .. n) = n
  BY FS_Interval
<1> QED
  BY <1>1, <1>2, FS_Injection

(***************************************************************************)
(* The limits hold: who comes, is counted and runs in a window has a count *)
(* of its own, and every count that was let through is within the limit.   *)
(***************************************************************************)
THEOREM HoldsLimits == RateSpec => []LimitsHold
<1>1. ASSUME RateInv
      PROVE  LimitsHold
  <2>1. \A q \in Requests : request[q].runs <= IF failOpen THEN 2 ELSE 1
    BY <1>1 DEF RateInv, Sound
  <2>2. ASSUME ~failOpen, NEW t \in 0 .. LastTick
        PROVE  /\ Cardinality(RunsIn({q \in Requests : request[q].minute = t /\ request[q].inMinute}))
                    <= PerMinute
               /\ Cardinality(RunsIn({q \in Requests : request[q].hour = t /\ request[q].inHour}))
                    <= PerHour
    <3>1. Cardinality(RunsIn({q \in Requests : request[q].minute = t /\ request[q].inMinute}))
            <= PerMinute
      <4> DEFINE S == RunsIn({q \in Requests : request[q].minute = t /\ request[q].inMinute})
                 f == [q \in S |-> request[q].minuteCount]
      <4>1. \A q \in S : q \in Requests /\ request[q].minute = t /\ request[q].inMinute
                         /\ request[q].minuteCount \in 1 .. PerMinute
        BY <1>1, <2>2 DEF RunsIn, RateInv, Sound
      <4> HIDE DEF S
      <4>2. f \in [S -> 1 .. PerMinute]
        BY <4>1
      <4>3. ASSUME NEW p \in S, NEW q \in S, f[p] = f[q]
            PROVE  p = q
        <5>1. request[p].minuteCount = request[q].minuteCount
          BY <4>3
        <5>2. p # q => Apart(request[p], request[q])
          BY <1>1, <4>1 DEF RateInv
        <5> QED
          BY <4>1, <5>1, <5>2 DEF Apart
      <4> HIDE DEF f
      <4>4. Cardinality(S) <= PerMinute
        BY <4>2, <4>3, NumberedApart, RateAssumption
      <4> QED
        BY <4>4 DEF S
    <3>2. Cardinality(RunsIn({q \in Requests : request[q].hour = t /\ request[q].inHour}))
            <= PerHour
      <4> DEFINE S == RunsIn({q \in Requests : request[q].hour = t /\ request[q].inHour})
                 f == [q \in S |-> request[q].hourCount]
      <4>1. \A q \in S : q \in Requests /\ request[q].hour = t /\ request[q].inHour
                         /\ request[q].hourCount \in 1 .. PerHour
        BY <1>1, <2>2 DEF RunsIn, RateInv, Sound
      <4> HIDE DEF S
      <4>2. f \in [S -> 1 .. PerHour]
        BY <4>1
      <4>3. ASSUME NEW p \in S, NEW q \in S, f[p] = f[q]
            PROVE  p = q
        <5>1. request[p].hourCount = request[q].hourCount
          BY <4>3
        <5>2. p # q => Apart(request[p], request[q])
          BY <1>1, <4>1 DEF RateInv
        <5> QED
          BY <4>1, <5>1, <5>2 DEF Apart
      <4> HIDE DEF f
      <4>4. Cardinality(S) <= PerHour
        BY <4>2, <4>3, NumberedApart, RateAssumption
      <4> QED
        BY <4>4 DEF S
    <3> QED
      BY <3>1, <3>2
  <2> QED
    BY <2>1, <2>2 DEF LimitsHold
<1> QED
  BY <1>1, RateInvariance, PTL
=============================================================================

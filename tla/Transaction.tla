----------------------------- MODULE Transaction ----------------------------
(***************************************************************************)
(* Transactions and their receipts (transaction.py).  A transaction is one *)
(* mutable object, and so is a receipt: the functions change it in place,  *)
(* a party may set its fields at any time, and a key that does not parse  *)
(* makes them raise wherever they have got.                                *)
(*                                                                         *)
(* A signature is what was signed and by whom; the terms are the amount,   *)
(* the currency and the payload.                                           *)
(***************************************************************************)
EXTENDS Integers

CONSTANTS
  Terms,
  MaxStamp   \* bound: what the clock may show

ASSUME TransactionAssumption == MaxStamp \in Nat

VARIABLES
  tx,        \* the Transaction
  agreed,    \* what the initiator's last signature was asked for, if any
  receipt    \* the TransactionReceipt

txVars == <<tx, agreed, receipt>>

Unsigned == [by |-> "none", body |-> <<>>]

NoReceipt == [of |-> "none", initiatorSignature |-> Unsigned, counterpartySignature |-> Unsigned]

Actions == {"authorize", "commit"}

\* _canonical_bytes: neither the status nor the signature.
Canonical(t) == <<t.action, t.terms, t.timestamp>>

ReceiptBody(r) == <<r.of, r.initiatorSignature>>

Initiator(t) == [by |-> "initiator", body |-> Canonical(t)]

\* verify_transaction with the initiator's public key.
VerifyTransaction(t) == t.signature = Initiator(t)

\* verify_receipt: only the counterparty's signature is looked at.
VerifyReceipt(r) ==
  /\ r.initiatorSignature # Unsigned /\ r.counterpartySignature # Unsigned
  /\ r.counterpartySignature = [by |-> "counterparty", body |-> ReceiptBody(r)]

-----------------------------------------------------------------------------
TransactionInit ==
  /\ \E terms \in Terms :
       tx = [action |-> "authorize", terms |-> terms, timestamp |-> 0,
             status |-> "pending", signature |-> Unsigned]
  /\ agreed = {}
  /\ receipt = NoReceipt

\* A party sets fields of the object, in any status and with nothing to stop
\* it.  (The status and the signature are left to the functions.)
SetFields(action, terms, timestamp) ==
  /\ tx' = [tx EXCEPT !.action = action, !.terms = terms, !.timestamp = timestamp]
  /\ UNCHANGED <<agreed, receipt>>

(* sign_transaction, in any status: also a committed one is "signed" again *)
(* and may then be committed again.  A bad key raises before anything has  *)
(* changed.                                                                *)
SignTransaction ==
  /\ tx' = [tx EXCEPT !.signature = Initiator(tx), !.status = "signed"]
  /\ agreed' = {tx'}
  /\ UNCHANGED receipt

\* What commit_transaction has done when it comes to the key.
Committed(time) == [tx EXCEPT !.action = "commit", !.timestamp = time, !.status = "committed"]

\* Mutant: the signature is made before the fields are set.
CommitTransactionEarly(time) ==
  /\ tx.status = "signed"
  /\ tx' = [Committed(time) EXCEPT !.signature = Initiator(tx)]
  /\ agreed' = {tx'}
  /\ UNCHANGED receipt

\* commit_transaction: what the present signature is of is not looked at.
CommitTransaction(time) ==
  /\ tx.status = "signed"
  /\ tx' = [Committed(time) EXCEPT !.signature = Initiator(Committed(time))]
  /\ agreed' = {tx'}
  /\ UNCHANGED receipt

\* commit_transaction with a key that does not parse.
CommitRaises(time) ==
  /\ tx.status = "signed"
  /\ tx' = Committed(time)
  /\ UNCHANGED <<agreed, receipt>>

\* create_receipt
CreateReceipt ==
  /\ tx.status = "committed"
  /\ receipt' = [of |-> <<tx.action, tx.terms>>, initiatorSignature |-> tx.signature,
                 counterpartySignature |-> Unsigned]
  /\ UNCHANGED <<tx, agreed>>

\* countersign_receipt
CountersignReceipt ==
  /\ receipt # NoReceipt
  /\ receipt' = [receipt EXCEPT !.counterpartySignature =
                   [by |-> "counterparty", body |-> ReceiptBody(receipt)]]
  /\ UNCHANGED <<tx, agreed>>

TransactionNext ==
  \/ \E action \in Actions, terms \in Terms, time \in 0 .. MaxStamp : SetFields(action, terms, time)
  \/ SignTransaction
  \/ \E time \in 0 .. MaxStamp: CommitTransaction(time) \/ CommitRaises(time)
  \/ CreateReceipt \/ CountersignReceipt

TransactionSpec == TransactionInit /\ [][TransactionNext]_txVars

-----------------------------------------------------------------------------
(* A transaction verifies exactly as long as its action, its terms and its *)
(* time are those of which sign_transaction or commit_transaction returned *)
(* the signature: one that was changed behind the signature, committed or  *)
(* not, or whose commit raised halfway, is told apart from one that was    *)
(* not; and what a commit returns verifies, whatever was changed, signed   *)
(* and committed before.                                                   *)
VerifiesAsSigned ==
  VerifyTransaction(tx) <=>
    \E t \in agreed : /\ tx.action = t.action
                     /\ tx.terms = t.terms
                     /\ tx.timestamp = t.timestamp

(* "Verify both signatures on a dual-signed receipt" (transaction.py:218): *)
(* the initiator of a receipt that verifies has signed a commit of what    *)
(* the receipt says.                                                       *)
ReceiptBindsBoth ==
  VerifyReceipt(receipt) =>
    \E t \in 0 .. MaxStamp:
      receipt.initiatorSignature =
        [by |-> "initiator", body |-> <<receipt.of[1], receipt.of[2], t>>]
=============================================================================

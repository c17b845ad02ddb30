---------------------------- MODULE BatchSignature ----------------------------
(***************************************************************************)
(* The Ethereum-signature part of verifying a transaction batch, from      *)
(* core/bin/zksync_api/src/signature_checker.rs:                           *)
(*   verify_eth_signature, RequestData::Batch arm                          *)
(*   verify_eth_signature_txs_batch  (matching senders to batch signatures)*)
(*   verify_eth_signature_single_tx  (a transaction's own signature)       *)
(*   verify_ethereum_signature       (ECDSA recovery or an EIP-1271 call)  *)
(* The loops are translated as RECURSIVE operators and compared with the   *)
(* definition of what the check is for: every sender of the batch signed  *)
(* the batch message, and every transaction carrying its own signature    *)
(* was signed by its sender.                                              *)
(***************************************************************************)
EXTENDS Naturals, Sequences, FiniteSets

CONSTANTS
  Addresses,         \* Ethereum addresses of senders (model values)
  NoAddress,         \* signature_recover_signer failed
  EIP1271ValidFor,   \* the sets of contract accounts that may accept one EIP-1271 signature
  MaxBatch,          \* largest number of transactions in a batch
  MaxBatchSigs,      \* largest number of signatures in EthBatchSignData
  TokenShortfall,    \* how many fewer tokens than transactions a request may carry
  NoSig              \* a transaction without eth_sign_data / a batch without batch_sign_data

ASSUME NoAddress \notin Addresses
ASSUME EIP1271ValidFor \subseteq SUBSET Addresses
ASSUME TokenShortfall \subseteq Nat

(* TxEthSignature: an ECDSA signature recovers to one address (or fails);  *)
(* an EIP-1271 signature is whatever the contract at the sender's address *)
(* accepts, so it is described by the contracts that accept it.           *)
EthSignature ==
  [kind : {"ECDSA"}, recovers : Addresses \cup {NoAddress}]
    \cup [kind : {"EIP1271"}, validFor : EIP1271ValidFor]

(* verify_ethereum_signature(signature, message, sender) *)
VerifyEthereumSignature(sig, sender) ==
  IF sig.kind = "ECDSA" THEN sig.recovers = sender
  ELSE sender \in sig.validFor

SeqsUpTo(S, n) == UNION {[1..k -> S] : k \in 0..n}

(* A BatchRequest: the transactions' own eth_sign_data, the senders       *)
(* array, the length of the tokens array, and the batch signature data.   *)
(* The transactions' other fields play no part in this check.             *)
BatchRequest ==
  { r \in [txSigs : SeqsUpTo({NoSig} \cup [kind : {"ECDSA"}, recovers : Addresses], MaxBatch),
           senders : SeqsUpTo(Addresses, MaxBatch),
           tokens : 0..MaxBatch,
           batchSigs : {NoSig} \cup SeqsUpTo(EthSignature, MaxBatchSigs)] :
      \E s \in TokenShortfall : r.tokens + s = Len(r.txSigs) }

(* Mutant: the pigeonhole short-circuit fires one signature too early.   *)
RECURSIVE MatchSendersEarlyStop(_, _, _)
MatchSendersEarlyStop(senders, sigs, signers) ==
  IF senders = <<>> THEN "Ok"
  ELSE LET sender == Head(senders) IN
       IF sender \in signers THEN MatchSendersEarlyStop(Tail(senders), sigs, signers)
       ELSE IF Cardinality(signers) + 1 >= Len(sigs) THEN "IncorrectEthSignature"
       ELSE IF \E j \in 1..Len(sigs) : VerifyEthereumSignature(sigs[j], sender)
            THEN MatchSendersEarlyStop(Tail(senders), sigs, signers \cup {sender})
       ELSE "IncorrectEthSignature"

(* verify_eth_signature_txs_batch: for each sender in order, skip it if   *)
(* already matched; fail when as many senders are matched as there are   *)
(* signatures; otherwise scan the signatures for one that verifies.       *)
RECURSIVE MatchSenders(_, _, _)
MatchSenders(senders, sigs, signers) ==
  IF senders = <<>> THEN "Ok"
  ELSE LET sender == Head(senders) IN
       IF sender \in signers THEN MatchSenders(Tail(senders), sigs, signers)
       ELSE IF Cardinality(signers) = Len(sigs) THEN "IncorrectEthSignature"
       ELSE IF \E j \in 1..Len(sigs) : VerifyEthereumSignature(sigs[j], sender)
            THEN MatchSenders(Tail(senders), sigs, signers \cup {sender})
       ELSE "IncorrectEthSignature"

VerifyTxsBatch(senders, sigs) == MatchSenders(senders, sigs, {})

(* Mutant: a transaction's own signature is not checked. *)
VerifySingleTxAlwaysOk(sig, sender) == "Ok"

(* verify_eth_signature_single_tx, eth_sign_data part *)
VerifySingleTx(sig, sender) ==
  IF sig # NoSig /\ ~VerifyEthereumSignature(sig, sender)
  THEN "IncorrectEthSignature" ELSE "Ok"

(* The per-transaction loop runs over txs.zip(senders).zip(tokens): it    *)
(* visits only the first Min(len) positions and stops at the first error. *)
RECURSIVE CheckEach(_, _, _)
CheckEach(r, i, n) ==
  IF i > n THEN "Ok"
  ELSE IF VerifySingleTx(r.txSigs[i], r.senders[i]) # "Ok"
       THEN VerifySingleTx(r.txSigs[i], r.senders[i])
  ELSE CheckEach(r, i + 1, n)

ZipLen(r) ==
  LET m == IF Len(r.txSigs) < Len(r.senders) THEN Len(r.txSigs) ELSE Len(r.senders)
  IN IF r.tokens < m THEN r.tokens ELSE m

(* verify_eth_signature, RequestData::Batch arm. *)
VerifyBatchEthSignature(r) ==
  IF Len(r.senders) # Len(r.txSigs) THEN "Other"
  ELSE IF r.batchSigs # NoSig /\ VerifyTxsBatch(r.senders, r.batchSigs) # "Ok"
       THEN VerifyTxsBatch(r.senders, r.batchSigs)
  ELSE CheckEach(r, 1, ZipLen(r))

-----------------------------------------------------------------------------
(* The checker takes one batch request after another: it receives one,  *)
(* computes the verdict of verify_eth_signature, and replies.             *)
VARIABLES request, verdict

vars == <<request, verdict>>

Init ==
  /\ request = NoSig
  /\ verdict = NoSig

ReceiveBatch ==
  /\ request = NoSig
  /\ \E r \in BatchRequest : request' = r
  /\ UNCHANGED verdict

CheckBatch ==
  /\ request # NoSig /\ verdict = NoSig
  /\ verdict' = VerifyBatchEthSignature(request)
  /\ UNCHANGED request

ReplyBatch ==
  /\ verdict # NoSig
  /\ request' = NoSig /\ verdict' = NoSig

Next == ReceiveBatch \/ CheckBatch \/ ReplyBatch

Spec == Init /\ [][Next]_vars

-----------------------------------------------------------------------------
(* Properties *)

(* The checker holds a well-formed batch request or none, and its verdict *)
(* is one of the results verify_eth_signature returns.                    *)
TypeOK ==
  /\ request \in BatchRequest \cup {NoSig}
  /\ verdict \in {NoSig, "Ok", "Other", "IncorrectEthSignature"}

(* What the batch signature is for: every distinct sender is verified by  *)
(* at least one of the batch signatures over the batch message.           *)
Covered(senders, sigs) ==
  \A i \in 1..Len(senders) :
    \E j \in 1..Len(sigs) : VerifyEthereumSignature(sigs[j], senders[i])

(* Every transaction that carries its own Ethereum signature was signed  *)
(* by its sender.                                                         *)
OwnSigsValid(txSigs, senders) ==
  \A i \in 1..Len(txSigs) :
    txSigs[i] # NoSig => VerifyEthereumSignature(txSigs[i], senders[i])

(* A batch is accepted only if its signature data covers every sender and *)
(* every transaction that carries its own Ethereum signature was signed   *)
(* by its sender.                                                         *)
BatchAcceptedOnlyIfSigned ==
  verdict = "Ok" =>
    /\ request.batchSigs # NoSig => Covered(request.senders, request.batchSigs)
    /\ OwnSigsValid(request.txSigs, request.senders)

(* A batch whose arrays agree, whose signatures cover every sender and    *)
(* whose transactions' own signatures are right, is accepted: the        *)
(* pigeonhole short-circuit never rejects a correctly signed batch.       *)
SignedBatchAccepted ==
  (verdict # NoSig
     /\ Len(request.senders) = Len(request.txSigs)
     /\ request.batchSigs # NoSig
     /\ Covered(request.senders, request.batchSigs)
     /\ OwnSigsValid(request.txSigs, request.senders))
  => verdict = "Ok"

=============================================================================

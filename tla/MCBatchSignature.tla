-------------------------- MODULE MCBatchSignature --------------------------
(* Batches of up to three transactions from two senders, with up to two   *)
(* batch signatures.                                                       *)
EXTENDS BatchSignature

CONSTANTS A, B

(* Each EIP-1271 signature is accepted by at most one contract account.  *)
EIP1271OneAccount == {{}, {A}, {B}}

(* One EIP-1271 signature accepted by both contract accounts, as when two *)
(* contract wallets check signatures against the same owner key.          *)
EIP1271SharedOwner == {{A, B}}
=============================================================================

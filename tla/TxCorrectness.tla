----------------------------- MODULE TxCorrectness -----------------------------
(***************************************************************************)
(* check_correctness of the transaction kinds that move value between     *)
(* accounts (core/lib/types/src/tx/{transfer,mint_nft,change_group}.rs)    *)
(* and its dispatch in ZkSyncTx::check_correctness (zksync_tx.rs), and    *)
(* ChangeGroup::new_signed, the constructor the SDK signer calls.          *)
(*                                                                         *)
(* Amounts are numbers of a scaled width: U128Max stands for u128::MAX.   *)
(* The Amount Codec (is_token_amount_packable, is_fee_amount_packable) is *)
(* not in this repository: a value is packable when it is mantissa *      *)
(* 10^exponent with both within their bounds.                              *)
(***************************************************************************)
EXTENDS Naturals

CONSTANTS
  Kinds,              \* subset of {"Transfer", "MintNFT", "ChangeGroup"}
  U128Max,            \* u128::MAX at the model's width
  Amounts, Fees,      \* amounts and fees a request may carry (BigUint)
  TokenMantissaMax, TokenExpMax, FeeMantissaMax, FeeExpMax,
  MaxAccountId, MaxFungibleToken, MaxProcessableToken, MaxTokenId,
  Groups, ServerGroup,  \* u16 group ids; SERVER_GROUP_ID
  Permissioned,       \* SERVER_PERMISSIONED
  Addresses,          \* L2 addresses (model values)
  AccountKey, OtherKey, NoSigner  \* the sender's key hash, another one, a failed recovery

ASSUME Kinds \subseteq {"Transfer", "MintNFT", "ChangeGroup"}
ASSUME ServerGroup \in Groups /\ Permissioned \in BOOLEAN

(* The Amount Codec's mantissa/exponent representability. *)
IsPackable(a, mMax, eMax) == \E m \in 0..mMax, e \in 0..eMax : a = m * 10^e

IsTokenAmountPackable(a) == IsPackable(a, TokenMantissaMax, TokenExpMax)

IsFeeAmountPackable(a) == IsPackable(a, FeeMantissaMax, FeeExpMax)

(* The fields the checks read.  For MintNFT, accountId is creator_id,     *)
(* from is creator_address, to is recipient, token is fee_token and      *)
(* toZero is unused; signer is what verify_signature() recovers from the *)
(* zkSync signature.                                                      *)
Tx ==
  [kind : Kinds, from : Addresses, to : Addresses,
   amount : Amounts, fee : Fees, accountId : 0..MaxAccountId + 1,
   token : 0..MaxTokenId, group : Groups, toZero : BOOLEAN, timeRangeOk : BOOLEAN,
   signer : {AccountKey, OtherKey, NoSigner}]

(* Mutant: the amount packability check is left out. *)
TransferCheckAnyAmount(tx, senderAuth, receiverAuth) ==
  CASE Permissioned /\ ~senderAuth -> "NotAllowedSender"
    [] Permissioned /\ ~receiverAuth -> "NotAllowedDestination"
    [] tx.amount > U128Max -> "WrongAmount"
    [] tx.fee > U128Max -> "WrongFee"
    [] ~IsFeeAmountPackable(tx.fee) -> "FeeNotPackable"
    [] tx.accountId > MaxAccountId -> "WrongAccountId"
    [] tx.group # ServerGroup -> "WrongGroup"
    [] tx.token > MaxTokenId -> "WrongToken"
    [] tx.toZero -> "WrongToAddress"
    [] ~tx.timeRangeOk -> "WrongTimeRange"
    [] tx.fee # 0 /\ tx.token > MaxProcessableToken -> "WrongTokenForPayingFee"
    [] tx.signer = NoSigner -> "WrongSignature"
    [] OTHER -> "Ok"

(* Transfer::check_correctness *)
TransferCheck(tx, senderAuth, receiverAuth) ==
  CASE Permissioned /\ ~senderAuth -> "NotAllowedSender"
    [] Permissioned /\ ~receiverAuth -> "NotAllowedDestination"
    [] tx.amount > U128Max -> "WrongAmount"
    [] tx.fee > U128Max -> "WrongFee"
    [] ~IsTokenAmountPackable(tx.amount) -> "AmountNotPackable"
    [] ~IsFeeAmountPackable(tx.fee) -> "FeeNotPackable"
    [] tx.accountId > MaxAccountId -> "WrongAccountId"
    [] tx.group # ServerGroup -> "WrongGroup"
    [] tx.token > MaxTokenId -> "WrongToken"
    [] tx.toZero -> "WrongToAddress"
    [] ~tx.timeRangeOk -> "WrongTimeRange"
    [] tx.fee # 0 /\ tx.token > MaxProcessableToken -> "WrongTokenForPayingFee"
    [] tx.signer = NoSigner -> "WrongSignature"
    [] OTHER -> "Ok"

(* Mutant: the permissioned-mode block is left out. *)
MintNFTCheckUnpermissioned(tx, senderAuth, receiverAuth) ==
  CASE tx.fee > U128Max -> "WrongFee"
    [] ~IsFeeAmountPackable(tx.fee) -> "FeeNotPackable"
    [] tx.group # ServerGroup -> "WrongGroup"
    [] tx.accountId > MaxAccountId -> "WrongCreatorId"
    [] tx.token > MaxProcessableToken -> "WrongFeeToken"
    [] tx.signer = NoSigner -> "WrongSignature"
    [] OTHER -> "Ok"

(* MintNFT::check_correctness *)
MintNFTCheck(tx, senderAuth, receiverAuth) ==
  CASE Permissioned /\ ~senderAuth -> "NotAllowedSender"
    [] Permissioned /\ ~receiverAuth -> "NotAllowedDestination"
    [] tx.fee > U128Max -> "WrongFee"
    [] ~IsFeeAmountPackable(tx.fee) -> "FeeNotPackable"
    [] tx.group # ServerGroup -> "WrongGroup"
    [] tx.accountId > MaxAccountId -> "WrongCreatorId"
    [] tx.token > MaxProcessableToken -> "WrongFeeToken"
    [] tx.signer = NoSigner -> "WrongSignature"
    [] OTHER -> "Ok"

(* Mutant: the fee-token check is left out. *)
ChangeGroupCheckAnyFeeToken(tx) ==
  CASE tx.amount > U128Max -> "WrongAmount"
    [] tx.fee > U128Max -> "WrongFee"
    [] ~IsFeeAmountPackable(tx.fee) -> "FeeNotPackable"
    [] tx.accountId > MaxAccountId -> "WrongAccountId"
    [] tx.token > MaxFungibleToken -> "WrongToken"
    [] tx.group # ServerGroup -> "WrongGroup"
    [] ~tx.timeRangeOk -> "WrongTimeRange"
    [] tx.signer = NoSigner -> "WrongSignature"
    [] OTHER -> "Ok"

(* Mutant: the signature check is left out. *)
ChangeGroupCheckUnsigned(tx) ==
  CASE tx.amount > U128Max -> "WrongAmount"
    [] tx.fee > U128Max -> "WrongFee"
    [] ~IsFeeAmountPackable(tx.fee) -> "FeeNotPackable"
    [] tx.accountId > MaxAccountId -> "WrongAccountId"
    [] tx.token > MaxFungibleToken -> "WrongToken"
    [] tx.group # ServerGroup -> "WrongGroup"
    [] ~tx.timeRangeOk -> "WrongTimeRange"
    [] tx.fee # 0 /\ tx.token > MaxProcessableToken -> "WrongTokenForPayingFee"
    [] OTHER -> "Ok"

(* ChangeGroup::check_correctness: no authorisation flags, and the amount *)
(* need not be packable (the pubdata carries it unpacked).                *)
ChangeGroupCheck(tx) ==
  CASE tx.amount > U128Max -> "WrongAmount"
    [] tx.fee > U128Max -> "WrongFee"
    [] ~IsFeeAmountPackable(tx.fee) -> "FeeNotPackable"
    [] tx.accountId > MaxAccountId -> "WrongAccountId"
    [] tx.token > MaxFungibleToken -> "WrongToken"
    [] tx.group # ServerGroup -> "WrongGroup"
    [] ~tx.timeRangeOk -> "WrongTimeRange"
    [] tx.fee # 0 /\ tx.token > MaxProcessableToken -> "WrongTokenForPayingFee"
    [] tx.signer = NoSigner -> "WrongSignature"
    [] OTHER -> "Ok"

(* ZkSyncTx::check_correctness *)
CheckCorrectness(tx, senderAuth, receiverAuth) ==
  CASE tx.kind = "Transfer" -> TransferCheck(tx, senderAuth, receiverAuth)
    [] tx.kind = "MintNFT" -> MintNFTCheck(tx, senderAuth, receiverAuth)
    [] tx.kind = "ChangeGroup" -> ChangeGroupCheck(tx)

(* ZkSyncTx::account(): the sender (from; creator_address for MintNFT). *)
TxAccount(tx) == tx.from

(* Mutant: to_account() answers the sender's address. *)
TxToAccountSender(tx) == tx.from

(* ZkSyncTx::to_account(): Some(to) (recipient for MintNFT); never None  *)
(* for these kinds, so verify_tx_correctness's unwrap() holds.            *)
TxToAccount(tx) == tx.to

(* cached_signer is NotCached or Cached(a recovered signer); in the model *)
(* "NotCached" or the signer itself.  verify_signature(): the cached      *)
(* signer when there is one, else verify_musig over get_bytes(), which is *)
(* tx.signer.                                                              *)
VerifySignature(tx, cache) == IF cache = "NotCached" THEN tx.signer ELSE cache

(* new(.., signature): NotCached, then Cached(verify_signature()) when a *)
(* signature was given.                                                   *)
NewCache(tx, signed) == IF signed THEN tx.signer ELSE "NotCached"

(* check_correctness stores verify_signature() in the cache just before  *)
(* its last check, so only a run that got that far (Ok or WrongSignature) *)
(* leaves the cache filled.                                               *)
CheckedCache(tx, cache, verdict) ==
  IF verdict \in {"Ok", "WrongSignature"} THEN VerifySignature(tx, cache) ELSE cache

-----------------------------------------------------------------------------
(* verify_tx_correctness asks storage whether tx.account() and           *)
(* tx.to_account() are authorised and hands both flags to                 *)
(* check_correctness; the SDK builds ChangeGroups with new_signed.        *)
VARIABLES
  tx,          \* the transaction being checked
  authorised,  \* addresses is_account_autorised answers true for
  via,         \* "checker" (verify_tx_correctness) or "sdk" (new_signed)
  verdict,     \* "none", "Ok", the error variant, or "panic"
  cache        \* the transaction's cached_signer

vars == <<tx, authorised, via, verdict, cache>>

None == [none |-> TRUE]

Init ==
  /\ tx = None /\ authorised = {} /\ via = "none" /\ verdict = "none"
  /\ cache = "NotCached"

(* A transaction arrives, deserialised (cached_signer is serde(skip), so  *)
(* NotCached); storage holds some set of authorised accounts.             *)
Receive ==
  /\ tx = None
  /\ \E t \in Tx, A \in SUBSET Addresses : tx' = t /\ authorised' = A
  /\ via' = "checker"
  /\ cache' = "NotCached"
  /\ UNCHANGED verdict

(* is_account_autorised(sender_account), (receiver_account), then         *)
(* check_correctness(sender_autorisation, receiver_autorisation), whose   *)
(* signature check reads verify_signature() and fills the cache.          *)
Check ==
  /\ tx # None /\ verdict = "none"
  /\ LET v == CheckCorrectness([tx EXCEPT !.signer = VerifySignature(tx, cache)],
                               TxAccount(tx) \in authorised, TxToAccount(tx) \in authorised)
     IN /\ verdict' = v
        /\ cache' = CheckedCache(tx, cache, v)
  /\ UNCHANGED <<tx, authorised, via>>

(* {ChangeGroup,Transfer,MintNFT}::new_signed(fields, private_key): new() *)
(* without a signature (the default one, which recovers no signer), then  *)
(* the signature over get_bytes() with the sender's own key, then         *)
(* check_correctness (with both authorisation flags true for Transfer and *)
(* MintNFT).  ChangeGroup's get_bytes does amount.to_u128().unwrap(),     *)
(* which panics on an amount above u128::MAX.                             *)
NewSigned ==
  /\ tx = None
  /\ \E t \in Tx :
       LET c0 == NewCache([t EXCEPT !.signer = NoSigner], FALSE)
           signed == [t EXCEPT !.signer = AccountKey]
           v == CheckCorrectness([signed EXCEPT !.signer = VerifySignature(signed, c0)],
                                 TRUE, TRUE)
       IN /\ tx' = signed
          /\ IF t.kind = "ChangeGroup" /\ t.amount > U128Max
             THEN verdict' = "panic" /\ cache' = c0
             ELSE verdict' = v /\ cache' = CheckedCache(signed, c0, v)
  /\ via' = "sdk"
  /\ UNCHANGED authorised

(* wipe_signer_cache() *)
WipeSignerCache ==
  /\ tx # None
  /\ cache' = "NotCached"
  /\ UNCHANGED <<tx, authorised, via, verdict>>

Done ==
  /\ verdict # "none"
  /\ tx' = None /\ authorised' = {} /\ via' = "none" /\ verdict' = "none"
  /\ cache' = "NotCached"

Next == Receive \/ Check \/ NewSigned \/ WipeSignerCache \/ Done

Spec == Init /\ [][Next]_vars

-----------------------------------------------------------------------------
(* Properties *)

(* A ChangeGroup that check_correctness accepts also passes the range     *)
(* checks the state handler repeats (handler/change_group.rs create_op    *)
(* and apply_op): a fungible token, a fee paid only in a processable      *)
(* token, an account id in range.  Otherwise a verified transaction would *)
(* reach the block and fail there.                                        *)
AcceptedChangeGroupPassesHandlerRanges ==
  (verdict = "Ok" /\ tx.kind = "ChangeGroup") =>
    /\ tx.token <= MaxFungibleToken
    /\ tx.fee # 0 => tx.token <= MaxProcessableToken
    /\ tx.accountId <= MaxAccountId

(* Every accepted transaction's numeric fields fit the encodings that     *)
(* get_bytes and the pubdata use: amount and fee within u128, the fee     *)
(* packable, and a Transfer's amount packable.                            *)
AcceptedTxEncodable ==
  verdict = "Ok" =>
    /\ tx.amount <= U128Max \/ tx.kind = "MintNFT"
    /\ tx.fee <= U128Max /\ IsFeeAmountPackable(tx.fee)
    /\ tx.kind = "Transfer" => IsTokenAmountPackable(tx.amount)

(* In permissioned mode verify_tx_correctness accepts a Transfer or a     *)
(* MintNFT only if storage holds both its sender and its receiver as      *)
(* authorised: the flags reach check_correctness for the right addresses  *)
(* and in the right order, and both checks run.                           *)
PermissionedValueTransfersAuthorised ==
  (Permissioned /\ via = "checker" /\ verdict = "Ok" /\ tx.kind \in {"Transfer", "MintNFT"})
    => {tx.from, tx.to} \subseteq authorised

(* In permissioned mode a transaction that moves value, a ChangeGroup     *)
(* among them, is accepted by verify_tx_correctness only if storage holds *)
(* both its sender and its receiver as authorised.                        *)
PermissionedOnlyAuthorised ==
  (Permissioned /\ via = "checker" /\ verdict = "Ok") => {tx.from, tx.to} \subseteq authorised

(* new_signed reports an incorrect transaction as an error; it never      *)
(* panics (the SDK passes user-chosen amounts to it).                     *)
NewSignedNeverPanics == verdict # "panic"

=============================================================================

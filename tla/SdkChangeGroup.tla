---------------------------- MODULE SdkChangeGroup ----------------------------
(***************************************************************************)
(* The SDK's ChangeGroup path, composed with the server:                  *)
(*   ChangeGroupBuilder (sdk/zksync-rs/src/operations/change_group.rs):   *)
(*     the amount/fee setters, then tx(), which awaits the committed      *)
(*     nonce and the provider's fee when they were not set, and calls     *)
(*   Signer::sign_change_group (sdk/zksync-rs/src/signer.rs), which calls *)
(*     ChangeGroup::new_signed (TxCorrectness);                           *)
(*   send(): provider.send_tx puts the transaction in the mempool, and    *)
(*     the state keeper applies it with TxHandler<ChangeGroup>            *)
(*     (ChangeGroupHandler).                                              *)
(* Several builders of one wallet run concurrently, as the futures of one *)
(* program may.  The wallet may have been created before its account      *)
(* existed (account_info.id was None); update_account_id then fills the  *)
(* signer's account_id in.  Its Ethereum signer is absent, an ECDSA       *)
(* signer, or an EIP-1271 signer.  Beside the wallet, a client that calls *)
(* the API directly submits ChangeGroups with any signature; every       *)
(* submission passes the signature checker's stages for a ChangeGroup     *)
(* (the group whitelist, then check_correctness) before the mempool.     *)
(***************************************************************************)
EXTENDS Naturals, Sequences, FiniteSets

CONSTANTS
  \* of ChangeGroupHandler
  AccountIds, TxAccountIds, Addresses, AddressOf, Tokens, MaxAccountId,
  MaxFungibleToken, MaxProcessableToken, MaxTokenId, KeyHashes,
  DefaultKeyHash, NoSigner, Amounts, Fees, MaxNonce, InitBalance, InitKey, MaxOps,
  \* of TxCorrectness
  U128Max, TokenMantissaMax, TokenExpMax, FeeMantissaMax, FeeExpMax,
  Groups, ServerGroup,
  \* of the SDK
  Builders,      \* ChangeGroupBuilders of the wallet (model values)
  WalletId,      \* the wallet's account
  RawAmounts,    \* values a caller passes to amount() / amount_exact()
  RawFees,       \* values a caller passes to fee() / fee_exact()
  ProviderFees,  \* total_fee values get_tx_fee may return
  Unset,         \* an Option field left None
  EthSigners,    \* kinds of the wallet's eth_signer: "none", "ecdsa", "eip1271"
  Whitelisted,   \* groups is_user_allowed_to_transfer_to_this_group allows
  MaxApiTxs      \* bound on the transactions the direct client submits

ASSUME WalletId \in AccountIds /\ InitKey[WalletId] # DefaultKeyHash

VARIABLES
  accounts, updates, executed, result,  \* the server's state (ChangeGroupHandler)
  signer,    \* the wallet's Signer: account_id and the kind of eth_signer
  builder,   \* per builder: pc, the options set, the signed transaction
  mempool,   \* transactions accepted and not yet applied: [b, tx]
  applied,   \* mempool entries [b, tx] the handler applied
  apiSent    \* transactions the direct client submitted

H == INSTANCE ChangeGroupHandler

TC == INSTANCE TxCorrectness WITH
  Kinds <- {"ChangeGroup"}, Permissioned <- FALSE,
  AccountKey <- InitKey[WalletId], OtherKey <- DefaultKeyHash,
  tx <- "none", authorised <- {}, via <- "none", verdict <- "none",
  cache <- "none"

vars == <<accounts, updates, executed, result, signer, builder, mempool, applied, apiSent>>

(* closest_packable_token_amount: the largest packable amount not above  *)
(* the argument; closest_packable_fee_amount likewise for fees.           *)
ClosestPackableTokenAmount(a) ==
  CHOOSE p \in 0..a : TC!IsTokenAmountPackable(p)
                     /\ \A q \in (p + 1)..a : ~TC!IsTokenAmountPackable(q)

ClosestPackableFeeAmount(a) ==
  CHOOSE p \in 0..a : TC!IsFeeAmountPackable(p)
                     /\ \A q \in (p + 1)..a : ~TC!IsFeeAmountPackable(q)

(* amount(): rounds to the closest packable amount. *)
Amount(raw) == [ok |-> TRUE, v |-> ClosestPackableTokenAmount(raw)]

(* amount_exact(): NotPackableValue unless the amount is packable. *)
AmountExact(raw) ==
  IF TC!IsTokenAmountPackable(raw) THEN [ok |-> TRUE, v |-> raw] ELSE [ok |-> FALSE, v |-> 0]

(* fee() and fee_exact() *)
Fee(raw) == [ok |-> TRUE, v |-> ClosestPackableFeeAmount(raw)]

FeeExact(raw) ==
  IF TC!IsFeeAmountPackable(raw) THEN [ok |-> TRUE, v |-> raw] ELSE [ok |-> FALSE, v |-> 0]

(* The calls a program makes on a new builder: an amount setter, a fee   *)
(* setter or none, a nonce or none, the groups, and whether every field  *)
(* that tx() requires (token, amount, to, group1, group2) was set.        *)
Options ==
  [amount : {Amount(a) : a \in RawAmounts} \cup {AmountExact(a) : a \in RawAmounts},
   fee : {[ok |-> TRUE, v |-> Unset]} \cup {Fee(f) : f \in RawFees}
           \cup {FeeExact(f) : f \in RawFees},
   nonce : {Unset} \cup 0..MaxNonce, token : Tokens, group1 : Groups,
   group2 : Groups, complete : BOOLEAN]

(* Signer::with_credentials (Signer::new, account_id None), then         *)
(* set_account_id(account_info.id).                                       *)
NewSigner(accountId, ethSigner) == [account_id |-> accountId, eth_signer |-> ethSigner]

Init ==
  /\ H!Init
  /\ \E id \in {WalletId, Unset}, e \in EthSigners : signer = NewSigner(id, e)
  /\ builder = [b \in Builders |-> [pc |-> "idle", opts |-> Unset, tx |-> Unset]]
  /\ mempool = <<>>
  /\ applied = {}
  /\ apiSent = 0

(* wallet.start_change_group() and the setter calls; a setter that      *)
(* returns NotPackableValue ends the build.                               *)
Configure(b) ==
  /\ builder[b].pc = "idle"
  /\ \E o \in Options :
       builder' = [builder EXCEPT ![b] = [pc |-> IF o.amount.ok /\ o.fee.ok THEN "configured"
                                                ELSE "NotPackableValue",
                                         opts |-> o, tx |-> Unset]]
  /\ UNCHANGED <<accounts, updates, executed, result, signer, mempool, applied, apiSent>>

(* Wallet::update_account_id: account_info(address).id, which is the      *)
(* wallet's account now that it exists.  It takes &mut self, so no        *)
(* builder borrowing the wallet is alive.                                 *)
UpdateAccountId ==
  /\ \A b \in Builders : builder[b].pc \notin {"configured", "signed"}
  /\ signer' = [signer EXCEPT !.account_id = WalletId]
  /\ UNCHANGED <<accounts, updates, executed, result, builder, mempool, applied, apiSent>>

(* Signer::sign_change_group: NoSigningKey without an account_id, then    *)
(* ChangeGroup::new_signed (a panic on an amount above u128 in get_bytes, *)
(* SigningFailed on check_correctness's error), then with an eth_signer   *)
(* the message is signed and anything but an EthereumSignature is         *)
(* MissingEthSigner.                                                      *)
SignChangeGroup(t) ==
  CASE signer.account_id = Unset -> "NoSigningKey"
    [] t.amount > U128Max -> "panic"
    [] TC!ChangeGroupCheck(t) # "Ok" -> "SigningFailed"
    [] signer.eth_signer = "eip1271" -> "MissingEthSigner"
    [] OTHER -> "Ok"

(* ChangeGroupBuilder::tx(): MissingRequiredField; else the nonce from    *)
(* account_info(..).committed.nonce and the fee from get_tx_fee when they *)
(* were not set; then sign_change_group with the signer's account_id.     *)
BuildTx(b) ==
  LET o == builder[b].opts IN
  /\ builder[b].pc = "configured"
  /\ \E pf \in ProviderFees :
       LET t == [amount |-> o.amount.v,
                 fee |-> IF o.fee.v = Unset THEN pf ELSE o.fee.v,
                 nonce |-> IF o.nonce = Unset THEN accounts[WalletId].nonce ELSE o.nonce,
                 token |-> o.token, group |-> o.group1, group2 |-> o.group2,
                 accountId |-> signer.account_id, toZero |-> FALSE, timeRangeOk |-> TRUE,
                 signer |-> InitKey[WalletId], kind |-> "ChangeGroup"]
       IN builder' = [builder EXCEPT ![b] =
            IF ~o.complete THEN [@ EXCEPT !.pc = "MissingRequiredField"]
            ELSE IF SignChangeGroup(t) = "Ok" THEN [@ EXCEPT !.pc = "signed", !.tx = t]
            ELSE [@ EXCEPT !.pc = SignChangeGroup(t)]]
  /\ UNCHANGED <<accounts, updates, executed, result, signer, mempool, applied, apiSent>>

(* The signature checker on a submitted ChangeGroup: the whitelist query  *)
(* is_user_allowed_to_transfer_to_this_group(group2, to) (UserNotWhite-   *)
(* listed), the Ethereum signature when one is attached (the SDK's is     *)
(* correct), then verify_tx_correctness's check_correctness.              *)
ServerCheck(t) ==
  IF t.group2 \notin Whitelisted THEN "UserNotWhitelisted" ELSE TC!ChangeGroupCheck(t)

(* send(): provider.send_tx; an accepted transaction joins the mempool.   *)
Send(b) ==
  LET t == builder[b].tx IN
  /\ builder[b].pc = "signed"
  /\ IF ServerCheck(t) = "Ok"
     THEN /\ mempool' = Append(mempool, [b |-> b, tx |-> t])
          /\ builder' = [builder EXCEPT ![b].pc = "sent"]
     ELSE /\ builder' = [builder EXCEPT ![b].pc = "rejected"]
          /\ UNCHANGED mempool
  /\ UNCHANGED <<accounts, updates, executed, result, signer, applied, apiSent>>

(* ChangeGroups a client builds without the SDK: any amount and nonce,    *)
(* the wallet's account, and a signature by its key, by another key, or  *)
(* none at all.                                                           *)
ApiTxs ==
  {[amount |-> a, fee |-> 0, nonce |-> n, token |-> 0, group |-> ServerGroup,
    group2 |-> g, accountId |-> WalletId, toZero |-> FALSE, timeRangeOk |-> TRUE,
    signer |-> k, kind |-> "ChangeGroup"] :
     a \in RawAmounts, n \in 0..MaxNonce, g \in Whitelisted,
     k \in (KeyHashes \ {DefaultKeyHash}) \cup {NoSigner}}

(* The direct client's submission passes the same checks as send(). *)
SubmitApi ==
  /\ apiSent < MaxApiTxs
  /\ \E t \in ApiTxs :
       mempool' = IF ServerCheck(t) = "Ok" THEN Append(mempool, [b |-> Unset, tx |-> t])
                  ELSE mempool
  /\ apiSent' = apiSent + 1
  /\ UNCHANGED <<accounts, updates, executed, result, signer, builder, applied>>

(* The transaction as TxHandler<ChangeGroup> reads it. *)
HandlerTx(t) ==
  [account_id |-> t.accountId, from |-> AddressOf[WalletId], token |-> t.token,
   amount |-> t.amount, fee |-> t.fee, nonce |-> t.nonce, signer |-> t.signer]

(* The state keeper applies the oldest transaction of the mempool. *)
Execute ==
  /\ mempool # <<>>
  /\ LET m == Head(mempool) IN
       /\ \/ H!ApplyChangeGroup(HandlerTx(m.tx)) /\ applied' = applied \cup {m}
          \/ H!RejectChangeGroup(HandlerTx(m.tx)) /\ UNCHANGED applied
       /\ builder' = IF m.b \in Builders THEN [builder EXCEPT ![m.b].pc = "done"] ELSE builder
  /\ mempool' = Tail(mempool)
  /\ UNCHANGED <<signer, apiSent>>

Next ==
  \/ \E b \in Builders : Configure(b) \/ BuildTx(b) \/ Send(b)
  \/ UpdateAccountId
  \/ SubmitApi
  \/ Execute

Spec == Init /\ [][Next]_vars

-----------------------------------------------------------------------------
(* Properties *)

(* create_op accepts a ChangeGroup whose verify_signature() is None      *)
(* (handler/change_group.rs:39 only compares a recovered signer), so the  *)
(* handler alone would apply an unsigned ChangeGroup.  check_correctness  *)
(* in the signature checker rejects it first: every ChangeGroup applied,  *)
(* from the SDK or from a direct client, carries a signature by the key   *)
(* of the account it debits.                                              *)
AppliedSignedByAccountKey ==
  \A m \in applied : m.tx.signer = accounts[m.tx.accountId].pubKeyHash

=============================================================================

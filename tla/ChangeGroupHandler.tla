-------------------------- MODULE ChangeGroupHandler --------------------------
(***************************************************************************)
(* The state-transition handlers of core/lib/state/src/handler:            *)
(*   change_group.rs      TxHandler<ChangeGroup>: create_op then apply_op  *)
(*   full_change_group.rs TxHandler<FullChangeGroup> (priority operation)  *)
(* applied to the account tree owned by ZkSyncState.  Each apply_tx call   *)
(* runs create_op and apply_op back to back on &mut self, so each call is  *)
(* one atomic step here.  A step either fails with the first error the     *)
(* code's ordered invariant! checks report, or debits the account, pushes  *)
(* one AccountUpdate and reports the executed operation and its fee.       *)
(***************************************************************************)
EXTENDS Naturals, Sequences, FiniteSets, SequencesExt

CONSTANTS
  AccountIds,          \* ids of the accounts present in the tree
  TxAccountIds,        \* account ids a transaction may name (AccountIds and absent ones)
  Addresses,           \* L2 addresses (model values)
  AddressOf,           \* address of each account: AccountIds -> Addresses, injective
  Tokens,              \* token ids, 0..MaxTokenId
  MaxAccountId,        \* params::max_account_id()
  MaxFungibleToken,    \* params::max_fungible_token_id()
  MaxProcessableToken, \* params::max_processable_token()
  MaxTokenId,          \* params::max_token_id()
  KeyHashes,           \* public key hashes, DefaultKeyHash among them
  DefaultKeyHash,      \* PubKeyHash::default(): the key of a locked account
  NoSigner,            \* verify_signature() returned None
  Amounts,             \* amounts a transaction may carry
  Fees,                \* fees a transaction may carry
  MaxNonce,            \* largest nonce a transaction may carry
  InitBalance,         \* [AccountIds -> [Tokens -> Nat]]
  InitKey,             \* [AccountIds -> KeyHashes]
  MaxOps               \* bound on the number of executed operations

ASSUME AccountIds \subseteq TxAccountIds
ASSUME AddressOf \in [AccountIds -> Addresses]
ASSUME \A a, b \in AccountIds : AddressOf[a] = AddressOf[b] => a = b
ASSUME Tokens = 0..MaxTokenId /\ MaxProcessableToken <= MaxFungibleToken
ASSUME DefaultKeyHash \in KeyHashes /\ NoSigner \notin KeyHashes
ASSUME MaxOps \in Nat

VARIABLES
  accounts,  \* account tree: id -> [nonce, pubKeyHash, balance]
  updates,   \* AccountUpdates pushed by every successful apply_op, in order
  executed,  \* executed operations (OpSuccess.executed_op and its fee)
  result     \* outcome of the last apply_tx: "Ok" or the error variant

vars == <<accounts, updates, executed, result>>

Account == [nonce : Nat, pubKeyHash : KeyHashes, balance : [Tokens -> Nat]]

InitAccounts ==
  [a \in AccountIds |-> [nonce |-> 0, pubKeyHash |-> InitKey[a],
                         balance |-> InitBalance[a]]]

(* A ChangeGroup transaction, reduced to the fields the handler reads.     *)
(* `to`, group1, group2 and the time range are carried into the pubdata    *)
(* only; `signer` is what tx.verify_signature() recovers: the hash of a   *)
(* real key, never the default one, or None.                              *)
ChangeGroupTx ==
  [account_id : TxAccountIds, from : Addresses, token : Tokens,
   amount : Amounts, fee : Fees, nonce : 0..MaxNonce,
   signer : (KeyHashes \ {DefaultKeyHash}) \cup {NoSigner}]

(* A FullChangeGroup priority operation; the contract enforces            *)
(* token <= max_token_id(), so no other token reaches the handler.         *)
FullChangeGroupTx ==
  [account_id : TxAccountIds, eth_address : Addresses, token : Tokens]

(* ZkSyncState::get_account_by_address *)
AccountByAddress(addr) == {a \in AccountIds : AddressOf[a] = addr}

ErrorKinds ==
  {"InvalidTokenId", "InvalidFeeTokenId", "FromAccountNotFound",
   "FromAccountLocked", "InvalidSignature", "FromAccountIncorrect",
   "NonceMismatch", "InsufficientBalance"}

(* create_op of TxHandler<ChangeGroup>: the first failing check, or "Ok".  *)
CreateOpError(tx) ==
  IF tx.token > MaxFungibleToken THEN "InvalidTokenId"
  ELSE IF tx.fee # 0 /\ tx.token > MaxProcessableToken THEN "InvalidFeeTokenId"
  ELSE IF AccountByAddress(tx.from) = {} THEN "FromAccountNotFound"
  ELSE LET id == CHOOSE a \in AccountByAddress(tx.from) : TRUE IN
       IF accounts[id].pubKeyHash = DefaultKeyHash THEN "FromAccountLocked"
       ELSE IF tx.signer # NoSigner /\ tx.signer # accounts[id].pubKeyHash
            THEN "InvalidSignature"
       ELSE IF id # tx.account_id THEN "FromAccountIncorrect"
       ELSE "Ok"

(* Mutant: the balance check of apply_op is dropped. *)
ApplyOpErrorNoBalanceCheck(tx) ==
  IF tx.account_id > MaxAccountId THEN "FromAccountIncorrect"
  ELSE IF tx.nonce # accounts[tx.account_id].nonce THEN "NonceMismatch"
  ELSE "Ok"

(* Mutant: the nonce check of apply_op is dropped. *)
ApplyOpErrorNoNonceCheck(tx) ==
  IF tx.account_id > MaxAccountId THEN "FromAccountIncorrect"
  ELSE IF accounts[tx.account_id].balance[tx.token] < tx.amount + tx.fee
       THEN "InsufficientBalance"
  ELSE "Ok"

(* apply_op of TxHandler<ChangeGroup>, checks before any mutation.         *)
ApplyOpError(tx) ==
  IF tx.account_id > MaxAccountId THEN "FromAccountIncorrect"
  ELSE IF tx.nonce # accounts[tx.account_id].nonce THEN "NonceMismatch"
  ELSE IF accounts[tx.account_id].balance[tx.token] < tx.amount + tx.fee
       THEN "InsufficientBalance"
  ELSE "Ok"

ChangeGroupError(tx) ==
  IF CreateOpError(tx) # "Ok" THEN CreateOpError(tx) ELSE ApplyOpError(tx)

(* Mutant: old and new balance swapped in the update tuple. *)
BalanceUpdateSwapped(id, token, oldBal, newBal, oldNonce, newNonce) ==
  [id |-> id, token |-> token, oldBalance |-> newBal, newBalance |-> oldBal,
   oldNonce |-> oldNonce, newNonce |-> newNonce]

(* AccountUpdate::UpdateBalance *)
BalanceUpdate(id, token, oldBal, newBal, oldNonce, newNonce) ==
  [id |-> id, token |-> token, oldBalance |-> oldBal, newBalance |-> newBal,
   oldNonce |-> oldNonce, newNonce |-> newNonce]

(* Mutant: only the amount is debited, the fee is still collected. *)
DebitNoFee(tx) == tx.amount

(* sub_balance(op.tx.token, &(&op.tx.amount + &op.tx.fee)) *)
Debit(tx) == tx.amount + tx.fee

(* apply_tx(ChangeGroup) succeeding: debit amount + fee, bump the nonce,   *)
(* push one update, collect the fee in the transferred token.              *)
ApplyChangeGroup(tx) ==
  LET id  == tx.account_id
      acc == accounts[id]
      new == [acc EXCEPT !.balance[tx.token] = @ - Debit(tx),
                         !.nonce = @ + 1]
  IN
  /\ ChangeGroupError(tx) = "Ok"
  /\ accounts' = [accounts EXCEPT ![id] = new]
  /\ updates' = Append(updates,
        BalanceUpdate(id, tx.token, acc.balance[tx.token],
                      new.balance[tx.token], acc.nonce, new.nonce))
  /\ executed' = Append(executed,
        [kind |-> "ChangeGroup", account |-> id, nonce |-> tx.nonce,
         token |-> tx.token, amount |-> tx.amount, fee |-> tx.fee])
  /\ result' = "Ok"

(* apply_tx(ChangeGroup) failing: the error is returned, nothing changes. *)
RejectChangeGroup(tx) ==
  /\ ChangeGroupError(tx) # "Ok"
  /\ result' = ChangeGroupError(tx)
  /\ UNCHANGED <<accounts, updates, executed>>

(* create_op of TxHandler<FullChangeGroup>: the balance to withdraw is the *)
(* whole balance of the token when the account exists and its address is  *)
(* the priority operation's eth_address, and None otherwise.  The NFT     *)
(* branch only adds creator data to the operation.                        *)
WithdrawAmountDefined(op) ==
  op.account_id \in AccountIds /\ AddressOf[op.account_id] = op.eth_address

(* Mutant: the balance is read in the default token (0), not op.token. *)
WithdrawAmountDefaultToken(op) == accounts[op.account_id].balance[0]

WithdrawAmount(op) == accounts[op.account_id].balance[op.token]

(* apply_tx(FullChangeGroup): with an amount, subtract it (the code then   *)
(* asserts the new balance is zero) and push an update that keeps the      *)
(* nonce; without one, succeed with no update.  No fee either way.         *)
ApplyFullChangeGroup(op) ==
  IF WithdrawAmountDefined(op)
  THEN LET id  == op.account_id
           amt == WithdrawAmount(op)
           old == accounts[id].balance[op.token]
       IN /\ accounts' = [accounts EXCEPT ![id].balance[op.token] = old - amt]
          /\ updates' = Append(updates,
                BalanceUpdate(id, op.token, old, old - amt,
                              accounts[id].nonce, accounts[id].nonce))
          /\ executed' = Append(executed,
                [kind |-> "FullChangeGroup", account |-> id, nonce |-> 0,
                 token |-> op.token, amount |-> amt, fee |-> 0])
          /\ result' = "Ok"
  ELSE /\ executed' = Append(executed,
             [kind |-> "FullChangeGroup", account |-> op.account_id,
              nonce |-> 0, token |-> op.token, amount |-> 0, fee |-> 0])
       /\ result' = "Ok"
       /\ UNCHANGED <<accounts, updates>>

Init ==
  /\ accounts = InitAccounts
  /\ updates = <<>>
  /\ executed = <<>>
  /\ result = "Ok"

Next ==
  \/ \E tx \in ChangeGroupTx : ApplyChangeGroup(tx)
  \/ \E tx \in ChangeGroupTx : RejectChangeGroup(tx)
  \/ \E op \in FullChangeGroupTx : ApplyFullChangeGroup(op)

(* State constraint for model checking: at most MaxOps executed operations. *)
OpsBound == Len(executed) <= MaxOps

Spec == Init /\ [][Next]_vars

-----------------------------------------------------------------------------
(* Properties *)

(* Every account keeps a nonce, a key hash and a balance per token that  *)
(* apply_op never takes below zero; every update and executed operation  *)
(* has the shape the handler pushes.                                      *)
TypeOK ==
  /\ accounts \in [AccountIds -> Account]
  /\ updates \in Seq([id : AccountIds, token : Tokens, oldBalance : Nat,
                      newBalance : Nat, oldNonce : Nat, newNonce : Nat])
  /\ executed \in Seq([kind : {"ChangeGroup", "FullChangeGroup"},
                       account : TxAccountIds, nonce : Nat, token : Tokens,
                       amount : Nat, fee : Nat])
  /\ result \in ErrorKinds \cup {"Ok"}

(* Replaying the AccountUpdates, in the order apply_op pushed them, from   *)
(* the initial tree: every update's old balance and old nonce are the     *)
(* values the replay has reached, and the replay ends in the current      *)
(* tree.  Downstream storage rebuilds accounts from exactly this list.    *)
ReplayStep(st, u) ==
  [bal   |-> [st.bal EXCEPT ![u.id][u.token] = u.newBalance],
   nonce |-> [st.nonce EXCEPT ![u.id] = u.newNonce],
   ok    |-> st.ok /\ st.bal[u.id][u.token] = u.oldBalance
                   /\ st.nonce[u.id] = u.oldNonce]

Replayed ==
  FoldLeft(ReplayStep,
           [bal |-> InitBalance, nonce |-> [a \in AccountIds |-> 0], ok |-> TRUE],
           updates)

UpdatesReplayToState ==
  /\ Replayed.ok
  /\ Replayed.bal = [a \in AccountIds |-> accounts[a].balance]
  /\ Replayed.nonce = [a \in AccountIds |-> accounts[a].nonce]

(* No value is created or destroyed: per token, the balances in the tree, *)
(* the fees collected and the amounts that left the group by ChangeGroup  *)
(* or FullChangeGroup add up to the initial balances.                     *)
SumOver(S, f(_)) == FoldSet(LAMBDA x, acc : f(x) + acc, 0, S)

Outflow(t) ==
  FoldLeft(LAMBDA acc, e : IF e.token = t THEN acc + e.amount + e.fee ELSE acc,
           0, executed)

ValueConserved ==
  \A t \in Tokens :
     SumOver(AccountIds, LAMBDA a : accounts[a].balance[t]) + Outflow(t)
       = SumOver(AccountIds, LAMBDA a : InitBalance[a][t])

(* The ChangeGroup operations executed for one account carry the nonces   *)
(* 0, 1, 2, ... in execution order: no nonce is skipped or used twice, so *)
(* a signed transaction can never be executed twice.                      *)
NoncesConsecutive ==
  \A a \in AccountIds :
    LET mine == SelectSeq(executed,
                  LAMBDA e : e.kind = "ChangeGroup" /\ e.account = a)
    IN \A i \in 1..Len(mine) : mine[i].nonce = i - 1

-----------------------------------------------------------------------------
(* Refinement: the handlers implement the ledger of AccountLedger.  The    *)
(* ledger's balances and nonces are those of the tree; its fees are the   *)
(* CollectedFee values apply_op returned, summed per token.               *)
CollectedFees ==
  [t \in Tokens |->
     FoldLeft(LAMBDA acc, e : IF e.token = t THEN acc + e.fee ELSE acc,
              0, executed)]

Ledger == INSTANCE AccountLedger
            WITH Accounts <- AccountIds,
                 balance  <- [a \in AccountIds |-> accounts[a].balance],
                 nonce    <- [a \in AccountIds |-> accounts[a].nonce],
                 fees     <- CollectedFees

(* Every apply_tx of ChangeGroup or FullChangeGroup is a step of the      *)
(* ledger or leaves it alone: a ChangeGroup takes amount + fee from a     *)
(* balance that covers both, moves the nonce on by one and collects the   *)
(* fee in its token; a FullChangeGroup empties one token and keeps the    *)
(* nonce; a rejected transaction changes nothing.                         *)
LedgerRefinement == Ledger!Spec

=============================================================================

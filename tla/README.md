# TLA+ models of the ChangeGroup rollup extension

These modules model the parts of this zk-rollup that the ChangeGroup feature
touches. The models are checked with TLC. Each definition is translated from
the Rust source under `src/`. `PROJECT.json` maps every definition to the
lines it stands for.

## The system

A transaction goes through these parts:

1. **SDK** (`sdk/zksync-rs`): `ChangeGroupBuilder` fills in the transaction.
   It takes the nonce from the committed account state. `Signer::sign_change_group`
   signs it with the zkSync key and, for an ECDSA account, adds an Ethereum
   signature. It needs the signer's `account_id`. `Wallet::new` fetches that
   id, and `update_account_id` fetches it again for a wallet created before
   its account existed.
2. **API / signature checker** (`core/bin/zksync_api/src/signature_checker.rs`):
   - An API handler sends a `VerifySignatureRequest` into an mpsc channel.
   - `checker_routine` spawns one tokio task per request.
   - The task runs `verify_eth_signature`: the onchain ChangePubKey
     authorisation, the ChangeGroup whitelist query
     `is_user_allowed_to_transfer_to_this_group`, and the Ethereum signatures
     (ECDSA recovery, or an EIP-1271 contract call). For a batch it matches
     the senders against the batch signatures.
   - The task then runs `verify_tx_correctness`: a database connection, the
     `is_account_autorised` flags of sender and receiver, and `check_correctness`.
   - The task replies on a oneshot channel.
   - External call failures are `.expect()`ed or `.unwrap()`ed, so they panic
     the task.
3. **State** (`core/lib/state/src/handler`): `TxHandler<ChangeGroup>` and
   `TxHandler<FullChangeGroup>` turn a verified transaction, or a priority
   operation from L1, into account updates.
4. **Operation / pubdata / witness** (`core/lib/types/src/operations`,
   `core/lib/circuit`): they serialise the executed operation for the
   circuit.

## Modules

| Module | Models | State | Actions |
|---|---|---|---|
| `ChangeGroupHandler` | `handler/change_group.rs`, `handler/full_change_group.rs` | `accounts` (nonce, key hash, balances per token), `updates` (the `AccountUpdate`s pushed), `executed` (the executed ops), `result` | `ApplyChangeGroup` (apply_tx succeeding: create_op and apply_op checks, debit of amount+fee, nonce+1, one update), `RejectChangeGroup` (the first failing check's error, nothing changed), `ApplyFullChangeGroup` (withdraw the whole balance when the account and address match, else a no-op) |
| `AccountLedger` | the promise of both handlers' `apply_op` (spec.md, apply_op) | `balance`, `nonce`, `fees` (collected per token) | `Withdraw(a, t, amount, fee)` (balance covers amount+fee, both taken, nonce+1, fee collected), `Drain(a, t)` (the whole balance of one token, nonce and fees kept) |
| `BatchSignature` | the Batch arm of `verify_eth_signature`, `verify_eth_signature_txs_batch`, `verify_eth_signature_single_tx`, `verify_ethereum_signature` | `request`, `verdict` | `ReceiveBatch`, `CheckBatch`, `ReplyBatch` |
| `SignatureChecker` | `checker_routine`, `VerifiedTx::verify`, `verify_tx_correctness` | `channel`, per request `pc`, `stage`, `passed`, `response`, `listening` | `Submit`, `Dispatch`, `RunStage(r, outcome)`, `DropReceiver` |
| `TxCorrectness` | `check_correctness` of Transfer, MintNFT and ChangeGroup, `ZkSyncTx::check_correctness`, `account()`/`to_account()`, `verify_tx_correctness`, `new_signed`, the signer cache (`new`, `verify_signature`, `wipe_signer_cache`) | `tx`, `authorised` (the addresses `is_account_autorised` answers true for), `via` (checker or SDK), `verdict`, `cache` (`cached_signer`) | `Receive`, `Check`, `NewSigned`, `WipeSignerCache`, `Done` |
| `SdkChangeGroup` | `ChangeGroupBuilder` setters, `tx()` and `send()`, `Signer::new`/`set_account_id`, `Wallet::update_account_id`, `Signer::sign_change_group`, the checker's ChangeGroup checks, composed with `TxCorrectness` and `ChangeGroupHandler` | the handler's variables, `signer` (account_id, eth signer kind), `builder` (per builder: pc, options, signed tx), `mempool`, `applied`, `apiSent` | `Configure(b)`, `BuildTx(b)`, `Send(b)`, `UpdateAccountId`, `SubmitApi`, `Execute` |
| `ChangeGroupPubdata` | `ChangeGroupOp::get_public_data`/`parse_pub_data`/`from_public_data`, `ChangeGroupWitness::apply_tx`/`apply_data`/`get_pubdata` | `op`, `pubdata`, `restored`, `witness`, the state tree (`balance`, `nonce`, `fees` of `AccountLedger`), `circuit` (the prover's account tree) | `Execute` (an accepted ChangeGroup applied to the state tree), `Restore`, `BuildWitness` (witness pubdata and the leaf update of the prover's tree), `NextBlock` |

Notes on the modules:

- **ChangeGroupHandler.**
  - The error operators `CreateOpError` and `ApplyOpError` keep the order of
    the code's `invariant!` checks.
  - The zkSync signature is abstracted to the key hash it recovers, or
    `NoSigner`.
  - `Ledger == INSTANCE AccountLedger WITH ...` is the refinement mapping.
    The ledger's balances and nonces are those of the tree. Its fees are the
    `CollectedFee`s that `apply_op` returned (`CollectedFees`), summed per
    token over `executed`.
- **BatchSignature.**
  - The loops are RECURSIVE operators: `MatchSenders` for the matching and
    `CheckEach` for the zipped per-transaction loop.
  - An ECDSA signature is the address it recovers.
  - An EIP-1271 signature is the set of contract accounts that accept it.
- **SignatureChecker.**
  - Each check of a request is a *stage*. A stage records whether it awaits
    an external call and which outcomes it can produce: pass, an error
    variant, or a panic.
  - `Stages(d)` lists the stages in the code's order for each request shape.
- **TxCorrectness.**
  - Each `check_correctness` is a CASE whose arms are the code's early
    returns, in the code's order. The result is the error variant or "Ok".
  - The amount codec (`is_token_amount_packable`, `is_fee_amount_packable`)
    is not in this repository. It is modelled from the spec: a value is
    packable when it is mantissa * 10^exponent within the bounds.
  - `NewSigned` models the SDK's path, where `get_bytes` runs before any check.
    It covers `new_signed` of all three kinds: `new()` without a signature,
    then signing, then `check_correctness`.
  - `cache` is the transaction's `cached_signer`: "NotCached" or the signer.
    `VerifySignature` answers from it when it is filled. `NewCache` is what
    `new()` leaves, `CheckedCache` what `check_correctness` leaves: it fills
    the cache just before its last (signature) check. `Receive` starts with
    an empty cache, because the field is `serde(skip)`; the
    `VerifiedSignatureCache` type is not in this repository, and its default
    is taken to be `NotCached`.
  - `Check` asks the storage set about `TxAccount(tx)` and `TxToAccount(tx)`
    (`account()` and `to_account()`) and passes the two answers in that order.
    `Receive` picks any set of authorised addresses, because storage may hold
    any set.
- **SdkChangeGroup.**
  - It INSTANCEs `ChangeGroupHandler` with its own variables, so the server
    state is the handler's, and `Execute` is the handler's whole
    `ApplyChangeGroup` or `RejectChangeGroup` step.
  - `BuildTx` is `tx()` with the committed-nonce and fee reads. It then calls
    `SignChangeGroup`, which gives the error paths of `sign_change_group` in
    order. `NoSigningKey` comes first, then `new_signed`
    (`TxCorrectness!ChangeGroupCheck`), then `MissingEthSigner` for an
    EIP-1271 eth signer.
  - `Send` and `SubmitApi` pass the checker's ChangeGroup checks
    (`ServerCheck`) before the mempool. These are the whitelist
    (`Whitelisted` groups for the one destination) and then
    `check_correctness`. The SDK's Ethereum signature is always correct, so
    it is not a separate step.
  - `SubmitApi` is a client that builds a ChangeGroup without the SDK. It
    may use any amount, any nonce, and a signature by the account key, by
    another key, or none.
  - `UpdateAccountId` runs only while no builder is mid-build, because it
    takes `&mut self` on the wallet that the builders borrow.
  - The sequence of setter calls is collapsed into one `Configure` step that
    picks the final options.
  - `closest_packable_*` is not in this repository. It is modelled from the
    spec as the largest packable value not above the argument.
- **ChangeGroupPubdata.**
  - Bytes are numbers 0..255. Each field is written big-endian, at widths
    scaled down from the code's (2 bytes stand for u128's 16).
  - The pubdata layout, its parser and the witness's pubdata are translated
    field by field. Only ChangeGroups that `TxCorrectness!ChangeGroupCheck`
    accepts reach a block.
  - `ToFloat` is upstream `FloatConversions::to_float`, modelled from the
    spec: the least exponent whose range holds the value, the mantissa
    rounded down, and an error only above the largest representable value.
  - The prover's tree keeps only balances and nonces, as numbers modulo the
    field order. Merkle paths, roots and the other field elements of the
    witness are not modelled.

## Runs

| Run | Config | Expect | What it shows |
|---|---|---|---|
| handler_pass | `MCChangeGroupHandler.cfg` | pass | see below |
| batch_pass | `MCBatchSignature.cfg` | pass | see below |
| batch_shared_eip1271 | `MCBatchSignatureShared.cfg` | violation | see below |
| batch_tokens_shortfall | `MCBatchSignatureTokens.cfg` | violation | see below |
| checker_pass | `MCSignatureChecker.cfg` | pass | see below |
| tx_pass | `MCTxCorrectness.cfg` | pass | see below |
| tx_permissioned_changegroup | `MCTxCorrectnessChangeGroupPermissioned.cfg` | violation | see below |
| tx_new_signed_panic | `MCTxCorrectnessNewSigned.cfg` | violation | see below |
| sdk_pass | `MCSdkChangeGroup.cfg` | pass | see below |
| pubdata_pass | `MCChangeGroupPubdata.cfg` | pass | see below |

**handler_pass** runs any sequence of at most 2 operations over 2 accounts
(one with its key set, one locked), 3 tokens and every create_op/apply_op
error path. It checks four invariants and one temporal property:

- `TypeOK`: balances never go negative.
- `UpdatesReplayToState`: the pushed updates replay from the initial tree to
  the current one, and each update's old values match the state it was
  applied to.
- `ValueConserved`: the balance lost by every token equals the recorded
  outflow.
- `NoncesConsecutive`: each account's ChangeGroups carry nonces 0, 1, 2, …
- `LedgerRefinement` (`Ledger!Spec`): the handlers implement
  `AccountLedger`. Each step is one of three things: a withdrawal that the
  balance covers, with nonce+1 and the fee collected; a drain of one token to
  zero that keeps the nonce; or no change. The FullChangeGroup model does not
  copy the code's `assert_eq!(new_balance, 0)`, so this property is what
  checks that `create_op` reads the balance `apply_op` then takes. Reading it
  in another token (the mutant `WithdrawAmountDefaultToken`) leaves a
  non-zero balance, and TLC reports it. Checking the property takes most of
  the run's time, about a minute.

**batch_pass** uses ECDSA and single-account EIP-1271 signatures, batches of
up to 3 transactions with up to 2 batch signatures, and a token for every
transaction. A batch is accepted exactly when its signatures cover every
sender and each transaction's own signature is right.

**batch_shared_eip1271** is a finding. One EIP-1271 signature is accepted by
two contract accounts. The pigeonhole short-circuit at
`signature_checker.rs:237` then rejects a batch from both accounts, although
that signature covers both.

**batch_tokens_shortfall** is a finding. The request carries fewer `tokens`
than `txs`. Then `txs.zip(senders).zip(tokens)` at `signature_checker.rs:111`
skips the trailing transactions' own checks, and the batch is accepted with a
wrong signature. Only `senders.len()` is compared with `txs.len()`.

**checker_pass** runs two concurrent requests of every shape. The external
calls of the first may never return. It checks two properties:

- `VerifiedOnlyIfAllChecksPassed`: Ok is sent only after every check the
  request kind needs.
- `EveryRequestAnswered`: every requester who keeps waiting and whose calls
  return gets a result or a cancellation. This holds even when the other
  task hangs.

**tx_pass** checks every combination of the fields over the bounds below.
It runs in permissioned mode with every set of authorised addresses. When
both addresses are authorised, the checks are those of non-permissioned
mode, so the run covers both modes. It checks three properties:

- `AcceptedChangeGroupPassesHandlerRanges`: a ChangeGroup that
  `check_correctness` accepts also passes the state handler's token and
  account checks.
- `AcceptedTxEncodable`: accepted amounts and fees fit u128, and the fee and
  a Transfer's amount are packable.
- `PermissionedValueTransfersAuthorised`: a Transfer or MintNFT is accepted
  only when storage authorises both its sender and its receiver. This needs
  `verify_tx_correctness` to look up the right addresses, via `account()`
  and `to_account()`.

**tx_permissioned_changegroup** is a finding. `PermissionedOnlyAuthorised`
states the same property for every kind. It fails for ChangeGroup, because
`zksync_tx.rs:282` does not pass it the flags.

**tx_new_signed_panic** is a finding. `new_signed` calls `get_bytes` first,
and `get_bytes` unwraps `amount.to_u128()`. An amount above u128::MAX
therefore panics instead of returning `WrongAmount`.

**sdk_pass** runs two concurrent builders of one wallet, and a client that
calls the API directly. Both go through signing, the checker, the mempool and
the handler. The wallet's `account_id` is either set or fetched later, and
its eth signer is either ECDSA or EIP-1271. The run checks one property:

- `AppliedSignedByAccountKey`: every applied ChangeGroup, from either
  source, is signed by the key of the account it debits.
  - `create_op` lets an unsigned ChangeGroup through
    (`handler/change_group.rs:39`), and `check_correctness` rejects it.
  - `check_correctness` lets a ChangeGroup signed by another key through
    (`change_group.rs:254`), and `create_op` rejects it.
  - The property needs both halves. Its mutant drops the signature check of
    `check_correctness`.

Both builders may read the same committed nonce
(`operations/change_group.rs:77`); the handler then applies one of the two
transactions and rejects the other with `NonceMismatch`. That the nonces of
applied ChangeGroups stay consecutive is `NoncesConsecutive` of handler_pass,
which covers every order of operations on an account.

**pubdata_pass** checks four properties. The first two hold for every
accepted ChangeGroup, and the last two hold over two blocks:

- `PubdataRoundTrip`: `from_public_data(get_public_data())` gives back the
  account, token, amount, fee, address and group2.
- `WitnessMatchesPubdata`: the witness's pubdata equals the committed
  pubdata byte for byte.
- `CircuitTreeMatchesState`: once a block's witness is built, the prover's
  account tree holds the same balances and nonces as the state tree.
  - `Execute` applies the operation to the state tree as
    `AccountLedger!Withdraw`, the step that handler_pass shows
    `ChangeGroupHandler` refines.
  - `BuildWitness` applies `apply_data`'s leaf update to the prover's tree.
    That update is nonce + 1 and balance − amount − fee, modulo the field
    order `FieldModulus`, with no check of its own.
  - A fee left out of the leaf update (the mutant `WitnessLeafUpdateNoFee`)
    makes the trees drift apart, and TLC reports it.
- `WitnessBuildable`: no witness build panics. `apply_tx` unwraps
  `to_float` of the amount and of the fee (`witness/change_group.rs:197`).
  The codec rounds down (spec.md 4.1) and fails only above the largest
  representable value. The token float range exceeds u128::MAX, so the
  amount never fails. The fee range (2047 * 10^31) is below u128::MAX, so
  the unwrap is safe only because `check_correctness` refuses a fee that is
  not packable. Its mutant accepts any fee, and fee 100 then panics the
  witness.

### Bounds

- **Handler:** 2 accounts cover a matching and a mismatching
  `account_id`/`from` pair, and a locked account. Token 0 is processable,
  token 1 is fungible but not processable, and token 2 is not fungible, so
  every token check is reached. Amounts and fees are 0..1 with balance 2, so
  both the insufficient and the exact-balance cases happen. 2 operations
  reach nonce 1 and the second op of an account.
- **Batch:** 3 transactions and 2 signatures reach the short-circuit, which
  needs two matched senders and a third.
- **TxCorrectness:** u128::MAX is scaled to 3. Amounts {0,1,3,10} contain
  a packable value, a non-packable value (3 with mantissa max 1) and one
  above u128 (10). Fees {0,1,3,10} do the same for the fee codec. Account
  ids reach MaxAccountId+1. Tokens 0 (processable), 1 (fungible) and 2 (NFT)
  reach every token check. Two addresses give a sender distinct from its
  receiver, and `Receive` picks any of the four authorised sets.
- **ChangeGroupPubdata:** 2-byte fields and 3-byte chunks (18 bytes of
  pubdata, 13 used) keep the padding. The values 300, 513, 258 and 65535 have
  a non-zero high byte, so swapped or misaligned bytes show. Amounts 9 and
  65535 and fee 9 are not packable but round; 300 and 60 need an exponent. Every balance starts
  at 320, which covers amount 300 with fee 5.
  `AmountExpBits` = 3 makes the largest token float (7 * 10^7) exceed the
  scaled u128::MAX, as the real 35-bit/5-bit widths exceed u128::MAX; fee
  100 is above the fee float range (70), as fees above 2047 * 10^31 are
  with the real 11-bit/5-bit widths. A field order of 65521 is
  above every balance. `MaxBlocks` = 2 (the `BlocksBound` constraint on the
  sum of the nonces) is the least number of blocks in which the second
  witness starts from a tree that the first one updated.
- **SDK:** 2 builders are the least that race on the committed nonce. A
  balance of 2 allows two applied transactions. Raw amounts {1, 2, 10}
  round down (2 to 1), fail `amount_exact` (2) and exceed u128 (10).
  Groups {0, 1} with only 0 whitelisted reach `UserNotWhitelisted` and
  `WrongGroup`.
  - Two key hashes let the direct client sign with the account key or with
    another key. One direct submission is enough to reach both rejections.
  - An absent eth signer behaves like ECDSA here, because the Ethereum
    signature is not modelled. So `EthSigners` is {ECDSA, EIP-1271}.
- **Checker:** 2 requests are the least that show one request's hang
  affecting another.

### Fairness

- The tokio runtime polls every ready task. So the dispatcher and the steps
  that await nothing (ECDSA recovery, `check_correctness`) are weakly fair.
- A stage that awaits the Ethereum node or the database completes only if the
  call returns. The code has no timeout, so such a stage is weakly fair only
  for requests outside `HungRequests`.
- Requesters and API handlers need no fairness: submitting a request or
  dropping a receiver is their choice.
- `sdk_pass` checks only safety, so it assumes no fairness. Its
  `CHECK_DEADLOCK FALSE` is sound: the run stops when every builder has
  finished and the mempool is empty.
- `CHECK_DEADLOCK FALSE` in the checker run is sound: once every request is
  answered, the real checker also waits for input.

## Findings

1. **Shared EIP-1271 signature (`SignedBatchAccepted`, spec_gap).** The
   matching loop assumes one signature verifies for one sender. EIP-1271 does
   not guarantee that.
2. **Tokens shorter than txs (`BatchAcceptedOnlyIfSigned`, spec_gap).** Only
   two of the three array lengths are compared. The third truncates the
   per-transaction checks.

3. **Permissioned ChangeGroup (`PermissionedOnlyAuthorised`,
   spec_code_divergence).** The whitelist flags are not passed to ChangeGroup.
4. **`new_signed` panics (`NewSignedNeverPanics`, code_bug).**

## Not modelled (yet) and plan

- **`get_withdrawal_data` after data restore.** `parse_pub_data` restores
  group1 as 0. Nothing under `src` uses a restored op's withdrawal data, so
  this is listed as a hazard only.
- **The Ethereum sign messages** are text formatting. They are left out.
  - The signature checker verifies the Ethereum signature over the message
    the client sent (`signature_checker.rs:207`).
  - The comparison of that message with the transaction's own
    `get_ethereum_sign_message` is not in this repository.
  - So no property under `src` depends on what the message contains.
  - spec.md:52 says every message has an action-specific line. A zero-amount
    ChangeGroup's message has none
    (`tx/change_group.rs:166`): it is only the fee line and the nonce.
- **The FullChangeGroup witness** is not in this repository. So
  `ChangeGroupPubdata` executes only ChangeGroups against the state tree.
- **The other SDK builders:** `ForcedExitBuilder` and the rest, and the
  token cache. The ForcedExit transaction and its handler are not in this
  repository.
- **Stale authorisation:** the whitelist and the `is_account_autorised`
  flags are read at verification and not again at application.
  `SdkChangeGroup` composes the checker and the handler with a fixed
  whitelist. Neither the code nor spec.md says a revocation after
  verification must be honoured, so no property states one.
- **Storage records, API data types and the prover binary.** They are plain
  data or start-up code.

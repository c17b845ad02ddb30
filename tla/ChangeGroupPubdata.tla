--------------------------- MODULE ChangeGroupPubdata ---------------------------
(***************************************************************************)
(* The public data of an executed ChangeGroup and the circuit witness     *)
(* built from it:                                                         *)
(*   ChangeGroupOp::get_public_data / parse_pub_data                      *)
(*     (core/lib/types/src/operations/change_group_op.rs)                 *)
(*   ChangeGroupWitness::apply_tx / apply_data / get_pubdata              *)
(*     (core/lib/circuit/src/witness/change_group.rs)                     *)
(* Only transactions that ChangeGroup::check_correctness accepts reach a  *)
(* block; that check is taken from TxCorrectness.  The state tree the     *)
(* operation is applied to is the AccountLedger, which ChangeGroupHandler *)
(* refines (handler_pass); the prover keeps its own CircuitAccountTree,  *)
(* which apply_data updates leaf by leaf.                                  *)
(*                                                                         *)
(* Bytes are numbers 0..255 and every field is written big-endian, as in  *)
(* the code; the field widths are scaled down (BalanceBytes stands for    *)
(* the 16 bytes of u128) so that the numbers stay within TLC's integers.  *)
(* The Amount Codec (pack_fee_amount, unpack_fee_amount,                  *)
(* FloatConversions::to_float) is not in this repository: a number is     *)
(* packed as mantissa and decimal exponent, rounded down (spec.md 4.1:    *)
(* packing is lossy), and to_float fails only on a number above the      *)
(* largest representable one.                                             *)
(***************************************************************************)
EXTENDS Naturals, Sequences, SequencesExt, Functions

CONSTANTS
  AccountIdBytes, TokenBytes, BalanceBytes, FeeBytes,
  AddressBytes, GroupBytes, ChunkBytes,
  AmountExpBits, AmountMantBits,   \* AMOUNT_EXPONENT/MANTISSA_BIT_WIDTH
  FeeExpBits, FeeMantBits,         \* FEE_EXPONENT/MANTISSA_BIT_WIDTH
  AccountIds, Tokens, Amounts, Fees, Addresses, Groups, ServerGroup,
  MaxAccountId, MaxFungibleToken, MaxProcessableToken, MaxTokenId,
  InitBalance,     \* [AccountIds -> [Tokens -> Nat]]: both trees at the start
  FieldModulus,    \* the order of Fr, scaled down: circuit arithmetic is modulo it
  MaxBlocks        \* bound on the number of executed operations

OP_CODE == 12
CHUNKS == 6
U128Max == 256^BalanceBytes - 1

(* The accepted-transaction filter: ChangeGroup::check_correctness. *)
TC == INSTANCE TxCorrectness WITH
  Kinds <- {"ChangeGroup"}, Permissioned <- FALSE,
  TokenMantissaMax <- 2^AmountMantBits - 1, TokenExpMax <- 2^AmountExpBits - 1,
  FeeMantissaMax <- 2^FeeMantBits - 1, FeeExpMax <- 2^FeeExpBits - 1,
  AccountKey <- "key", OtherKey <- "other", NoSigner <- "none",
  tx <- "none", authorised <- {}, via <- "none", verdict <- "none",
  cache <- "none"

(* big-endian fixed width: to_be_bytes / append_be_fixed_width *)
ToBE(v, n) == [i \in 1..n |-> (v \div 256^(n - i)) % 256]

(* u32/u128::from_bytes *)
FromBE(s) == FoldLeft(LAMBDA acc, b : acc * 256 + b, 0, s)

(* Vec::resize(n, 0): pads with zeros or truncates. *)
Resize(s, n) ==
  IF Len(s) >= n THEN SubSeq(s, 1, n) ELSE s \o [i \in 1..(n - Len(s)) |-> 0]

(* resize_grow_only: pads, never truncates. *)
ResizeGrowOnly(s, n) ==
  IF Len(s) >= n THEN s ELSE s \o [i \in 1..(n - Len(s)) |-> 0]

(* FloatConversions::to_float(x, expBits, mantBits, 10): TooBigInteger  *)
(* above the largest mantissa times 10 to the largest exponent; else the *)
(* smallest exponent e with x <= maxMantissa * 10^e and the mantissa      *)
(* x / 10^e, or maxMantissa at e - 1 when that is closer to x.  The value *)
(* is rounded down to a representable one, never refused for lack of an  *)
(* exact form.                                                            *)
ToFloat(x, expBits, mantBits) ==
  LET maxM == 2^mantBits - 1
      maxE == 2^expBits - 1
      e == CHOOSE k \in 0..maxE : x <= maxM * 10^k /\ (k = 0 \/ x > maxM * 10^(k - 1))
      m == x \div 10^e
  IN IF x > maxM * 10^maxE THEN [ok |-> FALSE, mantissa |-> 0, exponent |-> 0]
     ELSE IF e > 0 /\ m * 10^e < maxM * 10^(e - 1)
          THEN [ok |-> TRUE, mantissa |-> maxM, exponent |-> e - 1]
          ELSE [ok |-> TRUE, mantissa |-> m, exponent |-> e]

(* pack_fee_amount of a packable fee: mantissa bits, then exponent bits *)
PackFeeAmount(f) ==
  LET fl == ToFloat(f, FeeExpBits, FeeMantBits)
  IN fl.mantissa * 2^FeeExpBits + fl.exponent

(* unpack_fee_amount *)
UnpackFeeAmount(p) == (p \div 2^FeeExpBits) * 10^(p % 2^FeeExpBits)

(* The ChangeGroupOp fields the encodings read.  group1 is always the    *)
(* server's group, which check_correctness requires.                      *)
Op == [account_id : AccountIds, token : Tokens, amount : Amounts, fee : Fees,
       to : Addresses, group1 : {ServerGroup}, group2 : Groups]

(* The transaction as check_correctness sees it: signed, time range valid. *)
AsTx(op) ==
  [kind |-> "ChangeGroup", amount |-> op.amount, fee |-> op.fee,
   accountId |-> op.account_id, token |-> op.token, group |-> op.group1,
   toZero |-> op.to = 0, timeRangeOk |-> TRUE, signer |-> "key"]

(* Mutant: check_correctness without its fee packability check (the    *)
(* other checks see a packable fee of the same zero-ness).               *)
AcceptedAnyFee(op) ==
  TC!ChangeGroupCheck([AsTx(op) EXCEPT !.fee = IF @ = 0 THEN 0 ELSE 1]) = "Ok"

Accepted(op) == TC!ChangeGroupCheck(AsTx(op)) = "Ok"

(* Mutant: `to` and group2 written in the opposite order. *)
GetPublicDataSwapped(op) ==
  Resize(<<OP_CODE>> \o ToBE(op.account_id, AccountIdBytes) \o ToBE(op.token, TokenBytes)
           \o ToBE(op.amount, BalanceBytes) \o ToBE(PackFeeAmount(op.fee), FeeBytes)
           \o ToBE(op.group2, GroupBytes) \o ToBE(op.to, AddressBytes),
         CHUNKS * ChunkBytes)

(* ChangeGroupOp::get_public_data *)
GetPublicData(op) ==
  Resize(<<OP_CODE>> \o ToBE(op.account_id, AccountIdBytes) \o ToBE(op.token, TokenBytes)
           \o ToBE(op.amount, BalanceBytes) \o ToBE(PackFeeAmount(op.fee), FeeBytes)
           \o ToBE(op.to, AddressBytes) \o ToBE(op.group2, GroupBytes),
         CHUNKS * ChunkBytes)

(* ChangeGroupOp::parse_pub_data(bytes, token width, chunk width): the    *)
(* fields at their offsets; from, group1 and nonce are not in the pubdata *)
(* and come back as zero / Default.                                       *)
ParsePubData(bytes, tokenBytes, chunkBytes) ==
  IF Len(bytes) # CHUNKS * chunkBytes THEN [error |-> "PubdataSizeMismatch"]
  ELSE
    LET accountOff == 2
        tokenOff   == accountOff + AccountIdBytes
        amountOff  == tokenOff + tokenBytes
        feeOff     == amountOff + BalanceBytes
        addressOff == feeOff + FeeBytes
        groupOff   == addressOff + AddressBytes
        Field(off, n) == FromBE(SubSeq(bytes, off, off + n - 1))
    IN [account_id |-> Field(accountOff, AccountIdBytes),
        token |-> Field(tokenOff, tokenBytes),
        amount |-> Field(amountOff, BalanceBytes),
        fee |-> UnpackFeeAmount(Field(feeOff, FeeBytes)),
        to |-> Field(addressOff, AddressBytes),
        group1 |-> 0,
        group2 |-> Field(groupOff, GroupBytes)]

(* from_public_data *)
FromPublicData(bytes) == ParsePubData(bytes, TokenBytes, ChunkBytes)

(* ChangeGroupWitness::apply_data: to_float of the amount (token-amount  *)
(* widths) and of the fee, both .unwrap()ed: TooBigInteger panics.        *)
WitnessPanics(op) ==
  ~ToFloat(op.amount, AmountExpBits, AmountMantBits).ok
    \/ ~ToFloat(op.fee, FeeExpBits, FeeMantBits).ok

(* Mutant: the witness writes group1 where group2 belongs. *)
WitnessPubdataGroup1(op) ==
  ResizeGrowOnly(<<OP_CODE>> \o ToBE(op.account_id, AccountIdBytes)
                   \o ToBE(op.token, TokenBytes) \o ToBE(op.amount, BalanceBytes)
                   \o ToBE(PackFeeAmount(op.fee), FeeBytes)
                   \o ToBE(op.to, AddressBytes) \o ToBE(op.group1, GroupBytes),
                 CHUNKS * ChunkBytes)

(* ChangeGroupWitness::get_pubdata: tx_type, address, token, full_amount, *)
(* the fee as encoded by to_float, eth_address, group2, grown to CHUNKS   *)
(* chunks.                                                                *)
WitnessPubdata(op) ==
  ResizeGrowOnly(<<OP_CODE>> \o ToBE(op.account_id, AccountIdBytes)
                   \o ToBE(op.token, TokenBytes) \o ToBE(op.amount, BalanceBytes)
                   \o ToBE(PackFeeAmount(op.fee), FeeBytes)
                   \o ToBE(op.to, AddressBytes) \o ToBE(op.group2, GroupBytes),
                 CHUNKS * ChunkBytes)

(* Mutant: the fee is not subtracted from the circuit's balance leaf. *)
WitnessLeafUpdateNoFee(c, o) ==
  [balance |-> [c.balance EXCEPT ![o.account_id][o.token] = (@ - o.amount) % FieldModulus],
   nonce   |-> [c.nonce EXCEPT ![o.account_id] = (@ + 1) % FieldModulus]]

(* apply_data's apply_leaf_operation on the account and token of the      *)
(* operation: nonce.add_assign(1), then balance.sub_assign(amount) and   *)
(* sub_assign(fee), all in the field.                                      *)
WitnessLeafUpdate(c, o) ==
  [balance |-> [c.balance EXCEPT ![o.account_id][o.token] =
                  (@ - o.amount - o.fee) % FieldModulus],
   nonce   |-> [c.nonce EXCEPT ![o.account_id] = (@ + 1) % FieldModulus]]

-----------------------------------------------------------------------------
(* One executed ChangeGroup at a time: its pubdata is committed, the data *)
(* restore path parses it back, and the prover builds its witness.        *)
VARIABLES
  op,        \* the executed ChangeGroupOp, or NoOp
  pubdata,   \* its committed public data, or <<>>
  restored,  \* what from_public_data returned, or NoOp
  witness,   \* [state: "none" | "panic" | "built", bytes: the witness's pubdata]
  balance, nonce, fees,  \* the state tree (AccountLedger)
  circuit    \* the prover's tree: [balance, nonce] as field elements

vars == <<op, pubdata, restored, witness, balance, nonce, fees, circuit>>

L == INSTANCE AccountLedger WITH Accounts <- AccountIds

NoOp == [none |-> TRUE]

NoWitness == [state |-> "none", bytes |-> <<>>]

Init ==
  /\ op = NoOp /\ pubdata = <<>> /\ restored = NoOp /\ witness = NoWitness
  /\ L!Init
  /\ circuit = [balance |-> InitBalance, nonce |-> [a \in AccountIds |-> 0]]

(* The state keeper applies an accepted ChangeGroup to the state tree    *)
(* and commits its pubdata.                                               *)
Execute ==
  /\ op = NoOp
  /\ \E o \in Op : /\ Accepted(o)
                   /\ L!Withdraw(o.account_id, o.token, o.amount, o.fee)
                   /\ op' = o /\ pubdata' = GetPublicData(o)
  /\ UNCHANGED <<restored, witness, circuit>>

Restore ==
  /\ op # NoOp /\ restored = NoOp
  /\ restored' = FromPublicData(pubdata)
  /\ UNCHANGED <<op, pubdata, witness, balance, nonce, fees, circuit>>

(* A panic in to_float(..).unwrap() comes before apply_leaf_operation:   *)
(* the prover's tree is left as it was.                                   *)
BuildWitness ==
  /\ op # NoOp /\ witness = NoWitness
  /\ IF WitnessPanics(op)
     THEN witness' = [state |-> "panic", bytes |-> <<>>] /\ UNCHANGED circuit
     ELSE /\ witness' = [state |-> "built", bytes |-> WitnessPubdata(op)]
          /\ circuit' = WitnessLeafUpdate(circuit, op)
  /\ UNCHANGED <<op, pubdata, restored, balance, nonce, fees>>

(* The next block follows once this one is restored and proven.  A block *)
(* whose witness panicked is never proven, so no block after it is: the   *)
(* chain of proofs stops there.                                            *)
NextBlock ==
  /\ restored # NoOp /\ witness.state = "built"
  /\ op' = NoOp /\ pubdata' = <<>> /\ restored' = NoOp /\ witness' = NoWitness
  /\ UNCHANGED <<balance, nonce, fees, circuit>>

Next == Execute \/ Restore \/ BuildWitness \/ NextBlock

Spec == Init /\ [][Next]_vars

-----------------------------------------------------------------------------
(* State constraint for model checking: at most MaxBlocks operations. *)
BlocksBound == FoldFunction(LAMBDA n, acc : n + acc, 0, nonce) <= MaxBlocks

-----------------------------------------------------------------------------
(* Properties *)

(* Parsing the committed pubdata gives back every field it carries:      *)
(* account, token, amount, fee, destination and target group.            *)
PubdataRoundTrip ==
  restored # NoOp =>
    /\ "error" \notin DOMAIN restored
    /\ \A f \in {"account_id", "token", "amount", "fee", "to", "group2"} :
         restored[f] = op[f]

(* The public data the circuit's witness commits to is byte for byte the *)
(* pubdata the state keeper committed for the same operation.            *)
WitnessMatchesPubdata ==
  witness.state = "built" => witness.bytes = pubdata

(* The prover's account tree follows the state tree: once the witness of *)
(* an operation is built, apply_data's leaf update (nonce + 1, balance    *)
(* minus amount minus fee, in the field) has brought every balance and    *)
(* nonce of the circuit's tree to the values apply_op left in the state,  *)
(* block after block.                                                      *)
CircuitTreeMatchesState ==
  witness.state = "built" => circuit = [balance |-> balance, nonce |-> nonce]

(* The prover can build a witness for every ChangeGroup that             *)
(* check_correctness accepted and the state keeper executed.  The amount *)
(* needs only to fit u128, which the token float range exceeds; the fee  *)
(* float range is far below u128, so apply_data's to_float(fee).unwrap()  *)
(* is safe only because check_correctness refuses an unpackable fee.     *)
WitnessBuildable == witness.state # "panic"

=============================================================================

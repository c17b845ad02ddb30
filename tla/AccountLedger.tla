---------------------------- MODULE AccountLedger ----------------------------
(***************************************************************************)
(* What the account tree promises to the rest of the rollup, whatever     *)
(* operation moves funds out of a group: per account a nonce and a        *)
(* balance per token, and per token the fees the block collected.  Funds  *)
(* leave an account in exactly two ways:                                   *)
(*   Withdraw  a signed withdrawal (ChangeGroup): the balance covers       *)
(*             amount + fee, both are taken, the nonce moves on by one    *)
(*             and the fee is collected in the same token;                 *)
(*   Drain     a priority withdrawal (FullChangeGroup): the whole balance *)
(*             of one token leaves, the nonce stays, no fee.              *)
(* Nothing else ever changes a balance, a nonce or the fees.               *)
(***************************************************************************)
EXTENDS Naturals

CONSTANTS Accounts, Tokens, InitBalance

VARIABLES balance, nonce, fees

vars == <<balance, nonce, fees>>

Init ==
  /\ balance = InitBalance
  /\ nonce = [a \in Accounts |-> 0]
  /\ fees = [t \in Tokens |-> 0]

Withdraw(a, t, amount, fee) ==
  /\ balance[a][t] >= amount + fee
  /\ balance' = [balance EXCEPT ![a][t] = @ - (amount + fee)]
  /\ nonce' = [nonce EXCEPT ![a] = @ + 1]
  /\ fees' = [fees EXCEPT ![t] = @ + fee]

Drain(a, t) ==
  /\ balance' = [balance EXCEPT ![a][t] = 0]
  /\ UNCHANGED <<nonce, fees>>

(* amount and fee range over what the balance can cover, which keeps the  *)
(* relation finite for TLC when it is checked as a property; a withdrawal *)
(* is the only step that moves a nonce, so that is tested first.          *)
Next ==
  \E a \in Accounts :
     \/ /\ nonce'[a] = nonce[a] + 1
        /\ \E t \in Tokens :
              \E amount, fee \in 0..balance[a][t] : Withdraw(a, t, amount, fee)
     \/ \E t \in Tokens : Drain(a, t)

Spec == Init /\ [][Next]_vars

=============================================================================

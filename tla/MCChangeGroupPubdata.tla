------------------------- MODULE MCChangeGroupPubdata -------------------------
(* u128::MAX at 2 bytes is 65535.  Token amounts: 3-bit mantissa and    *)
(* exponent up to 7, so every u128 amount has a float form, as with the  *)
(* real widths; 9 and 65535 are rounded.  Fees: 3-bit mantissa and       *)
(* exponent up to 1 (at most 70, far below u128, as with the real        *)
(* widths); 5 and 60 are packable, 9 is not but has a float form, 100 has *)
(* none.                                                                  *)
EXTENDS ChangeGroupPubdata

MCAmounts == {0, 7, 9, 300, 65535}
MCFees == {0, 5, 9, 60, 100}
MCAddresses == {0, 1, 513}
MCGroups == {0, 1, 258}
MCInitBalance == [a \in {0, 1, 300} |-> [t \in {0, 1, 2} |-> 320]]

=============================================================================

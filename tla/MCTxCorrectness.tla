--------------------------- MODULE MCTxCorrectness ---------------------------
(* u128 at 2 bits: u128::MAX is 3.  Token amounts are packable as m*10^e *)
(* with m <= 1, e <= 1, fees with m <= 2, e = 0; so 10 is a packable     *)
(* token amount above u128::MAX and 3 a fee within range that is not     *)
(* packable.                                                              *)
EXTENDS TxCorrectness

CONSTANTS keyA, keyB, noSigner, addr1, addr2

MCAmounts == {0, 1, 3, 10}
MCFees == {0, 1, 3, 10}
MCGroups == {0, 1}

=============================================================================

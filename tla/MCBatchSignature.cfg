CONSTANTS
  A = A
  B = B
  NoAddress = NoAddress
  NoSig = NoSig
  Addresses = {A, B}
  EIP1271ValidFor <- EIP1271OneAccount
  MaxBatch = 3
  MaxBatchSigs = 2
  TokenShortfall = {0}

SPECIFICATION Spec
INVARIANT BatchAcceptedOnlyIfSigned
INVARIANT SignedBatchAccepted

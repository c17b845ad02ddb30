CONSTANTS
  keyA = keyA
  keyB = keyB
  noSigner = noSigner
  addr1 = addr1
  addr2 = addr2
  Addresses = {addr1, addr2}
  AccountKey <- keyA
  OtherKey <- keyB
  NoSigner <- noSigner
  Kinds = {"ChangeGroup"}
  U128Max = 3
  Amounts <- MCAmounts
  Fees <- MCFees
  TokenMantissaMax = 1
  TokenExpMax = 1
  FeeMantissaMax = 2
  FeeExpMax = 0
  MaxAccountId = 1
  MaxFungibleToken = 1
  MaxProcessableToken = 0
  MaxTokenId = 2
  Groups <- MCGroups
  ServerGroup = 0
  Permissioned = FALSE

SPECIFICATION Spec
INVARIANT NewSignedNeverPanics

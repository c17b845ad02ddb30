CONSTANTS
  addr0 = addr0
  addr1 = addr1
  addr2 = addr2
  key0 = key0
  key1 = key1
  keyDefault = keyDefault
  NoSigner = NoSigner
  AccountIds <- MCAccountIds
  TxAccountIds <- MCTxAccountIds
  Addresses = {addr0, addr1, addr2}
  AddressOf <- MCAddressOf
  Tokens = {0, 1, 2}
  MaxAccountId = 1
  MaxFungibleToken = 1
  MaxProcessableToken = 0
  MaxTokenId = 2
  KeyHashes = {key0, key1, keyDefault}
  DefaultKeyHash = keyDefault
  Amounts = {0, 1}
  Fees = {0, 1}
  MaxNonce = 1
  InitBalance <- MCInitBalance
  InitKey <- MCInitKey
  MaxOps = 2

SPECIFICATION Spec
INVARIANT TypeOK
INVARIANT UpdatesReplayToState
INVARIANT ValueConserved
INVARIANT NoncesConsecutive
CONSTRAINT OpsBound
PROPERTY LedgerRefinement

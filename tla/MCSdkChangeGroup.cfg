CONSTANTS
  b1 = b1
  b2 = b2
  addr0 = addr0
  key0 = key0
  key1 = key1
  keyDefault = keyDefault
  noSigner = noSigner
  unset = unset
  Builders = {b1, b2}
  WalletId = 0
  AccountIds = {0}
  TxAccountIds = {0}
  Addresses = {addr0}
  AddressOf <- MCAddressOf
  Tokens = {0}
  MaxAccountId = 0
  MaxFungibleToken = 0
  MaxProcessableToken = 0
  MaxTokenId = 0
  KeyHashes = {key0, key1, keyDefault}
  DefaultKeyHash = keyDefault
  NoSigner = noSigner
  Amounts = {0, 1, 2, 10}
  Fees = {0, 1}
  MaxNonce = 1
  InitBalance <- MCInitBalance
  InitKey <- MCInitKey
  MaxOps = 2
  U128Max = 3
  TokenMantissaMax = 1
  TokenExpMax = 1
  FeeMantissaMax = 1
  FeeExpMax = 0
  Groups = {0, 1}
  ServerGroup = 0
  RawAmounts = {1, 2, 10}
  RawFees = {1}
  ProviderFees = {0}
  Unset = unset
  EthSigners = {"ecdsa", "eip1271"}
  Whitelisted = {0}
  MaxApiTxs = 1

SPECIFICATION Spec
INVARIANT AppliedSignedByAccountKey
CHECK_DEADLOCK FALSE

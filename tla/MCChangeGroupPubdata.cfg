CONSTANTS
  AccountIdBytes = 2
  TokenBytes = 2
  BalanceBytes = 2
  FeeBytes = 2
  AddressBytes = 2
  GroupBytes = 2
  ChunkBytes = 3
  AmountExpBits = 3
  AmountMantBits = 3
  FeeExpBits = 1
  FeeMantBits = 3
  AccountIds = {0, 1, 300}
  Tokens = {0, 1, 2}
  Amounts <- MCAmounts
  Fees <- MCFees
  Addresses <- MCAddresses
  Groups <- MCGroups
  ServerGroup = 0
  MaxAccountId = 300
  MaxFungibleToken = 1
  MaxProcessableToken = 0
  MaxTokenId = 2
  InitBalance <- MCInitBalance
  FieldModulus = 65521
  MaxBlocks = 2

SPECIFICATION Spec
CONSTRAINT BlocksBound
INVARIANT PubdataRoundTrip
INVARIANT WitnessMatchesPubdata
INVARIANT CircuitTreeMatchesState
INVARIANT WitnessBuildable

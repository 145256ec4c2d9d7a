SPECIFICATION StateSpec
CHECK_DEADLOCK FALSE
CONSTANTS
  ByteBits = 8
  WordBytes = 2
  IntBits = 20
  GasMod = 16777216
  Uint64Mod = 16777216
  AddressBytes = 1
  MaxMemory = 4000
  StackSize = 24
  Keccak <- MCKeccak
  CreateAddress <- MCCreateAddress
  CreateAddress2 <- MCCreateAddress2
  BlockHash <- MCBlockHash
  Crypto <- MCCrypto
  GasLimit = 250000
  MaxDepth = 2
  MaxCodeSize = 3
  Miner = 33
  FeePool = 34
  RewardPool = 35
  Reward = 50
  FeeMemories <- MCFeeMemories
  Context <- MCContext
  Worlds <- MCWorlds
  Pools <- MCPools
  ForkSets <- MCForks
CONSTRAINT FeesMatter
INVARIANTS
  SupplyKept
  StaticChangesNothing
  BuiltIsAccepted
  ContentKept
  SameContentSameRoot
  RootsAgree
PROPERTIES FailedOnlyPays

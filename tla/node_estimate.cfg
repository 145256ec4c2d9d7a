CONSTANTS
  GenesisSet <- MCGenesis
  Sets <- MCSets
  EpochSize = 2
  MaxHeight = 3
  MaxFaults = 3
  MaxStarts = 3
  Validators <- MCValidators
  ChainID = 110
  Headers <- MCHeaders
  Bodies <- MCBodies
  MaxTrips = 2
  MaxSource = 3
  Sizes <- MCSizes
  maxPayload = 4
  Changes <- MCChanges
  MaxRestores = 2
  BlockTxs <- MCBlockTxs
  TxLogs <- MCTxLogs
  NonceAt <- MCNonceAt
  BalanceAt <- MCBalanceAt
  Asked <- MCAsked
  GasLimit = 10
  GasCap = 9
  TxGas = 2
  TxGasContractCreation = 4
  SignBit = 8
  BadText = "bad"
SPECIFICATION NodeSpec
CHECK_DEADLOCK FALSE
INVARIANT CapRefused

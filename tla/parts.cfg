SPECIFICATION Spec
CHECK_DEADLOCK FALSE
CONSTANTS
  alice = alice
  bob = bob
  Wallets <- MCWallets
  Stranger = Stranger
  NoOne = NoOne
  Domain = "Dolomite"
  Version = "1.0"
  NetworkId = 1
  Expirations = {1, 2, 3}
  Second = 2
  Methods = {"Hash", "Compatibility", "TypedData"}
  MaxLogins = 2
  MaxTime = 2
  Networks = {1, 2}
  DeployedOn <- MCDeployedOn
  Accounts = {alice, bob}
  Tokens = {"token"}
  OptionObjects <- MCOptionObjects
  Amounts = {1}
  None = None
  Base = 100
  MaxUint128 = 100000
  MaxUint112 = 100000
  OnArbitrumOne = FALSE
  AccountStates <- MCAccountStates
  MaxBlocks = 2
  NoQuestion = NoQuestion
  Year = 2
  InterestConstants <- MCInterestConstants
  NetworkIds = {1, 2}
  MarketIds = {0, 1, 2}
  ExtraData <- MCModels
  QuotedAmounts = {0, 1, 2, 3, 5, 7, 10, 11, 19, 20, 28, 30}
  QuotedIndexes <- MCIndexes
  ann = ann
  bea = bea
  cat = cat
  Kinds = {"MultiSig", "DelayedMultiSig", "PartiallyDelayedMultiSig"}
  FirstOwners <- MCFirstOwners
  FirstRequired = 2
  FirstTimeLock = 2
  FirstInstantData <- MCFirstInstantData
  OwnerContracts = {ann}
  Calls <- MCCalls
  WalletAddress = "wallet"
  ZeroAddress = "zero"
  MaxOwnerCount = 3
  MaxTransactions = 2
  MaxWalletTime = 3
  MaxFrames = 2
  Holders = {"account"}
  MaxMarkets = 5
  MaxNamed = 1
  WordBits = 4
  Halves <- MCHalves
INVARIANTS
  LoginsAreExactToTheSecond
  SessionIsConsistent
  AnswersAreRight
  ClientComputesAsContracts
  OwnersStayValid
PROPERTIES
  ExecutionsAreDue
  ImplementsAccountMarkets

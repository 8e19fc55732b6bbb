SPECIFICATION Spec
CHECK_DEADLOCK FALSE
CONSTANTS
  alice = alice
  ALICE = ALICE
  bob = bob
  carol = carol
  zero = zero
  expiryTrader = expiryTrader
  bytes = bytes
  OwnerTexts = {alice, ALICE, bob, carol, zero}
  AddressOf <- MCAddressOf
  ZeroOwner = zero
  BadHex = BadHex
  NoMarket = NoMarket
  Wallets <- MCWallets
  Stranger = "stranger"
  NoOne = "zero"
  ClientDomain = "domain"
  ChainDomain = "domain"
  People = {alice, bob, carol}
  LocalOperators <- MCLocalOperators
  GlobalOperators = {"carol"}
  SpecialTraders = {expiryTrader}
  Signables <- AllSignables
  Plans <- AllPlans
  DefaultAccount = carol
  MaxTxs = 2
  MaxBlockTime = 2
  Base = 100
  MaxUint128 = 1000000
  MaxUint112 = 1000000
  usd = usd
  eth = eth
  dai = dai
  Markets = {usd, eth, dai}
  Price <- MCPrice
  Spread <- MCSpread
  Owner = owner
  Friend = friend
  Orders <- MCOrders
  Deltas = {0, 2}
  Balances <- MCBalances
  Inputs <- MCInputs
  ClientRampTime = 2
  RampTimes = {1, 2}
  Preferences <- MCPreferences
  MaxTime = 4
  MaxUint32 = 5
  MarginRatio = 30
  LiquidatorRatios = {35, 20}
  MinValues = {1}
  OwedPreferences <- MCOwedPreferences
  HeldPreferences <- MCHeldPreferences
  All = All
  InputAmounts = {All}
  MinOutputs = {All, 701}
  Gains = {0}
  SolidAccounts <- MCSolidAccounts
  LiquidAccounts <- MCLiquidAccounts
  Listings <- MCListings
INVARIANTS
  ExecutesOncePerSignature
  NeverAfterCancel
  OnlyWhatWasSigned
  NothingIsMalformed
  LiquidatorsPlanWell
PROPERTIES
  ExpiriesAreConsented
  TradesAreFair
  LatePlansComeTrue

SPECIFICATION LiquidatorsSpec
CHECK_DEADLOCK FALSE
CONSTANTS
  usd = usd
  eth = eth
  dai = dai
  Base = 100
  MaxUint128 = 1000000
  MaxUint112 = 1000000
  Markets = {usd, eth, dai}
  Price <- MCPrice
  Spread <- MCSpread
  Owner = owner
  Friend = friend
  Orders = {}
  Deltas = {}
  Balances <- MCBalances
  Inputs = {}
  ClientRampTime = 2
  RampTimes = {2}
  Preferences = {}
  MaxTime = 4
  MaxUint32 = 5
  MarginRatio = 30
  LiquidatorRatios = {35, 20}
  MinValues = {1}
  OwedPreferences <- MCOwedPreferences
  HeldPreferences <- MCHeldPreferences
  All = All
  InputAmounts = {All}
  MinOutputs = {All, 701}
  Gains = {0}
  SolidAccounts <- MCSolidAccounts
  LiquidAccounts <- MCLiquidAccounts
  Listings <- MCListings
INVARIANT
  ExpiredDebtsAreAccepted

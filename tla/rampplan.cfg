SPECIFICATION MCExpirySpec
CHECK_DEADLOCK FALSE
CONSTANTS
  usd = usd
  eth = eth
  dai = dai
  Base = 100
  MaxUint128 = 1000000
  MaxUint112 = 1000000
  Markets = {usd, eth, dai}
  Price <- MCPrice
  Spread <- MCSpread
  Owner = owner
  Friend = friend
  Orders <- OneOrder
  Deltas = {}
  Balances <- MCBalances
  Inputs <- MCInputs
  ClientRampTime = 2
  RampTimes = {2}
  Preferences <- MCPreferences
  MaxTime = 4
  MaxUint32 = 5
  MarginRatio = 30
  LiquidatorRatios = {}
  MinValues = {}
  OwedPreferences = {}
  HeldPreferences = {}
  All = All
  InputAmounts = {}
  MinOutputs = {}
  Gains = {}
  SolidAccounts = {}
  LiquidAccounts = {}
  Listings = {}
PROPERTIES
  PlansComeTrue

SPECIFICATION Spec
CONSTANTS
  solid = solid
  debtor = debtor
  alice = alice
  bob = bob
  trader = trader
  margin = margin
  eth = eth
  usd = usd
  btc = btc
  none = none
  Accounts = {solid, debtor}
  Addresses = {alice, bob, trader, margin}
  DolomiteMarginAddress = margin
  ContractOwner = trader
  Markets = {eth, usd}
  Owner <- MCOwner
  DefaultAccount <- MCDefaultAccount
  ZeroAccount = ZeroAccount
  RiskSetters = {}
  NoSetter = none
  SetterAnswer <- MCNoAnswers
  RiskLimits <- MCRiskLimits
  Base = 10
  MaxUint128 = 2
  MaxUint112 = 40
  TokenSupply = 3
  Requests <- LiquidationRequests
  NoRequest = NoRequest
  NoSnapshot = NoSnapshot
  InterestRates = {0}
  ExchangeCosts = {}
  TradeCosts = {}
  MarketChoices <- PremiumMarkets
  MarketChanges = {}
  RiskChoices <- MCRiskChoices
  RiskChanges = {}
  Recipients = {trader}
  SentinelChoices <- MCSentinelUp
  Prices <- VolatilePrices
  GlobalOperatorCandidates = {alice}
  AutoTraderCandidates = {}
  OperatorGrants = {}
  MaxTime = 0
  Donations = {1}
INVARIANTS
  ExactBooks
  ExactTotals
  BystandersOnlyShrink
  Solvent
  OperationIsTracked
PROPERTIES
  VaporizeTakesNoSupply
  OnlyUnhealthyAreLiquidated
  SpreadIsTheMostALiquidatorGets

SPECIFICATION Spec
CONSTANTS
  solid = solid
  debtor = debtor
  alice = alice
  bob = bob
  trader = trader
  margin = margin
  eth = eth
  usd = usd
  btc = btc
  none = none
  Accounts = {solid, debtor}
  Addresses = {alice, bob, trader, margin}
  DolomiteMarginAddress = margin
  ContractOwner = trader
  Markets = {eth, usd}
  Owner <- MCOwner
  DefaultAccount <- MCDefaultAccount
  ZeroAccount = ZeroAccount
  RiskSetters = {}
  NoSetter = none
  SetterAnswer <- MCNoAnswers
  RiskLimits <- MCRiskLimits
  Base = 10
  MaxUint128 = 2
  MaxUint112 = 40
  TokenSupply = 3
  Requests <- TradingRequests
  NoRequest = NoRequest
  NoSnapshot = NoSnapshot
  InterestRates = {0}
  ExchangeCosts = {1}
  TradeCosts <- MCTradeCosts
  MarketChoices <- MCMarketChoices
  MarketChanges = {}
  RiskChoices <- MCRiskChoices
  RiskChanges = {}
  Recipients = {trader}
  SentinelChoices <- MCSentinelUp
  Prices <- VolatilePrices
  GlobalOperatorCandidates = {alice}
  AutoTraderCandidates = {trader}
  OperatorGrants <- TradingGrants
  MaxTime = 0
  Donations = {}
PROPERTIES
  NoMoveWithoutAuthority
  ExcessIsKept

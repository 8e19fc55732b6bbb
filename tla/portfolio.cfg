SPECIFICATION Spec
CONSTANTS
  solid = solid
  debtor = debtor
  alice = alice
  bob = bob
  trader = trader
  margin = margin
  eth = eth
  usd = usd
  btc = btc
  none = none
  Accounts = {debtor}
  Addresses = {alice, bob, trader, margin}
  DolomiteMarginAddress = margin
  ContractOwner = trader
  Markets = {eth, usd, btc}
  Owner <- MCSoleOwner
  DefaultAccount <- MCSoleAccount
  ZeroAccount = ZeroAccount
  RiskSetters = {}
  NoSetter = none
  SetterAnswer <- MCNoAnswers
  RiskLimits <- MCRiskLimits
  Base = 10
  MaxUint128 = 2
  MaxUint112 = 40
  TokenSupply = 2
  Requests <- PortfolioRequests
  NoRequest = NoRequest
  NoSnapshot = NoSnapshot
  InterestRates = {0}
  ExchangeCosts = {}
  TradeCosts = {}
  MarketChoices <- MCMarketChoices
  MarketChanges = {}
  RiskChoices <- MCRiskChoices
  RiskChanges <- FewerMarkets
  Recipients = {trader}
  SentinelChoices <- MCSentinelUp
  Prices <- FixedPrices
  GlobalOperatorCandidates = {}
  AutoTraderCandidates = {}
  OperatorGrants = {}
  MaxTime = 0
  Donations = {1}
INVARIANTS
  CacheCoversAccounts
PROPERTIES
  BalancesStayFew

SPECIFICATION Spec
CONSTANTS
  solid = solid
  debtor = debtor
  alice = alice
  bob = bob
  trader = trader
  margin = margin
  eth = eth
  usd = usd
  btc = btc
  none = none
  Accounts = {solid, debtor}
  Addresses = {alice, bob, trader, margin}
  DolomiteMarginAddress = margin
  ContractOwner = trader
  Markets = {eth, usd}
  Owner <- MCOwner
  DefaultAccount <- MCDefaultAccount
  ZeroAccount = ZeroAccount
  RiskSetters = {}
  NoSetter = none
  SetterAnswer <- MCNoAnswers
  RiskLimits <- MCRiskLimits
  Base = 10
  MaxUint128 = 5
  MaxUint112 = 30
  TokenSupply = 5
  Requests <- InterestRequests
  NoRequest = NoRequest
  NoSnapshot = NoSnapshot
  InterestRates = {5, 20}
  ExchangeCosts = {}
  TradeCosts = {}
  MarketChoices <- MCMarketChoices
  MarketChanges <- HalfEarnings
  RiskChoices <- MCRiskChoices
  RiskChanges = {}
  Recipients = {trader}
  SentinelChoices <- MCSentinelUp
  Prices <- FixedPrices
  GlobalOperatorCandidates = {alice}
  AutoTraderCandidates = {}
  OperatorGrants = {}
  MaxTime = 2
  Donations = {}
INVARIANTS
  Inductive
PROPERTIES
  IndexesNeverFall
  AccrualIsCovered

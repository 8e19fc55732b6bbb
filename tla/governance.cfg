SPECIFICATION Spec
CONSTANTS
  solid = solid
  debtor = debtor
  alice = alice
  bob = bob
  trader = trader
  margin = margin
  eth = eth
  usd = usd
  btc = btc
  none = none
  Accounts = {solid, debtor}
  Addresses = {alice, bob, margin}
  DolomiteMarginAddress = margin
  ContractOwner = alice
  Markets = {eth, usd}
  Owner <- MCOwner
  DefaultAccount <- MCDefaultAccount
  ZeroAccount = ZeroAccount
  RiskSetters <- MCSetters
  NoSetter = none
  SetterAnswer <- MCSetterAnswers
  RiskLimits <- MCRiskLimits
  Base = 10
  MaxUint128 = 2
  MaxUint112 = 40
  TokenSupply = 2
  Requests <- GovernanceRequests
  NoRequest = NoRequest
  NoSnapshot = NoSnapshot
  InterestRates = {0}
  ExchangeCosts = {}
  TradeCosts = {}
  MarketChoices <- MCMarketChoices
  MarketChanges <- PremiumChanges
  RiskChoices <- MCRiskChoices
  RiskChanges <- RiskRange
  Recipients = {alice}
  SentinelChoices <- MCSentinelUp
  Prices <- OverridePrices
  GlobalOperatorCandidates = {alice}
  AutoTraderCandidates = {}
  OperatorGrants = {}
  MaxTime = 0
  Donations = {}
INVARIANTS
  RiskParamsStayValid
PROPERTIES
  NobodyBorrowsUnhealthily

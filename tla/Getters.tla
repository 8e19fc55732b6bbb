------------------------------- MODULE Getters -------------------------------
(***************************************************************************)
(* Getters.ts: the client reads the state of DolomiteMargin and Expiry and *)
(* turns what the contracts return into its own numbers.  A question makes *)
(* one constant call or several at once; the chain goes on between them.   *)
(*                                                                         *)
(* A number of the client is written in units of 1/Base, so what a         *)
(* contract means by a decimal n is n and what it means by an integer n is *)
(* n * Base.  The shapes of results, text and addresses are kept; a list   *)
(* is represented by one of its elements.                                  *)
(***************************************************************************)
EXTENDS MarginMath, Sequences, TLC

CONSTANTS
  OnArbitrumOne,    \* the network is ARBITRUM_ONE
  AccountStates,    \* the accounts asked about: status, supply, borrow, ratio
  MaxBlocks,        \* a bound on the blocks during a question
  NoQuestion

ASSUME GettersAssumption == MaxBlocks \in Nat \ {0}

VARIABLES
  blocks,  \* what each getter of the question returns at each block
  ask,     \* the question, the block it is asked at and the block it names
  answers, \* what has come back, per getter
  outcome  \* "none", "error" or "answered"

gettersVars == <<blocks, ask, answers, outcome>>

GettersInit ==
  blocks = <<>> /\ ask = NoQuestion /\ answers = <<>> /\ outcome = "none"

-----------------------------------------------------------------------------
(* The contracts: what each getter returns, field by field.                *)

One(type) == [result |-> type]
Each(names, type) == [name \in names |-> One(type)]

Market ==
  [token |-> "address", isClosing |-> "bool", totalParBorrow |-> "uint",
   totalParSupply |-> "uint", indexBorrow |-> "scaled", indexSupply |-> "scaled",
   indexLastUpdate |-> "uint", marginPremium |-> "D256",
   liquidationSpreadPremium |-> "D256", maxSupplyWei |-> "SupplyLimit",
   maxBorrowWei |-> "BorrowLimit", earningsRateOverride |-> "D256"]

Index == [borrow |-> "scaled", supply |-> "scaled", lastUpdate |-> "uint"]
Totals == [borrow |-> "uint", supply |-> "uint"]
AccountValues == [supply |-> "Value", borrow |-> "Value"]

Returns ==
  Each({"getMarginRatio", "getMarginRatioForAccount", "getLiquidationSpread",
        "getLiquidationSpreadForPair", "getLiquidationSpreadForAccountAndPair",
        "getEarningsRate", "getMarginRatioOverrideByAccount",
        "getLiquidationSpreadOverrideByAccount", "getMarketMarginPremium",
        "getMarketSpreadPremium", "getMarketLiquidationSpreadPremium",
        "getMarketEarningsRateOverride", "getMarketInterestRate",
        "getMarketBorrowInterestRatePerSecond",
        "getMarketBorrowInterestRateApr", "getMarketSupplyInterestRateApr"},
       "D256")
  @@ Each({"getMinBorrowedValue", "getMarketPrice"}, "Value")
  @@ Each({"getAccountMaxNumberOfMarketsWithBalances", "getCallbackGasLimit",
           "getNumMarkets", "getMarketIdByTokenAddress",
           "getAccountMarketsWithBalances",
           "getAccountNumberOfMarketsWithBalances",
           "getAccountMarketWithBalanceAtIndex",
           "getAccountNumberOfMarketsWithDebt", "getExpiry",
           "getExpiryRampTime"}, "uint")
  @@ Each({"getOracleSentinel", "getDefaultAccountRiskOverrideSetter",
           "getAccountRiskOverrideSetterByAccountOwner",
           "getMarketTokenAddress", "getMarketPriceOracle",
           "getMarketInterestSetter", "getAdmin"}, "address")
  @@ Each({"getIsBorrowAllowed", "getIsLiquidationAllowed",
           "getMarketIsClosing", "getIsLocalOperator", "getIsGlobalOperator",
           "getIsAutoTraderSpecial"}, "bool")
  @@ Each({"getMarketMaxWei", "getMarketMaxSupplyWei"}, "SupplyLimit")
  @@ Each({"getMarketMaxBorrowWei"}, "BorrowLimit")
  @@ Each({"getNumExcessTokens", "getAccountPar", "getAccountWei"}, "Wei")
  @@ Each({"getAccountStatus"}, "Status")
  @@ [getAccountRiskOverrideByAccount |->
        [marginRatioOverride |-> "D256", liquidationSpreadOverride |-> "D256"],
      getRiskLimits |->
        [marginRatioMax |-> "scaled", liquidationSpreadMax |-> "scaled",
         earningsRateMax |-> "scaled", marginPremiumMax |-> "scaled",
         liquidationSpreadPremiumMax |-> "scaled",
         interestRateMax |-> "scaled", minBorrowedValueMax |-> "uint"],
      getMarketTotalPar |-> Totals, getMarketTotalWei |-> Totals,
      getMarketCachedIndex |-> Index, getMarketCurrentIndex |-> Index,
      getMarket |-> Market,
      getMarketWithInfo |->
        Market @@ [currentBorrow |-> "scaled", currentSupply |-> "scaled",
                   currentLastUpdate |-> "uint", currentPrice |-> "Value",
                   currentInterestRate |-> "D256"],
      getAccountValues |-> AccountValues,
      getAdjustedAccountValues |-> AccountValues,
      getAccountBalances |->
        [marketId |-> "uint", tokenAddress |-> "address", par |-> "Wei",
         wei |-> "Wei"],
      getExpiryPrices |-> [heldPrice |-> "Value", owedPrice |-> "Value"]]

\* A Wei that is never below 0, one that is never above 0, and any.
SignedTypes == {"SupplyLimit", "BorrowLimit", "Wei"}

\* What the contracts mean by it.
Meaning(type, raw) ==
  CASE type = "D256"   -> raw.value
    [] type = "scaled" -> raw
    [] type = "Value"  -> raw.value * Base
    [] type = "uint"   -> raw * Base
    [] type \in SignedTypes -> (IF raw.sign THEN raw.value ELSE -raw.value) * Base
    [] type = "Status" -> <<"Normal", "Liquid", "Vapor">>[raw + 1]
    [] OTHER           -> raw

-----------------------------------------------------------------------------
(* The client: Helpers.ts.                                                 *)

StringToDecimal(s) == s
BigNumber(s) == s * Base
ValueToInteger(v) ==
  IF v.value # 0 /\ ~v.sign THEN -BigNumber(v.value) ELSE BigNumber(v.value)

\* The switch of getAccountStatus.
AccountStatus(rawStatus) ==
  CASE rawStatus = 0 -> "Normal"
    [] rawStatus = 1 -> "Liquid"
    [] rawStatus = 2 -> "Vapor"

Reading(conversion, raw) ==
  CASE conversion = "decimal of value" -> StringToDecimal(raw.value)
    [] conversion = "decimal"          -> StringToDecimal(raw)
    [] conversion = "integer of value" -> BigNumber(raw.value)
    [] conversion = "integer"          -> BigNumber(raw)
    [] conversion = "signed"           -> ValueToInteger(raw)
    [] conversion = "status"           -> AccountStatus(raw)
    [] conversion = "as it is"         -> raw

-----------------------------------------------------------------------------
(* The client: Getters.ts, which conversion each getter applies to what.   *)

ParseIndex == [borrow |-> "decimal", supply |-> "decimal", lastUpdate |-> "integer"]
ParseTotalPar == [borrow |-> "integer", supply |-> "integer"]

RiskGetters ==
  Each({"getMarginRatio", "getMarginRatioForAccount", "getLiquidationSpread",
        "getLiquidationSpreadForPair", "getLiquidationSpreadForAccountAndPair",
        "getEarningsRate"}, "decimal of value")
  @@ Each({"getMinBorrowedValue"}, "integer of value")
  @@ Each({"getOracleSentinel", "getIsBorrowAllowed",
           "getIsLiquidationAllowed"}, "as it is")
  @@ Each({"getCallbackGasLimit"}, "integer")

OverrideGetters ==
  Each({"getDefaultAccountRiskOverrideSetter",
        "getAccountRiskOverrideSetterByAccountOwner"}, "as it is")
  @@ Each({"getMarginRatioOverrideByAccount",
           "getLiquidationSpreadOverrideByAccount"}, "decimal of value")
  @@ [getAccountRiskOverrideByAccount |->
        [marginRatioOverride |-> "decimal of value",
         liquidationSpreadOverride |-> "decimal of value"]]

GetRiskLimits ==
  [field \in {"marginRatioMax", "liquidationSpreadMax", "earningsRateMax",
              "marginPremiumMax", "liquidationSpreadPremiumMax",
              "interestRateMax"} |-> "decimal"]
  @@ [minBorrowedValueMax |-> "integer"]

MarketGetters ==
  Each({"getAccountMaxNumberOfMarketsWithBalances", "getNumMarkets",
        "getMarketIdByTokenAddress"}, "integer")
  @@ Each({"getMarketTokenAddress", "getMarketIsClosing",
           "getMarketPriceOracle", "getMarketInterestSetter"}, "as it is")
  @@ Each({"getMarketPrice"}, "integer of value")
  @@ Each({"getMarketMarginPremium", "getMarketSpreadPremium",
           "getMarketLiquidationSpreadPremium"}, "decimal of value")
  @@ Each({"getMarketMaxWei", "getMarketMaxSupplyWei",
           "getMarketMaxBorrowWei"}, "signed")
  @@ [getMarketTotalPar |-> ParseTotalPar, getMarketTotalWei |-> ParseTotalPar,
      getMarketCachedIndex |-> ParseIndex, getMarketCurrentIndex |-> ParseIndex]

RateGetters ==
  Each({"getMarketEarningsRateOverride", "getMarketInterestRate",
        "getMarketBorrowInterestRatePerSecond",
        "getMarketBorrowInterestRateApr", "getMarketSupplyInterestRateApr"},
       "decimal of value")

\* What getMarket and getMarketWithInfo do alike; the rest is spread unchanged.
MarketFields ==
  [token |-> "as it is", isClosing |-> "as it is",
   totalParBorrow |-> "integer", totalParSupply |-> "integer",
   indexBorrow |-> "decimal", indexSupply |-> "decimal",
   indexLastUpdate |-> "integer", marginPremium |-> "decimal of value",
   liquidationSpreadPremium |-> "decimal of value",
   earningsRateOverride |-> "decimal of value"]

GetMarket ==
  MarketFields @@ [maxSupplyWei |-> "integer of value",
                   maxBorrowWei |-> "integer of value"]

GetMarketWithInfo ==
  MarketFields @@ [maxSupplyWei |-> "signed", maxBorrowWei |-> "signed",
                   currentBorrow |-> "decimal", currentSupply |-> "decimal",
                   currentLastUpdate |-> "integer",
                   currentPrice |-> "integer of value",
                   currentInterestRate |-> "decimal of value"]

AccountGetters ==
  Each({"getNumExcessTokens", "getAccountPar", "getAccountWei"}, "signed")
  @@ Each({"getAccountStatus"}, "status")
  @@ Each({"getAccountMarketsWithBalances",
           "getAccountNumberOfMarketsWithBalances",
           "getAccountMarketWithBalanceAtIndex",
           "getAccountNumberOfMarketsWithDebt"}, "integer")

\* Of DolomiteMargin or, the same, of AccountValuesReader.
Values == [supply |-> "integer of value", borrow |-> "integer of value"]

GetAccountBalances ==
  [marketId |-> "integer", tokenAddress |-> "as it is", par |-> "signed",
   wei |-> "signed"]

PermissionGetters ==
  Each({"getIsLocalOperator", "getIsGlobalOperator", "getIsAutoTraderSpecial",
        "getAdmin"}, "as it is")

ExpiryGetters ==
  Each({"getExpiry", "getExpiryRampTime"}, "integer")
  @@ [getExpiryPrices |->
        [heldPrice |-> "integer of value", owedPrice |-> "integer of value"]]

Getters ==
  RiskGetters @@ OverrideGetters @@ MarketGetters @@ RateGetters
  @@ AccountGetters @@ PermissionGetters @@ ExpiryGetters
  @@ [getRiskLimits |-> GetRiskLimits, getMarket |-> GetMarket,
      getMarketWithInfo |-> GetMarketWithInfo,
      getAccountValues |-> Values, getAdjustedAccountValues |-> Values,
      getAccountBalances |-> GetAccountBalances]

Read(getter, raw) ==
  [field \in DOMAIN Getters[getter] |->
     Reading(Getters[getter][field], raw[field])]

-----------------------------------------------------------------------------
(* The constant calls of a question, and whether its options go with them. *)

GetRiskParams ==
  {"getMarginRatio", "getLiquidationSpread", "getEarningsRate",
   "getMinBorrowedValue", "getAccountMaxNumberOfMarketsWithBalances",
   "getOracleSentinel", "getCallbackGasLimit"}

\* On Arbitrum One every account has the same ratio.
GetMarginRatioForAccount ==
  IF OnArbitrumOne THEN "getMarginRatio" ELSE "getMarginRatioForAccount"

LiquidatableReads ==
  {"getAccountStatus", GetMarginRatioForAccount, "getAdjustedAccountValues"}

ReadsOf(question) ==
  CASE question = "getRiskParams"         -> GetRiskParams
    [] question = "isAccountLiquidatable" -> LiquidatableReads
    [] OTHER                              -> {question}

\* A fault: the account's values are read without the options.
PassesOptionsForTheRatioOnly(question, getter) ==
  question = "isAccountLiquidatable" => getter = GetMarginRatioForAccount

\* isAccountLiquidatable reads the status without its options.
PassesOptions(question, getter) ==
  question = "isAccountLiquidatable" => getter # "getAccountStatus"

-----------------------------------------------------------------------------
(* The chain: what the getters of a question return at each block.         *)

Sample(type, i) ==
  CASE type \in {"D256", "Value"} -> [value |-> i]
    [] type = "SupplyLimit"       -> [sign |-> i > 0, value |-> i]
    [] type = "BorrowLimit"       -> [sign |-> FALSE, value |-> i]
    [] type = "Wei"               -> [sign |-> i = 1, value |-> i]
    [] type = "bool"              -> i = 1
    [] OTHER                      -> i

RawAnswer(getter, i) ==
  [field \in DOMAIN Returns[getter] |-> Sample(Returns[getter][field], i)]

AccountBlock(a) ==
  [getter \in LiquidatableReads |->
     CASE getter = "getAccountStatus" -> [result |-> a.status]
       [] getter = GetMarginRatioForAccount -> [result |-> [value |-> a.ratio]]
       [] getter = "getAdjustedAccountValues" ->
            [supply |-> [value |-> a.supply], borrow |-> [value |-> a.borrow]]]

BlocksOf(question) ==
  IF question = "isAccountLiquidatable"
  THEN {AccountBlock(a) : a \in AccountStates}
  ELSE {[getter \in ReadsOf(question) |-> RawAnswer(getter, i)] : i \in 0 .. 2}

Questions ==
  DOMAIN Getters \cup {"getRiskParams", "isAccountLiquidatable"}

\* A question, of the latest block or of the one there is.
Ask(question, pinned) ==
  /\ ask = NoQuestion
  /\ \E block \in BlocksOf(question) : blocks' = <<block>>
  /\ ask' = [question |-> question, pinned |-> pinned]
  /\ UNCHANGED <<answers, outcome>>

Mine ==
  /\ ask # NoQuestion /\ outcome = "none"
  /\ Len(blocks) < MaxBlocks
  /\ \E block \in BlocksOf(ask.question) : blocks' = Append(blocks, block)
  /\ UNCHANGED <<ask, answers, outcome>>

BlockRead(getter) ==
  IF ask.pinned /\ PassesOptions(ask.question, getter) THEN 1 ELSE Len(blocks)

\* callConstantContractFunction: m2.call(txOptions, blockNumber) is answered.
Answer(getter) ==
  /\ outcome = "none" /\ getter \notin DOMAIN answers
  /\ LET block == BlockRead(getter)
     IN  answers' = answers @@ (getter :>
           [block |-> block, read |-> Read(getter, blocks[block][getter])])
  /\ outcome' = IF DOMAIN answers' = ReadsOf(ask.question) THEN "answered"
                ELSE "none"
  /\ UNCHANGED <<blocks, ask>>

\* One call that fails fails the question.
Fail(getter) ==
  /\ outcome = "none" /\ getter \notin DOMAIN answers
  /\ outcome' = "error"
  /\ UNCHANGED <<blocks, ask, answers>>

GettersNext ==
  \/ \E question \in Questions, pinned \in BOOLEAN : Ask(question, pinned)
  \/ Mine
  \/ /\ ask # NoQuestion
     /\ \E getter \in ReadsOf(ask.question) : Answer(getter) \/ Fail(getter)

-----------------------------------------------------------------------------
(* What the questions with several parts make of them.                     *)

\* A fault: an account without supply is under water like any other.
IsAccountLiquidatableVaporToo(status, ratio, values) ==
  \/ values.borrow > 0 /\ values.supply > 0 /\ status = "Liquid"
  \/ values.supply * Base < values.borrow * Base + values.borrow * ratio

\* supply < borrow + borrow * marginRatio, which is not rounded.
IsAccountLiquidatable(status, ratio, values) ==
  \/ values.borrow > 0 /\ values.supply > 0 /\ status = "Liquid"
  \/ /\ values.supply # 0
     /\ values.supply * Base < values.borrow * Base + values.borrow * ratio

-----------------------------------------------------------------------------
(* Properties.                                                             *)

Means(getter, block) ==
  [field \in DOMAIN Returns[getter] |->
     Meaning(Returns[getter][field], blocks[block][getter][field])]

\* getMarket drops the sign of a limit, which getMarketWithInfo keeps.
Agrees(getter, read, meant) ==
  IF getter = "getMarket"
  THEN \A field \in DOMAIN read \ {"maxBorrowWei"} : read[field] = meant[field]
  ELSE read = meant

\* Every part of an answer is what the contract meant by what it held, at the
\* block that was named, all of it at one block then, or else at a block between
\* the question and the answer.  Only the status that isAccountLiquidatable reads
\* is of the latest block always.
AnswersMeanTheState ==
  \A getter \in DOMAIN answers :
    LET read == answers[getter].read
    IN  IF ask.pinned
          /\ ~(ask.question = "isAccountLiquidatable" /\ getter = "getAccountStatus")
        THEN Agrees(getter, read, Means(getter, 1))
        ELSE \E block \in 1 .. Len(blocks) :
               Agrees(getter, read, Means(getter, block))

\* What DolomiteMargin accepts a liquidation of: an account with supply that is
\* being liquidated or has less than isCollateralized asks of it, which rounds.
LiquidatableOnChain(a, spare) ==
  /\ a.supply > 0
  /\ \/ a.status = 1 /\ a.borrow > 0
     \/ a.supply < a.borrow + DecimalMul(a.borrow, a.ratio) + spare

\* The three reads may be of different blocks.  Of the account that they make
\* together, the client says that it may be liquidated whenever the contract would
\* accept that; when it says so and the contract would not, this account is within
\* one unit of value of the margin.  So the answer is wrong of the account at a
\* block only where what was read is not what the account was there.
LiquidatableAgreesWithContract ==
  ask # NoQuestion /\ outcome = "answered"
    /\ ask.question = "isAccountLiquidatable" =>
      \A a \in AccountStates :
        (\A getter \in LiquidatableReads :
           blocks[answers[getter].block][getter] = AccountBlock(a)[getter]) =>
          LET says == IsAccountLiquidatable(
                        answers["getAccountStatus"].read.result,
                        answers[GetMarginRatioForAccount].read.result,
                        answers["getAdjustedAccountValues"].read)
          IN  /\ LiquidatableOnChain(a, 0) => says
              /\ says => LiquidatableOnChain(a, 1)

\* What the client is told means what the contract held, and what it concludes
\* from several answers is what the contract would do.
AnswersAreRight == AnswersMeanTheState /\ LiquidatableAgreesWithContract
=============================================================================

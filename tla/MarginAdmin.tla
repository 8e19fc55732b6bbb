----------------------------- MODULE MarginAdmin -----------------------------
(***************************************************************************)
(* AdminImpl.sol and Permission.sol.  The functions of the contract's      *)
(* owner are nonReentrant, so they wait for a running operation to end;    *)
(* setOperators is not, so code called by an operation may call it.        *)
(*                                                                         *)
(* Which contract answers for prices and for the sentinel is modelled by   *)
(* its answer.  The interest setter and the callback gas limit have no     *)
(* state here: any rate in InterestRates may be answered at any time, and  *)
(* a callback can do no more than setOperators.                            *)
(***************************************************************************)
EXTENDS MarginOperation

CONSTANTS
  MarketChoices, \* the parameters a market may be added with
  MarketChanges, \* the parameters it may be given later
  RiskChoices,   \* the global risk parameters at deployment
  RiskChanges,   \* those that may be set later
  Recipients,    \* addresses to which the owner may send tokens
  SentinelChoices, \* what an oracle sentinel may answer
  Prices,        \* market -> what its price oracle may answer
  ContractOwner, \* the address that may call the owner's functions
  GlobalOperatorCandidates, \* addresses that may become global operators
  AutoTraderCandidates,     \* addresses that may become special auto-traders
  OperatorGrants            \* pairs <<caller, operator>> for setOperators

ASSUME AdminAssumption ==
  /\ MarketChoices \subseteq MarketParamsType
  /\ MarketChanges \subseteq MarketParamsType
  /\ RiskChoices \subseteq RiskParamsType
  /\ RiskChanges \subseteq RiskParamsType
  /\ Recipients \subseteq Addresses
  /\ SentinelChoices \subseteq SentinelType
  /\ Prices \in [Markets -> SUBSET Nat]
  /\ ContractOwner \in Addresses
  /\ GlobalOperatorCandidates \subseteq Addresses
  /\ AutoTraderCandidates \subseteq Addresses
  /\ OperatorGrants \subseteq Addresses \X Addresses

ValidMarketParams(p) ==
  /\ p.marginPremium <= RiskLimits.marginPremiumMax
  /\ p.liquidationSpreadPremium <= RiskLimits.liquidationSpreadPremiumMax
  /\ FitsUint128(p.maxSupplyWei)
  /\ FitsUint128(p.maxBorrowWei)
  /\ p.earningsRateOverride <= RiskLimits.earningsRateMax

(***************************************************************************)
(* Every setter of a risk parameter leaves parameters with this property,  *)
(* and is refused where it would not.                                      *)
(***************************************************************************)
ValidRiskParams(p) ==
  /\ p.marginRatio <= RiskLimits.marginRatioMax
  /\ p.liquidationSpread <= RiskLimits.liquidationSpreadMax
  /\ p.liquidationSpread < p.marginRatio
  /\ p.earningsRate <= RiskLimits.earningsRateMax
  /\ p.minBorrowedValue <= RiskLimits.minBorrowedValueMax
  /\ p.accountMaxNumberOfMarketsWithBalances \in 2 .. 64

-----------------------------------------------------------------------------
(* Tokens and markets                                                      *)

OwnerWithdrawExcessTokens(m, recipient) ==
  LET excess == GetNumExcessTokens(ledger, m)
      held   == ledger.balanceOf[m]
      paid   == IF excess > held THEN held ELSE excess
  IN  /\ Idle
      /\ m \in listedMarkets
      /\ excess >= 0
      /\ ledger' = TransferOut(ledger, m, recipient, -paid)
      /\ UNCHANGED <<params, operators, permissions, world, operation>>

OwnerWithdrawUnsupportedTokens(m, recipient) ==
  /\ Idle
  /\ m \notin listedMarkets
  /\ ledger' = TransferOut(ledger, m, recipient, -ledger.balanceOf[m])
  /\ UNCHANGED <<params, operators, permissions, world, operation>>

OwnerAddMarket(m, p, answer) ==
  /\ Idle
  /\ m \notin listedMarkets
  /\ answer # 0
  /\ ValidMarketParams(p)
  /\ listedMarkets' = listedMarkets \cup {m}
  /\ marketParams' = [marketParams EXCEPT ![m] = p]
  /\ ledger' = [ledger EXCEPT !.index[m] = NewIndex(now)]
  /\ price' = [price EXCEPT ![m] = answer]
  /\ UNCHANGED <<riskParams, operators, permissions, sentinel, now, operation>>

SetMarketParams(m, p) ==
  /\ Idle
  /\ m \in listedMarkets
  /\ marketParams' = [marketParams EXCEPT ![m] = p]
  /\ UNCHANGED <<ledger, riskParams, listedMarkets, operators, permissions,
                 world, operation>>

OwnerSetIsClosing(m, isClosing) ==
  SetMarketParams(m, [marketParams[m] EXCEPT !.isClosing = isClosing])

OwnerSetMarginPremium(m, premium) ==
  /\ premium <= RiskLimits.marginPremiumMax
  /\ SetMarketParams(m, [marketParams[m] EXCEPT !.marginPremium = premium])

OwnerSetLiquidationSpreadPremium(m, premium) ==
  /\ premium <= RiskLimits.liquidationSpreadPremiumMax
  /\ SetMarketParams(m,
       [marketParams[m] EXCEPT !.liquidationSpreadPremium = premium])

OwnerSetMaxSupplyWei(m, limit) ==
  /\ FitsUint128(limit)
  /\ SetMarketParams(m, [marketParams[m] EXCEPT !.maxSupplyWei = limit])

OwnerSetMaxBorrowWei(m, limit) ==
  /\ FitsUint128(limit)
  /\ SetMarketParams(m, [marketParams[m] EXCEPT !.maxBorrowWei = limit])

OwnerSetEarningsRateOverride(m, rate) ==
  /\ rate <= RiskLimits.earningsRateMax
  /\ SetMarketParams(m, [marketParams[m] EXCEPT !.earningsRateOverride = rate])

OwnerSetPriceOracle(m, answer) ==
  /\ Idle
  /\ m \in listedMarkets
  /\ answer # 0
  /\ price' = [price EXCEPT ![m] = answer]
  /\ UNCHANGED <<ledger, params, operators, permissions, sentinel, now,
                 operation>>

-----------------------------------------------------------------------------
(* Risk parameters                                                         *)

SetRiskParams(p) ==
  /\ Idle
  /\ riskParams' = p
  /\ UNCHANGED <<ledger, marketParams, listedMarkets, operators, permissions,
                 world, operation>>

\* A fault: the margin ratio may fall to the liquidation spread.
OwnerSetMarginRatioFreely(ratio) ==
  /\ ratio <= RiskLimits.marginRatioMax
  /\ SetRiskParams([riskParams EXCEPT !.marginRatio = ratio])

OwnerSetMarginRatio(ratio) ==
  /\ ratio <= RiskLimits.marginRatioMax
  /\ ratio > riskParams.liquidationSpread
  /\ SetRiskParams([riskParams EXCEPT !.marginRatio = ratio])

OwnerSetLiquidationSpread(spread) ==
  /\ spread <= RiskLimits.liquidationSpreadMax
  /\ spread < riskParams.marginRatio
  /\ SetRiskParams([riskParams EXCEPT !.liquidationSpread = spread])

OwnerSetEarningsRate(rate) ==
  /\ rate <= RiskLimits.earningsRateMax
  /\ SetRiskParams([riskParams EXCEPT !.earningsRate = rate])

OwnerSetMinBorrowedValue(value) ==
  /\ value <= RiskLimits.minBorrowedValueMax
  /\ SetRiskParams([riskParams EXCEPT !.minBorrowedValue = value])

OwnerSetAccountMaxNumberOfMarketsWithBalances(count) ==
  /\ count \in 2 .. 64
  /\ SetRiskParams(
       [riskParams EXCEPT !.accountMaxNumberOfMarketsWithBalances = count])

(***************************************************************************)
(* A setter is tried on one account before it is installed: the account    *)
(* number 0 of the owner it is for, or of the caller if it is the default. *)
(***************************************************************************)
SetterIsValid(setter, owner) ==
  setter # NoSetter =>
    ValidAccountRiskOverride(SetterAnswer[setter][DefaultAccount[owner]])

OwnerSetAccountRiskOverride(owner, setter) ==
  /\ SetterIsValid(setter, owner)
  /\ SetRiskParams(
       [riskParams EXCEPT !.accountRiskOverrideSetterMap[owner] = setter])

OwnerSetDefaultAccountRiskOverride(setter) ==
  /\ SetterIsValid(setter, ContractOwner)
  /\ SetRiskParams(
       [riskParams EXCEPT !.defaultAccountRiskOverrideSetter = setter])

OwnerSetOracleSentinel(answer) ==
  /\ Idle
  /\ answer.isBorrowAllowed
  /\ answer.isLiquidationAllowed
  /\ sentinel' = answer
  /\ UNCHANGED <<ledger, params, operators, permissions, price, now, operation>>

-----------------------------------------------------------------------------
(* Permissions                                                             *)

Granted(set, x, approved) == IF approved THEN set \cup {x} ELSE set \ {x}

OwnerSetGlobalOperator(operator, approved) ==
  /\ Idle
  /\ globalOperators' = Granted(globalOperators, operator, approved)
  /\ UNCHANGED <<ledger, params, operators, specialAutoTraders, world,
                 operation>>

OwnerSetAutoTraderSpecial(autoTrader, isSpecial) ==
  /\ Idle
  /\ specialAutoTraders' = Granted(specialAutoTraders, autoTrader, isSpecial)
  /\ UNCHANGED <<ledger, params, operators, globalOperators, world, operation>>

SetOperators(caller, operator, trusted) ==
  /\ operators' = Granted(operators, <<caller, operator>>, trusted)
  /\ UNCHANGED <<ledger, params, permissions, world, operation>>

OwnerMarketFunction ==
  \E m \in Markets :
    \/ \E recipient \in Recipients :
         \/ OwnerWithdrawExcessTokens(m, recipient)
         \/ OwnerWithdrawUnsupportedTokens(m, recipient)
    \/ \E p \in MarketChoices, answer \in Prices[m] : OwnerAddMarket(m, p, answer)
    \/ \E p \in MarketChanges :
         \/ OwnerSetIsClosing(m, p.isClosing)
         \/ OwnerSetMarginPremium(m, p.marginPremium)
         \/ OwnerSetLiquidationSpreadPremium(m, p.liquidationSpreadPremium)
         \/ OwnerSetMaxSupplyWei(m, p.maxSupplyWei)
         \/ OwnerSetMaxBorrowWei(m, p.maxBorrowWei)
         \/ OwnerSetEarningsRateOverride(m, p.earningsRateOverride)
    \/ \E answer \in Prices[m] : OwnerSetPriceOracle(m, answer)

OwnerRiskFunction ==
  \/ \E p \in RiskChanges :
       \/ OwnerSetMarginRatio(p.marginRatio)
       \/ OwnerSetLiquidationSpread(p.liquidationSpread)
       \/ OwnerSetEarningsRate(p.earningsRate)
       \/ OwnerSetMinBorrowedValue(p.minBorrowedValue)
       \/ OwnerSetAccountMaxNumberOfMarketsWithBalances(
            p.accountMaxNumberOfMarketsWithBalances)
  \/ \E setter \in RiskSetters :
       \/ OwnerSetDefaultAccountRiskOverride(setter)
       \/ OwnerSetDefaultAccountRiskOverride(NoSetter)
       \/ \E owner \in Addresses :
            \/ OwnerSetAccountRiskOverride(owner, setter)
            \/ OwnerSetAccountRiskOverride(owner, NoSetter)
  \/ \E answer \in SentinelChoices : OwnerSetOracleSentinel(answer)

OwnerPermissionFunction ==
  \E approved \in BOOLEAN :
    \/ \E x \in GlobalOperatorCandidates : OwnerSetGlobalOperator(x, approved)
    \/ \E x \in AutoTraderCandidates : OwnerSetAutoTraderSpecial(x, approved)

Permission ==
  \E grant \in OperatorGrants, trusted \in BOOLEAN :
    SetOperators(grant[1], grant[2], trusted)
=============================================================================

------------------------- MODULE MarginSafetyProofs -------------------------
(***************************************************************************)
(* What DolomiteMargin promises its accounts and its owner, for any        *)
(* accounts, markets, requests, prices and parameters: nobody's balance    *)
(* moves without authority, an operation only shrinks the balances of the  *)
(* accounts that it does not act for, only unhealthy accounts are          *)
(* liquidated, and an operation that ends leaves every account that it     *)
(* took from healthy, every market within its limits and no account with   *)
(* too many balances.  And DolomiteMargin can pay: no step of an operation *)
(* but a vaporization costs a market more of its excess tokens than the    *)
(* roundings of the amounts it moves, and none at all while the market has *)
(* accrued no interest, so that such a market never owes its suppliers     *)
(* more than it has or is owed.                                            *)
(***************************************************************************)
EXTENDS DolomiteMarginProofs

-----------------------------------------------------------------------------
(* The steps that are not part of an operation                             *)

(***************************************************************************)
(* A step that touches neither the running operation nor any account; and  *)
(* while an operation runs, no index, parameter, price or permission of a  *)
(* global operator either.                                                 *)
(***************************************************************************)
SameAccounts(M, L) ==
  /\ M.par = L.par
  /\ M.totalPar = L.totalPar
  /\ M.status = L.status

Quiet ==
  /\ UNCHANGED operation
  /\ SameAccounts(ledger', ledger)
  /\ ~Idle => /\ ledger'.index = ledger.index
              /\ UNCHANGED <<params, permissions, world>>

LEMMA TransferOutKeepsAccounts ==
  ASSUME NEW L \in Ledgers, NEW m \in Markets, NEW to, NEW wei
  PROVE  SameAccounts(TransferOut(L, m, to, wei), L)
  BY DEF TransferOut, Fail, Ledgers, SameAccounts

LEMMA OwnerMarketFunctionIsQuiet ==
  ASSUME Inductive, OwnerMarketFunction
  PROVE  Quiet
  <1>1. ledger \in Ledgers
    BY DEF Inductive, TypeOK, StorageTypeOK
  <1>2. PICK m \in Markets :
          \/ \E recipient \in Recipients :
               \/ OwnerWithdrawExcessTokens(m, recipient)
               \/ OwnerWithdrawUnsupportedTokens(m, recipient)
          \/ \E p \in MarketChoices, answer \in Prices[m] :
               OwnerAddMarket(m, p, answer)
          \/ \E p : SetMarketParams(m, p)
          \/ \E answer \in Prices[m] : OwnerSetPriceOracle(m, answer)
    BY DEF OwnerMarketFunction, OwnerSetIsClosing, OwnerSetMarginPremium,
       OwnerSetLiquidationSpreadPremium, OwnerSetMaxSupplyWei,
       OwnerSetMaxBorrowWei, OwnerSetEarningsRateOverride
  <1>3. ASSUME NEW recipient, OwnerWithdrawExcessTokens(m, recipient)
        PROVE  Quiet
    <2>1. /\ Idle /\ UNCHANGED operation
          /\ \E wei : ledger' = TransferOut(ledger, m, recipient, wei)
      BY <1>3 DEF OwnerWithdrawExcessTokens
    <2> QED BY <1>1, <2>1, TransferOutKeepsAccounts DEF Quiet
  <1>4. ASSUME NEW recipient, OwnerWithdrawUnsupportedTokens(m, recipient)
        PROVE  Quiet
    <2>1. /\ Idle /\ UNCHANGED operation
          /\ \E wei : ledger' = TransferOut(ledger, m, recipient, wei)
      BY <1>4 DEF OwnerWithdrawUnsupportedTokens
    <2> QED BY <1>1, <2>1, TransferOutKeepsAccounts DEF Quiet
  <1>5. ASSUME NEW p, NEW answer, OwnerAddMarket(m, p, answer)
        PROVE  Quiet
    <2>1. /\ Idle /\ UNCHANGED operation
          /\ ledger' = [ledger EXCEPT !.index[m] = NewIndex(now)]
      BY <1>5 DEF OwnerAddMarket
    <2> QED BY <1>1, <2>1 DEF Quiet, SameAccounts, Ledgers
  <1>6. ASSUME NEW p, SetMarketParams(m, p)
        PROVE  Quiet
    BY <1>6 DEF SetMarketParams, Quiet, SameAccounts
  <1>7. ASSUME NEW answer, OwnerSetPriceOracle(m, answer)
        PROVE  Quiet
    BY <1>7 DEF OwnerSetPriceOracle, Quiet, SameAccounts
  <1> QED BY <1>2, <1>3, <1>4, <1>5, <1>6, <1>7

LEMMA OwnerRiskFunctionIsQuiet ==
  ASSUME Inductive, OwnerRiskFunction
  PROVE  Quiet
  <1>1. \/ \E p : SetRiskParams(p)
        \/ \E answer : OwnerSetOracleSentinel(answer)
    BY DEF OwnerRiskFunction, OwnerSetMarginRatio, OwnerSetLiquidationSpread,
       OwnerSetEarningsRate, OwnerSetMinBorrowedValue,
       OwnerSetAccountMaxNumberOfMarketsWithBalances,
       OwnerSetAccountRiskOverride, OwnerSetDefaultAccountRiskOverride
  <1> QED BY <1>1 DEF SetRiskParams, OwnerSetOracleSentinel, Quiet,
             SameAccounts

LEMMA WorldIsQuiet ==
  ASSUME Inductive, World
  PROVE  Quiet
  <1>1. ASSUME NEW m \in Markets, NEW wei, Donate(m, wei)
        PROVE  Quiet
    <2>1. ledger \in Ledgers
      BY DEF Inductive, TypeOK, StorageTypeOK
    <2>2. /\ ledger' = [ledger EXCEPT !.balanceOf[m] = @ + wei]
          /\ UNCHANGED <<params, permissions, world, operation>>
      BY <1>1 DEF Donate
    <2> QED BY <2>1, <2>2 DEF Quiet, SameAccounts, Ledgers
  <1> QED BY <1>1 DEF World, PriceMoves, SentinelAnswers, TimePasses, Quiet,
             SameAccounts

LEMMA StepIsQuiet ==
  ASSUME Inductive, [Next]_vars, ~Operate
  PROVE  Quiet
  <1>1. CASE OwnerPermissionFunction
    BY <1>1 DEF OwnerPermissionFunction, OwnerSetGlobalOperator,
       OwnerSetAutoTraderSpecial, Quiet, SameAccounts
  <1>2. CASE Permission
    BY <1>2 DEF Permission, SetOperators, Quiet, SameAccounts
  <1>3. CASE UNCHANGED vars
    BY <1>3 DEF vars, Quiet, SameAccounts
  <1> QED BY <1>1, <1>2, <1>3, OwnerMarketFunctionIsQuiet,
             OwnerRiskFunctionIsQuiet, WorldIsQuiet DEF Next

(***************************************************************************)
(* No step changes the risk parameters but to valid ones.                  *)
(***************************************************************************)
LEMMA RiskParamsKept ==
  ASSUME Inductive, ValidRiskParams(riskParams), [Next]_vars
  PROVE  ValidRiskParams(riskParams')
  <1>1. riskParams \in RiskParamsType
    BY DEF Inductive, TypeOK, StorageTypeOK
  <1>2. CASE riskParams' = riskParams
    BY <1>2
  <1>3. CASE OwnerRiskFunction
    <2>1. ASSUME NEW ratio, OwnerSetMarginRatio(ratio)
          PROVE  ValidRiskParams(riskParams')
      BY <1>1, <2>1 DEF OwnerSetMarginRatio, SetRiskParams, ValidRiskParams,
         RiskParamsType
    <2>2. ASSUME NEW spread, OwnerSetLiquidationSpread(spread)
          PROVE  ValidRiskParams(riskParams')
      BY <1>1, <2>2 DEF OwnerSetLiquidationSpread, SetRiskParams,
         ValidRiskParams, RiskParamsType
    <2>3. ASSUME NEW rate, OwnerSetEarningsRate(rate)
          PROVE  ValidRiskParams(riskParams')
      BY <1>1, <2>3 DEF OwnerSetEarningsRate, SetRiskParams, ValidRiskParams,
         RiskParamsType
    <2>4. ASSUME NEW value, OwnerSetMinBorrowedValue(value)
          PROVE  ValidRiskParams(riskParams')
      BY <1>1, <2>4 DEF OwnerSetMinBorrowedValue, SetRiskParams,
         ValidRiskParams, RiskParamsType
    <2>5. ASSUME NEW count,
                 OwnerSetAccountMaxNumberOfMarketsWithBalances(count)
          PROVE  ValidRiskParams(riskParams')
      BY <1>1, <2>5 DEF OwnerSetAccountMaxNumberOfMarketsWithBalances,
         SetRiskParams, ValidRiskParams, RiskParamsType
    <2>6. ASSUME NEW setter, OwnerSetDefaultAccountRiskOverride(setter)
          PROVE  ValidRiskParams(riskParams')
      BY <1>1, <2>6 DEF OwnerSetDefaultAccountRiskOverride, SetRiskParams,
         ValidRiskParams, RiskParamsType
    <2>7. ASSUME NEW owner, NEW setter, OwnerSetAccountRiskOverride(owner, setter)
          PROVE  ValidRiskParams(riskParams')
      BY <1>1, <2>7 DEF OwnerSetAccountRiskOverride, SetRiskParams,
         ValidRiskParams, RiskParamsType
    <2>8. ASSUME NEW answer, OwnerSetOracleSentinel(answer)
          PROVE  ValidRiskParams(riskParams')
      BY <2>8 DEF OwnerSetOracleSentinel, params
    <2> QED BY <1>3, <2>1, <2>2, <2>3, <2>4, <2>5, <2>6, <2>7, <2>8
            DEF OwnerRiskFunction
  <1>4. CASE Operate
    <2>1. riskParams' = riskParams
      BY <1>4 DEF Operate, Begin, Deposit, Withdraw, Transfer, Buy, Sell,
         Trade, Call, Liquidate, Vaporize, VaporizeForCollateral, Complete,
         Commit, Revert, EndOperation, params
    <2> QED BY <2>1
  <1>5. CASE OwnerMarketFunction
    <2>1. riskParams' = riskParams
      BY <1>5 DEF OwnerMarketFunction, OwnerWithdrawExcessTokens,
         OwnerWithdrawUnsupportedTokens, OwnerAddMarket, SetMarketParams,
         OwnerSetIsClosing, OwnerSetMarginPremium,
         OwnerSetLiquidationSpreadPremium, OwnerSetMaxSupplyWei,
         OwnerSetMaxBorrowWei, OwnerSetEarningsRateOverride,
         OwnerSetPriceOracle, params
    <2> QED BY <2>1
  <1>6. CASE OwnerPermissionFunction \/ Permission \/ World
    <2>1. riskParams' = riskParams
      BY <1>6 DEF OwnerPermissionFunction, OwnerSetGlobalOperator,
         OwnerSetAutoTraderSpecial, Permission, SetOperators, World,
         PriceMoves, SentinelAnswers, TimePasses, Donate, params
    <2> QED BY <2>1
  <1>7. CASE UNCHANGED vars
    BY <1>2, <1>7 DEF vars, params
  <1> QED BY <1>3, <1>4, <1>5, <1>6, <1>7 DEF Next

(***************************************************************************)
(* However the owner's setters are called, and in whatever order, the      *)
(* liquidation spread stays below the margin ratio and every risk          *)
(* parameter within the immutable limits.                                  *)
(***************************************************************************)
THEOREM RiskParamsAreValid == Spec => []RiskParamsStayValid
  <1>1. Init => RiskParamsStayValid
    BY DEF Init, RiskParamsStayValid
  <1>2. Inductive /\ RiskParamsStayValid /\ [Next]_vars => RiskParamsStayValid'
    BY RiskParamsKept DEF RiskParamsStayValid
  <1> QED BY InductiveInvariant, <1>1, <1>2, PTL DEF Spec

-----------------------------------------------------------------------------
(* Authority                                                               *)

LEMMA OperatorsControl ==
  ASSUME NEW a, NEW x, RequireIsOperator(a, x)
  PROVE  Controls(x, a)
  BY DEF RequireIsOperator, LocalOperators, Controls

PlainAction ==
  Deposit \/ Withdraw \/ Transfer \/ Buy \/ Sell \/ Trade \/ Call

(***************************************************************************)
(* An action that is not a liquidation or a vaporization changes no flag,  *)
(* and moves only accounts that its sender, or their own auto-trader,      *)
(* controls.                                                               *)
(***************************************************************************)
LEMMA PlainActionKeeps ==
  ASSUME Inductive, PlainAction
  PROVE  /\ Executing(Arg.actionType)
         /\ AccountLayout(Arg.actionType) # "PrimaryAndSecondary"
         /\ Kept(ledger.status)
         /\ \A a \in Movers : MayMove(a)
  <1>1. CASE Deposit
    <2>1. Executing("Deposit") /\ Controls(Sender, AccountOne)
      BY <1>1, OperatorsControl DEF Deposit
    <2>2. Arg.actionType = "Deposit"
      BY <2>1 DEF Executing
    <2> QED BY <1>1, <2>1, <2>2, DepositKeeps DEF AccountLayout, Movers, MayMove
  <1>2. CASE Withdraw
    <2>1. Executing("Withdraw") /\ Controls(Sender, AccountOne)
      BY <1>2, OperatorsControl DEF Withdraw
    <2>2. Arg.actionType = "Withdraw"
      BY <2>1 DEF Executing
    <2> QED BY <1>2, <2>1, <2>2, WithdrawKeeps DEF AccountLayout, Movers, MayMove
  <1>3. CASE Transfer
    <2>1. /\ Executing("Transfer")
          /\ Controls(Sender, AccountOne)
          /\ Controls(Sender, AccountTwo)
      BY <1>3, OperatorsControl DEF Transfer
    <2>2. Arg.actionType = "Transfer"
      BY <2>1 DEF Executing
    <2> QED BY <1>3, <2>1, <2>2, TransferKeeps DEF AccountLayout, Movers, MayMove
  <1>4. CASE Buy
    <2>1. Executing("Buy") /\ Controls(Sender, AccountOne)
      BY <1>4, OperatorsControl DEF Buy
    <2>2. Arg.actionType = "Buy"
      BY <2>1 DEF Executing
    <2> QED BY <1>4, <2>1, <2>2, BuyKeeps DEF AccountLayout, Movers, MayMove
  <1>5. CASE Sell
    <2>1. Executing("Sell") /\ Controls(Sender, AccountOne)
      BY <1>5, OperatorsControl DEF Sell
    <2>2. Arg.actionType = "Sell"
      BY <2>1 DEF Executing
    <2> QED BY <1>5, <2>1, <2>2, SellKeeps DEF AccountLayout, Movers, MayMove
  <1>6. CASE Trade
    <2>1. /\ Executing("Trade")
          /\ Controls(Sender, AccountOne)
          /\ Controls(Arg.otherAddress, AccountTwo)
      BY <1>6, OperatorsControl DEF Trade
    <2>2. Arg.actionType = "Trade"
      BY <2>1 DEF Executing
    <2> QED BY <1>6, <2>1, <2>2, TradeKeeps DEF AccountLayout, Movers, MayMove
  <1>7. CASE Call
    <2>1. Executing("Call") /\ Controls(Sender, AccountOne)
      BY <1>7, OperatorsControl DEF Call
    <2>2. Arg.actionType = "Call"
      BY <2>1 DEF Executing
    <2> QED BY <1>7, <2>1, <2>2, CallKeeps DEF AccountLayout, Movers, MayMove
  <1> QED BY <1>1, <1>2, <1>3, <1>4, <1>5, <1>6, <1>7 DEF PlainAction

LEMMA LiquidateMoves ==
  ASSUME Inductive, Liquidate
  PROVE  /\ Executing("Liquidate")
         /\ Arg.actionType = "Liquidate"
         /\ Kept([ledger.status EXCEPT ![AccountTwo] = "Liquid"])
         /\ \A a \in Movers : MayMove(a)
  <1>1. Executing("Liquidate") /\ Sender \in globalOperators
    BY DEF Liquidate, RequireIsGlobalOperator
  <1>2. Arg.actionType = "Liquidate"
    BY <1>1 DEF Executing
  <1> QED BY <1>1, <1>2, LiquidateKeeps DEF MayMove

LEMMA VaporizeMoves ==
  ASSUME Inductive, Vaporize
  PROVE  /\ Executing("Vaporize")
         /\ Arg.actionType = "Vaporize"
         /\ Kept([ledger.status EXCEPT ![AccountTwo] = "Vapor"])
         /\ \A a \in Movers : MayMove(a)
  <1>1. Executing("Vaporize")
    BY DEF Vaporize
  <1>2. Arg.actionType = "Vaporize"
    BY <1>1 DEF Executing
  <1> QED BY <1>1, <1>2, VaporizeKeeps DEF MayMove

(***************************************************************************)
(* What the steps are: quiet, or the beginning, an action or the end of an *)
(* operation.                                                              *)
(***************************************************************************)
LEMMA BeginMovesNobody ==
  ASSUME Inductive, NEW r \in Requests, Begin(r)
  PROVE  SameAccounts(ledger', ledger) /\ Idle /\ ~Idle'
  <1>1. ledger \in Ledgers
    BY DEF Inductive, TypeOK, StorageTypeOK
  <1>2. \E markets, rates : ledger' = UpdateIndexes(ledger, markets, rates)
    BY DEF Begin
  <1>3. request' # NoRequest /\ Idle
    BY OperationAssumption DEF Begin
  <1> QED BY <1>1, <1>2, <1>3 DEF UpdateIndexes, SameAccounts, Ledgers, Idle

LEMMA ActionGoesOn ==
  ASSUME Inductive, NEW type, Executing(type), NEW status, Kept(status)
  PROVE  ~Idle /\ ~Idle'
  BY DEF Executing, Kept, Idle

LEMMA EndEnds ==
  ASSUME Inductive, Commit \/ Revert
  PROVE  ~Idle /\ Idle' /\ OperationEnds
  BY DEF Commit, Revert, EndOperation, Idle, OperationEnds

LEMMA UnmovedAccount ==
  ASSUME Inductive, NEW status, Kept(status), NEW a \in Accounts,
         ledger'.par[a] # ledger.par[a]
  PROVE  a \in Movers
  <1>1. /\ ledger.par[a] \in [Markets -> Signed128]
        /\ ledger'.par[a] \in [Markets -> Signed128]
    BY DEF Kept, Inductive, TypeOK, StorageTypeOK, Ledgers
  <1> QED BY <1>1 DEF Kept, OnlyMoves

(***************************************************************************)
(* Whatever code an operation calls, and whoever is made an operator or    *)
(* dismissed on the way, each step moves only accounts that its sender     *)
(* controls at that step, or whose own auto-trader agrees, or that are     *)
(* liquidated or vaporized.                                                *)
(***************************************************************************)
THEOREM AuthorityIsNeeded == Spec => NoMoveWithoutAuthority
  <1> DEFINE Allowed ==
        \A a \in Accounts :
          ledger'.par[a] # ledger.par[a]
            => ~Idle /\ (OperationEnds \/ MayMove(a))
  <1>1. ASSUME Inductive, [Next]_vars
        PROVE  Allowed
    <2>1. CASE ~Operate
      BY <1>1, <2>1, StepIsQuiet DEF Quiet, SameAccounts
    <2>2. ASSUME NEW r \in Requests, Begin(r)
          PROVE  Allowed
      BY <1>1, <2>2, BeginMovesNobody DEF SameAccounts
    <2>3. CASE PlainAction
      BY <1>1, <2>3, PlainActionKeeps, UnmovedAccount, ActionGoesOn
    <2>4. CASE Liquidate
      BY <1>1, <2>4, LiquidateMoves, UnmovedAccount, ActionGoesOn
    <2>5. CASE Vaporize
      BY <1>1, <2>5, VaporizeMoves, UnmovedAccount, ActionGoesOn
    <2>6. CASE Commit \/ Revert
      BY <1>1, <2>6, EndEnds
    <2> QED BY <2>1, <2>2, <2>3, <2>4, <2>5, <2>6 DEF Operate, PlainAction
  <1>2. Inductive /\ [Next]_vars => [Allowed]_vars
    BY <1>1
  <1> QED BY InductiveInvariant, <1>2, PTL DEF Spec, NoMoveWithoutAuthority

-----------------------------------------------------------------------------
(* What an operation has done so far                                       *)

LEMMA RequestIsTyped ==
  ASSUME Inductive, ~Idle
  PROVE  /\ request.accounts \in Seq(Accounts)
         /\ ListedAccounts(request) \subseteq Accounts
         /\ VerifyInputs(request)
         /\ pc \in Nat
  <1>1. request \in Requests /\ pc \in Nat
    BY DEF Inductive, TypeOK, OperationTypeOK, Idle
  <1>2. request.accounts \in Seq(Accounts)
    BY <1>1, OperationAssumption
  <1>3. ListedAccounts(request) \subseteq Accounts
    BY <1>2 DEF ListedAccounts
  <1>4. VerifyInputs(request)
    BY DEF Inductive, RequestIsVerified
  <1> QED BY <1>1, <1>2, <1>3, <1>4

(***************************************************************************)
(* The accounts of an action that make it primary have acted after it, and *)
(* no account that has acted is ever forgotten.                            *)
(***************************************************************************)
LEMMA ActedAfter ==
  ASSUME Inductive, NEW type, Executing(type), NEW status, Kept(status)
  PROVE  \A a : /\ HasActed(a)' <=> a \in PrimaryAccounts(request, pc)
                /\ HasActed(a) => HasActed(a)'
  <1>1. /\ ~Idle /\ ~Idle'
        /\ request' = request
        /\ pc' = pc + 1
        /\ pc \in Nat
    BY ActionGoesOn, RequestIsTyped DEF Kept
  <1>2. pc' - 1 = pc
    BY <1>1
  <1>3. \A a : HasActed(a)' <=> a \in PrimaryAccounts(request, pc)
    BY <1>1, <1>2 DEF HasActed, PrimaryAccounts, PrimaryIds
  <1>4. PrimaryAccounts(request, pc - 1) \subseteq PrimaryAccounts(request, pc)
    <2>1. 1 .. (pc - 1) \subseteq 1 .. pc
      BY <1>1
    <2>2. PrimaryIds(request, pc - 1) \subseteq PrimaryIds(request, pc)
      BY <2>1 DEF PrimaryIds
    <2> QED BY <2>2 DEF PrimaryAccounts
  <1> QED BY <1>3, <1>4 DEF HasActed

LEMMA ActorsAct ==
  ASSUME Inductive, NEW type, Executing(type)
  PROVE  /\ AccountOne \in PrimaryAccounts(request, pc)
         /\ AccountLayout(type) = "TwoPrimary"
              => AccountTwo \in PrimaryAccounts(request, pc)
  <1>1. pc \in Nat /\ pc \in DOMAIN request.actions /\ Arg.actionType = type
    BY RequestIsTyped DEF Executing
  <1>2. pc \in 1 .. pc
    <2>1. request.actions \in Seq(ActionArgs)
      <3>1. request \in Requests
        BY DEF Inductive, TypeOK, OperationTypeOK, Executing, Idle
      <3> QED BY <3>1, OperationAssumption
    <2> QED BY <1>1, <2>1
  <1>3. Arg.accountId \in PrimaryIds(request, pc)
    BY <1>2 DEF PrimaryIds, Arg
  <1>4. AccountLayout(type) = "TwoPrimary"
          => Arg.otherAccountId \in PrimaryIds(request, pc)
    BY <1>1, <1>2 DEF PrimaryIds, Arg
  <1> QED BY <1>3, <1>4 DEF PrimaryAccounts, AccountOne, AccountTwo

LEMMA ActorsAreListed ==
  ASSUME Inductive, NEW type, Executing(type)
  PROVE  /\ AccountOne \in ListedAccounts(request)
         /\ AccountLayout(type) # "OnePrimary"
              => AccountTwo \in ListedAccounts(request)
  <1>1. VerifyAccountLayout(request, pc) /\ Arg.actionType = type
    BY DEF Executing, Inductive, RequestIsVerified
  <1> QED BY <1>1 DEF VerifyAccountLayout, ListedAccounts, AccountOne,
             AccountTwo, Arg

(***************************************************************************)
(* Balances that come nearer to zero.                                      *)
(***************************************************************************)
Shrinks(M, L, a) == \A m \in Markets : Between(M.par[a][m], L.par[a][m])

LEMMA BetweenIsTransitive ==
  ASSUME NEW x \in Int, NEW y \in Int, NEW z \in Int,
         Between(x, y), Between(y, z)
  PROVE  Between(x, z)
  BY DEF Between

LEMMA BetweenIsReflexive ==
  ASSUME NEW x \in Int
  PROVE  Between(x, x)
  BY DEF Between

LEMMA BalanceIsInt ==
  ASSUME NEW L \in Ledgers, NEW a \in Accounts, NEW m \in Markets
  PROVE  L.par[a][m] \in Int
  BY MathAssumption DEF Ledgers, Signed128

LEMMA ShrinksIsTransitive ==
  ASSUME NEW L \in Ledgers, NEW M \in Ledgers, NEW N \in Ledgers,
         NEW a \in Accounts, Shrinks(M, L, a), Shrinks(N, M, a)
  PROVE  Shrinks(N, L, a)
  BY BalanceIsInt, BetweenIsTransitive DEF Shrinks

LEMMA ShrinksIsReflexive ==
  ASSUME NEW L \in Ledgers, NEW M \in Ledgers, NEW a \in Accounts,
         \A m \in Markets : M.par[a][m] = L.par[a][m]
  PROVE  Shrinks(M, L, a)
  BY BalanceIsInt, BetweenIsReflexive DEF Shrinks

(***************************************************************************)
(* An action keeps track if every account has acted after it, or stays as  *)
(* it was, or is listed, flagged and only shrinks.                         *)
(***************************************************************************)
Untouched(a, status) ==
  /\ \A m \in Markets : ledger'.par[a][m] = ledger.par[a][m]
  /\ status[a] = ledger.status[a]

Seized(a, status) ==
  /\ a \in ListedAccounts(request)
  /\ Shrinks(ledger', ledger, a)
  /\ \/ status[a] = "Liquid"
     \/ status[a] = "Vapor" /\ HasNoSupply(ledger, a)

LEMMA ActionTracks ==
  ASSUME Inductive, OperationIsTracked, NEW type, Executing(type),
         NEW status, Kept(status),
         \A a \in Accounts : \/ a \in PrimaryAccounts(request, pc)
                             \/ Untouched(a, status)
                             \/ Seized(a, status)
  PROVE  OperationIsTracked'
  <1>1. /\ ~Idle /\ ~Idle'
        /\ request' = request /\ cache' = cache /\ saved' = saved
        /\ price' = price /\ marketParams' = marketParams
        /\ ledger'.index = ledger.index
        /\ ledger'.status = status
        /\ OnlyMoves(ledger', ledger, Movers, DOMAIN cache)
    BY ActionGoesOn DEF Kept, params, world
  <1>2. \A a : /\ HasActed(a)' <=> a \in PrimaryAccounts(request, pc)
               /\ HasActed(a) => HasActed(a)'
    BY ActedAfter
  <1>3. ListedAccounts(request) \subseteq Accounts
    BY <1>1, RequestIsTyped
  <1>4. ledger \in Ledgers /\ ledger' \in Ledgers /\ saved.ledger \in Ledgers
    BY <1>1 DEF Kept, Inductive, Sound
  <1>5. \A a \in Accounts, m \in Markets : m \notin DOMAIN cache
          => ledger'.par[a][m] = ledger.par[a][m]
    BY <1>1 DEF OnlyMoves
  <1>6. CacheCoversAccounts'
    BY <1>1, <1>3, <1>5 DEF OperationIsTracked, CacheCoversAccounts,
       ListedAccounts
  <1>7. CacheIsCurrent'
    BY <1>1 DEF OperationIsTracked, CacheIsCurrent, OnlyMoves
  <1>8. ASSUME NEW a \in Accounts, NEW m \in Markets
        PROVE  /\ ledger.par[a][m] \in Int
               /\ ledger'.par[a][m] \in Int
               /\ saved.ledger.par[a][m] \in Int
    BY <1>4, BalanceIsInt
  <1>9. BystandersOnlyShrink'
    <2> SUFFICES ASSUME NEW a \in Accounts, NEW m \in Markets, ~HasActed(a)'
                 PROVE  \/ /\ Between(ledger'.par[a][m],
                                      saved.ledger.par[a][m])
                           /\ a \in ListedAccounts(request)
                        \/ ledger'.par[a][m] = saved.ledger.par[a][m]
      BY <1>1 DEF BystandersOnlyShrink, ListedAccounts
    <2>1. \/ /\ Between(ledger.par[a][m], saved.ledger.par[a][m])
             /\ a \in ListedAccounts(request)
          \/ ledger.par[a][m] = saved.ledger.par[a][m]
      BY <1>1, <1>2 DEF OperationIsTracked, BystandersOnlyShrink
    <2>2. CASE Untouched(a, status)
      BY <2>1, <2>2 DEF Untouched
    <2>3. CASE Seized(a, status)
      <3>1. /\ Between(ledger'.par[a][m], ledger.par[a][m])
            /\ a \in ListedAccounts(request)
        BY <2>3 DEF Seized, Shrinks
      <3> QED BY <1>8, <2>1, <3>1, BetweenIsTransitive
    <2> QED BY <1>2, <2>2, <2>3
  <1>10. LosersAreFlagged'
    <2> SUFFICES ASSUME NEW a \in Accounts, NEW m \in Markets, ~HasActed(a)',
                        ledger'.par[a][m] < saved.ledger.par[a][m]
                 PROVE  ledger'.status[a] \in {"Liquid", "Vapor"}
      BY <1>1 DEF LosersAreFlagged
    <2>1. CASE Untouched(a, status)
      BY <1>1, <1>2, <2>1 DEF Untouched, OperationIsTracked, LosersAreFlagged
    <2>2. CASE Seized(a, status)
      BY <1>1, <2>2 DEF Seized
    <2> QED BY <1>2, <2>1, <2>2
  <1>11. VaporHasNoSupply'
    <2>1. ASSUME NEW a \in Accounts, saved.ledger.status[a] = "Vapor"
          PROVE  HasNoSupply(saved.ledger, a)
      BY <1>1, <2>1 DEF OperationIsTracked, VaporHasNoSupply
    <2>2. ASSUME NEW a \in Accounts, status[a] = "Vapor", ~HasActed(a)'
          PROVE  HasNoSupply(ledger', a)
      <3>1. CASE Untouched(a, status)
        <4>1. HasNoSupply(ledger, a)
          BY <1>2, <2>2, <3>1 DEF Untouched, OperationIsTracked,
             VaporHasNoSupply
        <4> QED BY <3>1, <4>1 DEF Untouched, HasNoSupply
      <3>2. CASE Seized(a, status)
        <4>1. HasNoSupply(ledger, a) /\ Shrinks(ledger', ledger, a)
          BY <2>2, <3>2 DEF Seized
        <4> QED BY <1>8, <4>1 DEF HasNoSupply, Shrinks, Between
      <3> QED BY <1>2, <2>2, <3>1, <3>2
    <2> QED BY <1>1, <2>1, <2>2 DEF VaporHasNoSupply, HasNoSupply
  <1> QED BY <1>6, <1>7, <1>9, <1>10, <1>11 DEF OperationIsTracked

LEMMA PlainActionTracks ==
  ASSUME Inductive, OperationIsTracked, PlainAction
  PROVE  OperationIsTracked'
  <1> DEFINE type == Arg.actionType
  <1>1. /\ Executing(type)
        /\ AccountLayout(type) # "PrimaryAndSecondary"
        /\ Kept(ledger.status)
    BY PlainActionKeeps
  <1>2. /\ AccountOne \in PrimaryAccounts(request, pc)
        /\ AccountLayout(type) = "TwoPrimary"
              => AccountTwo \in PrimaryAccounts(request, pc)
    BY <1>1, ActorsAct
  <1>3. AccountLayout(type) \in {"OnePrimary", "TwoPrimary"}
    BY <1>1 DEF AccountLayout
  <1>4. Movers \subseteq PrimaryAccounts(request, pc)
    BY <1>2, <1>3 DEF Movers
  <1>5. \A a \in Accounts : a \in Movers \/ Untouched(a, ledger.status)
    BY <1>1 DEF Kept, OnlyMoves, Untouched
  <1> QED BY <1>1, <1>4, <1>5, ActionTracks

-----------------------------------------------------------------------------
(* What liquidation and vaporization take                                  *)

(***************************************************************************)
(* A write between zero and the balance shrinks the account.               *)
(***************************************************************************)
LEMMA SetParShrinks ==
  ASSUME NEW L, Sound(L), NEW a \in Accounts, NEW m \in Markets,
         NEW newPar \in Int, Between(newPar, L.par[a][m])
  PROVE  /\ Sound(SetPar(L, a, m, newPar))
         /\ Shrinks(SetPar(L, a, m, newPar), L, a)
         /\ \A n \in Markets : n # m
              => SetPar(L, a, m, newPar).par[a][n] = L.par[a][n]
  <1> DEFINE M == SetPar(L, a, m, newPar)
  <1>1. Follows(M, L, {a}, {m})
    BY SetParFollows
  <1>2. L \in Ledgers
    BY DEF Sound
  <1>3. M.par[a][m] \in {newPar, L.par[a][m]}
    BY <1>2 DEF SetPar, Fail, Ledgers
  <1> HIDE DEF M
  <1>4. \A n \in Markets : n # m => M.par[a][n] = L.par[a][n]
    BY <1>1 DEF Follows, OnlyMoves
  <1>5. \A n \in Markets : Between(L.par[a][n], L.par[a][n])
    BY <1>2, BalanceIsInt, BetweenIsReflexive
  <1>6. Shrinks(M, L, a)
    BY <1>3, <1>4, <1>5 DEF Shrinks
  <1> QED BY <1>1, <1>4, <1>6 DEF M, Follows

(***************************************************************************)
(* A debt that is repaid, and not beyond zero, shrinks.                    *)
(***************************************************************************)
LEMMA RepayingShrinks ==
  ASSUME NEW L, Sound(L), NEW a \in Accounts, NEW m \in Markets,
         NEW index \in Indexes, NEW wei \in Nat, L.par[a][m] <= 0,
         WeiToPar(GetWei(L, a, m, index) + wei, index) <= 0
  PROVE  LET M == SetParFromDeltaWei(L, a, m, index, wei)
         IN  Sound(M) /\ Shrinks(M, L, a)
  <1> DEFINE old == L.par[a][m]
             oldWei == GetWei(L, a, m, index)
             new == WeiToPar(oldWei + wei, index)
  <1>1. L \in Ledgers /\ old \in Int /\ old <= 0
    BY BalanceIsInt DEF Sound
  <1>2. oldWei \in Int /\ WeiToPar(oldWei, index) = old
    BY <1>1, ParToWeiIsInt, ConversionRoundTrip DEF GetWei
  <1> HIDE DEF old, oldWei
  <1>3. oldWei + wei \in Int /\ oldWei <= oldWei + wei
    BY <1>2
  <1>4. new \in Int /\ old <= new
    BY <1>2, <1>3, WeiToParIsInt, WeiToParIsMonotonic
  <1>5. new <= 0
    BY DEF oldWei
  <1> HIDE DEF new
  <1>6. Between(new, old)
    BY <1>1, <1>4, <1>5 DEF Between
  <1>7. /\ Sound(SetPar(L, a, m, new))
        /\ Shrinks(SetPar(L, a, m, new), L, a)
    BY <1>4, <1>6, SetParShrinks DEF old
  <1>8. Shrinks(L, L, a)
    BY <1>1, ShrinksIsReflexive
  <1> QED BY <1>7, <1>8 DEF SetParFromDeltaWei, new, oldWei

(***************************************************************************)
(* Collateral that is given, and no more than there is, shrinks.           *)
(***************************************************************************)
LEMMA GivingShrinks ==
  ASSUME NEW L, Sound(L), NEW a \in Accounts, NEW m \in Markets,
         NEW index \in Indexes, NEW wei \in Int, wei <= 0,
         GetWei(L, a, m, index) + wei >= 0
  PROVE  LET M == SetParFromDeltaWei(L, a, m, index, wei)
         IN  Sound(M) /\ Shrinks(M, L, a)
  <1> DEFINE old == L.par[a][m]
             oldWei == GetWei(L, a, m, index)
             new == WeiToPar(oldWei + wei, index)
  <1>1. L \in Ledgers /\ old \in Int
    BY BalanceIsInt DEF Sound
  <1>2. oldWei \in Int /\ WeiToPar(oldWei, index) = old
    BY <1>1, ParToWeiIsInt, ConversionRoundTrip DEF GetWei
  <1>3. oldWei + wei >= 0
    OBVIOUS
  <1> HIDE DEF old, oldWei
  <1>4. oldWei + wei \in Int /\ oldWei + wei <= oldWei /\ oldWei >= 0
    BY <1>2, <1>3
  <1>5. new \in Int /\ new <= old /\ new >= 0
    BY <1>2, <1>3, <1>4, WeiToParIsInt, WeiToParIsMonotonic,
       WeiToParKeepsSign
  <1> HIDE DEF new
  <1>6. Between(new, old)
    BY <1>1, <1>5 DEF Between
  <1>7. /\ Sound(SetPar(L, a, m, new))
        /\ Shrinks(SetPar(L, a, m, new), L, a)
    BY <1>5, <1>6, SetParShrinks DEF old
  <1>8. Shrinks(L, L, a)
    BY <1>1, ShrinksIsReflexive
  <1> QED BY <1>7, <1>8 DEF SetParFromDeltaWei, new, oldWei

(***************************************************************************)
(* The debt to repay: part of what is owed, and never more than all of it, *)
(* in principal and in Wei, whatever the amount asks for.                  *)
(***************************************************************************)
LEMMA RepaymentIsBounded ==
  ASSUME NEW L, Sound(L), NEW a \in Accounts, NEW m \in Markets,
         NEW index \in Indexes, NEW amount \in AssetAmounts,
         GetNewParAndDeltaWeiForLiquidation(L, a, m, index, amount).ok
  PROVE  LET new == GetNewParAndDeltaWeiForLiquidation(L, a, m, index, amount)
         IN  /\ L.par[a][m] <= 0
             /\ new.par \in Int
             /\ Between(new.par, L.par[a][m])
             /\ new.deltaWei \in Nat
             /\ WeiToPar(GetWei(L, a, m, index) + new.deltaWei, index) <= 0
  <1> DEFINE old == L.par[a][m]
             oldWei == GetWei(L, a, m, index)
             asked == GetNewParAndDeltaWei(L, a, m, index, amount)
             overpays == asked.par > 0
             newPar == IF overpays THEN 0 ELSE asked.par
             bounded == IF overpays THEN -oldWei ELSE asked.deltaWei
             deltaWei == IF newPar = old THEN 0 ELSE bounded
  <1>1. /\ old \in Int
        /\ asked.par \in Int /\ asked.deltaWei \in Int
    BY AmountIsTyped, BalanceIsInt DEF Sound
  <1>2. oldWei \in Int /\ WeiToPar(oldWei, index) = old
    BY <1>1, ParToWeiIsInt, ConversionRoundTrip DEF GetWei
  <1>3. /\ old <= 0
        /\ bounded >= 0
        /\ Abs(old) >= Abs(newPar)
    BY DEF GetNewParAndDeltaWeiForLiquidation
  <1>4. asked.par <= 0 => WeiToPar(oldWei + asked.deltaWei, index) <= 0
    <2> SUFFICES ASSUME asked.par <= 0
                 PROVE  WeiToPar(oldWei + asked.deltaWei, index) <= 0
      OBVIOUS
    <2>1. CASE amount.value = 0 /\ amount.ref = "Delta"
      <3>1. asked.deltaWei = 0
        BY <2>1 DEF GetNewParAndDeltaWei
      <3>2. oldWei + asked.deltaWei = oldWei
        BY <1>2, <3>1
      <3> QED BY <1>2, <1>3, <3>2
    <2>2. CASE /\ ~(amount.value = 0 /\ amount.ref = "Delta")
               /\ amount.denomination = "Wei"
      <3>1. asked.par = WeiToPar(oldWei + asked.deltaWei, index)
        BY <2>2 DEF GetNewParAndDeltaWei
      <3> QED BY <3>1
    <2>3. CASE /\ ~(amount.value = 0 /\ amount.ref = "Delta")
               /\ amount.denomination # "Wei"
      <3>1. asked.deltaWei = ParToWei(asked.par, index) - oldWei
        BY <2>3 DEF GetNewParAndDeltaWei
      <3> HIDE DEF asked, oldWei
      <3>2. oldWei + asked.deltaWei = ParToWei(asked.par, index)
        BY <1>1, <1>2, <3>1, ParToWeiIsInt
      <3> QED BY <1>1, <3>2, ConversionRoundTrip
    <2> QED BY <2>1, <2>2, <2>3
  <1>5. /\ GetNewParAndDeltaWeiForLiquidation(L, a, m, index, amount).par
             = newPar
        /\ GetNewParAndDeltaWeiForLiquidation(L, a, m, index, amount).deltaWei
             = deltaWei
    BY DEF GetNewParAndDeltaWeiForLiquidation
  <1>6. old \in Int /\ old = L.par[a][m] /\ oldWei = GetWei(L, a, m, index)
    BY <1>1
  <1> HIDE DEF asked, old, oldWei
  <1>7. newPar \in Int /\ newPar <= 0 /\ bounded \in Int
    BY <1>1, <1>2
  <1>8. Between(newPar, old)
    BY <1>3, <1>6, <1>7 DEF Between, Abs
  <1>9. deltaWei \in Nat
    BY <1>3, <1>7
  <1>10. WeiToPar(oldWei + deltaWei, index) <= 0
    <2>1. CASE newPar = old
      <3>1. oldWei + deltaWei = oldWei
        BY <1>2, <2>1
      <3> QED BY <1>2, <1>3, <3>1
    <2>2. CASE newPar # old /\ overpays
      <3>1. oldWei + deltaWei = 0
        BY <1>2, <2>2
      <3> QED BY <3>1, WeiToParKeepsSign
    <2>3. CASE newPar # old /\ ~overpays
      <3>1. deltaWei = asked.deltaWei /\ asked.par <= 0
        BY <1>1, <2>3
      <3> QED BY <1>4, <3>1
    <2> QED BY <2>1, <2>2, <2>3
  <1> HIDE DEF newPar, deltaWei
  <1> QED BY <1>3, <1>5, <1>6, <1>7, <1>8, <1>9, <1>10

(***************************************************************************)
(* Whether or not the collateral bounds the repayment, no more debt is     *)
(* repaid than was asked for and no more collateral given than there is.   *)
(***************************************************************************)
LEMMA AmountsAreBounded ==
  ASSUME NEW asked, asked.deltaWei \in Nat, NEW maxHeldWei \in Nat,
         NEW owedPrice \in Nat \ {0}, HeldPrice \in Nat \ {0}
  PROVE  LET amounts == LiquidationAmounts(asked, maxHeldWei, owedPrice)
         IN  /\ amounts.owedWei \in 0 .. asked.deltaWei
             /\ amounts.heldWei \in -maxHeldWei .. 0
  <1> DEFINE deltaWei == asked.deltaWei
             seized == GetPartial(deltaWei, owedPrice, HeldPrice)
             paid == GetPartialRoundUp(maxHeldWei, HeldPrice, owedPrice)
             amounts == LiquidationAmounts(asked, maxHeldWei, owedPrice)
  <1>1. deltaWei \in Nat
    OBVIOUS
  <1> HIDE DEF deltaWei
  <1>2. seized \in Nat
    BY <1>1, GetPartialIsNat
  <1>3. seized > maxHeldWei => paid \in 0 .. deltaWei
    BY <1>1, BoundedRepayment
  <1>4. -(-seized) = seized /\ -(-maxHeldWei) = maxHeldWei
    BY <1>2
  <1>5. /\ amounts.owedWei = IF seized > maxHeldWei THEN paid ELSE deltaWei
        /\ amounts.heldWei = IF seized > maxHeldWei THEN -maxHeldWei
                                                    ELSE -seized
    BY <1>4 DEF LiquidationAmounts, OwedWeiToHeldWei, HeldWeiToOwedWei,
       deltaWei
  <1> HIDE DEF seized, paid, amounts
  <1>6. /\ amounts.owedWei \in 0 .. deltaWei
        /\ amounts.heldWei \in -maxHeldWei .. 0
    BY <1>1, <1>2, <1>3, <1>5
  <1> QED BY <1>6 DEF deltaWei, amounts

(***************************************************************************)
(* The parties of a liquidation or a vaporization: two listed accounts and *)
(* two different cached markets.                                           *)
(***************************************************************************)
LEMMA Parties ==
  ASSUME Inductive, NEW type \in {"Liquidate", "Vaporize"}, Executing(type)
  PROVE  /\ AccountOne \in Accounts /\ AccountTwo \in Accounts
         /\ AccountTwo \in ListedAccounts(request)
         /\ MarketOne \in Markets /\ MarketTwo \in Markets
         /\ MarketOne # MarketTwo
         /\ MarketOne \in DOMAIN cache /\ MarketTwo \in DOMAIN cache
         /\ CachedIndex(MarketOne) \in Indexes
         /\ CachedIndex(MarketTwo) \in Indexes
         /\ HeldPrice \in Nat \ {0}
         /\ \A a \in Accounts \cup {ZeroAccount} :
              OwedPriceAdjusted(a) \in Nat \ {0}
         /\ Arg.amount \in AssetAmounts
  <1>1. AccountLayout(type) = "PrimaryAndSecondary"
    BY DEF AccountLayout
  <1>2. AccountOne \in Accounts /\ AccountTwo \in Accounts
    BY <1>1, ActionIsVerified
  <1>3. AccountTwo \in ListedAccounts(request)
    BY <1>1, ActorsAreListed
  <1>4. MarketOne \in DOMAIN cache /\ MarketTwo \in DOMAIN cache
    BY MarketsOfArg
  <1>5. MarketOne # MarketTwo
    <2>1. VerifyMarketLayout(request, pc) /\ Arg.actionType = type
      BY DEF Executing, Inductive, RequestIsVerified
    <2> QED BY <2>1 DEF VerifyMarketLayout, MarketLayout, MarketOne,
               MarketTwo, Arg
  <1>6. Arg.amount \in AssetAmounts
    BY ArgAmount
  <1> QED BY <1>2, <1>3, <1>4, <1>5, <1>6, CachedMarket, OwedPriceIsPositive
          DEF HeldPrice

(***************************************************************************)
(* The solid account settles on its own.                                   *)
(***************************************************************************)
LEMMA SettleSpares ==
  ASSUME NEW L, Sound(L), AccountOne \in Accounts,
         MarketOne \in Markets, MarketTwo \in Markets,
         CachedIndex(MarketOne) \in Indexes,
         CachedIndex(MarketTwo) \in Indexes,
         NEW amounts, amounts.owedWei \in Int, amounts.heldWei \in Int,
         NEW a \in Accounts, a # AccountOne, NEW m \in Markets
  PROVE  SettleSolidAccount(L, amounts).par[a][m] = L.par[a][m]
  <1> DEFINE owed == SetParFromDeltaWei(L, AccountOne, MarketOne,
                                        CachedIndex(MarketOne), -amounts.owedWei)
             held == SetParFromDeltaWei(owed, AccountOne, MarketTwo,
                                        CachedIndex(MarketTwo), -amounts.heldWei)
  <1>1. -amounts.owedWei \in Int /\ -amounts.heldWei \in Int
    OBVIOUS
  <1>2. Follows(owed, L, {AccountOne}, Markets)
    BY <1>1, SetParFromDeltaWeiFollows
  <1> HIDE DEF owed
  <1>3. Follows(held, owed, {AccountOne}, Markets)
    <2>1. Sound(owed)
      BY <1>2 DEF Follows
    <2> QED BY <1>1, <2>1, SetParFromDeltaWeiFollows
  <1> HIDE DEF held
  <1>4. held.par[a][m] = L.par[a][m]
    BY <1>2, <1>3 DEF Follows, OnlyMoves
  <1> QED BY <1>4 DEF SettleSolidAccount, owed, held

(***************************************************************************)
(* If a debt of L is repaid by wei, no more than what was asked for, the   *)
(* account shrinks.                                                        *)
(***************************************************************************)
LEMMA PartOfDebtShrinks ==
  ASSUME NEW L, Sound(L), NEW a \in Accounts, NEW m \in Markets,
         NEW index \in Indexes, NEW most \in Nat, NEW wei \in 0 .. most,
         L.par[a][m] <= 0,
         WeiToPar(GetWei(L, a, m, index) + most, index) <= 0
  PROVE  LET M == SetParFromDeltaWei(L, a, m, index, wei)
         IN  Sound(M) /\ Shrinks(M, L, a)
  <1> DEFINE oldWei == GetWei(L, a, m, index)
  <1>1. oldWei \in Int /\ wei \in Nat
    BY GetWeiIsInt
  <1>2. WeiToPar(oldWei + most, index) <= 0
    OBVIOUS
  <1> HIDE DEF oldWei
  <1>3. /\ oldWei + wei \in Int /\ oldWei + most \in Int
        /\ oldWei + wei <= oldWei + most
    BY <1>1
  <1>4. /\ WeiToPar(oldWei + wei, index) \in Int
        /\ WeiToPar(oldWei + most, index) \in Int
        /\ WeiToPar(oldWei + wei, index) <= WeiToPar(oldWei + most, index)
    BY <1>3, WeiToParIsInt, WeiToParIsMonotonic
  <1>5. WeiToPar(oldWei + wei, index) <= 0
    BY <1>2, <1>4
  <1> QED BY <1>1, <1>5, RepayingShrinks DEF oldWei

(***************************************************************************)
(* Liquidation only shrinks the account that it liquidates.                *)
(***************************************************************************)
LEMMA LiquidateShrinks ==
  ASSUME Inductive, Liquidate, AccountTwo # AccountOne
  PROVE  Shrinks(ledger', ledger, AccountTwo)
  <1> DEFINE liquid == AccountTwo
             marked == SetStatus(ledger, liquid, "Liquid")
             owedIndex == CachedIndex(MarketOne)
             heldIndex == CachedIndex(MarketTwo)
             maxHeldWei == GetWei(marked, liquid, MarketTwo, heldIndex)
             asked == DebtToRepay(marked)
             amounts == LiquidationAmounts(asked, maxHeldWei,
                                           OwedPriceAdjusted(liquid))
             emptied == SetPar(marked, liquid, MarketTwo, 0)
             bounded == SetParFromDeltaWei(emptied, liquid, MarketOne,
                                           owedIndex, amounts.owedWei)
             repaid == SetPar(marked, liquid, MarketOne, asked.par)
             unbounded == SetParFromDeltaWei(repaid, liquid, MarketTwo,
                                             heldIndex, amounts.heldWei)
             seized == IF amounts.bounded THEN bounded ELSE unbounded
             settled == SettleSolidAccount(seized, amounts)
  <1>1. /\ Executing("Liquidate")
        /\ maxHeldWei >= 0
        /\ asked.ok
        /\ Complete(settled)
    BY DEF Liquidate
  <1>2. /\ AccountOne \in Accounts /\ liquid \in Accounts
        /\ MarketOne \in Markets /\ MarketTwo \in Markets
        /\ MarketOne # MarketTwo
        /\ owedIndex \in Indexes /\ heldIndex \in Indexes
        /\ HeldPrice \in Nat \ {0}
        /\ OwedPriceAdjusted(liquid) \in Nat \ {0}
        /\ Arg.amount \in AssetAmounts
    BY <1>1, Parties
  <1>3. Sound(marked) /\ SameBooks(marked, ledger)
    BY <1>2, InductiveIsSound, SetStatusIsSound DEF Statuses
  <1>4. ledger' = settled
    BY <1>1 DEF Complete
  <1> HIDE DEF marked
  <1>5. /\ marked.par[liquid][MarketOne] <= 0
        /\ asked.par \in Int
        /\ Between(asked.par, marked.par[liquid][MarketOne])
        /\ asked.deltaWei \in Nat
        /\ WeiToPar(GetWei(marked, liquid, MarketOne, owedIndex)
                      + asked.deltaWei, owedIndex) <= 0
    BY <1>1, <1>2, <1>3, RepaymentIsBounded DEF DebtToRepay
  <1>6. maxHeldWei \in Nat
    BY <1>1, <1>2, <1>3, GetWeiIsInt
  <1>7. marked.par[liquid][MarketTwo] \in Nat
    <2>1. marked.par[liquid][MarketTwo] \in Int
      BY <1>2, <1>3, BalanceIsInt DEF Sound
    <2>2. ~(marked.par[liquid][MarketTwo] < 0)
      BY <1>1, <1>2, <1>6, <2>1, ParToWeiKeepsSign DEF GetWei
    <2> QED BY <2>1, <2>2
  <1> HIDE DEF liquid, owedIndex, heldIndex, asked
  <1>8. /\ amounts.owedWei \in 0 .. asked.deltaWei
        /\ amounts.heldWei \in -maxHeldWei .. 0
    <2> HIDE DEF maxHeldWei
    <2> QED BY <1>2, <1>5, <1>6, AmountsAreBounded
  <1> HIDE DEF amounts
  <1>9. Sound(bounded) /\ Shrinks(bounded, marked, liquid)
    <2>1. Between(0, marked.par[liquid][MarketTwo])
      BY <1>7 DEF Between
    <2>2. /\ Sound(emptied)
          /\ Shrinks(emptied, marked, liquid)
          /\ emptied.par[liquid][MarketOne] = marked.par[liquid][MarketOne]
      BY <1>2, <1>3, <2>1, SetParShrinks
    <2> HIDE DEF emptied
    <2>3. Sound(bounded) /\ Shrinks(bounded, emptied, liquid)
      BY <1>2, <1>5, <1>8, <2>2, PartOfDebtShrinks DEF GetWei
    <2> HIDE DEF bounded
    <2> QED BY <1>2, <1>3, <2>2, <2>3, ShrinksIsTransitive DEF Sound
  <1>10. Sound(unbounded) /\ Shrinks(unbounded, marked, liquid)
    <2>1. /\ Sound(repaid)
          /\ Shrinks(repaid, marked, liquid)
          /\ repaid.par[liquid][MarketTwo] = marked.par[liquid][MarketTwo]
      BY <1>2, <1>3, <1>5, SetParShrinks
    <2> HIDE DEF repaid
    <2>2. GetWei(repaid, liquid, MarketTwo, heldIndex) = maxHeldWei
      BY <2>1 DEF GetWei
    <2>3. /\ amounts.heldWei \in Int /\ amounts.heldWei <= 0
          /\ GetWei(repaid, liquid, MarketTwo, heldIndex) + amounts.heldWei >= 0
      <3> HIDE DEF maxHeldWei
      <3> QED BY <1>6, <1>8, <2>2
    <2>4. Sound(unbounded) /\ Shrinks(unbounded, repaid, liquid)
      BY <1>2, <2>1, <2>3, GivingShrinks
    <2> HIDE DEF unbounded
    <2> QED BY <1>2, <1>3, <2>1, <2>4, ShrinksIsTransitive DEF Sound
  <1>11. Sound(seized) /\ Shrinks(seized, marked, liquid)
    BY <1>9, <1>10
  <1>12. amounts.owedWei \in Int /\ amounts.heldWei \in Int
    <2> HIDE DEF maxHeldWei
    <2> QED BY <1>5, <1>6, <1>8
  <1> HIDE DEF seized
  <1>13. \A m \in Markets : settled.par[liquid][m] = seized.par[liquid][m]
    BY <1>2, <1>11, <1>12, SettleSpares DEF liquid, owedIndex, heldIndex
  <1>14. Shrinks(settled, marked, liquid)
    BY <1>11, <1>13 DEF Shrinks
  <1> HIDE DEF settled
  <1> QED BY <1>3, <1>4, <1>14 DEF Shrinks, SameBooks, liquid

LEMMA LiquidateTracks ==
  ASSUME Inductive, OperationIsTracked, Liquidate
  PROVE  OperationIsTracked'
  <1> DEFINE status == [ledger.status EXCEPT ![AccountTwo] = "Liquid"]
  <1>1. Executing("Liquidate") /\ Kept(status) /\ Arg.actionType = "Liquidate"
    BY LiquidateMoves
  <1>2. /\ AccountOne \in PrimaryAccounts(request, pc)
        /\ AccountTwo \in ListedAccounts(request)
        /\ AccountTwo \in Accounts
    BY <1>1, ActorsAct, Parties
  <1>3. ledger.status \in [Accounts -> Statuses]
    BY DEF Inductive, Sound, Ledgers
  <1>4. status[AccountTwo] = "Liquid"
    BY <1>2, <1>3
  <1>5. ASSUME NEW a \in Accounts, a # AccountOne, a # AccountTwo
        PROVE  Untouched(a, status)
    <2>1. a \notin Movers
      BY <1>5 DEF Movers
    <2> QED BY <1>1, <1>3, <1>5, <2>1 DEF Kept, OnlyMoves, Untouched
  <1> HIDE DEF status
  <1>6. AccountTwo # AccountOne => Seized(AccountTwo, status)
    BY <1>2, <1>4, LiquidateShrinks DEF Seized
  <1>7. \A a \in Accounts : \/ a \in PrimaryAccounts(request, pc)
                            \/ Untouched(a, status)
                            \/ Seized(a, status)
    BY <1>2, <1>5, <1>6
  <1> QED BY <1>1, <1>7, ActionTracks

(***************************************************************************)
(* Only listed accounts act.                                               *)
(***************************************************************************)
LEMMA PrimaryIdsAreListed ==
  ASSUME Inductive, ~Idle, NEW n \in 0 .. Len(request.actions)
  PROVE  PrimaryIds(request, n) \subseteq DOMAIN request.accounts
  <1>1. request.actions \in Seq(ActionArgs)
    <2>1. request \in Requests
      BY DEF Inductive, TypeOK, OperationTypeOK, Idle
    <2> QED BY <2>1, OperationAssumption
  <1>2. 1 .. n \subseteq DOMAIN request.actions
    BY <1>1
  <1>3. \A i \in 1 .. n : VerifyAccountLayout(request, i)
    BY <1>2 DEF Inductive, RequestIsVerified
  <1> QED BY <1>3 DEF VerifyAccountLayout, PrimaryIds

LEMMA PrimaryAccountsAreListed ==
  ASSUME Inductive, ~Idle, NEW n \in 0 .. Len(request.actions)
  PROVE  PrimaryAccounts(request, n) \subseteq ListedAccounts(request)
  BY PrimaryIdsAreListed DEF PrimaryAccounts, ListedAccounts

(***************************************************************************)
(* An account that is liquidated or vaporized has not acted, nor does it   *)
(* act in that step: the check of preprocessing is on positions in the     *)
(* list of accounts, and no account is listed twice.                       *)
(***************************************************************************)
LEMMA VictimHasNotActed ==
  ASSUME Inductive, NEW type \in {"Liquidate", "Vaporize"}, Executing(type)
  PROVE  ~HasActed(AccountTwo) /\ AccountTwo # AccountOne
  <1>1. /\ ~Idle
        /\ pc \in DOMAIN request.actions
        /\ Arg.actionType = type
    BY DEF Executing
  <1>2. request.actions \in Seq(ActionArgs)
    <2>1. request \in Requests
      BY <1>1 DEF Inductive, TypeOK, OperationTypeOK, Idle
    <2> QED BY <2>1, OperationAssumption
  <1>3. pc - 1 \in 0 .. Len(request.actions)
    BY <1>1, <1>2
  <1>4. PrimaryIds(request, pc - 1) \subseteq DOMAIN request.accounts
    BY <1>1, <1>3, PrimaryIdsAreListed
  <1>5. /\ Arg.accountId \in DOMAIN request.accounts
        /\ Arg.otherAccountId \in DOMAIN request.accounts
        /\ Arg.accountId # Arg.otherAccountId
        /\ Arg.otherAccountId \notin PrimaryIds(request, pc - 1)
    <2>1. VerifyAccountLayout(request, pc)
      BY <1>1 DEF Inductive, RequestIsVerified
    <2>2. AccountLayout(request.actions[pc].actionType) = "PrimaryAndSecondary"
      BY <1>1 DEF AccountLayout, Arg
    <2> QED BY <2>1, <2>2 DEF VerifyAccountLayout, Arg
  <1>6. \A i, j \in DOMAIN request.accounts :
          i # j => request.accounts[i] # request.accounts[j]
    BY <1>1, RequestIsTyped DEF VerifyInputs
  <1>7. AccountTwo # AccountOne
    BY <1>5, <1>6 DEF AccountOne, AccountTwo
  <1>8. AccountTwo \notin PrimaryAccounts(request, pc - 1)
    BY <1>4, <1>5, <1>6 DEF AccountTwo, PrimaryAccounts
  <1> QED BY <1>7, <1>8 DEF HasActed

(***************************************************************************)
(* An account that passes the check of vaporize has no supply in any       *)
(* market, though the check reads the cached markets only, and does not    *)
(* read an account again that has the flag.                                *)
(***************************************************************************)
LEMMA VaporOwesOnly ==
  ASSUME Inductive, OperationIsTracked, Executing("Vaporize"),
         CanVaporize(AccountTwo)
  PROVE  HasNoSupply(ledger, AccountTwo)
  <1>1. /\ ~Idle /\ ~HasActed(AccountTwo)
        /\ AccountTwo \in Accounts
        /\ AccountTwo \in ListedAccounts(request)
    BY VictimHasNotActed, Parties DEF Executing
  <1>2. CASE ledger.status[AccountTwo] = "Vapor"
    BY <1>1, <1>2 DEF OperationIsTracked, VaporHasNoSupply
  <1>3. CASE IsVaporizable(ledger, AccountTwo, cache)
    <2> SUFFICES ASSUME NEW m \in Markets
                 PROVE  ledger.par[AccountTwo][m] <= 0
      BY DEF HasNoSupply
    <2>1. CASE m \in DOMAIN cache
      BY <1>3, <2>1 DEF IsVaporizable
    <2>2. CASE m \notin DOMAIN cache
      <3>1. ledger.par[AccountTwo][m] = 0
        BY <1>1, <2>2 DEF OperationIsTracked, CacheCoversAccounts
      <3> QED BY <3>1
    <2> QED BY <2>1, <2>2
  <1> QED BY <1>2, <1>3 DEF CanVaporize

LEMMA ExcessShrinks ==
  ASSUME NEW L, Sound(L), NEW a \in Accounts, NEW m \in Markets,
         CachedIndex(m) \in Indexes, L.par[a][m] <= 0
  PROVE  LET M == VaporizeUsingExcess(L, a, m)
         IN  Sound(M) /\ Shrinks(M, L, a)
  <1> DEFINE index == CachedIndex(m)
             old == L.par[a][m]
             wei == GetWei(L, a, m, index)
             excess == GetNumExcessTokens(L, m)
  <1>1. excess \in Int /\ wei \in Int
    BY ExcessIsInt, GetWeiIsInt
  <1>2. L \in Ledgers /\ old \in Int /\ old <= 0
    BY BalanceIsInt DEF Sound
  <1>3. wei <= 0
    BY <1>2, ParToWeiKeepsSign DEF GetWei
  <1>4. CASE excess <= 0
    BY <1>2, <1>4, ShrinksIsReflexive DEF VaporizeUsingExcess
  <1>5. CASE excess > 0 /\ ExcessRepaysInFull(L, a, m)
    <2>1. Between(0, old)
      BY <1>2 DEF Between
    <2>2. Sound(SetPar(L, a, m, 0)) /\ Shrinks(SetPar(L, a, m, 0), L, a)
      BY <2>1, SetParShrinks
    <2> QED BY <1>1, <1>5, <2>2 DEF VaporizeUsingExcess
  <1>6. CASE excess > 0 /\ ~ExcessRepaysInFull(L, a, m)
    <2>1. excess \in Nat /\ excess < Abs(wei)
      BY <1>1, <1>6 DEF ExcessRepaysInFull, Abs
    <2> HIDE DEF excess, wei
    <2>2. wei + excess \in Int /\ wei + excess <= 0
      BY <1>1, <1>3, <2>1 DEF Abs
    <2>3. WeiToPar(wei + excess, index) <= 0
      BY <2>2, WeiToParKeepsSign
    <2>4. /\ Sound(SetParFromDeltaWei(L, a, m, index, excess))
          /\ Shrinks(SetParFromDeltaWei(L, a, m, index, excess), L, a)
      BY <2>1, <2>3, RepayingShrinks DEF wei
    <2>5. VaporizeUsingExcess(L, a, m)
            = SetParFromDeltaWei(L, a, m, index, excess)
      BY <1>1, <1>6 DEF VaporizeUsingExcess, excess
    <2> QED BY <2>4, <2>5
  <1> QED BY <1>1, <1>4, <1>5, <1>6

LEMMA CollateralShrinks ==
  ASSUME Inductive, Executing("Vaporize"), NEW L, Sound(L),
         VaporizeForCollateral(L)
  PROVE  Shrinks(ledger', L, AccountTwo)
  <1> DEFINE vapor == AccountTwo
             owedIndex == CachedIndex(MarketOne)
             maxHeldWei == GetNumExcessTokens(L, MarketTwo)
             asked == DebtToRepay(L)
             amounts == LiquidationAmounts(asked, maxHeldWei,
                                           OwedPriceAdjusted(ZeroAccount))
             bounded == SetParFromDeltaWei(L, vapor, MarketOne, owedIndex,
                                           amounts.owedWei)
             unbounded == SetPar(L, vapor, MarketOne, asked.par)
             repaid == IF amounts.bounded THEN bounded ELSE unbounded
             settled == SettleSolidAccount(repaid, amounts)
  <1>1. maxHeldWei >= 0 /\ asked.ok /\ Complete(settled)
    BY DEF VaporizeForCollateral
  <1>2. /\ AccountOne \in Accounts /\ vapor \in Accounts
        /\ vapor # AccountOne
        /\ MarketOne \in Markets /\ MarketTwo \in Markets
        /\ owedIndex \in Indexes
        /\ CachedIndex(MarketTwo) \in Indexes
        /\ HeldPrice \in Nat \ {0}
        /\ OwedPriceAdjusted(ZeroAccount) \in Nat \ {0}
        /\ Arg.amount \in AssetAmounts
    BY Parties, VictimHasNotActed
  <1>3. ledger' = settled
    BY <1>1 DEF Complete
  <1>4. /\ L.par[vapor][MarketOne] <= 0
        /\ asked.par \in Int
        /\ Between(asked.par, L.par[vapor][MarketOne])
        /\ asked.deltaWei \in Nat
        /\ WeiToPar(GetWei(L, vapor, MarketOne, owedIndex)
                      + asked.deltaWei, owedIndex) <= 0
    BY <1>1, <1>2, RepaymentIsBounded DEF DebtToRepay
  <1>5. maxHeldWei \in Nat
    BY <1>1, <1>2, ExcessIsInt
  <1> HIDE DEF vapor, owedIndex, asked, maxHeldWei
  <1>6. /\ amounts.owedWei \in 0 .. asked.deltaWei
        /\ amounts.heldWei \in -maxHeldWei .. 0
    BY <1>2, <1>4, <1>5, AmountsAreBounded
  <1> HIDE DEF amounts
  <1>7. Sound(bounded) /\ Shrinks(bounded, L, vapor)
    BY <1>2, <1>4, <1>6, PartOfDebtShrinks
  <1>8. Sound(unbounded) /\ Shrinks(unbounded, L, vapor)
    BY <1>2, <1>4, SetParShrinks
  <1>9. Sound(repaid) /\ Shrinks(repaid, L, vapor)
    BY <1>7, <1>8
  <1>10. amounts.owedWei \in Int /\ amounts.heldWei \in Int
    BY <1>4, <1>5, <1>6
  <1> HIDE DEF repaid
  <1>11. \A m \in Markets : settled.par[vapor][m] = repaid.par[vapor][m]
    BY <1>2, <1>9, <1>10, SettleSpares DEF vapor, owedIndex
  <1>12. Shrinks(settled, L, vapor)
    BY <1>9, <1>11 DEF Shrinks
  <1> HIDE DEF settled
  <1> QED BY <1>3, <1>12 DEF vapor

(***************************************************************************)
(* Vaporization only shrinks the account that it vaporizes.                *)
(***************************************************************************)
LEMMA VaporizeShrinks ==
  ASSUME Inductive, OperationIsTracked, Vaporize
  PROVE  Shrinks(ledger', ledger, AccountTwo)
  <1> DEFINE marked == SetStatus(ledger, AccountTwo, "Vapor")
             refunded == VaporizeUsingExcess(marked, AccountTwo, MarketOne)
  <1>1. /\ Executing("Vaporize")
        /\ CanVaporize(AccountTwo)
        /\ Complete(refunded) \/ VaporizeForCollateral(refunded)
    BY DEF Vaporize
  <1>2. /\ AccountTwo \in Accounts
        /\ MarketOne \in Markets
        /\ CachedIndex(MarketOne) \in Indexes
    BY <1>1, Parties
  <1>3. Sound(marked) /\ SameBooks(marked, ledger)
    BY <1>2, InductiveIsSound, SetStatusIsSound DEF Statuses
  <1>4. ledger.par[AccountTwo][MarketOne] <= 0
    BY <1>1, <1>2, VaporOwesOnly DEF HasNoSupply
  <1> HIDE DEF marked
  <1>5. Sound(refunded) /\ Shrinks(refunded, marked, AccountTwo)
    BY <1>2, <1>3, <1>4, ExcessShrinks DEF SameBooks
  <1> HIDE DEF refunded
  <1>6. Shrinks(ledger', refunded, AccountTwo)
    <2>1. CASE Complete(refunded)
      <3>1. ledger' = refunded
        BY <2>1 DEF Complete
      <3> QED BY <1>2, <1>5, <3>1, ShrinksIsReflexive DEF Sound
    <2>2. CASE VaporizeForCollateral(refunded)
      BY <1>1, <1>5, <2>2, CollateralShrinks
    <2> QED BY <1>1, <2>1, <2>2
  <1>7. ledger' \in Ledgers
    BY VaporizeKeeps DEF Kept, Inductive, Sound
  <1>8. Shrinks(ledger', marked, AccountTwo)
    BY <1>2, <1>3, <1>5, <1>6, <1>7, ShrinksIsTransitive DEF Sound
  <1> QED BY <1>3, <1>8 DEF Shrinks, SameBooks

LEMMA VaporizeTracks ==
  ASSUME Inductive, OperationIsTracked, Vaporize
  PROVE  OperationIsTracked'
  <1> DEFINE status == [ledger.status EXCEPT ![AccountTwo] = "Vapor"]
  <1>1. Executing("Vaporize") /\ Kept(status) /\ Arg.actionType = "Vaporize"
    BY VaporizeMoves
  <1>2. /\ AccountOne \in PrimaryAccounts(request, pc)
        /\ AccountTwo \in ListedAccounts(request)
        /\ AccountTwo \in Accounts
    BY <1>1, ActorsAct, Parties
  <1>3. ledger.status \in [Accounts -> Statuses]
    BY DEF Inductive, Sound, Ledgers
  <1>4. status[AccountTwo] = "Vapor"
    BY <1>2, <1>3
  <1>5. ASSUME NEW a \in Accounts, a # AccountOne, a # AccountTwo
        PROVE  Untouched(a, status)
    <2>1. a \notin Movers
      BY <1>5 DEF Movers
    <2> QED BY <1>1, <1>3, <1>5, <2>1 DEF Kept, OnlyMoves, Untouched
  <1> HIDE DEF status
  <1>6. Seized(AccountTwo, status)
    <2>1. HasNoSupply(ledger, AccountTwo)
      BY <1>1, VaporOwesOnly DEF Vaporize
    <2> QED BY <1>2, <1>4, <2>1, VaporizeShrinks DEF Seized
  <1>7. \A a \in Accounts : \/ a \in PrimaryAccounts(request, pc)
                            \/ Untouched(a, status)
                            \/ Seized(a, status)
    BY <1>2, <1>5, <1>6
  <1> QED BY <1>1, <1>7, ActionTracks

-----------------------------------------------------------------------------
(* What every step of an operation keeps                                   *)

LEMMA InitTracks ==
  ASSUME Init
  PROVE  OperationIsTracked
  <1>1. Idle /\ \A a \in Accounts : ledger.status[a] # "Vapor"
    BY DEF Init, Idle, EmptyLedger
  <1> QED BY <1>1 DEF OperationIsTracked, CacheCoversAccounts, CacheIsCurrent,
             BystandersOnlyShrink, LosersAreFlagged, VaporHasNoSupply

(***************************************************************************)
(* The cache that an operation begins with: the current index, price and   *)
(* closing flag of each market of the request, and the totals.             *)
(***************************************************************************)
LEMMA BeginCaches ==
  ASSUME Inductive, NEW r \in Requests, Begin(r)
  PROVE  /\ DOMAIN cache' = OperationMarkets(r)
         /\ CacheIsCurrent'
  <1>1. /\ cache' = InitializeCache(ledger', OperationMarkets(r))
        /\ saved' = [ledger |-> ledger, operators |-> operators]
        /\ price' = price /\ marketParams' = marketParams
    BY DEF Begin, params, world
  <1>2. ledger'.totalPar = ledger.totalPar
    BY BeginMovesNobody DEF SameAccounts
  <1>3. DOMAIN cache' = OperationMarkets(r)
    BY <1>1 DEF InitializeCache
  <1>4. \A m \in OperationMarkets(r) :
          cache'[m] = [isClosing |-> marketParams[m].isClosing,
                       borrowPar |-> ledger'.totalPar[m].borrow,
                       supplyPar |-> ledger'.totalPar[m].supply,
                       index     |-> ledger'.index[m],
                       price     |-> price[m]]
    BY <1>1 DEF InitializeCache
  <1>5. saved'.ledger = ledger
    BY <1>1
  <1> QED BY <1>1, <1>2, <1>3, <1>4, <1>5 DEF CacheIsCurrent

LEMMA BeginTracks ==
  ASSUME Inductive, OperationIsTracked, NEW r \in Requests, Begin(r)
  PROVE  OperationIsTracked'
  <1>1. /\ saved' = [ledger |-> ledger, operators |-> operators]
        /\ request' = r
    BY DEF Begin
  <1>2. /\ Idle /\ ~Idle'
        /\ ledger'.par = ledger.par
        /\ ledger'.status = ledger.status
    BY BeginMovesNobody DEF SameAccounts
  <1>3. saved'.ledger = ledger
    BY <1>1
  <1>4. DOMAIN cache' = OperationMarkets(r) /\ CacheIsCurrent'
    BY BeginCaches
  <1>5. ledger \in Ledgers /\ BooksAreExact(ledger)
    BY DEF Inductive, Sound
  <1>6. ListedAccounts(r) \subseteq Accounts
    BY OperationAssumption DEF ListedAccounts
  <1>7. CacheCoversAccounts'
    <2>1. ASSUME NEW a \in ListedAccounts(r), NEW m \in Markets,
                 ledger.par[a][m] # 0
          PROVE  m \in OperationMarkets(r)
      <3>1. m \in ledger.marketsWithBalances[a]
        BY <1>5, <1>6, <2>1 DEF BooksAreExact
      <3> QED BY <3>1 DEF OperationMarkets
    <2> QED BY <1>1, <1>2, <1>4, <2>1 DEF CacheCoversAccounts, ListedAccounts
  <1>8. BystandersOnlyShrink'
    BY <1>2, <1>3 DEF BystandersOnlyShrink
  <1>9. LosersAreFlagged'
    <2>1. \A a \in Accounts, m \in Markets :
            ~(ledger.par[a][m] < ledger.par[a][m])
      BY <1>5, BalanceIsInt
    <2> QED BY <1>2, <1>3, <2>1 DEF LosersAreFlagged
  <1>10. VaporHasNoSupply'
    <2>1. ASSUME NEW a \in Accounts, ledger.status[a] = "Vapor"
          PROVE  HasNoSupply(ledger, a)
      BY <1>2, <2>1 DEF OperationIsTracked, VaporHasNoSupply, HasActed
    <2> QED BY <1>2, <1>3, <2>1 DEF VaporHasNoSupply, HasNoSupply
  <1> QED BY <1>4, <1>7, <1>8, <1>9, <1>10 DEF OperationIsTracked

LEMMA QuietTracks ==
  ASSUME Inductive, OperationIsTracked, Quiet
  PROVE  OperationIsTracked'
  <1>1. /\ request' = request /\ pc' = pc /\ cache' = cache /\ saved' = saved
        /\ ledger'.par = ledger.par
        /\ ledger'.totalPar = ledger.totalPar
        /\ ledger'.status = ledger.status
        /\ Idle' <=> Idle
    BY DEF Quiet, operation, SameAccounts, Idle
  <1>2. \A a : HasActed(a)' <=> HasActed(a)
    BY <1>1 DEF HasActed, PrimaryAccounts, PrimaryIds
  <1>3. ~Idle => /\ ledger'.index = ledger.index
                 /\ price' = price
                 /\ marketParams' = marketParams
    BY DEF Quiet, params, world
  <1>4. CacheCoversAccounts'
    BY <1>1 DEF OperationIsTracked, CacheCoversAccounts, ListedAccounts
  <1>5. CacheIsCurrent'
    BY <1>1, <1>3 DEF OperationIsTracked, CacheIsCurrent
  <1>6. BystandersOnlyShrink'
    BY <1>1, <1>2 DEF OperationIsTracked, BystandersOnlyShrink, ListedAccounts
  <1>7. LosersAreFlagged'
    BY <1>1, <1>2 DEF OperationIsTracked, LosersAreFlagged
  <1>8. VaporHasNoSupply'
    BY <1>1, <1>2 DEF OperationIsTracked, VaporHasNoSupply, HasNoSupply
  <1> QED BY <1>4, <1>5, <1>6, <1>7, <1>8 DEF OperationIsTracked

(***************************************************************************)
(* When an operation commits, the accounts that have acted are those that  *)
(* it checks and clears.                                                   *)
(***************************************************************************)
LEMMA AllHaveActed ==
  ASSUME Inductive, Commit
  PROVE  \A a : HasActed(a) <=> a \in AllPrimaryAccounts
  <1>1. ~Idle /\ pc = Len(request.actions) + 1
    BY DEF Commit
  <1>2. Len(request.actions) \in Nat
    <2>1. request \in Requests
      BY <1>1 DEF Inductive, TypeOK, OperationTypeOK, Idle
    <2>2. request.actions \in Seq(ActionArgs)
      BY <2>1, OperationAssumption
    <2> QED BY <2>2
  <1>3. pc - 1 = Len(request.actions)
    BY <1>1, <1>2
  <1> QED BY <1>1, <1>3 DEF HasActed, AllPrimaryAccounts

LEMMA EndTracks ==
  ASSUME Inductive, OperationIsTracked, Commit \/ Revert
  PROVE  OperationIsTracked'
  <1>1. ~Idle /\ Idle'
    BY EndEnds
  <1>2. ASSUME NEW a \in Accounts, ledger'.status[a] = "Vapor"
        PROVE  HasNoSupply(ledger', a)
    <2>1. CASE Commit
      <3>1. /\ ledger'.par = ledger.par
            /\ a \notin AllPrimaryAccounts
            /\ ledger.status[a] = "Vapor"
        <4>1. /\ ledger \in Ledgers
              /\ ledger' = ClearStatuses(ledger, AllPrimaryAccounts)
          BY <2>1 DEF Inductive, Sound, Commit
        <4> QED BY <1>2, <4>1 DEF ClearStatuses, Ledgers
      <3>2. HasNoSupply(ledger, a)
        BY <2>1, <3>1, AllHaveActed DEF OperationIsTracked, VaporHasNoSupply
      <3> QED BY <3>1, <3>2 DEF HasNoSupply
    <2>2. CASE Revert
      <3>1. ledger' = saved.ledger
        BY <2>2 DEF Revert
      <3>2. HasNoSupply(saved.ledger, a)
        BY <1>1, <1>2, <3>1 DEF OperationIsTracked, VaporHasNoSupply
      <3> QED BY <3>1, <3>2 DEF HasNoSupply
    <2> QED BY <2>1, <2>2
  <1> QED BY <1>1, <1>2 DEF OperationIsTracked, CacheCoversAccounts,
             CacheIsCurrent, BystandersOnlyShrink, LosersAreFlagged,
             VaporHasNoSupply, HasNoSupply

LEMMA NextTracks ==
  ASSUME Inductive, OperationIsTracked, [Next]_vars
  PROVE  OperationIsTracked'
  <1>1. CASE ~Operate
    BY <1>1, StepIsQuiet, QuietTracks
  <1>2. ASSUME NEW r \in Requests, Begin(r)
        PROVE  OperationIsTracked'
    BY <1>2, BeginTracks
  <1>3. CASE PlainAction
    BY <1>3, PlainActionTracks
  <1>4. CASE Liquidate
    BY <1>4, LiquidateTracks
  <1>5. CASE Vaporize
    BY <1>5, VaporizeTracks
  <1>6. CASE Commit \/ Revert
    BY <1>6, EndTracks
  <1> QED BY <1>1, <1>2, <1>3, <1>4, <1>5, <1>6 DEF Operate, PlainAction

(***************************************************************************)
(* While an operation runs its cache holds every market in which a listed  *)
(* account has a balance and is never stale; an account that has not acted *)
(* only shrinks, is flagged if it loses, and has no supply while it is     *)
(* flagged as vapor.                                                       *)
(***************************************************************************)
THEOREM OperationsAreTracked == Spec => []OperationIsTracked
  <1>1. Init => OperationIsTracked
    BY InitTracks
  <1>2. Inductive /\ OperationIsTracked /\ [Next]_vars => OperationIsTracked'
    BY NextTracks
  <1> QED BY InductiveInvariant, <1>1, <1>2, PTL DEF Spec

(***************************************************************************)
(* The markets that preprocessing caches are all that getAccountValues and *)
(* isVaporizable need to look at, from the first action to the last check. *)
(***************************************************************************)
THEOREM CacheIsComplete == Spec => []CacheCoversAccounts
  <1>1. OperationIsTracked => CacheCoversAccounts
    BY DEF OperationIsTracked
  <1> QED BY OperationsAreTracked, <1>1, PTL

(***************************************************************************)
(* Until an account acts, an operation never flips a balance of it, never  *)
(* grows a debt or a supply of it, and touches it only if it is listed.    *)
(***************************************************************************)
THEOREM BystandersAreSafe == Spec => []BystandersOnlyShrink
  <1>1. OperationIsTracked => BystandersOnlyShrink
    BY DEF OperationIsTracked
  <1> QED BY OperationsAreTracked, <1>1, PTL

(***************************************************************************)
(* _vaporizeUsingExcess sets the owed balance to zero before anything has  *)
(* looked at its sign, and yet takes no supply: whoever is vaporized has   *)
(* none.                                                                   *)
(***************************************************************************)
THEOREM VaporizationTakesNoSupply == Spec => VaporizeTakesNoSupply
  <1> DEFINE Spared ==
        Executing("Vaporize") /\ ~Idle' =>
          \A m \in Markets :
            ledger.par[AccountTwo][m] > 0
              => ledger'.par[AccountTwo][m] >= ledger.par[AccountTwo][m]
  <1>1. ASSUME Inductive, OperationIsTracked, [Next]_vars
        PROVE  Spared
    <2> SUFFICES ASSUME Executing("Vaporize"), ~Idle', NEW m \in Markets,
                        ledger.par[AccountTwo][m] > 0
                 PROVE  ledger'.par[AccountTwo][m] >= ledger.par[AccountTwo][m]
      OBVIOUS
    <2>1. ledger.par[AccountTwo][m] \in Int /\ ~Idle
      <3>1. ledger \in Ledgers /\ AccountTwo \in Accounts
        BY <1>1, Parties DEF Inductive, Sound
      <3> QED BY <3>1, BalanceIsInt DEF Executing
    <2>2. CASE ~Operate
      <3>1. ledger'.par = ledger.par
        BY <1>1, <2>2, StepIsQuiet DEF Quiet, SameAccounts
      <3> QED BY <2>1, <3>1
    <2>3. CASE Vaporize
      <3>1. HasNoSupply(ledger, AccountTwo)
        BY <1>1, <2>3, VaporOwesOnly DEF Vaporize
      <3> QED BY <2>1, <3>1 DEF HasNoSupply
    <2>4. CASE PlainAction \/ Liquidate
      <3>1. Arg.actionType = "Vaporize"
        BY DEF Executing
      <3> QED BY <2>4, <3>1 DEF PlainAction, Deposit, Withdraw, Transfer, Buy,
                 Sell, Trade, Call, Liquidate, Executing
    <2>5. ~(\E r \in Requests : Begin(r)) /\ ~(Commit \/ Revert)
      BY <1>1, <2>1, EndEnds DEF Begin
    <2> QED BY <2>2, <2>3, <2>4, <2>5 DEF Operate, PlainAction
  <1>2. Inductive /\ OperationIsTracked /\ [Next]_vars => [Spared]_vars
    BY <1>1
  <1> QED BY InductiveInvariant, OperationsAreTracked, <1>2, PTL
          DEF Spec, VaporizeTakesNoSupply

-----------------------------------------------------------------------------
(* The value of an account                                                 *)

(***************************************************************************)
(* The values of a balance are integers, and a market without a balance    *)
(* adds nothing to them.                                                   *)
(***************************************************************************)
LEMMA ValuesAreInt ==
  ASSUME Inductive, NEW L, Sound(L), NEW a \in Accounts, NEW m \in Markets,
         NEW entry, entry.index \in Indexes, entry.price \in Nat
  PROVE  /\ SupplyValue(L, a, m, entry) \in Int
         /\ BorrowValue(L, a, m, entry) \in Int
         /\ L.par[a][m] = 0 => /\ SupplyValue(L, a, m, entry) = 0
                               /\ BorrowValue(L, a, m, entry) = 0
  <1> DEFINE wei == GetWei(L, a, m, entry.index)
             adjustment == LiquidityAdjustment(a, m)
             supply == PositivePart(wei) * entry.price
             borrow == NegativePart(wei) * entry.price
  <1>1. adjustment \in Nat \ {0} /\ Base \in Nat \ {0}
    <2>1. Base \in Nat \ {0}
      BY BaseIsPositive
    <2>2. marketParams[m].marginPremium \in Nat
      BY DEF Inductive, TypeOK, StorageTypeOK, MarketParamsType
    <2> QED BY <2>1, <2>2 DEF LiquidityAdjustment, OnePlus
  <1>2. wei \in Int
    BY GetWeiIsInt
  <1> HIDE DEF adjustment
  <1>3. supply \in Int /\ borrow \in Int
    BY <1>2, PartsAreNat, ProductIsNat
  <1>4. L.par[a][m] = 0 => supply = 0 /\ borrow = 0
    <2> SUFFICES ASSUME L.par[a][m] = 0
                 PROVE  supply = 0 /\ borrow = 0
      OBVIOUS
    <2>1. wei <= 0 /\ wei >= 0
      BY ParToWeiKeepsSign DEF GetWei
    <2> HIDE DEF wei
    <2>2. wei = 0
      BY <1>2, <2>1
    <2> QED BY <2>2 DEF PositivePart, NegativePart
  <1> HIDE DEF supply, borrow
  <1>5. /\ GetPartial(supply, Base, adjustment) \in Int
        /\ GetPartial(borrow, adjustment, Base) \in Int
    BY <1>1, <1>3, GetPartialIsInt
  <1>6. L.par[a][m] = 0 => /\ GetPartial(supply, Base, adjustment) = 0
                           /\ GetPartial(borrow, adjustment, Base) = 0
    <2>1. 0 * Base = 0 /\ 0 * adjustment = 0
      BY <1>1
    <2>2. 0 \div Base = 0 /\ 0 \div adjustment = 0
      BY <1>1
    <2> QED BY <1>4, <2>1, <2>2 DEF GetPartial
  <1>7. /\ SupplyValue(L, a, m, entry) = GetPartial(supply, Base, adjustment)
        /\ BorrowValue(L, a, m, entry) = GetPartial(borrow, adjustment, Base)
    BY DEF SupplyValue, BorrowValue, DecimalMul, DecimalDiv, supply, borrow,
       adjustment
  <1> QED BY <1>5, <1>6, <1>7

(***************************************************************************)
(* For an account of the running operation, the values over the cached     *)
(* markets are its values over all markets at the current prices.          *)
(***************************************************************************)
LEMMA CachedValuesAreWhole ==
  ASSUME Inductive, OperationIsTracked, ~Idle,
         NEW a \in ListedAccounts(request)
  PROVE  LET all == InitializeCache(ledger, Markets)
         IN  /\ AccountSupplyValue(ledger, a, cache)
                  = AccountSupplyValue(ledger, a, all)
             /\ AccountBorrowValue(ledger, a, cache)
                  = AccountBorrowValue(ledger, a, all)
             /\ AccountSupplyValue(ledger, a, all) \in Int
             /\ AccountBorrowValue(ledger, a, all) \in Int
  <1> DEFINE all == InitializeCache(ledger, Markets)
             wholeS == [m \in DOMAIN all |-> SupplyValue(ledger, a, m, all[m])]
             wholeB == [m \in DOMAIN all |-> BorrowValue(ledger, a, m, all[m])]
             partS ==
               [m \in DOMAIN cache |-> SupplyValue(ledger, a, m, cache[m])]
             partB ==
               [m \in DOMAIN cache |-> BorrowValue(ledger, a, m, cache[m])]
             held == DOMAIN cache
  <1>1. a \in Accounts
    BY RequestIsTyped
  <1>2. IsFiniteSet(Markets) /\ held \in SUBSET Markets
    BY StorageAssumption DEF Inductive, TypeOK, OperationTypeOK
  <1>3. IsFiniteSet(held)
    BY <1>2, FS_Subset
  <1>4. /\ DOMAIN all = Markets
        /\ \A m \in Markets : /\ all[m].index = ledger.index[m]
                              /\ all[m].price = price[m]
    BY DEF InitializeCache
  <1>5. \A m \in held : /\ cache[m].index = ledger.index[m]
                        /\ cache[m].price = price[m]
    BY <1>2 DEF OperationIsTracked, CacheIsCurrent
  <1>6. Sound(ledger)
    BY InductiveIsSound
  <1>7. \A m \in Markets : ledger.index[m] \in Indexes /\ price[m] \in Nat
    BY DEF Inductive, Sound, Ledgers, TypeOK, WorldTypeOK
  <1> HIDE DEF all
  <1>8. \A m \in Markets :
          /\ wholeS[m] \in Int /\ wholeB[m] \in Int
          /\ ledger.par[a][m] = 0 => wholeS[m] = 0 /\ wholeB[m] = 0
    BY <1>1, <1>4, <1>6, <1>7, ValuesAreInt
  <1>9. \A m \in Markets \ held : ledger.par[a][m] = 0
    BY DEF OperationIsTracked, CacheCoversAccounts
  <1>10. \A m \in held : partS[m] = wholeS[m] /\ partB[m] = wholeB[m]
    <2>1. \A m \in held :
            /\ SupplyValue(ledger, a, m, cache[m])
                 = SupplyValue(ledger, a, m, all[m])
            /\ BorrowValue(ledger, a, m, cache[m])
                 = BorrowValue(ledger, a, m, all[m])
      BY <1>2, <1>4, <1>5 DEF SupplyValue, BorrowValue
    <2> QED BY <1>2, <1>4, <2>1
  <1>11. /\ AccountSupplyValue(ledger, a, all) = SumFunctionOnSet(wholeS, Markets)
         /\ AccountBorrowValue(ledger, a, all) = SumFunctionOnSet(wholeB, Markets)
         /\ AccountSupplyValue(ledger, a, cache) = SumFunctionOnSet(partS, held)
         /\ AccountBorrowValue(ledger, a, cache) = SumFunctionOnSet(partB, held)
    <2>1. DOMAIN wholeS = Markets /\ DOMAIN wholeB = Markets
      BY <1>4
    <2>2. DOMAIN partS = held /\ DOMAIN partB = held
      OBVIOUS
    <2> QED BY <2>1, <2>2 DEF AccountSupplyValue, AccountBorrowValue,
               SumFunction
  <1> HIDE DEF wholeS, wholeB, partS, partB, held
  <1>12. /\ SumFunctionOnSet(partS, held) = SumFunctionOnSet(wholeS, held)
         /\ SumFunctionOnSet(partB, held) = SumFunctionOnSet(wholeB, held)
    BY <1>2, <1>3, <1>8, <1>10, SumDependsOnValues
  <1>13. /\ SumFunctionOnSet(wholeS, Markets) = SumFunctionOnSet(wholeS, held)
         /\ SumFunctionOnSet(wholeB, Markets) = SumFunctionOnSet(wholeB, held)
    BY <1>2, <1>8, <1>9, SumSkipsZeros
  <1>14. /\ SumFunctionOnSet(wholeS, Markets) \in Int
         /\ SumFunctionOnSet(wholeB, Markets) \in Int
    BY <1>2, <1>8, SumIsInt
  <1> QED BY <1>11, <1>12, <1>13, <1>14 DEF all

(***************************************************************************)
(* A counter of debts that is zero means that there is no debt.            *)
(***************************************************************************)
LEMMA CounterCountsDebts ==
  ASSUME NEW L, Sound(L), NEW a \in Accounts
  PROVE  L.numberOfMarketsWithDebt[a] = 0
           <=> \A m \in Markets : L.par[a][m] >= 0
  <1> DEFINE debts == {m \in Markets : L.par[a][m] < 0}
  <1>1. L.numberOfMarketsWithDebt[a] = Cardinality(debts)
    BY DEF Sound, BooksAreExact
  <1>2. IsFiniteSet(debts)
    BY StorageAssumption, FS_Subset
  <1>3. Cardinality(debts) = 0 <=> debts = {}
    BY <1>2, FS_EmptySet
  <1>4. \A m \in Markets : L.par[a][m] \in Int
    BY BalanceIsInt DEF Sound
  <1>5. debts = {} <=> \A m \in Markets : L.par[a][m] >= 0
    BY <1>4
  <1> QED BY <1>1, <1>3, <1>5

(***************************************************************************)
(* isCollateralized, which reads the cache and skips an account whose      *)
(* counter of debts is zero, decides whether a listed account is healthy   *)
(* over all markets.                                                       *)
(***************************************************************************)
LEMMA CollateralizedIsHealthy ==
  ASSUME Inductive, OperationIsTracked, ~Idle,
         NEW a \in ListedAccounts(request)
  PROVE  IsCollateralized(ledger, a, cache) <=> Healthy(ledger, a)
  <1>1. a \in Accounts
    BY RequestIsTyped
  <1>2. ledger.numberOfMarketsWithDebt[a] = 0
          <=> \A m \in Markets : ledger.par[a][m] >= 0
    BY <1>1, InductiveIsSound, CounterCountsDebts
  <1> QED BY <1>2, CachedValuesAreWhole DEF IsCollateralized, Healthy

LEMMA CheckedDebtIsWorthIt ==
  ASSUME Inductive, OperationIsTracked, ~Idle,
         NEW a \in ListedAccounts(request),
         CollateralCheckRuns(ledger, a, cache, TRUE)
  PROVE  WorthLiquidating(ledger, a)
  <1>1. a \in Accounts
    BY RequestIsTyped
  <1>2. ledger.numberOfMarketsWithDebt[a] = 0
          <=> \A m \in Markets : ledger.par[a][m] >= 0
    BY <1>1, InductiveIsSound, CounterCountsDebts
  <1>3. \A m \in Markets : ledger.par[a][m] \in Int
    BY <1>1, BalanceIsInt DEF Inductive, Sound
  <1>4. CASE \A m \in Markets : ledger.par[a][m] >= 0
    <2>1. \A m \in Markets : ~(ledger.par[a][m] < 0)
      BY <1>3, <1>4
    <2> QED BY <2>1 DEF WorthLiquidating
  <1>5. CASE ledger.numberOfMarketsWithDebt[a] # 0
    BY <1>5, CachedValuesAreWhole DEF CollateralCheckRuns, WorthLiquidating
  <1> QED BY <1>2, <1>4, <1>5

(***************************************************************************)
(* Health depends on the balances and the indexes only.                    *)
(***************************************************************************)
LEMMA SameHealth ==
  ASSUME NEW L, NEW M, M.par = L.par, M.index = L.index,
         M.totalPar = L.totalPar, NEW a
  PROVE  /\ Healthy(M, a) <=> Healthy(L, a)
         /\ WorthLiquidating(M, a) <=> WorthLiquidating(L, a)
  <1>1. InitializeCache(M, Markets) = InitializeCache(L, Markets)
    BY DEF InitializeCache
  <1>2. \A m, entry : /\ SupplyValue(M, a, m, entry) = SupplyValue(L, a, m, entry)
                      /\ BorrowValue(M, a, m, entry) = BorrowValue(L, a, m, entry)
    BY DEF SupplyValue, BorrowValue, GetWei
  <1>3. \A all : /\ AccountSupplyValue(M, a, all) = AccountSupplyValue(L, a, all)
                 /\ AccountBorrowValue(M, a, all) = AccountBorrowValue(L, a, all)
    BY <1>2 DEF AccountSupplyValue, AccountBorrowValue
  <1> QED BY <1>1, <1>3 DEF Healthy, WorthLiquidating

(***************************************************************************)
(* An account is flagged as Liquid only at a step that finds it unhealthy  *)
(* over all its markets and at the current prices, though the code reads   *)
(* cached prices of cached markets only and trusts a counter of debts.     *)
(***************************************************************************)
THEOREM LiquidationNeedsUnhealth == Spec => OnlyUnhealthyAreLiquidated
  <1> DEFINE Justified ==
        \A a \in Accounts :
          ledger'.status[a] = "Liquid" /\ ledger.status[a] # "Liquid"
            => ~Healthy(ledger, a) \/ OperationEnds
  <1>1. ASSUME Inductive, OperationIsTracked, [Next]_vars
        PROVE  Justified
    <2>1. CASE ~Operate
      <3>1. ledger'.status = ledger.status
        BY <1>1, <2>1, StepIsQuiet DEF Quiet, SameAccounts
      <3> QED BY <3>1
    <2>2. ASSUME NEW r \in Requests, Begin(r)
          PROVE  Justified
      <3>1. ledger'.status = ledger.status
        BY <1>1, <2>2, BeginMovesNobody DEF SameAccounts
      <3> QED BY <3>1
    <2>3. CASE PlainAction
      <3>1. ledger'.status = ledger.status
        BY <1>1, <2>3, PlainActionKeeps DEF Kept
      <3> QED BY <3>1
    <2>4. ledger.status \in [Accounts -> Statuses]
      BY <1>1 DEF Inductive, Sound, Ledgers
    <2>5. CASE Liquidate
      <3> SUFFICES ASSUME NEW a \in Accounts, ledger'.status[a] = "Liquid",
                          ledger.status[a] # "Liquid"
                   PROVE  ~Healthy(ledger, a)
        OBVIOUS
      <3>1. /\ Executing("Liquidate")
            /\ ledger'.status = [ledger.status EXCEPT ![AccountTwo] = "Liquid"]
        BY <1>1, <2>5, LiquidateMoves DEF Kept
      <3>2. a = AccountTwo
        BY <2>4, <3>1
      <3>3. ~Idle /\ a \in ListedAccounts(request)
        BY <1>1, <3>1, <3>2, Parties DEF Executing
      <3>4. ~IsCollateralized(ledger, a, cache)
        BY <2>5, <3>2 DEF Liquidate, IsLiquidatable
      <3> QED BY <1>1, <3>3, <3>4, CollateralizedIsHealthy
    <2>6. CASE Vaporize
      <3> SUFFICES ASSUME NEW a \in Accounts, ledger'.status[a] = "Liquid",
                          ledger.status[a] # "Liquid"
                   PROVE  FALSE
        OBVIOUS
      <3>1. ledger'.status = [ledger.status EXCEPT ![AccountTwo] = "Vapor"]
        BY <1>1, <2>6, VaporizeMoves DEF Kept
      <3> QED BY <2>4, <3>1
    <2>7. CASE Commit \/ Revert
      BY <1>1, <2>7, EndEnds
    <2> QED BY <2>1, <2>2, <2>3, <2>5, <2>6, <2>7 DEF Operate, PlainAction
  <1>2. Inductive /\ OperationIsTracked /\ [Next]_vars => [Justified]_vars
    BY <1>1
  <1> QED BY InductiveInvariant, OperationsAreTracked, <1>2, PTL
          DEF Spec, OnlyUnhealthyAreLiquidated

-----------------------------------------------------------------------------
(* The end of an operation                                                 *)

(***************************************************************************)
(* An operation ends when it commits or reverts.                           *)
(***************************************************************************)
LEMMA OnlyEndsEnd ==
  ASSUME Inductive, [Next]_vars, OperationEnds
  PROVE  Commit \/ Revert
  <1>1. ~Idle /\ Idle'
    BY DEF OperationEnds, Idle
  <1>2. CASE ~Operate
    BY <1>1, <1>2, StepIsQuiet DEF Quiet, operation, Idle
  <1>3. ~(\E r \in Requests : Begin(r))
    BY <1>1 DEF Begin
  <1>4. ~PlainAction
    <2> SUFFICES ASSUME PlainAction
                 PROVE  FALSE
      OBVIOUS
    <2>1. Executing(Arg.actionType) /\ Kept(ledger.status)
      BY PlainActionKeeps
    <2> QED BY <1>1, <2>1, ActionGoesOn
  <1>5. ~Liquidate /\ ~Vaporize
    <2> SUFFICES ASSUME Liquidate \/ Vaporize
                 PROVE  FALSE
      OBVIOUS
    <2>1. \E type, status : Executing(type) /\ Kept(status)
      BY LiquidateMoves, VaporizeMoves
    <2> QED BY <1>1, <2>1, ActionGoesOn
  <1> QED BY <1>2, <1>3, <1>4, <1>5 DEF Operate, PlainAction

LEMMA CommitLeaves ==
  ASSUME Inductive, Commit
  PROVE  /\ ~Idle
         /\ ledger'.par = ledger.par
         /\ ledger'.index = ledger.index
         /\ ledger'.totalPar = ledger.totalPar
         /\ \A a \in Accounts : a \notin AllPrimaryAccounts
              => ledger'.status[a] = ledger.status[a]
         /\ AllPrimaryAccounts \subseteq ListedAccounts(request)
  <1>1. /\ ~Idle
        /\ ledger \in Ledgers
        /\ ledger' = ClearStatuses(ledger, AllPrimaryAccounts)
    BY DEF Inductive, Sound, Commit
  <1>2. Len(request.actions) \in 0 .. Len(request.actions)
    <2>1. request \in Requests
      BY <1>1 DEF Inductive, TypeOK, OperationTypeOK, Idle
    <2>2. request.actions \in Seq(ActionArgs)
      BY <2>1, OperationAssumption
    <2> QED BY <2>2
  <1>3. AllPrimaryAccounts \subseteq ListedAccounts(request)
    BY <1>1, <1>2, PrimaryAccountsAreListed DEF AllPrimaryAccounts
  <1> QED BY <1>1, <1>3 DEF ClearStatuses, Ledgers

(***************************************************************************)
(* However an operation combines its actions, and whatever they call: the  *)
(* accounts that it has lowered any balance of end healthy over all their  *)
(* markets, with a debt worth liquidating if any, unless it liquidated or  *)
(* vaporized them.                                                         *)
(***************************************************************************)
THEOREM BorrowersStayHealthy == Spec => NobodyBorrowsUnhealthily
  <1> DEFINE Justified ==
        OperationEnds =>
          \A a \in Accounts :
            (\E m \in Markets : ledger'.par[a][m] < saved.ledger.par[a][m])
              => \/ Healthy(ledger', a) /\ WorthLiquidating(ledger', a)
                 \/ ledger'.status[a] \in {"Liquid", "Vapor"}
  <1>1. ASSUME Inductive, OperationIsTracked, [Next]_vars
        PROVE  Justified
    <2> SUFFICES ASSUME Commit \/ Revert, NEW a \in Accounts, NEW m \in Markets,
                        ledger'.par[a][m] < saved.ledger.par[a][m]
                 PROVE  \/ Healthy(ledger', a) /\ WorthLiquidating(ledger', a)
                        \/ ledger'.status[a] \in {"Liquid", "Vapor"}
      BY <1>1, OnlyEndsEnd
    <2>1. ~Idle
      BY <1>1, EndEnds
    <2>2. CASE Revert
      <3>1. ledger' = saved.ledger
        BY <2>2 DEF Revert
      <3>2. ledger'.par[a][m] \in Int
        BY <1>1, <2>1, <3>1, BalanceIsInt DEF Inductive, Sound
      <3> QED BY <3>1, <3>2
    <2>3. CASE Commit
      <3>1. /\ ledger'.par = ledger.par
            /\ ledger'.index = ledger.index
            /\ ledger'.totalPar = ledger.totalPar
            /\ a \notin AllPrimaryAccounts
                 => ledger'.status[a] = ledger.status[a]
            /\ AllPrimaryAccounts \subseteq ListedAccounts(request)
        BY <1>1, <2>3, CommitLeaves
      <3>2. HasActed(a) \/ ledger.status[a] \in {"Liquid", "Vapor"}
        BY <1>1, <2>1, <3>1 DEF OperationIsTracked, LosersAreFlagged
      <3>3. CASE a \in AllPrimaryAccounts
        <4>1. /\ a \in ListedAccounts(request)
              /\ CollateralCheckRuns(ledger, a, cache, TRUE)
              /\ IsCollateralized(ledger, a, cache)
          BY <2>3, <3>1, <3>3 DEF Commit
        <4>2. Healthy(ledger, a) /\ WorthLiquidating(ledger, a)
          BY <1>1, <2>1, <4>1, CollateralizedIsHealthy, CheckedDebtIsWorthIt
        <4> QED BY <3>1, <4>2, SameHealth
      <3>4. CASE a \notin AllPrimaryAccounts
        BY <1>1, <2>3, <3>1, <3>2, <3>4, AllHaveActed
      <3> QED BY <3>3, <3>4
    <2> QED BY <2>2, <2>3
  <1>2. Inductive /\ OperationIsTracked /\ [Next]_vars => [Justified]_vars
    BY <1>1
  <1> QED BY InductiveInvariant, OperationsAreTracked, <1>2, PTL
          DEF Spec, NobodyBorrowsUnhealthily

LEMMA MaxOfTwo ==
  ASSUME NEW x \in Int, NEW y \in Int
  PROVE  Max({x, y}) \in {x, y}
  <1>1. \E z \in {x, y} : \A u \in {x, y} : z >= u
    OBVIOUS
  <1> QED BY <1>1 DEF Max

(***************************************************************************)
(* The Wei of a total depend on one of its two parts, and grow with it.    *)
(***************************************************************************)
LEMMA TotalsGrow ==
  ASSUME NEW x \in [borrow : Nat, supply : Nat],
         NEW y \in [borrow : Nat, supply : Nat], NEW index \in Indexes
  PROVE  /\ x.borrow <= y.borrow => BorrowWei(x, index) <= BorrowWei(y, index)
         /\ x.supply <= y.supply => SupplyWei(x, index) <= SupplyWei(y, index)
  <1>1. ASSUME x.borrow <= y.borrow
        PROVE  BorrowWei(x, index) <= BorrowWei(y, index)
    <2>1. /\ -x.borrow \in Int /\ -y.borrow \in Int
          /\ -y.borrow <= -x.borrow /\ -x.borrow <= 0
      BY <1>1
    <2>2. /\ ParToWei(-x.borrow, index) \in Int
          /\ ParToWei(-y.borrow, index) \in Int
          /\ ParToWei(-y.borrow, index) <= ParToWei(-x.borrow, index)
          /\ ParToWei(-x.borrow, index) <= 0
      BY <2>1, ParToWeiIsInt, ParToWeiIsMonotonic, ParToWeiKeepsSign
    <2> QED BY <2>2 DEF BorrowWei, Abs
  <1>2. ASSUME x.supply <= y.supply
        PROVE  SupplyWei(x, index) <= SupplyWei(y, index)
    <2>1. x.supply \in Int /\ y.supply \in Int
      OBVIOUS
    <2> QED BY <1>2, <2>1, ParToWeiIsMonotonic DEF SupplyWei
  <1> QED BY <1>1, <1>2

(***************************************************************************)
(* The two limits of a market that an operation has grown.                 *)
(***************************************************************************)
LEMMA LimitsAreChecked ==
  ASSUME Inductive, OperationIsTracked, Commit, NEW m \in DOMAIN cache
  PROVE  LET before == saved.ledger.totalPar[m]
             after  == ledger.totalPar[m]
             index  == ledger.index[m]
             limits == marketParams[m]
         IN  /\ after.borrow > before.borrow =>
                  /\ ~limits.isClosing
                  /\ sentinel.isBorrowAllowed
                  /\ limits.maxBorrowWei # 0 =>
                       \/ BorrowWei(after, index) <= limits.maxBorrowWei
                       \/ BorrowWei(after, index) = BorrowWei(before, index)
             /\ after.supply > before.supply /\ limits.maxSupplyWei # 0 =>
                  \/ SupplyWei(after, index) <= limits.maxSupplyWei
                  \/ SupplyWei(after, index) = SupplyWei(before, index)
  <1> DEFINE before == saved.ledger.totalPar[m]
             after  == ledger.totalPar[m]
             index  == ledger.index[m]
             limits == marketParams[m]
             beforeB == [after EXCEPT !.borrow = cache[m].borrowPar]
             beforeS == [after EXCEPT !.supply = cache[m].supplyPar]
  <1>1. /\ ~Idle
        /\ WithinBorrowLimit(m) /\ WithinSupplyLimit(m)
    BY DEF Commit
  <1>2. m \in Markets
    BY CachedMarket
  <1>3. /\ after \in [borrow : Nat, supply : Nat]
        /\ before \in [borrow : Nat, supply : Nat]
        /\ index \in Indexes
    <2>1. ledger \in Ledgers /\ saved.ledger \in Ledgers
      BY <1>1 DEF Inductive, Sound
    <2>2. 0 .. MaxUint128 \subseteq Nat
      BY MathAssumption
    <2>3. ledger.totalPar \in [Markets -> [borrow : 0 .. MaxUint128,
                                           supply : 0 .. MaxUint128]]
      BY <2>1 DEF Ledgers
    <2>4. saved.ledger.totalPar \in [Markets -> [borrow : 0 .. MaxUint128,
                                                 supply : 0 .. MaxUint128]]
      BY <2>1 DEF Ledgers
    <2>5. index \in Indexes
      BY <1>2, <2>1 DEF Ledgers
    <2> QED BY <1>2, <2>2, <2>3, <2>4, <2>5
  <1>4. /\ CachedIndex(m) = index
        /\ cache[m].isClosing = limits.isClosing
        /\ cache[m].borrowPar = before.borrow
        /\ cache[m].supplyPar = before.supply
    BY <1>1, <1>2 DEF OperationIsTracked, CacheIsCurrent, CachedIndex
  <1>5. /\ limits.maxBorrowWei \in Nat /\ limits.maxSupplyWei \in Nat
        /\ limits.isClosing \in BOOLEAN
        /\ sentinel.isBorrowAllowed \in BOOLEAN
    BY <1>2 DEF Inductive, TypeOK, StorageTypeOK, WorldTypeOK,
       MarketParamsType, SentinelType
  <1>6. /\ beforeB \in [borrow : Nat, supply : Nat]
        /\ beforeB.borrow = before.borrow
        /\ beforeS \in [borrow : Nat, supply : Nat]
        /\ beforeS.supply = before.supply
    BY <1>3, <1>4
  <1>7. /\ BorrowWei(beforeB, index) = BorrowWei(before, index)
        /\ SupplyWei(beforeS, index) = SupplyWei(before, index)
    BY <1>6 DEF BorrowWei, SupplyWei
  <1>8. /\ BorrowWei(before, index) \in Int /\ SupplyWei(before, index) \in Int
        /\ BorrowWei(after, index) \in Int /\ SupplyWei(after, index) \in Int
    BY <1>3, TotalsAreNat
  <1>9. /\ IF limits.isClosing \/ ~sentinel.isBorrowAllowed
           THEN after.borrow <= before.borrow
           ELSE limits.maxBorrowWei # 0 =>
                  BorrowWei(after, index)
                    <= Max({limits.maxBorrowWei, BorrowWei(before, index)})
        /\ limits.maxSupplyWei # 0 =>
             SupplyWei(after, index)
               <= Max({limits.maxSupplyWei, SupplyWei(before, index)})
    BY <1>1, <1>4, <1>7 DEF WithinBorrowLimit, WithinSupplyLimit
  <1>10. /\ Max({limits.maxBorrowWei, BorrowWei(before, index)})
              \in {limits.maxBorrowWei, BorrowWei(before, index)}
         /\ Max({limits.maxSupplyWei, SupplyWei(before, index)})
              \in {limits.maxSupplyWei, SupplyWei(before, index)}
    <2>1. limits.maxBorrowWei \in Int /\ limits.maxSupplyWei \in Int
      BY <1>5
    <2> HIDE DEF before, after, index, limits
    <2> QED BY <1>8, <2>1, MaxOfTwo
  <1>11. /\ before.borrow <= after.borrow
              => BorrowWei(before, index) <= BorrowWei(after, index)
         /\ before.supply <= after.supply
              => SupplyWei(before, index) <= SupplyWei(after, index)
    BY <1>3, TotalsGrow
  <1> HIDE DEF index, beforeB, beforeS
  <1>12. ASSUME after.borrow > before.borrow
         PROVE  /\ ~limits.isClosing
                /\ sentinel.isBorrowAllowed
                /\ limits.maxBorrowWei # 0 =>
                     \/ BorrowWei(after, index) <= limits.maxBorrowWei
                     \/ BorrowWei(after, index) = BorrowWei(before, index)
    <2>1. ~(after.borrow <= before.borrow) /\ before.borrow <= after.borrow
      BY <1>3, <1>12
    <2>2. ~limits.isClosing /\ sentinel.isBorrowAllowed
      BY <1>5, <1>9, <2>1
    <2> QED BY <1>8, <1>9, <1>10, <1>11, <2>1, <2>2
  <1>13. ASSUME after.supply > before.supply, limits.maxSupplyWei # 0
         PROVE  \/ SupplyWei(after, index) <= limits.maxSupplyWei
                \/ SupplyWei(after, index) = SupplyWei(before, index)
    <2>1. before.supply <= after.supply
      BY <1>3, <1>13
    <2> QED BY <1>8, <1>9, <1>10, <1>11, <1>13, <2>1
  <1> QED BY <1>12, <1>13 DEF index

(***************************************************************************)
(* Whatever an operation does in between, at its end no market that is     *)
(* closing, and none while the sentinel forbids it, is borrowed from more  *)
(* than before, and no market is further beyond its limits than before.    *)
(***************************************************************************)
THEOREM LimitsAreKept == Spec => LimitsHold
  <1> DEFINE Within(L, m) ==
        LET before == saved.ledger.totalPar[m]
            after  == L.totalPar[m]
            index  == L.index[m]
            limits == marketParams[m]
        IN  /\ after.borrow > before.borrow =>
                 /\ ~limits.isClosing
                 /\ sentinel.isBorrowAllowed
                 /\ limits.maxBorrowWei # 0 =>
                      \/ BorrowWei(after, index) <= limits.maxBorrowWei
                      \/ BorrowWei(after, index) = BorrowWei(before, index)
            /\ after.supply > before.supply /\ limits.maxSupplyWei # 0 =>
                 \/ SupplyWei(after, index) <= limits.maxSupplyWei
                 \/ SupplyWei(after, index) = SupplyWei(before, index)
             Limited == OperationEnds => \A m \in Markets : Within(ledger', m)
  <1>1. ASSUME Inductive, OperationIsTracked, [Next]_vars
        PROVE  Limited
    <2> SUFFICES ASSUME Commit \/ Revert, NEW m \in Markets
                 PROVE  Within(ledger', m)
      BY <1>1, OnlyEndsEnd
    <2>1. ~Idle
      BY <1>1, EndEnds
    <2>2. ASSUME NEW L \in Ledgers,
                 L.totalPar[m] = saved.ledger.totalPar[m]
          PROVE  Within(L, m)
      <3>1. /\ L.totalPar[m].borrow \in Int
            /\ L.totalPar[m].supply \in Int
        BY MathAssumption DEF Ledgers
      <3> QED BY <2>2, <3>1
    <2>3. CASE Revert
      <3>1. ledger' = saved.ledger /\ saved.ledger \in Ledgers
        BY <1>1, <2>1, <2>3 DEF Revert, Inductive, Sound
      <3> HIDE DEF Within
      <3> QED BY <2>2, <3>1
    <2>4. CASE Commit
      <3>1. /\ ledger'.totalPar = ledger.totalPar
            /\ ledger'.index = ledger.index
        BY <1>1, <2>4, CommitLeaves
      <3>2. Within(ledger, m) => Within(ledger', m)
        BY <3>1
      <3>3. CASE m \in DOMAIN cache
        BY <1>1, <2>4, <3>2, <3>3, LimitsAreChecked
      <3>4. CASE m \notin DOMAIN cache
        <4>1. /\ ledger.totalPar[m] = saved.ledger.totalPar[m]
              /\ ledger \in Ledgers
          BY <1>1, <2>1, <3>4 DEF OperationIsTracked, CacheIsCurrent,
             Inductive, Sound
        <4> HIDE DEF Within
        <4> QED BY <2>2, <3>2, <4>1
      <3> QED BY <3>3, <3>4
    <2> QED BY <2>3, <2>4
  <1>2. Inductive /\ OperationIsTracked /\ [Next]_vars => [Limited]_vars
    BY <1>1
  <1> QED BY InductiveInvariant, OperationsAreTracked, <1>2, PTL
          DEF Spec, LimitsHold

(***************************************************************************)
(* An operation that leaves an account with more balances than it found    *)
(* leaves it with no more than the owner allows, though the numbers are    *)
(* read from the sets that setPar maintains, and of listed accounts only.  *)
(***************************************************************************)
THEOREM BalancesAreFew == Spec => BalancesStayFew
  <1> DEFINE Few ==
        OperationEnds =>
          \A a \in Accounts :
            LET before == {m \in Markets : saved.ledger.par[a][m] # 0}
                after  == {m \in Markets : ledger'.par[a][m] # 0}
            IN  Cardinality(after) > Cardinality(before) =>
                  Cardinality(after)
                    <= riskParams.accountMaxNumberOfMarketsWithBalances
  <1>1. ASSUME Inductive, OperationIsTracked, [Next]_vars
        PROVE  Few
    <2> SUFFICES ASSUME Commit \/ Revert, NEW a \in Accounts
                 PROVE  LET before == {m \in Markets : saved.ledger.par[a][m] # 0}
                            after  == {m \in Markets : ledger'.par[a][m] # 0}
                        IN  Cardinality(after) > Cardinality(before) =>
                              Cardinality(after)
                                <= riskParams.accountMaxNumberOfMarketsWithBalances
      BY <1>1, OnlyEndsEnd
    <2> DEFINE before == {m \in Markets : saved.ledger.par[a][m] # 0}
               after  == {m \in Markets : ledger'.par[a][m] # 0}
               most == riskParams.accountMaxNumberOfMarketsWithBalances
    <2>1. ~Idle
      BY <1>1, EndEnds
    <2>2. Cardinality(before) \in Nat /\ Cardinality(after) \in Nat
      <3>1. IsFiniteSet(before) /\ IsFiniteSet(after)
        BY StorageAssumption, FS_Subset
      <3> QED BY <3>1, FS_CardinalityType
    <2>3. CASE after = before
      <3> HIDE DEF after, before
      <3>1. ~(Cardinality(after) > Cardinality(before))
        BY <2>2, <2>3
      <3> QED BY <3>1 DEF after, before
    <2>4. CASE Revert
      <3>1. ledger' = saved.ledger
        BY <2>4 DEF Revert
      <3> QED BY <2>3, <3>1
    <2>5. CASE Commit
      <3>1. /\ ledger'.par = ledger.par
            /\ AllPrimaryAccounts \subseteq ListedAccounts(request)
        BY <1>1, <2>5, CommitLeaves
      <3>2. CASE a \in ListedAccounts(request)
        <4>1. /\ ledger.marketsWithBalances[a] = after
              /\ saved.ledger.marketsWithBalances[a] = before
          BY <1>1, <2>1, <3>1 DEF Inductive, Sound, BooksAreExact
        <4>2. VerifyNumberOfMarketsWithBalances(a)
          BY <2>5, <3>2 DEF Commit
        <4> HIDE DEF after, before
        <4>3. Cardinality(after) <= Max({Cardinality(before), most})
          BY <4>1, <4>2 DEF VerifyNumberOfMarketsWithBalances
        <4>4. most \in Nat
          BY <1>1 DEF Inductive, TypeOK, StorageTypeOK, RiskParamsType
        <4> HIDE DEF most
        <4>5. Cardinality(before) \in Int /\ most \in Int
          BY <2>2, <4>4
        <4>6. Max({Cardinality(before), most}) \in {Cardinality(before), most}
          BY <4>5, MaxOfTwo
        <4>7. Cardinality(after) > Cardinality(before)
                => Cardinality(after) <= most
          BY <2>2, <4>3, <4>4, <4>6
        <4> QED BY <4>7 DEF after, before, most
      <3>3. CASE a \notin ListedAccounts(request)
        <4>1. ~HasActed(a)
          BY <1>1, <2>5, <3>1, <3>3, AllHaveActed
        <4>2. \A m \in Markets : ledger.par[a][m] = saved.ledger.par[a][m]
          BY <1>1, <2>1, <3>3, <4>1 DEF OperationIsTracked,
             BystandersOnlyShrink
        <4>3. after = before
          BY <3>1, <4>2
        <4> QED BY <2>3, <4>3
      <3> QED BY <3>2, <3>3
    <2> QED BY <2>4, <2>5
  <1>2. Inductive /\ OperationIsTracked /\ [Next]_vars => [Few]_vars
    BY <1>1
  <1> QED BY InductiveInvariant, OperationsAreTracked, <1>2, PTL
          DEF Spec, BalancesStayFew

-----------------------------------------------------------------------------
(* The exact worth of a balance, in Wei scaled by Base, and how far from   *)
(* it a conversion may be.                                                 *)

Worth(par, index) ==
  IF par >= 0 THEN par * index.supply ELSE -((-par) * index.borrow)

\* Twice the error of one conversion each way.
Slack(index) == IF NoInterestYet(index) THEN 0 ELSE index.borrow + Base

(***************************************************************************)
(* Without interest a conversion changes nothing.                          *)
(***************************************************************************)
LEMMA HalfUpOfBase ==
  ASSUME NEW t \in Nat, NEW d \in Nat \ {0}
  PROVE  GetPartialRoundHalfUp(t, d, d) = t
  <1> DEFINE q == GetPartialRoundHalfUp(t, d, d)
             td == t * d
             qd == q * d
  <1>1. q \in Nat
    BY RoundHalfUpIsNat
  <1>2. 2 * qd <= 2 * td + d /\ 2 * td + d < 2 * qd + 2 * d
    BY HalfUpBounds
  <1> HIDE DEF q
  <1>3. /\ td \in Nat /\ qd \in Nat
        /\ (t + 1) * d = td + d /\ (q + 1) * d = qd + d
    BY <1>1, ProductIsNat
  <1>4. qd < td + d /\ td < qd + d
    <2> HIDE DEF td, qd
    <2> QED BY <1>2, <1>3
  <1>5. q < t + 1 /\ t < q + 1
    BY <1>1, <1>3, <1>4, CancelFactor
  <1> QED BY <1>1, <1>5 DEF q

LEMMA NoInterestNoRounding ==
  ASSUME NEW index \in Indexes, NoInterestYet(index), NEW x \in Int
  PROVE  /\ ParToWei(x, index) = x
         /\ WeiToPar(x, index) = x
         /\ Worth(x, index) = Base * x
  <1>1. index.borrow = Base /\ index.supply = Base /\ Base \in Nat \ {0}
    BY BaseIsPositive DEF NoInterestYet
  <1>2. CASE x >= 0
    <2>1. GetPartialRoundHalfUp(x, Base, Base) = x
      BY <1>1, <1>2, HalfUpOfBase
    <2> QED BY <1>1, <1>2, <2>1 DEF ParToWei, WeiToPar, Worth
  <1>3. CASE x < 0
    <2>1. GetPartialRoundHalfUp(-x, Base, Base) = -x
      BY <1>1, <1>3, HalfUpOfBase
    <2>2. ~(x >= 0) /\ -(-x) = x /\ -((-x) * Base) = Base * x
      BY <1>1, <1>3
    <2> QED BY <1>1, <2>1, <2>2 DEF ParToWei, WeiToPar, Worth
  <1> QED BY <1>2, <1>3

LEMMA WorthIsInt ==
  ASSUME NEW par \in Int, NEW index \in Indexes
  PROVE  Worth(par, index) \in Int
  <1>1. index.borrow \in Int /\ index.supply \in Int
    BY IndexFields
  <1> QED BY <1>1 DEF Worth

(***************************************************************************)
(* A balance read in Wei is within half a Wei of its worth.                *)
(***************************************************************************)
LEMMA ParToWeiIsNear ==
  ASSUME NEW par \in Int, NEW index \in Indexes
  PROVE  LET e == Worth(par, index) - Base * ParToWei(par, index)
         IN  -Base <= 2 * e /\ 2 * e <= Base
  <1>1. /\ index.supply \in Nat \ {0} /\ index.borrow \in Nat \ {0}
        /\ Base \in Nat \ {0}
    BY IndexIsAtLeastBase, BaseIsPositive
  <1>2. CASE par >= 0
    <2> DEFINE q == GetPartialRoundHalfUp(par, index.supply, Base)
               w == par * index.supply
               qb == q * Base
    <2>1. par \in Nat /\ q \in Nat
      BY <1>1, <1>2, RoundHalfUpIsNat
    <2>2. 2 * qb <= 2 * w + Base /\ 2 * w + Base < 2 * qb + 2 * Base
      BY <1>1, <2>1, HalfUpBounds
    <2>3. ParToWei(par, index) = q /\ Worth(par, index) = w
      BY <1>2 DEF ParToWei, Worth
    <2> HIDE DEF q
    <2>4. qb \in Nat /\ w \in Nat /\ Base * q = qb
      BY <1>1, <2>1, ProductIsNat
    <2> HIDE DEF qb, w
    <2> QED BY <1>1, <2>2, <2>3, <2>4
  <1>3. CASE par < 0
    <2> DEFINE p == -par
               q == GetPartialRoundHalfUp(p, index.borrow, Base)
               w == p * index.borrow
               qb == q * Base
    <2>1. p \in Nat
      BY <1>3
    <2>2. ParToWei(par, index) = -q /\ Worth(par, index) = -w
      BY <1>3 DEF ParToWei, Worth
    <2> HIDE DEF p
    <2>3. q \in Nat
      BY <1>1, <2>1, RoundHalfUpIsNat
    <2>4. 2 * qb <= 2 * w + Base /\ 2 * w + Base < 2 * qb + 2 * Base
      BY <1>1, <2>1, HalfUpBounds
    <2> HIDE DEF q
    <2>5. qb \in Nat /\ w \in Nat /\ Base * (-q) = -qb
      BY <1>1, <2>1, <2>3, ProductIsNat
    <2> HIDE DEF qb, w
    <2> QED BY <1>1, <2>2, <2>4, <2>5
  <1> QED BY <1>2, <1>3

(***************************************************************************)
(* A balance written from an amount in Wei is worth that amount within     *)
(* half a unit of principal.                                               *)
(***************************************************************************)
LEMMA WeiToParIsNear ==
  ASSUME NEW wei \in Int, NEW index \in Indexes, index.borrow >= index.supply
  PROVE  LET e == Worth(WeiToPar(wei, index), index) - Base * wei
         IN  -index.borrow <= 2 * e /\ 2 * e <= index.borrow
  <1>1. /\ index.supply \in Nat \ {0} /\ index.borrow \in Nat \ {0}
        /\ Base \in Nat \ {0}
    BY IndexIsAtLeastBase, BaseIsPositive
  <1>2. CASE wei >= 0
    <2> DEFINE i == index.supply
               q == GetPartialRoundHalfUp(wei, Base, i)
               w == wei * Base
               qi == q * i
    <2>0. wei \in Nat /\ Base \in Nat /\ i \in Nat \ {0}
      BY <1>1, <1>2
    <2>1. q \in Nat
      BY <2>0, RoundHalfUpIsNat
    <2>2. 2 * qi <= 2 * w + i /\ 2 * w + i < 2 * qi + 2 * i
      BY <2>0, HalfUpBounds
    <2>3. WeiToPar(wei, index) = q
      BY <1>2 DEF WeiToPar
    <2> HIDE DEF q
    <2>4. Worth(q, index) = qi
      BY <2>1 DEF Worth
    <2>5. qi \in Nat /\ w \in Nat /\ Base * wei = w
      BY <2>0, <2>1, ProductIsNat
    <2> HIDE DEF qi, w, i
    <2>6. i \in Nat /\ i <= index.borrow
      BY <1>1 DEF i
    <2> QED BY <1>1, <2>2, <2>3, <2>4, <2>5, <2>6
  <1>3. CASE wei < 0
    <2> DEFINE i == index.borrow
               v == -wei
               q == GetPartialRoundHalfUp(v, Base, i)
               w == v * Base
               qi == q * i
    <2>1. v \in Nat /\ wei = -v
      BY <1>3
    <2>2. WeiToPar(wei, index) = -q
      BY <1>3 DEF WeiToPar
    <2> HIDE DEF v
    <2>3. q \in Nat
      BY <1>1, <2>1, RoundHalfUpIsNat
    <2>4. 2 * qi <= 2 * w + i /\ 2 * w + i < 2 * qi + 2 * i
      BY <1>1, <2>1, HalfUpBounds
    <2> HIDE DEF q
    <2>5. Worth(-q, index) = -qi
      <3>1. CASE q = 0
        BY <1>1, <3>1 DEF Worth
      <3>2. CASE q # 0
        <4>1. ~(-q >= 0) /\ -(-q) = q
          BY <2>3, <3>2
        <4> QED BY <4>1 DEF Worth
      <3> QED BY <3>1, <3>2
    <2>6. qi \in Nat /\ w \in Nat /\ Base * wei = -w
      BY <1>1, <2>1, <2>3, ProductIsNat
    <2> HIDE DEF qi, w, i
    <2>7. i \in Nat /\ i = index.borrow
      BY <1>1 DEF i
    <2> QED BY <1>1, <2>2, <2>4, <2>5, <2>6, <2>7
  <1> QED BY <1>2, <1>3

-----------------------------------------------------------------------------
(* What a market holds and is owed beyond what it owes, scaled by Base.    *)

Funds(L, m) ==
  Base * L.balanceOf[m] + L.totalPar[m].borrow * L.index[m].borrow
                        - L.totalPar[m].supply * L.index[m].supply

LEMMA MarketIsTyped ==
  ASSUME NEW L, Sound(L), NEW m \in Markets
  PROVE  /\ L.totalPar[m].borrow \in Nat /\ L.totalPar[m].supply \in Nat
         /\ L.index[m] \in Indexes
         /\ L.index[m].borrow \in Nat /\ L.index[m].supply \in Nat
         /\ L.index[m].borrow >= L.index[m].supply
         /\ L.balanceOf[m] \in Nat
  <1>1. /\ L.totalPar[m] \in [borrow : Nat, supply : Nat]
        /\ L.index[m] \in Indexes
        /\ L.balanceOf[m] \in Nat
    BY MathAssumption, StorageAssumption DEF Sound, Ledgers
  <1>2. L.index[m].borrow >= L.index[m].supply
    BY DEF Sound, IndexIsSound
  <1> QED BY <1>1, <1>2, IndexFields

LEMMA FundsAreInt ==
  ASSUME NEW L, Sound(L), NEW m \in Markets
  PROVE  Funds(L, m) \in Int
  <1>1. /\ L.totalPar[m].borrow \in Nat /\ L.totalPar[m].supply \in Nat
        /\ L.index[m].borrow \in Nat /\ L.index[m].supply \in Nat
        /\ L.balanceOf[m] \in Nat /\ Base \in Nat
    BY MarketIsTyped, BaseIsPositive
  <1>2. /\ Base * L.balanceOf[m] \in Nat
        /\ L.totalPar[m].borrow * L.index[m].borrow \in Nat
        /\ L.totalPar[m].supply * L.index[m].supply \in Nat
    BY <1>1, ProductIsNat
  <1> QED BY <1>2 DEF Funds

(***************************************************************************)
(* The excess tokens that the contract computes are within a Wei of them,  *)
(* and exact without interest.                                             *)
(***************************************************************************)
LEMMA ExcessIsNear ==
  ASSUME NEW L, Sound(L), NEW m \in Markets
  PROVE  LET e == Base * GetNumExcessTokens(L, m) - Funds(L, m)
         IN  /\ -Base <= e /\ e <= Base
             /\ NoInterestYet(L.index[m]) => e = 0
  <1> DEFINE index == L.index[m]
             supply == L.totalPar[m].supply
             borrow == L.totalPar[m].borrow
             held == L.balanceOf[m]
             s == ParToWei(supply, index)
             b == ParToWei(-borrow, index)
             ws == Worth(supply, index)
             wb == Worth(-borrow, index)
  <1>1. /\ borrow \in Nat /\ supply \in Nat /\ -borrow \in Int
        /\ index \in Indexes /\ held \in Nat
        /\ index.borrow \in Nat /\ index.supply \in Nat
        /\ Base \in Nat \ {0}
    BY MarketIsTyped, BaseIsPositive
  <1>2. ws = supply * index.supply
    BY <1>1 DEF Worth
  <1>3. wb = -(borrow * index.borrow)
    <2>1. CASE borrow = 0
      BY <1>1, <2>1 DEF Worth
    <2>2. CASE borrow # 0
      <3>1. ~(-borrow >= 0) /\ -(-borrow) = borrow
        BY <1>1, <2>2
      <3> QED BY <3>1 DEF Worth
    <2> QED BY <2>1, <2>2
  <1>4. s \in Int /\ b \in Int /\ b <= 0
    BY <1>1, ParToWeiIsInt, ParToWeiKeepsSign
  <1>5. ws \in Int /\ wb \in Int
    BY <1>1, WorthIsInt
  <1>6. GetNumExcessTokens(L, m) = held - b - s
    <2>1. GetNumExcessTokens(L, m) = held + Abs(b) - s
      BY DEF GetNumExcessTokens, BorrowWei, SupplyWei
    <2> QED BY <1>1, <1>4, <2>1 DEF Abs
  <1>7. Funds(L, m) = Base * held - wb - ws
    <2>1. Funds(L, m) = Base * held + borrow * index.borrow
                                    - supply * index.supply
      BY DEF Funds
    <2>2. borrow * index.borrow \in Nat /\ Base * held \in Nat
      BY <1>1, ProductIsNat
    <2> QED BY <1>2, <1>3, <1>5, <2>1, <2>2
  <1>8. /\ -Base <= 2 * (ws - Base * s) /\ 2 * (ws - Base * s) <= Base
        /\ -Base <= 2 * (wb - Base * b) /\ 2 * (wb - Base * b) <= Base
    BY <1>1, ParToWeiIsNear
  <1>9. NoInterestYet(index) => /\ s = supply /\ b = -borrow
                                /\ ws = Base * supply /\ wb = Base * (-borrow)
    BY <1>1, NoInterestNoRounding
  <1> HIDE DEF index, supply, borrow, held, s, b, ws, wb
  <1> DEFINE bs == Base * s
             bb == Base * b
             bh == Base * held
  <1>10. /\ bs \in Int /\ bb \in Int /\ bh \in Int
         /\ Base * (held - b - s) = bh - bb - bs
    BY <1>1, <1>4
  <1>11. NoInterestYet(index) => ws = bs /\ wb = bb
    BY <1>9
  <1> HIDE DEF bs, bb, bh
  <1>12. /\ Base * GetNumExcessTokens(L, m) = bh - bb - bs
         /\ Funds(L, m) = bh - wb - ws
    BY <1>6, <1>7, <1>10 DEF bh
  <1>13. /\ -Base <= 2 * (ws - bs) /\ 2 * (ws - bs) <= Base
         /\ -Base <= 2 * (wb - bb) /\ 2 * (wb - bb) <= Base
    BY <1>8 DEF bs, bb
  <1> QED BY <1>1, <1>5, <1>10, <1>11, <1>12, <1>13 DEF index

(***************************************************************************)
(* A balance that changes costs its market what the balance gains.         *)
(***************************************************************************)
LEMMA SetParFunds ==
  ASSUME NEW L, Sound(L), NEW a \in Accounts, NEW m \in Markets,
         NEW newPar \in Int, SetPar(L, a, m, newPar).ok
  PROVE  LET M == SetPar(L, a, m, newPar)
         IN  /\ L.ok
             /\ M.par[a][m] = newPar
             /\ M.balanceOf = L.balanceOf
             /\ Funds(M, m) = Funds(L, m) + Worth(L.par[a][m], L.index[m])
                                          - Worth(newPar, L.index[m])
             /\ \A q \in Markets \ {m} : Funds(M, q) = Funds(L, q)
  <1> DEFINE M == SetPar(L, a, m, newPar)
             oldPar == L.par[a][m]
             index == L.index[m]
             total == L.totalPar[m]
             rolled == RolledTotalPar(total, oldPar, newPar)
  <1>1. /\ L \in Ledgers /\ oldPar \in Int /\ index \in Indexes
        /\ index.borrow \in Nat /\ index.supply \in Nat
        /\ total.borrow \in Nat /\ total.supply \in Nat
        /\ L.balanceOf[m] \in Nat /\ Base \in Nat
    BY MarketIsTyped, BalanceIsInt, BaseIsPositive DEF Sound
  <1>2. CASE newPar = oldPar
    <2>1. M = L
      BY <1>2 DEF SetPar
    <2> QED BY <1>1, <1>2, <2>1, WorthIsInt, FundsAreInt
  <1>3. CASE newPar # oldPar
    <2>1. FitsUint128(newPar) /\ RollIsSafe(total, oldPar, newPar)
      <3>1. SUFFICES ASSUME ~(FitsUint128(newPar)
                                /\ RollIsSafe(total, oldPar, newPar))
                     PROVE  FALSE
        OBVIOUS
      <3>2. M = Fail(L)
        BY <1>3, <3>1 DEF SetPar
      <3> QED BY <1>1, <3>2 DEF Fail, Ledgers
    <2>2. /\ M.par = [L.par EXCEPT ![a] = [@ EXCEPT ![m] = newPar]]
          /\ M.totalPar = [L.totalPar EXCEPT ![m] = rolled]
          /\ M.index = L.index
          /\ M.balanceOf = L.balanceOf
          /\ M.ok = L.ok
      BY <1>1, <1>3, <2>1 DEF SetPar, Ledgers
    <2>3. M.par[a][m] = newPar /\ M.totalPar[m] = rolled
      BY <1>1, <2>2 DEF Ledgers
    <2>4. \A q \in Markets \ {m} : M.totalPar[q] = L.totalPar[q]
      BY <1>1, <2>2 DEF Ledgers
    <2>5. \A q \in Markets \ {m} : Funds(M, q) = Funds(L, q)
      BY <2>2, <2>4 DEF Funds
    <2>6. /\ rolled.supply = total.supply - PositivePart(oldPar)
                                          + PositivePart(newPar)
          /\ rolled.borrow = total.borrow - NegativePart(oldPar)
                                          + NegativePart(newPar)
      BY DEF RolledTotalPar
    <2>7. \A x \in Int :
            /\ PositivePart(x) \in Nat /\ NegativePart(x) \in Nat
            /\ Worth(x, index) = PositivePart(x) * index.supply
                                   - NegativePart(x) * index.borrow
      <3> SUFFICES ASSUME NEW x \in Int
                   PROVE  /\ PositivePart(x) \in Nat /\ NegativePart(x) \in Nat
                          /\ Worth(x, index) = PositivePart(x) * index.supply
                                                 - NegativePart(x) * index.borrow
        OBVIOUS
      <3>1. PositivePart(x) \in Nat /\ NegativePart(x) \in Nat
        BY PartsAreNat
      <3>2. CASE x > 0
        <4>1. PositivePart(x) = x /\ NegativePart(x) = 0 /\ x >= 0
          BY <3>2 DEF PositivePart, NegativePart
        <4> QED BY <1>1, <3>1, <4>1 DEF Worth
      <3>3. CASE x = 0
        <4>1. PositivePart(x) = 0 /\ NegativePart(x) = 0 /\ x >= 0
          BY <3>3 DEF PositivePart, NegativePart
        <4> QED BY <1>1, <3>1, <3>3, <4>1 DEF Worth
      <3>4. CASE x < 0
        <4>1. PositivePart(x) = 0 /\ NegativePart(x) = -x /\ ~(x >= 0)
          BY <3>4 DEF PositivePart, NegativePart
        <4> QED BY <1>1, <3>1, <4>1 DEF Worth
      <3> QED BY <3>2, <3>3, <3>4
    <2> DEFINE po == PositivePart(oldPar)
               pn == PositivePart(newPar)
               no == NegativePart(oldPar)
               nn == NegativePart(newPar)
    <2>8. /\ po \in Nat /\ pn \in Nat /\ no \in Nat /\ nn \in Nat
          /\ Worth(oldPar, index) = po * index.supply - no * index.borrow
          /\ Worth(newPar, index) = pn * index.supply - nn * index.borrow
      BY <1>1, <2>7
    <2>9. /\ Funds(M, m) = Base * L.balanceOf[m]
                             + (total.borrow - no + nn) * index.borrow
                             - (total.supply - po + pn) * index.supply
          /\ Funds(L, m) = Base * L.balanceOf[m]
                             + total.borrow * index.borrow
                             - total.supply * index.supply
      BY <2>2, <2>3, <2>6 DEF Funds
    <2> HIDE DEF po, pn, no, nn, index, total
    <2>10. /\ (total.borrow - no + nn) * index.borrow
                = total.borrow * index.borrow - no * index.borrow
                    + nn * index.borrow
           /\ (total.supply - po + pn) * index.supply
                = total.supply * index.supply - po * index.supply
                    + pn * index.supply
      BY <1>1, <2>8
    <2>11. Funds(M, m) = Funds(L, m) + Worth(oldPar, index)
                                     - Worth(newPar, index)
      <3> DEFINE k1 == total.borrow * index.borrow
                 k2 == no * index.borrow
                 k3 == nn * index.borrow
                 k4 == total.supply * index.supply
                 k5 == po * index.supply
                 k6 == pn * index.supply
                 k7 == Base * L.balanceOf[m]
      <3>1. /\ k1 \in Int /\ k2 \in Int /\ k3 \in Int /\ k4 \in Int
            /\ k5 \in Int /\ k6 \in Int /\ k7 \in Int
        BY <1>1, <2>8
      <3>2. /\ Funds(M, m) = k7 + (k1 - k2 + k3) - (k4 - k5 + k6)
            /\ Funds(L, m) = k7 + k1 - k4
            /\ Worth(oldPar, index) = k5 - k2
            /\ Worth(newPar, index) = k6 - k3
        BY <2>8, <2>9, <2>10
      <3> HIDE DEF k1, k2, k3, k4, k5, k6, k7
      <3> QED BY <3>1, <3>2
    <2> QED BY <2>2, <2>3, <2>5, <2>11 DEF index
  <1> QED BY <1>2, <1>3

-----------------------------------------------------------------------------
(* What a chain of writes costs a market.  Earns(M, L, q, x, s): from L to *)
(* M, market q gains at least x, scaled by Base, but for half of s.        *)

Earns(M, L, q, x, s) ==
  /\ Sound(M)
  /\ M.index = L.index
  /\ M.ok => /\ L.ok
             /\ 2 * Funds(M, q) + s >= 2 * Funds(L, q) + 2 * x

Only(q, m, x) == IF q = m THEN x ELSE 0

LEMMA EarnsIsTransitive ==
  ASSUME NEW L, NEW M, NEW N, Sound(L), NEW q \in Markets,
         NEW x \in Int, NEW s \in Int, Earns(M, L, q, x, s),
         NEW y \in Int, NEW t \in Int, Earns(N, M, q, y, t)
  PROVE  Earns(N, L, q, x + y, s + t)
  <1>1. Sound(M) /\ Sound(N) /\ N.index = L.index
    BY DEF Earns
  <1>2. Funds(L, q) \in Int /\ Funds(M, q) \in Int /\ Funds(N, q) \in Int
    BY <1>1, FundsAreInt
  <1>3. ASSUME N.ok
        PROVE  /\ L.ok
               /\ 2 * Funds(N, q) + (s + t) >= 2 * Funds(L, q) + 2 * (x + y)
    <2>1. M.ok /\ L.ok
      BY <1>3 DEF Earns
    <2>2. /\ 2 * Funds(M, q) + s >= 2 * Funds(L, q) + 2 * x
          /\ 2 * Funds(N, q) + t >= 2 * Funds(M, q) + 2 * y
      BY <1>3, <2>1 DEF Earns
    <2> QED BY <1>2, <2>1, <2>2
  <1> QED BY <1>1, <1>3 DEF Earns

LEMMA EarnsNothingItself ==
  ASSUME NEW L, Sound(L), NEW q \in Markets
  PROVE  Earns(L, L, q, 0, 0)
  BY FundsAreInt DEF Earns

LEMMA SlackIsNat ==
  ASSUME NEW index \in Indexes
  PROVE  Slack(index) \in Nat
  BY IndexFields, BaseIsPositive DEF Slack

(***************************************************************************)
(* Marking an account costs nothing.                                       *)
(***************************************************************************)
LEMMA SetStatusEarns ==
  ASSUME NEW L, Sound(L), NEW a \in Accounts, NEW status \in Statuses,
         NEW q \in Markets
  PROVE  Earns(SetStatus(L, a, status), L, q, 0, 0)
  <1> DEFINE M == SetStatus(L, a, status)
  <1>1. Sound(M) /\ SameBooks(M, L)
    BY SetStatusIsSound
  <1>2. M.balanceOf = L.balanceOf /\ M.ok = L.ok
    BY DEF SetStatus, Sound, Ledgers
  <1> HIDE DEF M
  <1>3. Funds(M, q) = Funds(L, q) /\ Funds(L, q) \in Int
    BY <1>1, <1>2, FundsAreInt DEF Funds, SameBooks
  <1> QED BY <1>1, <1>2, <1>3 DEF Earns, SameBooks, M

LEMMA SetParEarns ==
  ASSUME NEW L, Sound(L), NEW a \in Accounts, NEW m \in Markets,
         NEW newPar \in Int, NEW q \in Markets, NEW x \in Int, NEW s \in Int,
         2 * Worth(L.par[a][m], L.index[m]) - 2 * Worth(newPar, L.index[m]) + s
           >= 2 * x
  PROVE  Earns(SetPar(L, a, m, newPar), L, q, Only(q, m, x), Only(q, m, s))
  <1> DEFINE M == SetPar(L, a, m, newPar)
             old == Worth(L.par[a][m], L.index[m])
             new == Worth(newPar, L.index[m])
  <1>1. Sound(M) /\ M.index = L.index
    BY SetParFollows DEF Follows
  <1>2. old \in Int /\ new \in Int
    BY MarketIsTyped, BalanceIsInt, WorthIsInt DEF Sound
  <1>3. Funds(L, q) \in Int
    BY FundsAreInt
  <1>4. ASSUME M.ok
        PROVE  /\ L.ok
               /\ 2 * Funds(M, q) + Only(q, m, s)
                    >= 2 * Funds(L, q) + 2 * Only(q, m, x)
    <2>1. /\ L.ok
          /\ Funds(M, m) = Funds(L, m) + old - new
          /\ \A n \in Markets \ {m} : Funds(M, n) = Funds(L, n)
      BY <1>4, SetParFunds
    <2> HIDE DEF M, old, new
    <2>2. 2 * old - 2 * new + s >= 2 * x
      BY DEF old, new
    <2>3. CASE q = m
      BY <1>2, <1>3, <2>1, <2>2, <2>3 DEF Only
    <2>4. CASE q # m
      BY <1>3, <2>1, <2>4 DEF Only
    <2> QED BY <2>1, <2>3, <2>4
  <1> HIDE DEF M
  <1> QED BY <1>1, <1>4 DEF Earns, M

(***************************************************************************)
(* A balance that grows by an amount in Wei costs its market that amount   *)
(* and two roundings.                                                      *)
(***************************************************************************)
LEMMA WrittenWeiIsNear ==
  ASSUME NEW par \in Int, NEW index \in Indexes, index.borrow >= index.supply,
         NEW wei \in Int
  PROVE  2 * Worth(par, index)
           - 2 * Worth(WeiToPar(ParToWei(par, index) + wei, index), index)
           + Slack(index) >= 2 * (Base * (-wei))
  <1> DEFINE old == ParToWei(par, index)
             sum == old + wei
             new == WeiToPar(sum, index)
             wo == Worth(par, index)
             wn == Worth(new, index)
             bo == Base * old
             bw == Base * wei
             bs == Base * sum
  <1>1. old \in Int /\ index.borrow \in Nat /\ Base \in Nat \ {0}
    BY ParToWeiIsInt, IndexFields, BaseIsPositive
  <1>2. sum \in Int
    BY <1>1
  <1>3. -Base <= 2 * (wo - bo) /\ 2 * (wo - bo) <= Base
    BY ParToWeiIsNear
  <1> HIDE DEF old
  <1>4. bo \in Int /\ bw \in Int /\ bs = bo + bw /\ Base * (-wei) = -bw
    BY <1>1
  <1> HIDE DEF sum
  <1>5. new \in Int
    BY <1>2, WeiToParIsInt
  <1>6. -index.borrow <= 2 * (wn - bs) /\ 2 * (wn - bs) <= index.borrow
    BY <1>2, WeiToParIsNear
  <1>7. NoInterestYet(index) => new = sum
    BY <1>2, NoInterestNoRounding
  <1> HIDE DEF new
  <1>8. wo \in Int /\ wn \in Int
    BY <1>5, WorthIsInt
  <1>9. NoInterestYet(index) => wo = bo /\ wn = bs
    <2>1. SUFFICES ASSUME NoInterestYet(index)
                   PROVE  wo = bo /\ wn = bs
      OBVIOUS
    <2>2. ParToWei(par, index) = par /\ wo = Base * par
      BY <2>1, NoInterestNoRounding
    <2>3. wn = Base * new
      BY <1>5, <2>1, NoInterestNoRounding
    <2> QED BY <1>7, <2>1, <2>2, <2>3 DEF old
  <1> HIDE DEF wo, wn, bo, bw, bs
  <1>10. 2 * wo - 2 * wn + Slack(index) >= 2 * (-bw)
    <2>1. CASE NoInterestYet(index)
      <3>1. Slack(index) = 0 /\ wo = bo /\ wn = bs
        BY <1>9, <2>1 DEF Slack
      <3> QED BY <1>4, <1>8, <3>1
    <2>2. CASE ~NoInterestYet(index)
      <3>1. Slack(index) = index.borrow + Base
        BY <2>2 DEF Slack
      <3> QED BY <1>1, <1>3, <1>4, <1>6, <1>8, <3>1
    <2> QED BY <2>1, <2>2
  <1> QED BY <1>4, <1>10 DEF wo, wn, bw, new, sum, old

LEMMA ReadWeiIsNear ==
  ASSUME NEW par \in Int, NEW newPar \in Int, NEW index \in Indexes
  PROVE  2 * Worth(par, index) - 2 * Worth(newPar, index) + Slack(index)
           >= 2 * (Base * (-(ParToWei(newPar, index) - ParToWei(par, index))))
  <1> DEFINE old == ParToWei(par, index)
             new == ParToWei(newPar, index)
             wo == Worth(par, index)
             wn == Worth(newPar, index)
             bo == Base * old
             bn == Base * new
  <1>1. /\ old \in Int /\ new \in Int /\ wo \in Int /\ wn \in Int
        /\ Base \in Nat /\ index.borrow \in Nat /\ Base <= index.borrow
    BY ParToWeiIsInt, WorthIsInt, BaseIsPositive, IndexIsAtLeastBase
  <1>2. /\ -Base <= 2 * (wo - bo) /\ 2 * (wo - bo) <= Base
        /\ -Base <= 2 * (wn - bn) /\ 2 * (wn - bn) <= Base
    BY ParToWeiIsNear
  <1>3. NoInterestYet(index) => wo = bo /\ wn = bn
    <2>1. SUFFICES ASSUME NoInterestYet(index) PROVE wo = bo /\ wn = bn
      OBVIOUS
    <2> QED BY <2>1, NoInterestNoRounding
  <1> HIDE DEF old, new, wo, wn
  <1>4. bo \in Int /\ bn \in Int /\ Base * (-(new - old)) = bo - bn
    BY <1>1
  <1> HIDE DEF bo, bn
  <1>5. 2 * wo - 2 * wn + Slack(index) >= 2 * (bo - bn)
    <2>1. CASE NoInterestYet(index)
      BY <1>1, <1>3, <1>4, <2>1 DEF Slack
    <2>2. CASE ~NoInterestYet(index)
      BY <1>1, <1>2, <1>4, <2>2 DEF Slack
    <2> QED BY <2>1, <2>2
  <1> QED BY <1>4, <1>5 DEF old, new, wo, wn

(***************************************************************************)
(* The balance that an amount asks for is worth what the account pays for  *)
(* it, but for two roundings; also where a repayment is bounded.           *)
(***************************************************************************)
IsFair(asked, par, index) ==
  2 * Worth(par, index) - 2 * Worth(asked.par, index) + Slack(index)
    >= 2 * (Base * (-asked.deltaWei))

LEMMA AmountIsFair ==
  ASSUME NEW L, Sound(L), NEW a \in Accounts, NEW m \in Markets,
         NEW amount \in AssetAmounts
  PROVE  IsFair(GetNewParAndDeltaWei(L, a, m, L.index[m], amount),
                L.par[a][m], L.index[m])
  <1> DEFINE index == L.index[m]
             old == L.par[a][m]
             oldWei == ParToWei(old, index)
             asked == GetNewParAndDeltaWei(L, a, m, index, amount)
  <1>1. old \in Int /\ index \in Indexes /\ index.borrow >= index.supply
    BY MarketIsTyped, BalanceIsInt DEF Sound
  <1>2. asked.par \in Int /\ asked.deltaWei \in Int
    BY <1>1, AmountIsTyped
  <1>3. oldWei \in Int /\ GetWei(L, a, m, index) = oldWei
    BY <1>1, ParToWeiIsInt DEF GetWei
  <1>4. CASE amount.value = 0 /\ amount.ref = "Delta"
    <2>1. asked.par = old /\ asked.deltaWei = 0
      BY <1>4 DEF GetNewParAndDeltaWei
    <2>2. Worth(old, index) \in Int /\ Slack(index) \in Nat /\ Base * (-0) = 0
      BY <1>1, WorthIsInt, SlackIsNat, BaseIsPositive
    <2> HIDE DEF asked, old, index
    <2> QED BY <2>1, <2>2 DEF IsFair, asked, old, index
  <1>5. CASE /\ ~(amount.value = 0 /\ amount.ref = "Delta")
             /\ amount.denomination = "Wei"
    <2>1. asked.par = WeiToPar(oldWei + asked.deltaWei, index)
      BY <1>3, <1>5 DEF GetNewParAndDeltaWei
    <2> HIDE DEF asked, old, index, oldWei
    <2>2. 2 * Worth(old, index)
            - 2 * Worth(WeiToPar(ParToWei(old, index) + asked.deltaWei, index),
                        index)
            + Slack(index) >= 2 * (Base * (-asked.deltaWei))
      BY <1>1, <1>2, WrittenWeiIsNear
    <2> QED BY <2>1, <2>2 DEF IsFair, asked, old, index, oldWei
  <1>6. CASE /\ ~(amount.value = 0 /\ amount.ref = "Delta")
             /\ amount.denomination # "Wei"
    <2>1. asked.deltaWei = ParToWei(asked.par, index) - oldWei
      BY <1>3, <1>6 DEF GetNewParAndDeltaWei
    <2> HIDE DEF asked, old, index, oldWei
    <2>2. 2 * Worth(old, index) - 2 * Worth(asked.par, index) + Slack(index)
            >= 2 * (Base * (-(ParToWei(asked.par, index)
                                - ParToWei(old, index))))
      BY <1>1, <1>2, ReadWeiIsNear
    <2> QED BY <2>1, <2>2 DEF IsFair, asked, old, index, oldWei
  <1> QED BY <1>4, <1>5, <1>6

LEMMA RepaymentIsFair ==
  ASSUME NEW L, Sound(L), NEW a \in Accounts, NEW m \in Markets,
         NEW amount \in AssetAmounts
  PROVE  IsFair(GetNewParAndDeltaWeiForLiquidation(L, a, m, L.index[m], amount),
                L.par[a][m], L.index[m])
  <1> DEFINE index == L.index[m]
             old == L.par[a][m]
             oldWei == ParToWei(old, index)
             asked == GetNewParAndDeltaWei(L, a, m, index, amount)
             repaid == GetNewParAndDeltaWeiForLiquidation(L, a, m, index, amount)
             overpays == asked.par > 0
  <1>1. old \in Int /\ index \in Indexes
    BY MarketIsTyped, BalanceIsInt DEF Sound
  <1>2. oldWei \in Int /\ GetWei(L, a, m, index) = oldWei
    BY <1>1, ParToWeiIsInt DEF GetWei
  <1>3. IsFair(asked, old, index)
    BY AmountIsFair
  <1>4. /\ repaid.par = IF overpays THEN 0 ELSE asked.par
        /\ repaid.deltaWei = IF repaid.par = old THEN 0
                             ELSE IF overpays THEN -oldWei ELSE asked.deltaWei
    BY <1>2 DEF GetNewParAndDeltaWeiForLiquidation
  <1> HIDE DEF index, old, oldWei, asked, repaid
  <1>5. CASE repaid.par = old
    <2>1. repaid.deltaWei = 0
      BY <1>4, <1>5
    <2>2. Worth(old, index) \in Int /\ Slack(index) \in Nat /\ Base * (-0) = 0
      BY <1>1, WorthIsInt, SlackIsNat, BaseIsPositive
    <2>3. IsFair(repaid, old, index)
      BY <1>5, <2>1, <2>2 DEF IsFair
    <2> QED BY <2>3 DEF index, old, repaid
  <1>6. CASE repaid.par # old /\ overpays
    <2>1. repaid.par = 0 /\ repaid.deltaWei = -oldWei
      BY <1>4, <1>6
    <2>2. ParToWei(0, index) = 0
      <3>1. ParToWei(0, index) \in Int
        BY <1>1, ParToWeiIsInt
      <3> QED BY <1>1, <3>1, ParToWeiKeepsSign
    <2>3. 2 * Worth(old, index) - 2 * Worth(0, index) + Slack(index)
            >= 2 * (Base * (-(ParToWei(0, index) - ParToWei(old, index))))
      BY <1>1, ReadWeiIsNear
    <2>4. 0 - ParToWei(old, index) = -oldWei
      BY <1>2 DEF oldWei
    <2>5. IsFair(repaid, old, index)
      BY <2>1, <2>2, <2>3, <2>4 DEF IsFair
    <2> QED BY <2>5 DEF index, old, repaid
  <1>7. CASE repaid.par # old /\ ~overpays
    <2>1. repaid.par = asked.par /\ repaid.deltaWei = asked.deltaWei
      BY <1>4, <1>7
    <2>2. IsFair(repaid, old, index)
      BY <1>3, <2>1 DEF IsFair
    <2> QED BY <2>2 DEF index, old, repaid
  <1> QED BY <1>5, <1>6, <1>7

LEMMA FairSetParEarns ==
  ASSUME NEW L, Sound(L), NEW a \in Accounts, NEW m \in Markets,
         NEW asked, asked.par \in Int, asked.deltaWei \in Int,
         IsFair(asked, L.par[a][m], L.index[m]), NEW q \in Markets
  PROVE  Earns(SetPar(L, a, m, asked.par), L, q,
               Only(q, m, Base * (-asked.deltaWei)),
               Only(q, m, Slack(L.index[m])))
  <1>1. L.index[m] \in Indexes
    BY MarketIsTyped
  <1>2. Base * (-asked.deltaWei) \in Int /\ Slack(L.index[m]) \in Int
    BY <1>1, SlackIsNat, BaseIsPositive
  <1> QED BY <1>2, SetParEarns DEF IsFair

LEMMA DeltaWeiEarns ==
  ASSUME NEW L, Sound(L), NEW a \in Accounts, NEW m \in Markets,
         NEW deltaWei \in Int, NEW q \in Markets
  PROVE  Earns(SetParFromDeltaWei(L, a, m, L.index[m], deltaWei), L, q,
               Only(q, m, Base * (-deltaWei)), Only(q, m, Slack(L.index[m])))
  <1> DEFINE index == L.index[m]
             old == L.par[a][m]
             asked == [par |-> WeiToPar(ParToWei(old, index) + deltaWei, index),
                       deltaWei |-> deltaWei]
  <1>1. old \in Int /\ index \in Indexes /\ index.borrow >= index.supply
    BY MarketIsTyped, BalanceIsInt DEF Sound
  <1>2. CASE deltaWei = 0
    <2>1. SetParFromDeltaWei(L, a, m, index, deltaWei) = L
      BY <1>2 DEF SetParFromDeltaWei
    <2>2. Base * (-deltaWei) = 0 /\ Slack(index) \in Nat
      BY <1>1, <1>2, SlackIsNat, BaseIsPositive
    <2>3. Funds(L, q) \in Int
      BY FundsAreInt
    <2> HIDE DEF index
    <2>4. Earns(L, L, q, Only(q, m, 0), Only(q, m, Slack(index)))
      BY <2>2, <2>3 DEF Earns, Only
    <2> QED BY <2>1, <2>2, <2>4 DEF index
  <1>3. CASE deltaWei # 0
    <2>1. SetParFromDeltaWei(L, a, m, index, deltaWei)
            = SetPar(L, a, m, asked.par)
      BY <1>3 DEF SetParFromDeltaWei, GetWei
    <2>2. asked.deltaWei = deltaWei
      OBVIOUS
    <2>3. asked.par \in Int
      <3>1. ParToWei(old, index) + deltaWei \in Int
        BY <1>1, ParToWeiIsInt
      <3> QED BY <1>1, <3>1, WeiToParIsInt
    <2>4. IsFair(asked, old, index)
      <3> HIDE DEF old, index
      <3> QED BY <1>1, WrittenWeiIsNear DEF IsFair
    <2> HIDE DEF asked
    <2> QED BY <2>1, <2>2, <2>3, <2>4, FairSetParEarns
  <1> QED BY <1>2, <1>3

(***************************************************************************)
(* Tokens that move are earned or paid; from or to the contract itself     *)
(* nothing moves, which makes a difference for what is taken in only.      *)
(***************************************************************************)
LEMMA HeldFunds ==
  ASSUME NEW L, Sound(L), NEW m \in Markets, NEW wei \in Int,
         NEW M, M = [L EXCEPT !.balanceOf[m] = @ + wei]
  PROVE  /\ M.ok = L.ok /\ M.index = L.index
         /\ Funds(M, m) = Funds(L, m) + Base * wei
         /\ \A q \in Markets \ {m} : Funds(M, q) = Funds(L, q)
  <1>1. /\ L \in Ledgers
        /\ L.balanceOf[m] \in Nat /\ Base \in Nat
        /\ L.totalPar[m].borrow * L.index[m].borrow \in Nat
        /\ L.totalPar[m].supply * L.index[m].supply \in Nat
    BY MarketIsTyped, BaseIsPositive, ProductIsNat DEF Sound
  <1>2. /\ M.totalPar = L.totalPar /\ M.index = L.index /\ M.ok = L.ok
        /\ M.balanceOf = [L.balanceOf EXCEPT ![m] = @ + wei]
    BY <1>1 DEF Ledgers
  <1>3. /\ M.balanceOf[m] = L.balanceOf[m] + wei
        /\ \A q \in Markets \ {m} : M.balanceOf[q] = L.balanceOf[q]
    BY <1>1, <1>2 DEF Ledgers
  <1>4. Base * (L.balanceOf[m] + wei) = Base * L.balanceOf[m] + Base * wei
    BY <1>1
  <1>5. Base * L.balanceOf[m] \in Int /\ Base * wei \in Int
    BY <1>1
  <1>6. Funds(M, m) = Funds(L, m) + Base * wei
    BY <1>1, <1>2, <1>3, <1>4, <1>5 DEF Funds
  <1> QED BY <1>2, <1>3, <1>6 DEF Funds

LEMMA TransferInEarns ==
  ASSUME NEW L, Sound(L), NEW m \in Markets, NEW from,
         from # DolomiteMarginAddress, NEW wei \in Int, NEW q \in Markets
  PROVE  Earns(TransferIn(L, m, from, wei), L, q, Only(q, m, Base * wei), 0)
  <1> DEFINE M == TransferIn(L, m, from, wei)
  <1>1. Sound(M) /\ M.index = L.index
    BY TransferInFollows DEF Follows
  <1>2. Funds(L, q) \in Int /\ Base * wei \in Int
    BY FundsAreInt, BaseIsPositive
  <1>3. ASSUME M.ok
        PROVE  L.ok /\ Funds(M, q) = Funds(L, q) + Only(q, m, Base * wei)
    <2>1. M = [L EXCEPT !.balanceOf[m] = @ + wei]
      <3>1. M # Fail(L)
        BY <1>3 DEF Fail, Sound, Ledgers
      <3> QED BY <3>1 DEF TransferIn
    <2> HIDE DEF M
    <2> QED BY <1>2, <1>3, <2>1, HeldFunds DEF Only
  <1> HIDE DEF M
  <1>4. Only(q, m, Base * wei) \in Int
    BY <1>2 DEF Only
  <1> QED BY <1>1, <1>2, <1>3, <1>4 DEF Earns, M

LEMMA TransferOutEarns ==
  ASSUME NEW L, Sound(L), NEW m \in Markets, NEW to, NEW wei \in Int,
         NEW q \in Markets
  PROVE  Earns(TransferOut(L, m, to, wei), L, q, Only(q, m, Base * wei), 0)
  <1> DEFINE M == TransferOut(L, m, to, wei)
  <1>1. Sound(M) /\ M.index = L.index
    BY TransferOutFollows DEF Follows
  <1>2. Funds(L, q) \in Int /\ Base * wei \in Int
    BY FundsAreInt, BaseIsPositive
  <1>3. ASSUME M.ok
        PROVE  L.ok /\ Funds(M, q) >= Funds(L, q) + Only(q, m, Base * wei)
    <2>1. M # Fail(L) /\ L.ok
      <3>1. M # Fail(L)
        BY <1>3 DEF Fail, Sound, Ledgers
      <3> QED BY <1>3, <3>1 DEF TransferOut, Sound, Ledgers
    <2>2. wei <= 0
      BY <2>1 DEF TransferOut
    <2>3. CASE to = DolomiteMarginAddress
      <3>1. M = L
        BY <2>1, <2>3 DEF TransferOut
      <3>2. Base * wei <= 0
        <4>1. -wei \in Nat /\ Base \in Nat
          BY <2>2, BaseIsPositive
        <4>2. Base * (-wei) \in Nat
          BY <4>1, ProductIsNat
        <4>3. Base * (-wei) = -(Base * wei)
          BY <4>1
        <4> QED BY <1>2, <4>2, <4>3
      <3> HIDE DEF M
      <3> QED BY <1>2, <2>1, <3>1, <3>2 DEF Only
    <2>4. CASE to # DolomiteMarginAddress
      <3>1. M = [L EXCEPT !.balanceOf[m] = @ + wei]
        BY <2>1, <2>4 DEF TransferOut
      <3> HIDE DEF M
      <3> QED BY <1>2, <2>1, <3>1, HeldFunds DEF Only
    <2> QED BY <2>3, <2>4
  <1> HIDE DEF M
  <1>4. Only(q, m, Base * wei) \in Int /\ Funds(M, q) \in Int
    BY <1>1, <1>2, FundsAreInt DEF Only
  <1> QED BY <1>1, <1>2, <1>3, <1>4 DEF Earns, M

-----------------------------------------------------------------------------
(* What each action of an operation costs a market: at most the roundings  *)
(* of the two balances of it that the action writes.                       *)

TakesNothing(M, L) ==
  \A q \in Markets : Earns(M, L, q, 0, 2 * Slack(L.index[q]))

LEMMA EarnsEnough ==
  ASSUME NEW L, Sound(L), NEW M, NEW q \in Markets, NEW x \in Int,
         NEW s \in Int, NEW t \in Int, Earns(M, L, q, x, s), x >= 0, s <= t
  PROVE  Earns(M, L, q, 0, t)
  <1>1. Funds(L, q) \in Int /\ Funds(M, q) \in Int
    BY FundsAreInt DEF Earns
  <1> QED BY <1>1 DEF Earns

LEMMA BaseTimes ==
  ASSUME NEW x \in Int
  PROVE  Base * x \in Int /\ Base * (-x) = -(Base * x)
  BY BaseIsPositive

LEMMA SlackOfMarket ==
  ASSUME NEW L, Sound(L), NEW m \in Markets
  PROVE  Slack(L.index[m]) \in Nat
  BY MarketIsTyped, SlackIsNat

(***************************************************************************)
(* While an operation runs the cached index of a market is its index.      *)
(***************************************************************************)
LEMMA CachedIndexIsCurrent ==
  ASSUME Inductive, OperationIsTracked, ~Idle, NEW m \in DOMAIN cache
  PROVE  m \in Markets /\ CachedIndex(m) = ledger.index[m]
  BY CachedMarket DEF OperationIsTracked, CacheIsCurrent, CachedIndex

(***************************************************************************)
(* Two writes, or four, that balance and round no more than two of the     *)
(* market's balances.                                                      *)
(***************************************************************************)
LEMMA TwoBalance ==
  ASSUME NEW L, Sound(L), NEW M, NEW N, NEW q \in Markets,
         NEW x \in Int, NEW s \in Int, Earns(M, L, q, x, s),
         NEW y \in Int, NEW t \in Int, Earns(N, M, q, y, t),
         x + y = 0, s + t <= 2 * Slack(L.index[q])
  PROVE  Earns(N, L, q, 0, 2 * Slack(L.index[q]))
  <1>1. Earns(N, L, q, x + y, s + t)
    BY EarnsIsTransitive
  <1>2. /\ 2 * Slack(L.index[q]) \in Int /\ x + y \in Int /\ s + t \in Int
        /\ x + y >= 0
    BY SlackOfMarket
  <1> QED BY <1>1, <1>2, EarnsEnough

LEMMA FourBalance ==
  ASSUME NEW L, Sound(L), NEW M, NEW N, NEW O, NEW P, NEW q \in Markets,
         NEW x1 \in Int, NEW s1 \in Int, Earns(M, L, q, x1, s1),
         NEW x2 \in Int, NEW s2 \in Int, Earns(N, M, q, x2, s2),
         NEW x3 \in Int, NEW s3 \in Int, Earns(O, N, q, x3, s3),
         NEW x4 \in Int, NEW s4 \in Int, Earns(P, O, q, x4, s4),
         x1 + x2 + x3 + x4 = 0,
         s1 + s2 + s3 + s4 <= 2 * Slack(L.index[q])
  PROVE  Earns(P, L, q, 0, 2 * Slack(L.index[q]))
  <1>1. Sound(M) /\ Sound(N)
    BY DEF Earns
  <1>2. Earns(N, L, q, x1 + x2, s1 + s2)
    BY EarnsIsTransitive
  <1>3. Earns(P, N, q, x3 + x4, s3 + s4)
    BY <1>1, EarnsIsTransitive
  <1>4. /\ x1 + x2 \in Int /\ x3 + x4 \in Int
        /\ s1 + s2 \in Int /\ s3 + s4 \in Int
        /\ (x1 + x2) + (x3 + x4) = 0
        /\ (s1 + s2) + (s3 + s4) <= 2 * Slack(L.index[q])
    BY SlackOfMarket
  <1> QED BY <1>2, <1>3, <1>4, TwoBalance

(***************************************************************************)
(* The balance that an action asks for is written and then paid, by tokens *)
(* or by the balance of another account.                                   *)
(***************************************************************************)
LEMMA PayingTakesNothing ==
  ASSUME Inductive, OperationIsTracked, ~Idle, NEW a \in Accounts,
         NEW m \in DOMAIN cache, Arg.amount \in AssetAmounts, NEW M, NEW s,
         LET new == AmountOf(a, m)
         IN  /\ s \in {0, Slack(ledger.index[m])}
             /\ \A q \in Markets :
                  Earns(M, SetPar(ledger, a, m, new.par), q,
                        Only(q, m, Base * new.deltaWei), Only(q, m, s)),
         ledger' = M
  PROVE  TakesNothing(ledger', ledger)
  <1> DEFINE new == AmountOf(a, m)
             set == SetPar(ledger, a, m, new.par)
             e == Base * new.deltaWei
             slack == Slack(ledger.index[m])
  <1>1. Sound(ledger) /\ m \in Markets /\ CachedIndex(m) = ledger.index[m]
    BY InductiveIsSound, CachedIndexIsCurrent
  <1>2. new.par \in Int /\ new.deltaWei \in Int
    BY AmountOfIsTyped
  <1>3. IsFair(new, ledger.par[a][m], ledger.index[m])
    BY <1>1, AmountIsFair DEF AmountOf
  <1>4. SUFFICES ASSUME NEW q \in Markets
                 PROVE  Earns(M, ledger, q, 0, 2 * Slack(ledger.index[q]))
    BY DEF TakesNothing
  <1>5. Earns(M, set, q, Only(q, m, e), Only(q, m, s))
    OBVIOUS
  <1> HIDE DEF new
  <1>6. Earns(set, ledger, q, Only(q, m, -e), Only(q, m, slack))
    BY <1>1, <1>2, <1>3, FairSetParEarns, BaseTimes
  <1> HIDE DEF set
  <1>7. /\ e \in Int /\ slack \in Nat /\ s \in {0, slack}
        /\ Slack(ledger.index[q]) \in Nat
        /\ q = m => slack = Slack(ledger.index[q])
    BY <1>1, <1>2, BaseTimes, SlackOfMarket
  <1> HIDE DEF e, slack
  <1>8. /\ Only(q, m, -e) \in Int /\ Only(q, m, slack) \in Int
        /\ Only(q, m, e) \in Int /\ Only(q, m, s) \in Int
        /\ Only(q, m, -e) + Only(q, m, e) = 0
        /\ Only(q, m, slack) + Only(q, m, s) <= 2 * Slack(ledger.index[q])
    BY <1>7 DEF Only
  <1> QED BY <1>1, <1>5, <1>6, <1>8, TwoBalance

LEMMA DepositTakesNothing ==
  ASSUME MarginActsForNobody, Inductive, OperationIsTracked, Deposit
  PROVE  TakesNothing(ledger', ledger)
  <1> DEFINE new == AmountOf(AccountOne, MarketOne)
             set == SetPar(ledger, AccountOne, MarketOne, new.par)
             paid == TransferIn(set, MarketOne, Arg.otherAddress, new.deltaWei)
  <1>1. Executing("Deposit") /\ Complete(paid) /\ ledger' = paid
    BY DEF Deposit, Complete
  <1>2. /\ ~Idle
        /\ AccountOne \in Accounts
        /\ MarketOne \in DOMAIN cache /\ MarketOne \in Markets
        /\ Arg.amount \in AssetAmounts
    BY <1>1, ActionIsVerified, MarketsOfArg, CachedMarket, ArgAmount
  <1>3. Arg.otherAddress # DolomiteMarginAddress
    <2>1. Arg.otherAddress \in {Sender, Owner[AccountOne]}
      BY DEF Deposit
    <2>2. request \in Requests
      BY <1>2 DEF Inductive, TypeOK, OperationTypeOK, Idle
    <2> QED BY <1>2, <2>1, <2>2 DEF MarginActsForNobody, Sender
  <1>4. new.par \in Int /\ new.deltaWei \in Int
    BY <1>2, AmountOfIsTyped
  <1>5. Sound(set)
    BY <1>2, <1>4, InductiveIsSound, SetParFollows DEF Follows
  <1>6. \A q \in Markets :
          Earns(paid, set, q, Only(q, MarketOne, Base * new.deltaWei), 0)
    BY <1>2, <1>3, <1>4, <1>5, TransferInEarns
  <1>7. \A q \in Markets : Only(q, MarketOne, 0) = 0
    BY DEF Only
  <1> QED BY <1>1, <1>2, <1>6, <1>7, PayingTakesNothing

LEMMA WithdrawTakesNothing ==
  ASSUME Inductive, OperationIsTracked, Withdraw
  PROVE  TakesNothing(ledger', ledger)
  <1> DEFINE new == AmountOf(AccountOne, MarketOne)
             set == SetPar(ledger, AccountOne, MarketOne, new.par)
             paid == TransferOut(set, MarketOne, Arg.otherAddress, new.deltaWei)
  <1>1. Executing("Withdraw") /\ Complete(paid) /\ ledger' = paid
    BY DEF Withdraw, Complete
  <1>2. /\ ~Idle
        /\ AccountOne \in Accounts
        /\ MarketOne \in DOMAIN cache /\ MarketOne \in Markets
        /\ Arg.amount \in AssetAmounts
    BY <1>1, ActionIsVerified, MarketsOfArg, CachedMarket, ArgAmount
  <1>3. new.par \in Int /\ new.deltaWei \in Int
    BY <1>2, AmountOfIsTyped
  <1>4. Sound(set)
    BY <1>2, <1>3, InductiveIsSound, SetParFollows DEF Follows
  <1>5. \A q \in Markets :
          Earns(paid, set, q, Only(q, MarketOne, Base * new.deltaWei), 0)
    BY <1>2, <1>3, <1>4, TransferOutEarns
  <1>6. \A q \in Markets : Only(q, MarketOne, 0) = 0
    BY DEF Only
  <1> QED BY <1>1, <1>2, <1>5, <1>6, PayingTakesNothing

LEMMA TransferTakesNothing ==
  ASSUME Inductive, OperationIsTracked, Transfer
  PROVE  TakesNothing(ledger', ledger)
  <1> DEFINE new == AmountOf(AccountOne, MarketOne)
             set == SetPar(ledger, AccountOne, MarketOne, new.par)
             index == CachedIndex(MarketOne)
             moved == SetParFromDeltaWei(set, AccountTwo, MarketOne, index,
                                         -new.deltaWei)
  <1>1. Executing("Transfer") /\ Complete(moved) /\ ledger' = moved
    BY DEF Transfer, Complete
  <1>2. /\ ~Idle
        /\ AccountOne \in Accounts /\ AccountTwo \in Accounts
        /\ MarketOne \in DOMAIN cache /\ MarketOne \in Markets
        /\ Arg.amount \in AssetAmounts
    BY <1>1, ActionIsVerified, MarketsOfArg, CachedMarket, ArgAmount
       DEF AccountLayout
  <1>3. /\ new.par \in Int /\ new.deltaWei \in Int /\ -new.deltaWei \in Int
        /\ -(-new.deltaWei) = new.deltaWei
    BY <1>2, AmountOfIsTyped
  <1>4. Sound(set) /\ set.index = ledger.index
    BY <1>2, <1>3, InductiveIsSound, SetParFollows DEF Follows
  <1>5. index = set.index[MarketOne]
    BY <1>2, <1>4, CachedIndexIsCurrent
  <1> HIDE DEF new, set, index
  <1>6. \A q \in Markets :
          Earns(SetParFromDeltaWei(set, AccountTwo, MarketOne,
                                   set.index[MarketOne], -new.deltaWei),
                set, q, Only(q, MarketOne, Base * (-(-new.deltaWei))),
                Only(q, MarketOne, Slack(set.index[MarketOne])))
    BY <1>2, <1>3, <1>4, DeltaWeiEarns
  <1>7. \A q \in Markets :
          Earns(moved, set, q, Only(q, MarketOne, Base * new.deltaWei),
                Only(q, MarketOne, Slack(ledger.index[MarketOne])))
    BY <1>3, <1>4, <1>5, <1>6
  <1> HIDE DEF moved
  <1> QED BY <1>1, <1>2, <1>7, PayingTakesNothing DEF new, set

(***************************************************************************)
(* Two markets whose balances each go one way and then the other.          *)
(***************************************************************************)
LEMMA SwapTakesNothing ==
  ASSUME NEW L, Sound(L), NEW M, NEW N, NEW O, NEW P,
         NEW m \in Markets, NEW n \in Markets, m # n,
         NEW e \in Int, NEW f \in Int,
         NEW s \in {0, Slack(L.index[m])}, NEW t \in {0, Slack(L.index[n])},
         NEW k \in Markets, NEW l \in Markets, NEW g \in Int, NEW h \in Int,
         \/ k = m /\ g = e /\ l = n /\ h = f
         \/ k = n /\ g = f /\ l = m /\ h = e,
         \A q \in Markets :
           /\ Earns(M, L, q, Only(q, m, -e), Only(q, m, s))
           /\ Earns(N, M, q, Only(q, n, -f), Only(q, n, t))
           /\ Earns(O, N, q, Only(q, k, g), Only(q, k, Slack(L.index[k])))
           /\ Earns(P, O, q, Only(q, l, h), Only(q, l, Slack(L.index[l])))
  PROVE  TakesNothing(P, L)
  <1> SUFFICES ASSUME NEW q \in Markets
               PROVE  Earns(P, L, q, 0, 2 * Slack(L.index[q]))
    BY DEF TakesNothing
  <1>1. /\ Slack(L.index[m]) \in Nat /\ Slack(L.index[n]) \in Nat
        /\ Slack(L.index[q]) \in Nat
    BY SlackOfMarket
  <1> DEFINE x1 == Only(q, m, -e)
             x2 == Only(q, n, -f)
             x3 == Only(q, k, g)
             x4 == Only(q, l, h)
             s1 == Only(q, m, s)
             s2 == Only(q, n, t)
             s3 == Only(q, k, Slack(L.index[k]))
             s4 == Only(q, l, Slack(L.index[l]))
  <1>2. /\ x1 \in Int /\ x2 \in Int /\ x3 \in Int /\ x4 \in Int
        /\ x1 + x2 + x3 + x4 = 0
    BY DEF Only
  <1>3. /\ s1 \in Int /\ s2 \in Int /\ s3 \in Int /\ s4 \in Int
        /\ s1 + s2 + s3 + s4 <= 2 * Slack(L.index[q])
    BY <1>1 DEF Only
  <1>4. /\ Earns(M, L, q, x1, s1) /\ Earns(N, M, q, x2, s2)
        /\ Earns(O, N, q, x3, s3) /\ Earns(P, O, q, x4, s4)
    OBVIOUS
  <1> HIDE DEF x1, x2, x3, x4, s1, s2, s3, s4
  <1> QED BY <1>2, <1>3, <1>4, FourBalance

(***************************************************************************)
(* A ledger on the way of an action: sound, and with the indexes that the  *)
(* action found.                                                           *)
(***************************************************************************)
OnTheWay(L) == Sound(L) /\ L.index = ledger.index

LEMMA CachedDeltaWeiEarns ==
  ASSUME Inductive, OperationIsTracked, ~Idle, NEW L, OnTheWay(L),
         NEW a \in Accounts, NEW m \in DOMAIN cache, NEW wei \in Int
  PROVE  LET M == SetParFromDeltaWei(L, a, m, CachedIndex(m), wei)
         IN  /\ OnTheWay(M)
             /\ \A q \in Markets :
                  Earns(M, L, q, Only(q, m, -(Base * wei)),
                        Only(q, m, Slack(ledger.index[m])))
  <1>1. m \in Markets /\ CachedIndex(m) = L.index[m]
    BY CachedIndexIsCurrent DEF OnTheWay
  <1>2. \A q \in Markets :
          Earns(SetParFromDeltaWei(L, a, m, L.index[m], wei), L, q,
                Only(q, m, Base * (-wei)), Only(q, m, Slack(L.index[m])))
    BY <1>1, DeltaWeiEarns DEF OnTheWay
  <1>3. Base * (-wei) = -(Base * wei)
    BY BaseTimes
  <1>4. Sound(SetParFromDeltaWei(L, a, m, L.index[m], wei))
        /\ SetParFromDeltaWei(L, a, m, L.index[m], wei).index = L.index
    BY <1>1, <1>2 DEF Earns
  <1> QED BY <1>1, <1>2, <1>3, <1>4 DEF OnTheWay

(***************************************************************************)
(* The same for a balance computed from the ledger that the action found,  *)
(* if the balance has not moved since.                                     *)
(***************************************************************************)
LEMMA AskedParEarns ==
  ASSUME Inductive, NEW L, OnTheWay(L), NEW a \in Accounts, NEW m \in Markets,
         L.par[a][m] = ledger.par[a][m],
         NEW asked, asked.par \in Int, asked.deltaWei \in Int,
         IsFair(asked, ledger.par[a][m], ledger.index[m])
  PROVE  LET M == SetPar(L, a, m, asked.par)
         IN  /\ OnTheWay(M)
             /\ \A q \in Markets :
                  Earns(M, L, q, Only(q, m, -(Base * asked.deltaWei)),
                        Only(q, m, Slack(ledger.index[m])))
  <1>1. IsFair(asked, L.par[a][m], L.index[m])
    BY DEF OnTheWay
  <1>2. Base * (-asked.deltaWei) = -(Base * asked.deltaWei)
    BY BaseTimes
  <1>3. \A q \in Markets :
          Earns(SetPar(L, a, m, asked.par), L, q,
                Only(q, m, Base * (-asked.deltaWei)),
                Only(q, m, Slack(L.index[m])))
    BY <1>1, FairSetParEarns DEF OnTheWay
  <1>4. /\ Sound(SetPar(L, a, m, asked.par))
        /\ SetPar(L, a, m, asked.par).index = L.index
    BY <1>3 DEF Earns
  <1> QED BY <1>2, <1>3, <1>4 DEF OnTheWay

(***************************************************************************)
(* An exchange with a wrapper, which is not the contract itself.           *)
(***************************************************************************)
LEMMA ExchangeEarns ==
  ASSUME NEW L, OnTheWay(L), NEW wrapper, wrapper # DolomiteMarginAddress,
         NEW m \in Markets, NEW n \in Markets,
         NEW soldWei \in Int, NEW boughtWei \in Int
  PROVE  LET sent == TransferOut(L, m, wrapper, soldWei)
             paid == Exchange(L, wrapper, m, soldWei, n, boughtWei)
         IN  /\ OnTheWay(sent) /\ OnTheWay(paid)
             /\ paid.par = L.par
             /\ \A q \in Markets :
                  /\ Earns(sent, L, q, Only(q, m, Base * soldWei), Only(q, m, 0))
                  /\ Earns(paid, sent, q, Only(q, n, Base * boughtWei),
                           Only(q, n, 0))
  <1> DEFINE sent == TransferOut(L, m, wrapper, soldWei)
             paid == TransferIn(sent, n, wrapper, boughtWei)
  <1>1. \A q, k \in Markets : Only(q, k, 0) = 0
    BY DEF Only
  <1>2. \A q \in Markets :
          Earns(sent, L, q, Only(q, m, Base * soldWei), Only(q, m, 0))
    BY <1>1, TransferOutEarns DEF OnTheWay
  <1>3. OnTheWay(sent) /\ sent.par = L.par
    <2>1. Sound(sent) /\ sent.index = L.index
      BY <1>2 DEF Earns
    <2>2. L \in Ledgers
      BY DEF OnTheWay, Sound
    <2>3. sent.par = L.par
      BY <2>2, TransferOutKeepsAccounts DEF SameAccounts
    <2> QED BY <2>1, <2>3 DEF OnTheWay
  <1> HIDE DEF sent
  <1>4. \A q \in Markets :
          Earns(paid, sent, q, Only(q, n, Base * boughtWei), Only(q, n, 0))
    BY <1>1, <1>3, TransferInEarns DEF OnTheWay
  <1>5. OnTheWay(paid) /\ paid.par = sent.par
    <2>1. Sound(paid) /\ paid.index = sent.index
      BY <1>4 DEF Earns
    <2>2. sent \in Ledgers
      BY <1>3 DEF OnTheWay, Sound
    <2>3. paid.par = sent.par
      BY <2>2 DEF TransferIn, Fail, Ledgers
    <2> QED BY <1>3, <2>1, <2>3 DEF OnTheWay
  <1>6. paid = Exchange(L, wrapper, m, soldWei, n, boughtWei)
    BY DEF Exchange, sent
  <1> HIDE DEF paid
  <1> QED BY <1>2, <1>3, <1>4, <1>5, <1>6 DEF sent

(***************************************************************************)
(* The two markets of an action differ.                                    *)
(***************************************************************************)
LEMMA TwoMarkets ==
  ASSUME Inductive, OperationIsTracked,
         NEW type \in {"Buy", "Sell", "Trade", "Liquidate", "Vaporize"},
         Executing(type)
  PROVE  /\ ~Idle
         /\ AccountOne \in Accounts
         /\ MarketOne \in Markets /\ MarketTwo \in Markets
         /\ MarketOne # MarketTwo
         /\ MarketOne \in DOMAIN cache /\ MarketTwo \in DOMAIN cache
         /\ Arg.amount \in AssetAmounts
         /\ OnTheWay(ledger)
         /\ CachedIndex(MarketOne) = ledger.index[MarketOne]
         /\ CachedIndex(MarketTwo) = ledger.index[MarketTwo]
  <1>1. /\ ~Idle /\ AccountOne \in Accounts
        /\ MarketOne \in DOMAIN cache /\ MarketTwo \in DOMAIN cache
        /\ Arg.amount \in AssetAmounts
    BY ActionIsVerified, MarketsOfArg, ArgAmount
  <1>2. MarketOne # MarketTwo
    <2>1. VerifyMarketLayout(request, pc) /\ Arg.actionType = type
      BY DEF Executing, Inductive, RequestIsVerified
    <2> QED BY <2>1 DEF VerifyMarketLayout, MarketLayout, MarketOne,
               MarketTwo, Arg
  <1> QED BY <1>1, <1>2, InductiveIsSound, CachedIndexIsCurrent DEF OnTheWay

LEMMA BuyTakesNothing ==
  ASSUME Inductive, OperationIsTracked, Buy
  PROVE  TakesNothing(ledger', ledger)
  <1>1. Executing("Buy") /\ Arg.otherAddress # DolomiteMarginAddress
    BY DEF Buy
  <1>2. PICK cost \in ExchangeCosts, received \in ExchangeCosts :
          LET paid == Exchange(ledger, Arg.otherAddress, MarketTwo, -cost,
                               MarketOne, received)
              bought == SetParFromDeltaWei(paid, AccountOne, MarketOne,
                                           CachedIndex(MarketOne), received)
          IN  Complete(SetParFromDeltaWei(bought, AccountOne, MarketTwo,
                                          CachedIndex(MarketTwo), -cost))
    BY DEF Buy
  <1> DEFINE m == MarketOne
             n == MarketTwo
             sent == TransferOut(ledger, n, Arg.otherAddress, -cost)
             paid == Exchange(ledger, Arg.otherAddress, n, -cost, m, received)
             bought == SetParFromDeltaWei(paid, AccountOne, m, CachedIndex(m),
                                          received)
             sold == SetParFromDeltaWei(bought, AccountOne, n, CachedIndex(n),
                                        -cost)
             e == -(Base * (-cost))
             f == -(Base * received)
  <1>3. /\ ~Idle /\ AccountOne \in Accounts
        /\ m \in Markets /\ n \in Markets /\ m # n
        /\ m \in DOMAIN cache /\ n \in DOMAIN cache
        /\ OnTheWay(ledger)
    BY <1>1, TwoMarkets
  <1>4. received \in Int /\ -cost \in Int
    BY ExchangeCostsAreInt
  <1>5. ledger' = sold
    BY <1>2 DEF Complete
  <1>6. e \in Int /\ f \in Int /\ -e = Base * (-cost) /\ -f = Base * received
    BY <1>4, BaseTimes
  <1>7. /\ OnTheWay(paid)
        /\ \A q \in Markets :
             /\ Earns(sent, ledger, q, Only(q, n, -e), Only(q, n, 0))
             /\ Earns(paid, sent, q, Only(q, m, -f), Only(q, m, 0))
    BY <1>1, <1>3, <1>4, <1>6, ExchangeEarns
  <1> HIDE DEF sent, paid, m, n
  <1>8. /\ OnTheWay(bought)
        /\ \A q \in Markets :
             Earns(bought, paid, q, Only(q, m, f),
                   Only(q, m, Slack(ledger.index[m])))
    BY <1>3, <1>4, <1>7, CachedDeltaWeiEarns
  <1> HIDE DEF bought
  <1>9. \A q \in Markets :
          Earns(sold, bought, q, Only(q, n, e),
                Only(q, n, Slack(ledger.index[n])))
    BY <1>3, <1>4, <1>8, CachedDeltaWeiEarns
  <1> HIDE DEF sold, e, f
  <1>10. Sound(ledger)
    BY InductiveIsSound
  <1> QED BY <1>3, <1>5, <1>6, <1>7, <1>8, <1>9, <1>10, SwapTakesNothing

LEMMA SellTakesNothing ==
  ASSUME Inductive, OperationIsTracked, Sell
  PROVE  TakesNothing(ledger', ledger)
  <1> DEFINE m == MarketOne
             n == MarketTwo
             new == AmountOf(AccountOne, m)
  <1>1. Executing("Sell") /\ Arg.otherAddress # DolomiteMarginAddress
    BY DEF Sell
  <1>2. PICK received \in ExchangeCosts :
          LET paid == Exchange(ledger, Arg.otherAddress, m, new.deltaWei,
                               n, received)
              sold == SetPar(paid, AccountOne, m, new.par)
          IN  Complete(SetParFromDeltaWei(sold, AccountOne, n,
                                          CachedIndex(n), received))
    BY DEF Sell
  <1> DEFINE sent == TransferOut(ledger, m, Arg.otherAddress, new.deltaWei)
             paid == Exchange(ledger, Arg.otherAddress, m, new.deltaWei,
                              n, received)
             sold == SetPar(paid, AccountOne, m, new.par)
             bought == SetParFromDeltaWei(sold, AccountOne, n, CachedIndex(n),
                                          received)
             e == -(Base * new.deltaWei)
             f == -(Base * received)
  <1>3. /\ ~Idle /\ AccountOne \in Accounts
        /\ m \in Markets /\ n \in Markets /\ m # n
        /\ m \in DOMAIN cache /\ n \in DOMAIN cache
        /\ Arg.amount \in AssetAmounts
        /\ OnTheWay(ledger)
        /\ CachedIndex(m) = ledger.index[m]
    BY <1>1, TwoMarkets
  <1>4. received \in Int /\ new.par \in Int /\ new.deltaWei \in Int
    BY <1>3, ExchangeCostsAreInt, AmountOfIsTyped
  <1>5. ledger' = bought
    BY <1>2 DEF Complete
  <1>6. IsFair(new, ledger.par[AccountOne][m], ledger.index[m])
    BY <1>3, AmountIsFair, InductiveIsSound DEF AmountOf
  <1> HIDE DEF new, m, n
  <1>7. e \in Int /\ f \in Int /\ -e = Base * new.deltaWei /\ -f = Base * received
    BY <1>4, BaseTimes
  <1> HIDE DEF e, f
  <1>8. /\ OnTheWay(paid) /\ paid.par = ledger.par
        /\ \A q \in Markets :
             /\ Earns(sent, ledger, q, Only(q, m, -e), Only(q, m, 0))
             /\ Earns(paid, sent, q, Only(q, n, -f), Only(q, n, 0))
    <2> DEFINE wei == new.deltaWei
    <2>1. wei \in Int /\ -e = Base * wei
      BY <1>4, <1>7
    <2> HIDE DEF wei
    <2>2. LET out == TransferOut(ledger, m, Arg.otherAddress, wei)
              in  == Exchange(ledger, Arg.otherAddress, m, wei, n, received)
          IN  /\ OnTheWay(in) /\ in.par = ledger.par
              /\ \A q \in Markets :
                   /\ Earns(out, ledger, q, Only(q, m, Base * wei), Only(q, m, 0))
                   /\ Earns(in, out, q, Only(q, n, Base * received), Only(q, n, 0))
      BY <1>1, <1>3, <1>4, <2>1, ExchangeEarns
    <2> QED BY <1>7, <2>1, <2>2 DEF wei
  <1> HIDE DEF sent, paid
  <1>9. /\ OnTheWay(sold)
        /\ \A q \in Markets :
             Earns(sold, paid, q, Only(q, m, e),
                   Only(q, m, Slack(ledger.index[m])))
    BY <1>3, <1>4, <1>6, <1>8, AskedParEarns DEF e
  <1> HIDE DEF sold
  <1>10. \A q \in Markets :
           Earns(bought, sold, q, Only(q, n, f),
                 Only(q, n, Slack(ledger.index[n])))
    BY <1>3, <1>4, <1>9, CachedDeltaWeiEarns DEF f
  <1> HIDE DEF bought
  <1>11. Sound(ledger)
    BY InductiveIsSound
  <1> QED BY <1>3, <1>5, <1>7, <1>8, <1>9, <1>10, <1>11, SwapTakesNothing

LEMMA MakerInputIsFair ==
  ASSUME Inductive, OperationIsTracked, Executing("Trade"),
         AccountTwo \in Accounts
  PROVE  IsFair(MakerInput, ledger.par[AccountTwo][MarketOne],
                ledger.index[MarketOne])
  <1> DEFINE takers == AmountOf(AccountOne, MarketOne)
             inverted == [denomination |-> "Wei", ref |-> "Delta",
                          value |-> -takers.deltaWei]
             makers == GetNewParAndDeltaWei(ledger, AccountTwo, MarketOne,
                                            CachedIndex(MarketOne), inverted)
             fair(x) == IsFair(x, ledger.par[AccountTwo][MarketOne],
                               ledger.index[MarketOne])
  <1>1. /\ AccountOne \in Accounts
        /\ MarketOne \in DOMAIN cache /\ MarketOne \in Markets
        /\ Arg.amount \in AssetAmounts
        /\ CachedIndex(MarketOne) = ledger.index[MarketOne]
        /\ Sound(ledger)
    BY TwoMarkets, InductiveIsSound
  <1>2. CASE Arg.calculateAmountWithMakerAccount
    <2>1. MakerInput = AmountOf(AccountTwo, MarketOne)
      BY <1>2 DEF MakerInput
    <2> QED BY <1>1, <2>1, AmountIsFair DEF AmountOf
  <1>3. CASE ~Arg.calculateAmountWithMakerAccount
    <2>1. MakerInput = [makers EXCEPT !.ok = @ /\ takers.ok]
      BY <1>3 DEF MakerInput
    <2>2. inverted \in AssetAmounts
      <3>1. takers.deltaWei \in Int /\ -takers.deltaWei \in Int
        BY <1>1, AmountOfIsTyped
      <3> HIDE DEF takers
      <3> QED BY <3>1 DEF AssetAmounts
    <2>3. fair(makers)
      <3> HIDE DEF inverted
      <3> QED BY <1>1, <2>2, AmountIsFair
    <2>4. /\ [makers EXCEPT !.ok = @ /\ takers.ok].par = makers.par
          /\ [makers EXCEPT !.ok = @ /\ takers.ok].deltaWei = makers.deltaWei
      BY DEF GetNewParAndDeltaWei
    <2>5. MakerInput.par = makers.par /\ MakerInput.deltaWei = makers.deltaWei
      BY <2>1, <2>4
    <2> HIDE DEF makers
    <2> QED BY <2>3, <2>5 DEF IsFair
  <1> QED BY <1>2, <1>3

LEMMA TradeTakesNothing ==
  ASSUME Inductive, OperationIsTracked, Trade
  PROVE  TakesNothing(ledger', ledger)
  <1> DEFINE m == MarketOne
             n == MarketTwo
             input == MakerInput
  <1>1. Executing("Trade")
    BY DEF Trade
  <1>2. PICK outputAmount \in TradeCosts :
          LET output == GetNewParAndDeltaWei(ledger, AccountTwo, n,
                                             CachedIndex(n), outputAmount)
              makerIn == SetPar(ledger, AccountTwo, m, input.par)
              maker == SetPar(makerIn, AccountTwo, n, output.par)
              takerIn == SetParFromDeltaWei(maker, AccountOne, m,
                                            CachedIndex(m), -input.deltaWei)
          IN  Complete(SetParFromDeltaWei(takerIn, AccountOne, n,
                                          CachedIndex(n), -output.deltaWei))
    BY DEF Trade
  <1> DEFINE output == GetNewParAndDeltaWei(ledger, AccountTwo, n,
                                            CachedIndex(n), outputAmount)
             makerIn == SetPar(ledger, AccountTwo, m, input.par)
             maker == SetPar(makerIn, AccountTwo, n, output.par)
             takerIn == SetParFromDeltaWei(maker, AccountOne, m,
                                           CachedIndex(m), -input.deltaWei)
             takerOut == SetParFromDeltaWei(takerIn, AccountOne, n,
                                            CachedIndex(n), -output.deltaWei)
             e == Base * input.deltaWei
             f == Base * output.deltaWei
  <1>3. /\ ~Idle /\ AccountOne \in Accounts
        /\ m \in Markets /\ n \in Markets /\ m # n
        /\ m \in DOMAIN cache /\ n \in DOMAIN cache
        /\ Arg.amount \in AssetAmounts
        /\ OnTheWay(ledger)
        /\ CachedIndex(n) = ledger.index[n]
        /\ CachedIndex(n) \in Indexes
        /\ Sound(ledger)
    BY <1>1, TwoMarkets, CachedMarket, InductiveIsSound
  <1>4. AccountTwo \in Accounts
    BY <1>1, ActionIsVerified DEF AccountLayout
  <1>5. ledger' = takerOut
    BY <1>2 DEF Complete
  <1>6. outputAmount \in AssetAmounts
    BY OperationAssumption
  <1>7. /\ output.par \in Int /\ output.deltaWei \in Int
        /\ IsFair(output, ledger.par[AccountTwo][n], ledger.index[n])
    BY <1>3, <1>4, <1>6, AmountIsTyped, AmountIsFair
  <1>8. /\ input.par \in Int /\ input.deltaWei \in Int
        /\ IsFair(input, ledger.par[AccountTwo][m], ledger.index[m])
    BY <1>1, <1>3, <1>4, MakerInputIsTyped, MakerInputIsFair
  <1> HIDE DEF input, output, m, n
  <1>9. /\ e \in Int /\ f \in Int
        /\ -input.deltaWei \in Int /\ -output.deltaWei \in Int
        /\ -(Base * (-input.deltaWei)) = e
        /\ -(Base * (-output.deltaWei)) = f
    BY <1>7, <1>8, BaseTimes
  <1>10. /\ OnTheWay(makerIn)
         /\ \A q \in Markets :
              Earns(makerIn, ledger, q, Only(q, m, -e),
                    Only(q, m, Slack(ledger.index[m])))
    BY <1>3, <1>4, <1>8, AskedParEarns
  <1>11. makerIn.par[AccountTwo][n] = ledger.par[AccountTwo][n]
    <2>1. Follows(makerIn, ledger, {AccountTwo}, {m})
      BY <1>3, <1>4, <1>8, SetParFollows
    <2> HIDE DEF makerIn
    <2> QED BY <1>3, <1>4, <2>1 DEF Follows, OnlyMoves
  <1> HIDE DEF makerIn
  <1>12. /\ OnTheWay(maker)
         /\ \A q \in Markets :
              Earns(maker, makerIn, q, Only(q, n, -f),
                    Only(q, n, Slack(ledger.index[n])))
    BY <1>3, <1>4, <1>7, <1>10, <1>11, AskedParEarns
  <1> HIDE DEF maker
  <1>13. /\ OnTheWay(takerIn)
         /\ \A q \in Markets :
              Earns(takerIn, maker, q, Only(q, m, e),
                    Only(q, m, Slack(ledger.index[m])))
    <2> HIDE DEF e
    <2> QED BY <1>3, <1>9, <1>12, CachedDeltaWeiEarns
  <1> HIDE DEF takerIn
  <1>14. \A q \in Markets :
           Earns(takerOut, takerIn, q, Only(q, n, f),
                 Only(q, n, Slack(ledger.index[n])))
    <2> HIDE DEF f
    <2> QED BY <1>3, <1>9, <1>13, CachedDeltaWeiEarns
  <1> HIDE DEF takerOut, e, f
  <1>15. /\ Slack(ledger.index[m]) \in {0, Slack(ledger.index[m])}
         /\ Slack(ledger.index[n]) \in {0, Slack(ledger.index[n])}
    OBVIOUS
  <1>16. \A q \in Markets :
           /\ Earns(makerIn, ledger, q, Only(q, m, -e),
                    Only(q, m, Slack(ledger.index[m])))
           /\ Earns(maker, makerIn, q, Only(q, n, -f),
                    Only(q, n, Slack(ledger.index[n])))
           /\ Earns(takerIn, maker, q, Only(q, m, e),
                    Only(q, m, Slack(ledger.index[m])))
           /\ Earns(takerOut, takerIn, q, Only(q, n, f),
                    Only(q, n, Slack(ledger.index[n])))
    BY <1>10, <1>12, <1>13, <1>14
  <1>17. e \in Int /\ f \in Int
    BY <1>9
  <1>18. TakesNothing(takerOut, ledger)
    BY <1>3, <1>15, <1>16, <1>17, SwapTakesNothing
  <1> QED BY <1>5, <1>18

LEMMA EmptyingIsFair ==
  ASSUME NEW par \in Int, NEW index \in Indexes
  PROVE  IsFair([par |-> 0, deltaWei |-> -ParToWei(par, index)], par, index)
  <1> DEFINE old == ParToWei(par, index)
             asked == [par |-> 0, deltaWei |-> -old]
  <1>1. old \in Int
    BY ParToWeiIsInt
  <1>2. ParToWei(0, index) = 0
    <2>1. ParToWei(0, index) \in Int
      BY ParToWeiIsInt
    <2> QED BY <2>1, ParToWeiKeepsSign
  <1>3. 2 * Worth(par, index) - 2 * Worth(0, index) + Slack(index)
          >= 2 * (Base * (-(ParToWei(0, index) - old)))
    BY ReadWeiIsNear
  <1> HIDE DEF old
  <1>4. ParToWei(0, index) - old = -old
    BY <1>1, <1>2
  <1>5. asked.par = 0 /\ asked.deltaWei = -old
    OBVIOUS
  <1>6. IsFair(asked, par, index)
    BY <1>3, <1>4, <1>5 DEF IsFair
  <1> QED BY <1>6 DEF old

(***************************************************************************)
(* The solid account takes over what the other writes of a liquidation or  *)
(* a vaporization have left it.                                            *)
(***************************************************************************)
LEMMA SettleEarns ==
  ASSUME Inductive, OperationIsTracked,
         NEW type \in {"Liquidate", "Vaporize"}, Executing(type),
         NEW L, OnTheWay(L),
         NEW amounts, amounts.owedWei \in Int, amounts.heldWei \in Int
  PROVE  \E M :
           /\ OnTheWay(M)
           /\ OnTheWay(SettleSolidAccount(L, amounts))
           /\ \A q \in Markets :
                /\ Earns(M, L, q, Only(q, MarketOne, Base * amounts.owedWei),
                         Only(q, MarketOne, Slack(ledger.index[MarketOne])))
                /\ Earns(SettleSolidAccount(L, amounts), M, q,
                         Only(q, MarketTwo, Base * amounts.heldWei),
                         Only(q, MarketTwo, Slack(ledger.index[MarketTwo])))
  <1> DEFINE m == MarketOne
             n == MarketTwo
             owed == SetParFromDeltaWei(L, AccountOne, m, CachedIndex(m),
                                        -amounts.owedWei)
             held == SetParFromDeltaWei(owed, AccountOne, n, CachedIndex(n),
                                        -amounts.heldWei)
             e == Base * amounts.owedWei
             f == Base * amounts.heldWei
  <1>1. /\ ~Idle /\ AccountOne \in Accounts
        /\ m \in DOMAIN cache /\ n \in DOMAIN cache
    BY TwoMarkets
  <1>2. /\ -amounts.owedWei \in Int /\ -amounts.heldWei \in Int
        /\ -(Base * (-amounts.owedWei)) = e
        /\ -(Base * (-amounts.heldWei)) = f
    BY BaseTimes
  <1>3. held = SettleSolidAccount(L, amounts)
    BY DEF SettleSolidAccount
  <1> HIDE DEF m, n, e, f
  <1>4. /\ OnTheWay(owed)
        /\ \A q \in Markets :
             Earns(owed, L, q, Only(q, m, e), Only(q, m, Slack(ledger.index[m])))
    BY <1>1, <1>2, CachedDeltaWeiEarns
  <1> HIDE DEF owed
  <1>5. /\ OnTheWay(held)
        /\ \A q \in Markets :
             Earns(held, owed, q, Only(q, n, f), Only(q, n, Slack(ledger.index[n])))
    BY <1>1, <1>2, <1>4, CachedDeltaWeiEarns
  <1> HIDE DEF held
  <1> QED BY <1>3, <1>4, <1>5 DEF m, n, e, f

LEMMA LiquidateTakesNothing ==
  ASSUME Inductive, OperationIsTracked, Liquidate
  PROVE  TakesNothing(ledger', ledger)
  <1> DEFINE m == MarketOne
             n == MarketTwo
             liquid == AccountTwo
             marked == SetStatus(ledger, liquid, "Liquid")
             maxHeldWei == GetWei(marked, liquid, n, CachedIndex(n))
             asked == DebtToRepay(marked)
             amounts == LiquidationAmounts(asked, maxHeldWei,
                                           OwedPriceAdjusted(liquid))
             emptied == SetPar(marked, liquid, n, 0)
             bounded == SetParFromDeltaWei(emptied, liquid, m, CachedIndex(m),
                                           amounts.owedWei)
             repaid == SetPar(marked, liquid, m, asked.par)
             unbounded == SetParFromDeltaWei(repaid, liquid, n, CachedIndex(n),
                                             amounts.heldWei)
             seized == IF amounts.bounded THEN bounded ELSE unbounded
             settled == SettleSolidAccount(seized, amounts)
             e == Base * amounts.owedWei
             f == Base * amounts.heldWei
  <1>1. Executing("Liquidate") /\ ledger' = settled
    BY DEF Liquidate, Complete
  <1>2. /\ ~Idle /\ liquid \in Accounts
        /\ m \in Markets /\ n \in Markets /\ m # n
        /\ m \in DOMAIN cache /\ n \in DOMAIN cache
        /\ Arg.amount \in AssetAmounts
        /\ OnTheWay(ledger)
        /\ CachedIndex(m) = ledger.index[m] /\ CachedIndex(m) \in Indexes
        /\ CachedIndex(n) = ledger.index[n] /\ CachedIndex(n) \in Indexes
        /\ OwedPriceAdjusted(liquid) \in Nat \ {0}
    BY <1>1, TwoMarkets, Parties
  <1>3. /\ OnTheWay(marked) /\ marked.par = ledger.par
        /\ \A q \in Markets : Earns(marked, ledger, q, 0, 0)
    <2>1. \A q \in Markets : Earns(marked, ledger, q, 0, 0)
      BY <1>2, SetStatusEarns DEF Statuses, OnTheWay
    <2>2. Sound(marked) /\ marked.index = ledger.index
      BY <1>2, <2>1 DEF Earns
    <2> QED BY <2>1, <2>2 DEF OnTheWay, SetStatus
  <1> HIDE DEF marked
  <1>4. asked.par \in Int /\ asked.deltaWei \in Int
    BY <1>2, <1>3, DebtToRepayIsTyped DEF OnTheWay
  <1>5. IsFair(asked, ledger.par[liquid][m], ledger.index[m])
    <2>1. CachedIndex(m) = marked.index[m] /\ Sound(marked)
      BY <1>2, <1>3 DEF OnTheWay
    <2>2. IsFair(asked, marked.par[liquid][m], marked.index[m])
      BY <1>2, <2>1, RepaymentIsFair DEF DebtToRepay
    <2> QED BY <1>3, <2>2 DEF OnTheWay
  <1>6. /\ ledger.par[liquid][n] \in Int
        /\ maxHeldWei = ParToWei(ledger.par[liquid][n], ledger.index[n])
        /\ maxHeldWei \in Int
    <2>1. ledger.par[liquid][n] \in Int
      BY <1>2, BalanceIsInt DEF OnTheWay, Sound
    <2> QED BY <1>2, <1>3, <2>1, ParToWeiIsInt DEF GetWei
  <1>7. IsFair([par |-> 0, deltaWei |-> -maxHeldWei],
               ledger.par[liquid][n], ledger.index[n])
    BY <1>2, <1>6, EmptyingIsFair
  <1> HIDE DEF asked, maxHeldWei, m, n, liquid
  <1>8. amounts.heldWei \in Int /\ amounts.owedWei \in Int
    BY <1>2, <1>4, <1>6, LiquidationAmountsAreTyped DEF n
  <1>9. /\ amounts.bounded => amounts.heldWei = -maxHeldWei
        /\ ~amounts.bounded => amounts.owedWei = asked.deltaWei
    BY DEF LiquidationAmounts
  <1> HIDE DEF amounts
  <1>10. e \in Int /\ f \in Int
    BY <1>8, BaseTimes
  <1>11. /\ Slack(ledger.index[m]) \in {0, Slack(ledger.index[m])}
         /\ Slack(ledger.index[n]) \in {0, Slack(ledger.index[n])}
         /\ marked.index = ledger.index /\ Sound(marked)
    BY <1>3 DEF OnTheWay
  <1>12. ASSUME amounts.bounded PROVE TakesNothing(settled, marked)
    <2> DEFINE all == [par |-> 0, deltaWei |-> -maxHeldWei]
    <2>1. /\ all.par = 0 /\ all.par \in Int
          /\ all.deltaWei = amounts.heldWei /\ all.deltaWei \in Int
      BY <1>8, <1>9, <1>12
    <2>2. IsFair(all, ledger.par[liquid][n], ledger.index[n])
      BY <1>7
    <2> HIDE DEF all
    <2>3. /\ OnTheWay(emptied)
          /\ \A q \in Markets :
               Earns(emptied, marked, q, Only(q, n, -f),
                     Only(q, n, Slack(ledger.index[n])))
      <3>1. marked.par[liquid][n] = ledger.par[liquid][n]
        BY <1>3
      <3>2. LET M == SetPar(marked, liquid, n, all.par)
            IN  /\ OnTheWay(M)
                /\ \A q \in Markets :
                     Earns(M, marked, q, Only(q, n, -(Base * all.deltaWei)),
                           Only(q, n, Slack(ledger.index[n])))
        BY <1>2, <1>3, <2>1, <2>2, <3>1, AskedParEarns
      <3> QED BY <2>1, <3>2
    <2> HIDE DEF emptied
    <2>4. /\ OnTheWay(bounded)
          /\ \A q \in Markets :
               Earns(bounded, emptied, q, Only(q, m, -e),
                     Only(q, m, Slack(ledger.index[m])))
      BY <1>2, <1>8, <2>3, CachedDeltaWeiEarns
    <2>5. seized = bounded
      BY <1>12
    <2> HIDE DEF bounded, seized, e, f
    <2>6. PICK M :
            \A q \in Markets :
              /\ Earns(M, seized, q, Only(q, m, e),
                       Only(q, m, Slack(ledger.index[m])))
              /\ Earns(settled, M, q, Only(q, n, f),
                       Only(q, n, Slack(ledger.index[n])))
      BY <1>1, <1>8, <2>4, <2>5, SettleEarns DEF m, n, e, f
    <2> HIDE DEF settled
    <2>7. \A q \in Markets :
            /\ Earns(emptied, marked, q, Only(q, n, -f),
                     Only(q, n, Slack(marked.index[n])))
            /\ Earns(bounded, emptied, q, Only(q, m, -e),
                     Only(q, m, Slack(marked.index[m])))
            /\ Earns(M, bounded, q, Only(q, m, e),
                     Only(q, m, Slack(marked.index[m])))
            /\ Earns(settled, M, q, Only(q, n, f),
                     Only(q, n, Slack(marked.index[n])))
      BY <1>11, <2>3, <2>4, <2>5, <2>6
    <2> QED BY <1>2, <1>10, <1>11, <2>7, SwapTakesNothing
  <1>13. ASSUME ~amounts.bounded PROVE TakesNothing(settled, marked)
    <2>1. /\ OnTheWay(repaid)
          /\ \A q \in Markets :
               Earns(repaid, marked, q, Only(q, m, -e),
                     Only(q, m, Slack(ledger.index[m])))
      BY <1>2, <1>3, <1>4, <1>5, <1>9, <1>13, AskedParEarns
    <2> HIDE DEF repaid
    <2>2. /\ OnTheWay(unbounded)
          /\ \A q \in Markets :
               Earns(unbounded, repaid, q, Only(q, n, -f),
                     Only(q, n, Slack(ledger.index[n])))
      BY <1>2, <1>8, <2>1, CachedDeltaWeiEarns
    <2>3. seized = unbounded
      BY <1>13
    <2> HIDE DEF unbounded, seized, e, f
    <2>4. PICK M :
            \A q \in Markets :
              /\ Earns(M, seized, q, Only(q, m, e),
                       Only(q, m, Slack(ledger.index[m])))
              /\ Earns(settled, M, q, Only(q, n, f),
                       Only(q, n, Slack(ledger.index[n])))
      BY <1>1, <1>8, <2>2, <2>3, SettleEarns DEF m, n, e, f
    <2> HIDE DEF settled
    <2>5. \A q \in Markets :
            /\ Earns(repaid, marked, q, Only(q, m, -e),
                     Only(q, m, Slack(marked.index[m])))
            /\ Earns(unbounded, repaid, q, Only(q, n, -f),
                     Only(q, n, Slack(marked.index[n])))
            /\ Earns(M, unbounded, q, Only(q, m, e),
                     Only(q, m, Slack(marked.index[m])))
            /\ Earns(settled, M, q, Only(q, n, f),
                     Only(q, n, Slack(marked.index[n])))
      BY <1>11, <2>1, <2>2, <2>3, <2>4
    <2> QED BY <1>2, <1>10, <1>11, <2>5, SwapTakesNothing
  <1>14. TakesNothing(settled, marked)
    BY <1>12, <1>13
  <1> HIDE DEF settled
  <1>15. ASSUME NEW q \in Markets
         PROVE  Earns(settled, ledger, q, 0, 2 * Slack(ledger.index[q]))
    <2>1. Earns(settled, marked, q, 0, 2 * Slack(ledger.index[q]))
      BY <1>11, <1>14 DEF TakesNothing
    <2>2. Earns(marked, ledger, q, 0, 0)
      BY <1>3
    <2>3. Sound(ledger) /\ 2 * Slack(ledger.index[q]) \in Int
      BY <1>2, SlackOfMarket DEF OnTheWay
    <2>4. 0 + 2 * Slack(ledger.index[q]) <= 2 * Slack(ledger.index[q])
      BY <2>3
    <2> QED BY <2>1, <2>2, <2>3, <2>4, TwoBalance
  <1> QED BY <1>1, <1>15 DEF TakesNothing

-----------------------------------------------------------------------------
(* What no step of an operation but a vaporization takes                   *)

(***************************************************************************)
(* In Wei, the roundings of an action are those of the two balances it may *)
(* write of a market and of the market's totals, before and after.         *)
(***************************************************************************)
LEMMA ExcessAfter ==
  ASSUME NEW L, Sound(L), NEW M, M.ok, NEW q \in Markets,
         Earns(M, L, q, 0, 2 * Slack(L.index[q]))
  PROVE  GetNumExcessTokens(M, q) + RoundingLoss(L.index[q])
           >= GetNumExcessTokens(L, q)
  <1> DEFINE index == L.index[q]
             k == index.borrow \div Base
             before == GetNumExcessTokens(L, q)
             after == GetNumExcessTokens(M, q)
             lost == before - after
  <1>1. Sound(M) /\ M.index = L.index
    BY DEF Earns
  <1>2. /\ index.borrow \in Nat /\ Base \in Nat \ {0}
        /\ before \in Int /\ after \in Int /\ lost \in Int
        /\ Funds(L, q) \in Int /\ Funds(M, q) \in Int
    BY <1>1, MarketIsTyped, BaseIsPositive, ExcessIsInt, FundsAreInt
  <1>3. Funds(M, q) + Slack(index) >= Funds(L, q)
    <2>1. 2 * Funds(M, q) + 2 * Slack(index) >= 2 * Funds(L, q) + 2 * 0
      BY DEF Earns
    <2>2. Slack(index) \in Nat
      BY SlackOfMarket
    <2> QED BY <1>2, <2>1, <2>2
  <1>4. /\ Base * before - Funds(L, q) <= Base
        /\ -Base <= Base * after - Funds(M, q)
        /\ NoInterestYet(index) => /\ Base * before - Funds(L, q) = 0
                                   /\ Base * after - Funds(M, q) = 0
    BY <1>1, ExcessIsNear
  <1>5. k \in Nat /\ index.borrow < (k + 1) * Base
    <2>1. /\ k \in Nat /\ index.borrow % Base \in 0 .. (Base - 1)
          /\ index.borrow = k * Base + (index.borrow % Base)
      BY <1>2, DivMod
    <2> HIDE DEF k
    <2>2. (k + 1) * Base = k * Base + Base /\ k * Base \in Int
      BY <1>2, <2>1
    <2> QED BY <1>2, <2>1, <2>2
  <1>6. index.borrow \in Nat
    BY <1>2
  <1> HIDE DEF index, k, before, after
  <1> DEFINE bb == Base * before
             ba == Base * after
             lb == lost * Base
             fl == Funds(L, q)
             fm == Funds(M, q)
             kb == (k + 1) * Base
             lim == (k + 4) * Base
  <1>7. /\ bb \in Int /\ ba \in Int /\ lb \in Int /\ lb = bb - ba
        /\ fl \in Int /\ fm \in Int
        /\ kb \in Int /\ lim = kb + 3 * Base
    BY <1>2, <1>5
  <1>8. /\ bb - fl <= Base /\ -Base <= ba - fm
        /\ NoInterestYet(index) => bb - fl = 0 /\ ba - fm = 0
        /\ fm + Slack(index) >= fl
        /\ index.borrow < kb
    BY <1>3, <1>4, <1>5
  <1>9. CASE NoInterestYet(index)
    <2>1. Slack(index) = 0 /\ RoundingLoss(index) = 0
      BY <1>9 DEF Slack, RoundingLoss
    <2>2. lb < 1 * Base
      <3> HIDE DEF bb, ba, lb, fl, fm
      <3> QED BY <1>2, <1>7, <1>8, <1>9, <2>1
    <2>3. lost < 1
      BY <1>2, <2>2, CancelFactor
    <2> QED BY <1>2, <2>1, <2>3 DEF index, before, after
  <1>10. CASE ~NoInterestYet(index)
    <2>1. Slack(index) = index.borrow + Base /\ RoundingLoss(index) = 3 + k
      BY <1>10 DEF Slack, RoundingLoss, k
    <2>2. lb < lim
      <3> HIDE DEF bb, ba, lb, fl, fm, kb, lim
      <3> QED BY <1>2, <1>6, <1>7, <1>8, <2>1
    <2>3. k + 4 \in Int
      BY <1>5
    <2>4. lost < k + 4
      BY <1>2, <2>2, <2>3, CancelFactor
    <2>5. before - after <= 3 + k
      BY <1>2, <1>5, <2>4
    <2> QED BY <1>2, <1>5, <2>1, <2>5 DEF index, before, after
  <1> QED BY <1>9, <1>10 DEF index

LEMMA ActionTakesNothing ==
  ASSUME MarginActsForNobody, Inductive, OperationIsTracked,
         PlainAction \/ Liquidate
  PROVE  TakesNothing(ledger', ledger) /\ ledger'.ok
  <1>1. TakesNothing(ledger', ledger)
    <2>1. CASE Call
      <3>1. ledger' = ledger /\ Sound(ledger)
        BY <2>1, InductiveIsSound DEF Call, Complete
      <3>2. ASSUME NEW q \in Markets
            PROVE  Earns(ledger, ledger, q, 0, 2 * Slack(ledger.index[q]))
        <4>1. Earns(ledger, ledger, q, 0, 0)
          BY <3>1, EarnsNothingItself
        <4>2. Slack(ledger.index[q]) \in Nat
          BY <3>1, SlackOfMarket
        <4> QED BY <3>1, <4>1, <4>2, EarnsEnough
      <3> QED BY <3>1, <3>2 DEF TakesNothing
    <2> QED BY <2>1, DepositTakesNothing, WithdrawTakesNothing,
               TransferTakesNothing, BuyTakesNothing, SellTakesNothing,
               TradeTakesNothing, LiquidateTakesNothing DEF PlainAction
  <1>2. ledger'.ok
    BY DEF PlainAction, Deposit, Withdraw, Transfer, Buy, Sell, Trade, Call,
       Liquidate, Complete
  <1> QED BY <1>1, <1>2

(***************************************************************************)
(* Outside operations only the owner takes tokens out, and no more than    *)
(* the excess; while an operation runs nobody does.                        *)
(***************************************************************************)
SameFunds(M, L, m) ==
  /\ M.balanceOf[m] >= L.balanceOf[m]
  /\ M.totalPar[m] = L.totalPar[m]
  /\ M.index[m] = L.index[m]

LEMMA LedgerExcessIsInt ==
  ASSUME NEW L \in Ledgers, NEW m \in Markets
  PROVE  /\ GetNumExcessTokens(L, m) \in Int
         /\ L.balanceOf[m] \in Nat
         /\ SupplyWei(L.totalPar[m], L.index[m]) \in Nat
         /\ BorrowWei(L.totalPar[m], L.index[m]) \in Nat
  <1>1. /\ L.totalPar[m] \in [borrow : Nat, supply : Nat]
        /\ L.index[m] \in Indexes
        /\ L.balanceOf[m] \in Nat
    BY MathAssumption, StorageAssumption DEF Ledgers
  <1>2. /\ SupplyWei(L.totalPar[m], L.index[m]) \in Nat
        /\ BorrowWei(L.totalPar[m], L.index[m]) \in Nat
    BY <1>1, TotalsAreNat
  <1> QED BY <1>1, <1>2 DEF GetNumExcessTokens

LEMMA SameFundsSameExcess ==
  ASSUME NEW L \in Ledgers, NEW M \in Ledgers, NEW m \in Markets,
         SameFunds(M, L, m)
  PROVE  GetNumExcessTokens(M, m) >= GetNumExcessTokens(L, m)
  <1>1. /\ L.balanceOf[m] \in Nat /\ M.balanceOf[m] \in Nat
        /\ SupplyWei(L.totalPar[m], L.index[m]) \in Nat
        /\ BorrowWei(L.totalPar[m], L.index[m]) \in Nat
    BY LedgerExcessIsInt
  <1> QED BY <1>1 DEF GetNumExcessTokens, SameFunds

LEMMA OwnerLeavesEnough ==
  ASSUME Inductive, NEW m \in Markets, NEW recipient,
         OwnerWithdrawExcessTokens(m, recipient)
  PROVE  /\ GetNumExcessTokens(ledger', m) >= 0
         /\ \A q \in Markets \ {m} : SameFunds(ledger', ledger, q)
  <1> DEFINE excess == GetNumExcessTokens(ledger, m)
             held == ledger.balanceOf[m]
             paid == IF excess > held THEN held ELSE excess
             M == TransferOut(ledger, m, recipient, -paid)
  <1>1. excess >= 0 /\ ledger' = M
    BY DEF OwnerWithdrawExcessTokens
  <1>2. Sound(ledger) /\ excess \in Int /\ held \in Nat
    BY InductiveIsSound, ExcessIsInt, MarketIsTyped
  <1>3. paid \in Nat /\ paid <= excess /\ paid <= held
    BY <1>1, <1>2
  <1> HIDE DEF excess, held, paid
  <1>4. M = ledger \/ M = [ledger EXCEPT !.balanceOf[m] = @ + (-paid)]
    BY <1>2, <1>3 DEF TransferOut, held
  <1>5. CASE M = ledger
    <2>1. \A q \in Markets : ledger.balanceOf[q] >= ledger.balanceOf[q]
      BY <1>2, MarketIsTyped
    <2> HIDE DEF M
    <2> QED BY <1>1, <1>5, <2>1 DEF SameFunds, excess
  <1>6. CASE M = [ledger EXCEPT !.balanceOf[m] = @ + (-paid)]
    <2> HIDE DEF M
    <2>1. /\ M.totalPar = ledger.totalPar /\ M.index = ledger.index
          /\ M.balanceOf[m] = held - paid
          /\ \A q \in Markets \ {m} : M.balanceOf[q] = ledger.balanceOf[q]
      BY <1>2, <1>3, <1>6 DEF Sound, Ledgers, held
    <2>2. GetNumExcessTokens(M, m) = excess - paid
      <3>1. /\ ledger.totalPar[m] \in [borrow : Nat, supply : Nat]
            /\ ledger.index[m] \in Indexes
        BY <1>2, MathAssumption, StorageAssumption DEF Sound, Ledgers
      <3>2. /\ SupplyWei(ledger.totalPar[m], ledger.index[m]) \in Nat
            /\ BorrowWei(ledger.totalPar[m], ledger.index[m]) \in Nat
        BY <3>1, TotalsAreNat
      <3>3. excess = held + BorrowWei(ledger.totalPar[m], ledger.index[m])
                          - SupplyWei(ledger.totalPar[m], ledger.index[m])
        BY DEF GetNumExcessTokens, excess, held
      <3> QED BY <1>2, <1>3, <2>1, <3>2, <3>3 DEF GetNumExcessTokens
    <2>3. \A q \in Markets \ {m} : SameFunds(M, ledger, q)
      <3>1. \A q \in Markets : ledger.balanceOf[q] >= ledger.balanceOf[q]
        BY <1>2, MarketIsTyped
      <3> QED BY <2>1, <3>1 DEF SameFunds
    <2> QED BY <1>1, <1>2, <1>3, <2>2, <2>3 DEF M
  <1> QED BY <1>4, <1>5, <1>6

LEMMA QuietStepTakesNothing ==
  ASSUME Inductive, [Next]_vars, ~Operate
  PROVE  \A m \in listedMarkets :
           \/ SameFunds(ledger', ledger, m)
           \/ Idle /\ Idle' /\ GetNumExcessTokens(ledger', m) >= 0
  <1>1. /\ ledger \in Ledgers /\ Sound(ledger)
        /\ listedMarkets \subseteq Markets
        /\ \A m \in Markets : ledger.balanceOf[m] >= ledger.balanceOf[m]
    BY MarketIsTyped DEF Inductive, Sound, TypeOK, StorageTypeOK
  <1>2. CASE ledger' = ledger
    BY <1>1, <1>2 DEF SameFunds
  <1>3. CASE OwnerMarketFunction
    <2>1. PICK m \in Markets :
            \/ \E recipient \in Recipients :
                 \/ OwnerWithdrawExcessTokens(m, recipient)
                 \/ OwnerWithdrawUnsupportedTokens(m, recipient)
            \/ \E p \in MarketChoices, answer \in Prices[m] :
                 OwnerAddMarket(m, p, answer)
            \/ \E p : SetMarketParams(m, p)
            \/ \E answer \in Prices[m] : OwnerSetPriceOracle(m, answer)
      BY <1>3 DEF OwnerMarketFunction, OwnerSetIsClosing,
         OwnerSetMarginPremium, OwnerSetLiquidationSpreadPremium,
         OwnerSetMaxSupplyWei, OwnerSetMaxBorrowWei,
         OwnerSetEarningsRateOverride
    <2>2. ASSUME NEW recipient, OwnerWithdrawExcessTokens(m, recipient)
          PROVE  \A q \in listedMarkets :
                   \/ SameFunds(ledger', ledger, q)
                   \/ Idle /\ Idle' /\ GetNumExcessTokens(ledger', q) >= 0
      <3>1. Idle /\ Idle'
        BY <2>2 DEF OwnerWithdrawExcessTokens, operation, Idle
      <3> QED BY <1>1, <2>2, <3>1, OwnerLeavesEnough
    <2>3. ASSUME NEW recipient, OwnerWithdrawUnsupportedTokens(m, recipient)
          PROVE  \A q \in listedMarkets : SameFunds(ledger', ledger, q)
      <3>1. /\ m \notin listedMarkets
            /\ ledger' = TransferOut(ledger, m, recipient, -ledger.balanceOf[m])
        BY <2>3 DEF OwnerWithdrawUnsupportedTokens
      <3>2. \A q \in listedMarkets :
              /\ ledger'.balanceOf[q] = ledger.balanceOf[q]
              /\ ledger'.totalPar[q] = ledger.totalPar[q]
              /\ ledger'.index[q] = ledger.index[q]
        BY <1>1, <3>1 DEF TransferOut, Fail, Ledgers
      <3> QED BY <1>1, <3>2 DEF SameFunds
    <2>4. ASSUME NEW p, NEW answer, OwnerAddMarket(m, p, answer)
          PROVE  \A q \in listedMarkets : SameFunds(ledger', ledger, q)
      <3>1. /\ m \notin listedMarkets
            /\ ledger' = [ledger EXCEPT !.index[m] = NewIndex(now)]
        BY <2>4 DEF OwnerAddMarket
      <3>2. \A q \in listedMarkets :
              /\ ledger'.balanceOf[q] = ledger.balanceOf[q]
              /\ ledger'.totalPar[q] = ledger.totalPar[q]
              /\ ledger'.index[q] = ledger.index[q]
        BY <1>1, <3>1 DEF Ledgers
      <3> QED BY <1>1, <3>2 DEF SameFunds
    <2>5. ASSUME NEW p, SetMarketParams(m, p)
          PROVE  ledger' = ledger
      BY <2>5 DEF SetMarketParams
    <2>6. ASSUME NEW answer, OwnerSetPriceOracle(m, answer)
          PROVE  ledger' = ledger
      BY <2>6 DEF OwnerSetPriceOracle
    <2> QED BY <1>2, <2>1, <2>2, <2>3, <2>4, <2>5, <2>6
  <1>4. CASE OwnerRiskFunction
    <2>1. \/ \E p : SetRiskParams(p)
          \/ \E answer : OwnerSetOracleSentinel(answer)
      BY <1>4 DEF OwnerRiskFunction, OwnerSetMarginRatio,
         OwnerSetLiquidationSpread, OwnerSetEarningsRate,
         OwnerSetMinBorrowedValue,
         OwnerSetAccountMaxNumberOfMarketsWithBalances,
         OwnerSetAccountRiskOverride, OwnerSetDefaultAccountRiskOverride
    <2> QED BY <1>2, <2>1 DEF SetRiskParams, OwnerSetOracleSentinel
  <1>5. CASE OwnerPermissionFunction \/ Permission
    BY <1>2, <1>5 DEF OwnerPermissionFunction, OwnerSetGlobalOperator,
       OwnerSetAutoTraderSpecial, Permission, SetOperators
  <1>6. CASE World
    <2>1. ASSUME NEW m \in Markets, NEW wei \in Donations, Donate(m, wei)
          PROVE  \A q \in listedMarkets : SameFunds(ledger', ledger, q)
      <3>1. /\ ledger' = [ledger EXCEPT !.balanceOf[m] = @ + wei]
            /\ wei \in Nat /\ ledger.balanceOf[m] \in Nat
        BY <1>1, <2>1, WorldAssumption, MarketIsTyped DEF Donate
      <3>2. \A q \in listedMarkets :
              /\ \/ ledger'.balanceOf[q] = ledger.balanceOf[q]
                 \/ /\ q = m
                    /\ ledger'.balanceOf[m] = ledger.balanceOf[m] + wei
              /\ ledger'.totalPar[q] = ledger.totalPar[q]
              /\ ledger'.index[q] = ledger.index[q]
        BY <1>1, <3>1 DEF Ledgers
      <3>3. ledger.balanceOf[m] + wei >= ledger.balanceOf[m]
        BY <3>1
      <3> QED BY <1>1, <3>2, <3>3 DEF SameFunds
    <2> QED BY <1>2, <1>6, <2>1 DEF World, PriceMoves, SentinelAnswers,
               TimePasses
  <1>7. CASE UNCHANGED vars
    BY <1>2, <1>7 DEF vars
  <1> QED BY <1>3, <1>4, <1>5, <1>6, <1>7 DEF Next

LEMMA LedgersAreTyped ==
  ASSUME Inductive, Inductive'
  PROVE  /\ ledger \in Ledgers /\ ledger' \in Ledgers
         /\ listedMarkets \subseteq Markets
  BY DEF Inductive, TypeOK, StorageTypeOK

LEMMA RoundingLossIsNat ==
  ASSUME NEW index \in Indexes
  PROVE  RoundingLoss(index) \in Nat
  <1>1. index.borrow \in Nat /\ Base \in Nat \ {0}
    BY IndexFields, BaseIsPositive
  <1>2. index.borrow \div Base \in Nat
    BY <1>1, DivMod
  <1> QED BY <1>2 DEF RoundingLoss

(***************************************************************************)
(* Preprocessing moves no tokens and no balances; in a market whose index  *)
(* it leaves alone, or has just listed again at its start, nothing else    *)
(* changes.                                                                *)
(***************************************************************************)
LEMMA BeginMovesNothing ==
  ASSUME Inductive, NEW r \in Requests, Begin(r), NEW m \in Markets
  PROVE  /\ ledger'.balanceOf[m] = ledger.balanceOf[m]
         /\ ledger'.totalPar[m] = ledger.totalPar[m]
         /\ ledger'.index[m].borrow >= ledger.index[m].borrow
         /\ ledger'.index[m].supply >= ledger.index[m].supply
  <1> DEFINE markets == OperationMarkets(r)
  <1>1. PICK rates \in [markets -> InterestRates] :
          /\ \A q \in markets :
               ~IndexIsCurrent(q) =>
                 NewIndexIsValid(ledger.index[q], CappedRate(rates[q]),
                                 ledger.totalPar[q], EarningsRate(q), now)
          /\ ledger' = UpdateIndexes(ledger, markets, rates)
    BY DEF Begin
  <1>2. markets \in SUBSET Markets
    BY DEF Begin, Inductive, TypeOK, StorageTypeOK
  <1> HIDE DEF markets
  <1>3. \A q \in Markets :
          /\ ledger'.index[q].borrow >= ledger.index[q].borrow
          /\ ledger'.index[q].supply >= ledger.index[q].supply
    BY <1>1, <1>2, UpdatedIndexesAreSound
  <1>4. ledger'.balanceOf = ledger.balanceOf /\ ledger'.totalPar = ledger.totalPar
    BY <1>1 DEF UpdateIndexes, Inductive, Sound, Ledgers
  <1> QED BY <1>3, <1>4

(***************************************************************************)
(* Excess tokens go only to the owner and to debts that are vaporized.     *)
(***************************************************************************)
LEMMA StepTakesNothing ==
  ASSUME MarginActsForNobody, Inductive, OperationIsTracked, [Next]_vars,
         NEW m \in listedMarkets,
         ~OperationEnds, ~(~Idle /\ Executing("Vaporize")),
         ledger'.index[m] = ledger.index[m],
         ~(Idle /\ Idle' /\ GetNumExcessTokens(ledger', m) >= 0)
  PROVE  GetNumExcessTokens(ledger', m) + RoundingLoss(ledger.index[m])
           >= GetNumExcessTokens(ledger, m)
  <1>1. /\ ledger \in Ledgers /\ ledger' \in Ledgers /\ Sound(ledger)
        /\ m \in Markets
    BY NextKeeps, InductiveIsSound, LedgersAreTyped DEF KeptAndRisen
  <1>2. /\ GetNumExcessTokens(ledger', m) \in Int
        /\ GetNumExcessTokens(ledger, m) \in Int
        /\ RoundingLoss(ledger.index[m]) \in Nat
    BY <1>1, LedgerExcessIsInt, MarketIsTyped, RoundingLossIsNat
  <1>3. ASSUME SameFunds(ledger', ledger, m)
        PROVE  GetNumExcessTokens(ledger', m) + RoundingLoss(ledger.index[m])
                 >= GetNumExcessTokens(ledger, m)
    BY <1>1, <1>2, <1>3, SameFundsSameExcess
  <1>4. CASE ~Operate
    BY <1>3, <1>4, QuietStepTakesNothing
  <1>5. CASE \E r \in Requests : Begin(r)
    <2>1. /\ ledger'.balanceOf[m] = ledger.balanceOf[m]
          /\ ledger'.totalPar[m] = ledger.totalPar[m]
      BY <1>1, <1>5, BeginMovesNothing
    <2>2. ledger'.balanceOf[m] >= ledger.balanceOf[m]
      BY <1>1, <2>1, MarketIsTyped
    <2> QED BY <1>3, <2>1, <2>2 DEF SameFunds
  <1>6. CASE PlainAction \/ Liquidate
    <2>1. TakesNothing(ledger', ledger) /\ ledger'.ok
      BY <1>6, ActionTakesNothing
    <2>2. Earns(ledger', ledger, m, 0, 2 * Slack(ledger.index[m]))
      BY <1>1, <2>1 DEF TakesNothing
    <2> QED BY <1>1, <2>1, <2>2, ExcessAfter
  <1>7. CASE Vaporize
    BY <1>7, VaporizeMoves, ActionGoesOn
  <1>8. CASE Commit \/ Revert
    BY <1>8, EndEnds
  <1> QED BY <1>4, <1>5, <1>6, <1>7, <1>8 DEF Operate, PlainAction

(***************************************************************************)
(* No operation takes a market's excess tokens but by vaporizing, whatever *)
(* amounts, prices and indexes it meets: tokens and balances move by the   *)
(* same amounts, but for the rounding of two balances and of the totals.   *)
(***************************************************************************)
THEOREM ExcessStays ==
  ASSUME MarginActsForNobody
  PROVE  Spec => ExcessIsKept
  <1> DEFINE NothingTaken ==
        \A m \in listedMarkets :
          GetNumExcessTokens(ledger', m) + RoundingLoss(ledger.index[m])
              < GetNumExcessTokens(ledger, m)
            => \/ Idle /\ Idle' /\ GetNumExcessTokens(ledger', m) >= 0
               \/ OperationEnds
               \/ ~Idle /\ Executing("Vaporize")
               \/ ledger'.index[m] # ledger.index[m]
  <1>1. ASSUME Inductive, OperationIsTracked, [Next]_vars
        PROVE  NothingTaken
    <2> SUFFICES ASSUME NEW m \in listedMarkets,
                        ~(Idle /\ Idle' /\ GetNumExcessTokens(ledger', m) >= 0),
                        ~OperationEnds, ~(~Idle /\ Executing("Vaporize")),
                        ledger'.index[m] = ledger.index[m]
                 PROVE  ~(GetNumExcessTokens(ledger', m)
                            + RoundingLoss(ledger.index[m])
                              < GetNumExcessTokens(ledger, m))
      OBVIOUS
    <2>1. GetNumExcessTokens(ledger', m) + RoundingLoss(ledger.index[m])
            >= GetNumExcessTokens(ledger, m)
      BY <1>1, StepTakesNothing
    <2>2. /\ ledger \in Ledgers /\ ledger' \in Ledgers /\ m \in Markets
          /\ Sound(ledger)
      BY <1>1, NextKeeps, InductiveIsSound, LedgersAreTyped DEF KeptAndRisen
    <2>3. /\ GetNumExcessTokens(ledger', m) \in Int
          /\ GetNumExcessTokens(ledger, m) \in Int
          /\ RoundingLoss(ledger.index[m]) \in Nat
      BY <2>2, LedgerExcessIsInt, MarketIsTyped, RoundingLossIsNat
    <2> QED BY <2>1, <2>3
  <1>2. Inductive /\ OperationIsTracked /\ [Next]_vars => [NothingTaken]_vars
    BY <1>1
  <1> QED BY InductiveInvariant, OperationsAreTracked, <1>2, PTL
          DEF Spec, ExcessIsKept

-----------------------------------------------------------------------------
(* Solvency.  Without interest nothing is rounded, so that each write      *)
(* changes the excess tokens by what it earns.                             *)

LEMMA FlatEarns ==
  ASSUME NEW L, OnTheWay(L), NEW M, NEW q \in Markets, NEW m \in Markets,
         NEW wei \in Int, NoInterestYet(ledger.index[q]), M.ok,
         Earns(M, L, q, Only(q, m, Base * wei),
               Only(q, m, Slack(ledger.index[m])))
  PROVE  /\ OnTheWay(M) /\ L.ok
         /\ GetNumExcessTokens(L, q) \in Int /\ GetNumExcessTokens(M, q) \in Int
         /\ GetNumExcessTokens(M, q) >= GetNumExcessTokens(L, q) + Only(q, m, wei)
  <1> DEFINE before == GetNumExcessTokens(L, q)
             after == GetNumExcessTokens(M, q)
             w == Only(q, m, wei)
  <1>1. OnTheWay(M) /\ L.ok /\ Sound(L) /\ Sound(M) /\ M.index = L.index
        /\ NoInterestYet(L.index[q])
    BY DEF Earns, OnTheWay
  <1>2. Only(q, m, Slack(ledger.index[m])) = 0
    BY DEF Only, Slack
  <1>3. w \in Int /\ Only(q, m, Base * wei) = Base * w
    BY BaseIsPositive DEF Only
  <1>4. /\ Base * before = Funds(L, q) /\ Base * after = Funds(M, q)
        /\ before \in Int /\ after \in Int
        /\ Funds(L, q) \in Int /\ Funds(M, q) \in Int
    <2>1. /\ Base * before - Funds(L, q) = 0
          /\ Base * after - Funds(M, q) = 0
      BY <1>1, ExcessIsNear
    <2>2. /\ before \in Int /\ after \in Int
          /\ Funds(L, q) \in Int /\ Funds(M, q) \in Int
      BY <1>1, ExcessIsInt, FundsAreInt
    <2>3. Base * before \in Int /\ Base * after \in Int
      BY <2>2, BaseTimes
    <2> QED BY <2>1, <2>2, <2>3
  <1>5. 2 * Funds(M, q) + 0 >= 2 * Funds(L, q) + 2 * (Base * w)
    BY <1>2, <1>3 DEF Earns
  <1> HIDE DEF before, after, w
  <1>6. (before + w) * Base <= after * Base
    <2>1. /\ (before + w) * Base = Base * before + Base * w
          /\ after * Base = Base * after
          /\ Base * w \in Int
      BY <1>3, <1>4, BaseIsPositive
    <2>2. Funds(L, q) + Base * w <= Funds(M, q)
      BY <1>4, <1>5, <2>1
    <2> QED BY <1>4, <2>1, <2>2
  <1>7. (before + w) * Base < (after + 1) * Base
    BY <1>3, <1>4, <1>6, BaseIsPositive
  <1>8. before + w < after + 1
    BY <1>3, <1>4, <1>7, BaseIsPositive, CancelFactor
  <1>9. after >= before + w
    BY <1>3, <1>4, <1>8
  <1> QED BY <1>1, <1>4, <1>9 DEF before, after, w

(***************************************************************************)
(* The excess tokens repay a debt in full only if there are as many, and   *)
(* all of them otherwise.                                                  *)
(***************************************************************************)
CanPay(L, q) == NoInterestYet(L.index[q]) => GetNumExcessTokens(L, q) >= 0

LEMMA RefundLeavesEnough ==
  ASSUME Inductive, OperationIsTracked, ~Idle, NEW L, OnTheWay(L),
         NEW a \in Accounts, NEW m \in DOMAIN cache, L.par[a][m] <= 0,
         NEW q \in Markets, CanPay(L, q)
  PROVE  LET M == VaporizeUsingExcess(L, a, m)
         IN  OnTheWay(M) /\ (M.ok => L.ok /\ CanPay(M, q))
  <1> DEFINE M == VaporizeUsingExcess(L, a, m)
             excess == GetNumExcessTokens(L, m)
             index == ledger.index[m]
             wei == ParToWei(L.par[a][m], index)
  <1>1. /\ m \in Markets /\ CachedIndex(m) = index /\ L.index[m] = index
        /\ index \in Indexes
        /\ L.par[a][m] \in Int
        /\ GetWei(L, a, m, CachedIndex(m)) = wei
    BY CachedIndexIsCurrent, MarketIsTyped, BalanceIsInt
       DEF OnTheWay, Sound, GetWei
  <1>2. wei \in Int /\ wei <= 0 /\ excess \in Int
    BY <1>1, ParToWeiIsInt, ParToWeiKeepsSign, ExcessIsInt DEF OnTheWay
  <1>3. CASE excess <= 0
    BY <1>3 DEF VaporizeUsingExcess
  <1>4. ASSUME NEW paid \in Int, paid <= excess, NEW N,
               Earns(N, L, q, Only(q, m, Base * (-paid)),
                     Only(q, m, Slack(index))),
               M = N
        PROVE  OnTheWay(M) /\ (M.ok => L.ok /\ CanPay(M, q))
    <2>1. OnTheWay(N)
      BY <1>4 DEF Earns, OnTheWay
    <2>2. ASSUME N.ok PROVE L.ok
      BY <1>4, <2>2 DEF Earns
    <2>3. ASSUME N.ok, NoInterestYet(N.index[q])
          PROVE  GetNumExcessTokens(N, q) >= 0
      <3>1. NoInterestYet(ledger.index[q]) /\ NoInterestYet(L.index[q])
        BY <2>1, <2>3 DEF OnTheWay
      <3>2. -paid \in Int
        BY <1>4
      <3>3. /\ GetNumExcessTokens(L, q) \in Int
            /\ GetNumExcessTokens(N, q) \in Int
            /\ GetNumExcessTokens(N, q)
                 >= GetNumExcessTokens(L, q) + Only(q, m, -paid)
        <4> HIDE DEF excess
        <4> QED BY <1>1, <1>4, <2>3, <3>1, <3>2, FlatEarns DEF index
      <3>4. GetNumExcessTokens(L, q) >= 0
        BY <3>1 DEF CanPay
      <3>5. CASE q = m
        BY <1>2, <1>4, <3>3, <3>5 DEF Only
      <3>6. CASE q # m
        BY <3>3, <3>4, <3>6 DEF Only
      <3> QED BY <3>5, <3>6
    <2> QED BY <1>4, <2>1, <2>2, <2>3 DEF CanPay
  <1>5. CASE excess > 0 /\ ExcessRepaysInFull(L, a, m)
    <2>1. M = SetPar(L, a, m, 0)
      BY <1>2, <1>5 DEF VaporizeUsingExcess
    <2>2. excess >= -wei
      BY <1>1, <1>2, <1>5 DEF ExcessRepaysInFull, Abs
    <2> DEFINE asked == [par |-> 0, deltaWei |-> -wei]
    <2>3. IsFair(asked, L.par[a][m], L.index[m])
      BY <1>1, EmptyingIsFair
    <2>4. asked.par = 0 /\ asked.par \in Int
          /\ asked.deltaWei = -wei /\ asked.deltaWei \in Int
      BY <1>2
    <2> HIDE DEF asked, wei, index, excess
    <2>5. Earns(SetPar(L, a, m, asked.par), L, q,
                Only(q, m, Base * (-asked.deltaWei)),
                Only(q, m, Slack(L.index[m])))
      BY <1>1, <2>3, <2>4, FairSetParEarns DEF OnTheWay
    <2>6. -wei \in Int /\ -wei <= excess
      BY <1>2, <2>2
    <2>7. Earns(SetPar(L, a, m, 0), L, q, Only(q, m, Base * (-(-wei))),
                Only(q, m, Slack(index)))
      BY <1>1, <2>4, <2>5
    <2> QED BY <1>4, <2>1, <2>6, <2>7
  <1>6. CASE excess > 0 /\ ~ExcessRepaysInFull(L, a, m)
    <2>1. M = SetParFromDeltaWei(L, a, m, CachedIndex(m), excess)
      BY <1>2, <1>6 DEF VaporizeUsingExcess
    <2> HIDE DEF wei, index, excess
    <2>2. Earns(SetParFromDeltaWei(L, a, m, index, excess), L, q,
                Only(q, m, Base * (-excess)), Only(q, m, Slack(index)))
      BY <1>1, <1>2, DeltaWeiEarns DEF OnTheWay
    <2>3. excess <= excess
      BY <1>2
    <2> QED BY <1>1, <1>2, <1>4, <2>1, <2>2, <2>3
  <1> QED BY <1>2, <1>3, <1>5, <1>6

LEMMA CollateralLeavesEnough ==
  ASSUME Inductive, OperationIsTracked, Executing("Vaporize"),
         NEW L, OnTheWay(L), VaporizeForCollateral(L),
         NEW q \in Markets, L.ok => CanPay(L, q)
  PROVE  CanPay(ledger', q)
  <1> DEFINE m == MarketOne
             n == MarketTwo
             vapor == AccountTwo
             maxHeldWei == GetNumExcessTokens(L, n)
             asked == DebtToRepay(L)
             amounts == LiquidationAmounts(asked, maxHeldWei,
                                           OwedPriceAdjusted(ZeroAccount))
             bounded == SetParFromDeltaWei(L, vapor, m, CachedIndex(m),
                                           amounts.owedWei)
             unbounded == SetPar(L, vapor, m, asked.par)
             repaid == IF amounts.bounded THEN bounded ELSE unbounded
             settled == SettleSolidAccount(repaid, amounts)
             e == amounts.owedWei
             f == amounts.heldWei
  <1>1. /\ maxHeldWei >= 0 /\ asked.ok
        /\ settled.ok /\ ledger' = settled
    BY DEF VaporizeForCollateral, Complete
  <1>2. /\ ~Idle /\ vapor \in Accounts
        /\ m \in Markets /\ n \in Markets
        /\ m \in DOMAIN cache /\ n \in DOMAIN cache
        /\ Arg.amount \in AssetAmounts
        /\ CachedIndex(m) = ledger.index[m] /\ CachedIndex(m) \in Indexes
        /\ HeldPrice \in Nat \ {0}
        /\ OwedPriceAdjusted(ZeroAccount) \in Nat \ {0}
        /\ L.index = ledger.index /\ Sound(L)
    BY TwoMarkets, Parties DEF OnTheWay
  <1>3. maxHeldWei \in Nat
    BY <1>1, <1>2, ExcessIsInt
  <1>4. /\ asked.par \in Int /\ asked.deltaWei \in Nat
        /\ IsFair(asked, L.par[vapor][m], L.index[m])
    <2>1. /\ asked.par \in Int /\ asked.deltaWei \in Nat
      BY <1>1, <1>2, RepaymentIsBounded DEF DebtToRepay
    <2>2. CachedIndex(m) = L.index[m]
      BY <1>2
    <2>3. IsFair(asked, L.par[vapor][m], L.index[m])
      BY <1>2, <2>2, RepaymentIsFair DEF DebtToRepay
    <2> QED BY <2>1, <2>3
  <1> HIDE DEF asked, maxHeldWei, m, n, vapor
  <1>5. /\ e \in 0 .. asked.deltaWei /\ f \in -maxHeldWei .. 0
        /\ ~amounts.bounded => e = asked.deltaWei
    BY <1>2, <1>3, <1>4, AmountsAreBounded DEF LiquidationAmounts
  <1>6. e \in Int /\ f \in Int /\ f >= -maxHeldWei /\ f <= 0
        /\ Base * e = Base * (-(-e)) /\ -(Base * e) = Base * (-e)
        /\ -e \in Int
    <2>1. e \in Int /\ f \in Int /\ f >= -maxHeldWei /\ f <= 0
      BY <1>3, <1>4, <1>5
    <2> HIDE DEF e, f
    <2> QED BY <2>1, BaseIsPositive
  <1> HIDE DEF amounts, e, f
  <1>7. /\ OnTheWay(repaid)
        /\ Earns(repaid, L, q, Only(q, m, Base * (-e)),
                 Only(q, m, Slack(ledger.index[m])))
    <2>1. CASE amounts.bounded
      <3>1. /\ OnTheWay(bounded)
            /\ Earns(bounded, L, q, Only(q, m, -(Base * e)),
                     Only(q, m, Slack(ledger.index[m])))
        BY <1>2, <1>6, CachedDeltaWeiEarns DEF e
      <3> QED BY <1>6, <2>1, <3>1
    <2>2. CASE ~amounts.bounded
      <3>1. asked.deltaWei = e /\ asked.deltaWei \in Int
        BY <1>5, <1>6, <2>2
      <3>2. Earns(unbounded, L, q, Only(q, m, Base * (-asked.deltaWei)),
                  Only(q, m, Slack(L.index[m])))
        BY <1>2, <1>4, <3>1, FairSetParEarns
      <3>3. OnTheWay(unbounded)
        BY <1>2, <3>2 DEF Earns, OnTheWay
      <3> QED BY <1>2, <2>2, <3>1, <3>2, <3>3
    <2> QED BY <2>1, <2>2
  <1> HIDE DEF repaid
  <1>8. PICK M :
          /\ OnTheWay(M)
          /\ OnTheWay(settled)
          /\ Earns(M, repaid, q, Only(q, m, Base * e),
                   Only(q, m, Slack(ledger.index[m])))
          /\ Earns(settled, M, q, Only(q, n, Base * f),
                   Only(q, n, Slack(ledger.index[n])))
    BY <1>2, <1>6, <1>7, SettleEarns DEF m, n, e, f
  <1> HIDE DEF settled
  <1>9. SUFFICES ASSUME NoInterestYet(settled.index[q])
                 PROVE  GetNumExcessTokens(settled, q) >= 0
    BY <1>1 DEF CanPay
  <1>10. NoInterestYet(ledger.index[q])
    BY <1>8, <1>9 DEF OnTheWay
  <1>11. /\ M.ok
         /\ GetNumExcessTokens(M, q) \in Int
         /\ GetNumExcessTokens(settled, q) \in Int
         /\ GetNumExcessTokens(settled, q)
              >= GetNumExcessTokens(M, q) + Only(q, n, f)
    BY <1>1, <1>2, <1>6, <1>8, <1>10, FlatEarns
  <1>12. /\ repaid.ok
         /\ GetNumExcessTokens(repaid, q) \in Int
         /\ GetNumExcessTokens(M, q)
              >= GetNumExcessTokens(repaid, q) + Only(q, m, e)
    BY <1>2, <1>6, <1>7, <1>8, <1>10, <1>11, FlatEarns
  <1>13. /\ L.ok
         /\ GetNumExcessTokens(L, q) \in Int
         /\ GetNumExcessTokens(repaid, q)
              >= GetNumExcessTokens(L, q) + Only(q, m, -e)
    BY <1>2, <1>6, <1>7, <1>10, <1>12, FlatEarns
  <1>14. GetNumExcessTokens(L, q) >= 0
    BY <1>2, <1>10, <1>13 DEF CanPay
  <1>15. /\ Only(q, m, -e) = -Only(q, m, e) /\ Only(q, m, e) \in Int
         /\ Only(q, n, f) \in Int
         /\ GetNumExcessTokens(L, q) + Only(q, n, f) >= 0
    <2>1. q = n => GetNumExcessTokens(L, q) = maxHeldWei
      BY DEF maxHeldWei
    <2> QED BY <1>3, <1>6, <1>13, <1>14, <2>1 DEF Only
  <1> QED BY <1>11, <1>12, <1>13, <1>15

LEMMA VaporizeLeavesEnough ==
  ASSUME Inductive, OperationIsTracked, Vaporize, NEW q \in Markets,
         CanPay(ledger, q)
  PROVE  CanPay(ledger', q)
  <1> DEFINE marked == SetStatus(ledger, AccountTwo, "Vapor")
             refunded == VaporizeUsingExcess(marked, AccountTwo, MarketOne)
  <1>1. /\ Executing("Vaporize")
        /\ CanVaporize(AccountTwo)
        /\ Complete(refunded) \/ VaporizeForCollateral(refunded)
    BY DEF Vaporize
  <1>2. /\ ~Idle /\ AccountTwo \in Accounts
        /\ MarketOne \in Markets /\ MarketOne \in DOMAIN cache
        /\ OnTheWay(ledger)
    BY <1>1, TwoMarkets, Parties
  <1>3. ledger.par[AccountTwo][MarketOne] <= 0
    BY <1>1, <1>2, VaporOwesOnly DEF HasNoSupply
  <1>4. /\ OnTheWay(marked) /\ marked.par = ledger.par
        /\ CanPay(marked, q)
    <2>1. Earns(marked, ledger, q, 0, 0)
      BY <1>2, SetStatusEarns DEF Statuses, OnTheWay
    <2>2. OnTheWay(marked)
      BY <1>2, <2>1 DEF Earns, OnTheWay
    <2>3. /\ marked.par = ledger.par /\ marked.index = ledger.index
          /\ marked.totalPar = ledger.totalPar
          /\ marked.balanceOf = ledger.balanceOf
      BY DEF SetStatus
    <2> HIDE DEF marked
    <2> QED BY <2>2, <2>3 DEF CanPay, GetNumExcessTokens
  <1> HIDE DEF marked
  <1>5. OnTheWay(refunded) /\ (refunded.ok => CanPay(refunded, q))
    BY <1>2, <1>3, <1>4, RefundLeavesEnough
  <1> HIDE DEF refunded
  <1> QED BY <1>1, <1>5, CollateralLeavesEnough DEF Complete

(***************************************************************************)
(* What keeps the contract solvent: every listed market can pay, also in   *)
(* the ledger that a revert restores; a market that is not listed has no   *)
(* balances yet, so that it can pay when it is listed; and an operation    *)
(* reaches listed markets only.                                            *)
(***************************************************************************)
IsUnused(L, m) == L.totalPar[m] = [borrow |-> 0, supply |-> 0]

MarketsCanPay(L) ==
  /\ \A m \in listedMarkets : CanPay(L, m)
  /\ \A m \in Markets \ listedMarkets : IsUnused(L, m)

SolvencyIsTracked ==
  /\ MarketsCanPay(ledger)
  /\ ~Idle => DOMAIN cache \subseteq listedMarkets /\ MarketsCanPay(saved.ledger)

LEMMA UnusedCanPay ==
  ASSUME NEW L \in Ledgers, NEW m \in Markets, IsUnused(L, m)
  PROVE  GetNumExcessTokens(L, m) >= 0
  <1>1. L.index[m] \in Indexes /\ L.balanceOf[m] \in Nat
    BY StorageAssumption DEF Ledgers
  <1>2. L.totalPar[m].borrow = 0 /\ L.totalPar[m].supply = 0
    BY DEF IsUnused
  <1>3. ASSUME NEW par \in Int, par <= 0, par >= 0
        PROVE  ParToWei(par, L.index[m]) = 0
    <2>1. ParToWei(par, L.index[m]) \in Int
      BY <1>1, ParToWeiIsInt
    <2>2. /\ ParToWei(par, L.index[m]) >= 0
          /\ ParToWei(par, L.index[m]) <= 0
      BY <1>1, <1>3, <2>1, ParToWeiKeepsSign
    <2> QED BY <2>1, <2>2
  <1>4. /\ -(L.totalPar[m].borrow) \in Int
        /\ -(L.totalPar[m].borrow) <= 0 /\ -(L.totalPar[m].borrow) >= 0
    BY <1>2
  <1>5. BorrowWei(L.totalPar[m], L.index[m]) = 0
    BY <1>3, <1>4 DEF BorrowWei, Abs
  <1>6. SupplyWei(L.totalPar[m], L.index[m]) = 0
    BY <1>2, <1>3 DEF SupplyWei
  <1> QED BY <1>1, <1>5, <1>6 DEF GetNumExcessTokens

(***************************************************************************)
(* Only the principal and the two rates of the index count.                *)
(***************************************************************************)
LEMMA SameBalancesSameExcess ==
  ASSUME NEW L, NEW M, NEW m,
         M.balanceOf[m] = L.balanceOf[m], M.totalPar[m] = L.totalPar[m],
         M.index[m].borrow = L.index[m].borrow,
         M.index[m].supply = L.index[m].supply
  PROVE  /\ GetNumExcessTokens(M, m) = GetNumExcessTokens(L, m)
         /\ CanPay(L, m) => CanPay(M, m)
  BY DEF GetNumExcessTokens, CanPay, NoInterestYet, SupplyWei, BorrowWei,
     ParToWei

(***************************************************************************)
(* Outside operations.                                                     *)
(***************************************************************************)
LEMMA MarketsStayListed ==
  ASSUME [Next]_vars, ~Operate
  PROVE  listedMarkets \subseteq listedMarkets'
  BY DEF Next, OwnerMarketFunction, OwnerWithdrawExcessTokens,
     OwnerWithdrawUnsupportedTokens, OwnerAddMarket, OwnerSetPriceOracle,
     OwnerSetIsClosing, OwnerSetMarginPremium,
     OwnerSetLiquidationSpreadPremium, OwnerSetMaxSupplyWei,
     OwnerSetMaxBorrowWei, OwnerSetEarningsRateOverride, SetMarketParams,
     OwnerRiskFunction, OwnerSetMarginRatio, OwnerSetLiquidationSpread,
     OwnerSetEarningsRate, OwnerSetMinBorrowedValue,
     OwnerSetAccountMaxNumberOfMarketsWithBalances,
     OwnerSetAccountRiskOverride, OwnerSetDefaultAccountRiskOverride,
     SetRiskParams, OwnerSetOracleSentinel, OwnerPermissionFunction,
     OwnerSetGlobalOperator, OwnerSetAutoTraderSpecial, Permission,
     SetOperators, World, PriceMoves, SentinelAnswers, TimePasses, Donate,
     vars, params

LEMMA QuietStaysSolvent ==
  ASSUME Inductive, SolvencyIsTracked, [Next]_vars, ~Operate
  PROVE  SolvencyIsTracked'
  <1>1. /\ UNCHANGED operation
        /\ ledger'.totalPar = ledger.totalPar
        /\ ~Idle => UNCHANGED params
    BY StepIsQuiet DEF Quiet, SameAccounts
  <1>2. /\ ledger \in Ledgers /\ ledger' \in Ledgers
        /\ listedMarkets \subseteq Markets /\ listedMarkets' \subseteq Markets
        /\ listedMarkets \subseteq listedMarkets'
    BY NextKeeps, MarketsStayListed
       DEF KeptAndRisen, Inductive, TypeOK, StorageTypeOK
  <1>3. ASSUME NEW m \in listedMarkets'
        PROVE  CanPay(ledger', m)
    <2>1. CASE m \in listedMarkets
      <3>1. \/ SameFunds(ledger', ledger, m)
            \/ GetNumExcessTokens(ledger', m) >= 0
        BY <2>1, QuietStepTakesNothing
      <3>2. CASE SameFunds(ledger', ledger, m)
        <4>1. /\ GetNumExcessTokens(ledger', m) >= GetNumExcessTokens(ledger, m)
              /\ GetNumExcessTokens(ledger', m) \in Int
              /\ GetNumExcessTokens(ledger, m) \in Int
              /\ ledger'.index[m] = ledger.index[m]
          BY <1>2, <2>1, <3>2, SameFundsSameExcess, LedgerExcessIsInt
             DEF SameFunds
        <4>2. CanPay(ledger, m)
          BY <2>1 DEF SolvencyIsTracked, MarketsCanPay
        <4> QED BY <4>1, <4>2 DEF CanPay
      <3> QED BY <3>1, <3>2 DEF CanPay
    <2>2. CASE m \notin listedMarkets
      <3>1. IsUnused(ledger', m)
        BY <1>1, <1>2, <2>2 DEF SolvencyIsTracked, MarketsCanPay, IsUnused
      <3> QED BY <1>2, <3>1, UnusedCanPay DEF CanPay
    <2> QED BY <2>1, <2>2
  <1>4. \A m \in Markets \ listedMarkets' : IsUnused(ledger', m)
    BY <1>1, <1>2 DEF SolvencyIsTracked, MarketsCanPay, IsUnused
  <1>5. MarketsCanPay(ledger)'
    BY <1>3, <1>4 DEF MarketsCanPay, CanPay, IsUnused
  <1>6. ASSUME ~Idle'
        PROVE  (DOMAIN cache \subseteq listedMarkets)' /\ MarketsCanPay(saved.ledger)'
    <2>1. ~Idle /\ cache' = cache /\ saved' = saved
          /\ listedMarkets' = listedMarkets
      BY <1>1, <1>6 DEF operation, Idle, params
    <2> QED BY <2>1 DEF SolvencyIsTracked, MarketsCanPay
  <1> QED BY <1>5, <1>6 DEF SolvencyIsTracked

(***************************************************************************)
(* Operations.                                                             *)
(***************************************************************************)
LEMMA BeginStaysSolvent ==
  ASSUME Inductive, SolvencyIsTracked, NEW r \in Requests, Begin(r)
  PROVE  SolvencyIsTracked'
  <1>1. /\ Idle
        /\ listedMarkets' = listedMarkets
        /\ saved' = [ledger |-> ledger, operators |-> operators]
        /\ DOMAIN cache' \subseteq listedMarkets
        /\ listedMarkets \subseteq Markets
    BY BeginCaches DEF Begin, params, Inductive, TypeOK, StorageTypeOK
  <1>2. saved'.ledger = ledger
    BY <1>1
  <1>3. ASSUME NEW m \in listedMarkets
        PROVE  CanPay(ledger', m)
    <2>1. SUFFICES ASSUME NoInterestYet(ledger'.index[m])
                   PROVE  CanPay(ledger', m)
      BY DEF CanPay
    <2>2. /\ ledger'.balanceOf[m] = ledger.balanceOf[m]
          /\ ledger'.totalPar[m] = ledger.totalPar[m]
          /\ ledger'.index[m].borrow >= ledger.index[m].borrow
          /\ ledger'.index[m].supply >= ledger.index[m].supply
      BY <1>1, BeginMovesNothing
    <2>3. /\ ledger.index[m].borrow \in Nat /\ ledger.index[m].borrow >= Base
          /\ ledger.index[m].supply \in Nat /\ ledger.index[m].supply >= Base
      <3>1. ledger.index[m] \in Indexes
        BY <1>1, InductiveIsSound, MarketIsTyped
      <3> QED BY <3>1, MathAssumption DEF Indexes
    <2>4. /\ ledger'.index[m].borrow = ledger.index[m].borrow
          /\ ledger'.index[m].supply = ledger.index[m].supply
      BY <2>1, <2>2, <2>3, BaseIsPositive DEF NoInterestYet
    <2>5. CanPay(ledger, m)
      BY DEF SolvencyIsTracked, MarketsCanPay
    <2> QED BY <2>2, <2>4, <2>5, SameBalancesSameExcess
  <1>4. \A m \in Markets \ listedMarkets : IsUnused(ledger', m)
    BY BeginMovesNothing DEF SolvencyIsTracked, MarketsCanPay, IsUnused
  <1>5. MarketsCanPay(ledger)'
    BY <1>1, <1>3, <1>4 DEF MarketsCanPay, CanPay, IsUnused
  <1>6. MarketsCanPay(saved.ledger)'
    BY <1>1, <1>2 DEF SolvencyIsTracked, MarketsCanPay, CanPay, IsUnused
  <1> QED BY <1>1, <1>5, <1>6 DEF SolvencyIsTracked

LEMMA ActionStaysSolvent ==
  ASSUME MarginActsForNobody, Inductive, OperationIsTracked, SolvencyIsTracked,
         PlainAction \/ Liquidate \/ Vaporize
  PROVE  SolvencyIsTracked'
  <1>1. /\ ~Idle
        /\ ledger'.index = ledger.index
        /\ OnlyMoves(ledger', ledger, Movers, DOMAIN cache)
        /\ UNCHANGED <<params, request, cache, saved>>
    <2>1. PICK type, status : Executing(type) /\ Kept(status)
      BY PlainActionKeeps, LiquidateMoves, VaporizeMoves
    <2> QED BY <2>1, ActionGoesOn DEF Kept
  <1>2. /\ Sound(ledger) /\ listedMarkets \subseteq Markets
        /\ listedMarkets' = listedMarkets
    BY <1>1, InductiveIsSound DEF Inductive, TypeOK, StorageTypeOK, params
  <1>3. ASSUME NEW m \in listedMarkets
        PROVE  CanPay(ledger', m)
    <2>1. CanPay(ledger, m)
      BY DEF SolvencyIsTracked, MarketsCanPay
    <2>2. CASE Vaporize
      BY <1>2, <2>1, <2>2, VaporizeLeavesEnough
    <2>3. CASE PlainAction \/ Liquidate
      <3> SUFFICES ASSUME NoInterestYet(ledger'.index[m])
                   PROVE  GetNumExcessTokens(ledger', m) >= 0
        BY DEF CanPay
      <3>1. /\ NoInterestYet(ledger.index[m])
            /\ GetNumExcessTokens(ledger, m) >= 0
        BY <1>1, <2>1 DEF CanPay
      <3>2. TakesNothing(ledger', ledger) /\ ledger'.ok
        BY <2>3, ActionTakesNothing
      <3>3. Earns(ledger', ledger, m, 0, 2 * Slack(ledger.index[m]))
        BY <1>2, <3>2 DEF TakesNothing
      <3>4. GetNumExcessTokens(ledger', m) + RoundingLoss(ledger.index[m])
              >= GetNumExcessTokens(ledger, m)
        BY <1>2, <3>2, <3>3, ExcessAfter
      <3>5. /\ RoundingLoss(ledger.index[m]) = 0
            /\ GetNumExcessTokens(ledger', m) \in Int
            /\ GetNumExcessTokens(ledger, m) \in Int
        BY <1>2, <3>1, <3>3, ExcessIsInt DEF RoundingLoss, Earns
      <3> QED BY <3>1, <3>4, <3>5
    <2> QED BY <2>2, <2>3
  <1>4. \A m \in Markets \ listedMarkets : IsUnused(ledger', m)
    BY <1>1 DEF OnlyMoves, SolvencyIsTracked, MarketsCanPay, IsUnused
  <1>5. MarketsCanPay(ledger)'
    BY <1>2, <1>3, <1>4 DEF MarketsCanPay, CanPay, IsUnused
  <1>6. (DOMAIN cache \subseteq listedMarkets)' /\ MarketsCanPay(saved.ledger)'
    BY <1>1, <1>2 DEF SolvencyIsTracked, MarketsCanPay
  <1> QED BY <1>5, <1>6 DEF SolvencyIsTracked

LEMMA EndStaysSolvent ==
  ASSUME Inductive, SolvencyIsTracked, Commit \/ Revert
  PROVE  SolvencyIsTracked'
  <1>1. ~Idle /\ Idle' /\ listedMarkets' = listedMarkets
    BY EndEnds DEF Commit, Revert, EndOperation, params
  <1>2. MarketsCanPay(ledger)'
    <2>1. CASE Commit
      <3>1. /\ ledger'.index = ledger.index /\ ledger'.totalPar = ledger.totalPar
            /\ ledger'.balanceOf = ledger.balanceOf
        BY <2>1 DEF Commit, ClearStatuses, Inductive, Sound, Ledgers
      <3> QED BY <1>1, <3>1 DEF SolvencyIsTracked, MarketsCanPay, IsUnused,
                 CanPay, GetNumExcessTokens
    <2>2. CASE Revert
      <3>1. ledger' = saved.ledger
        BY <2>2 DEF Revert
      <3> QED BY <1>1, <3>1 DEF SolvencyIsTracked, MarketsCanPay, IsUnused,
                 CanPay
    <2> QED BY <2>1, <2>2
  <1> QED BY <1>1, <1>2 DEF SolvencyIsTracked

LEMMA InitIsSolvent ==
  ASSUME Init
  PROVE  SolvencyIsTracked
  BY DEF Init, EmptyLedger, Idle, SolvencyIsTracked, MarketsCanPay, IsUnused

LEMMA NextStaysSolvent ==
  ASSUME MarginActsForNobody, Inductive, OperationIsTracked, SolvencyIsTracked,
         [Next]_vars
  PROVE  SolvencyIsTracked'
  <1>1. CASE ~Operate
    BY <1>1, QuietStaysSolvent
  <1>2. CASE Operate
    BY <1>2, BeginStaysSolvent, ActionStaysSolvent, EndStaysSolvent
       DEF Operate, PlainAction
  <1> QED BY <1>1, <1>2

(***************************************************************************)
(* DolomiteMargin can pay all the suppliers of a market in which no        *)
(* interest has accrued, in every state: whatever is deposited, traded,    *)
(* liquidated, vaporized, given or taken by the owner.                     *)
(***************************************************************************)
THEOREM SuppliersCanBePaid ==
  ASSUME MarginActsForNobody
  PROVE  Spec => []Solvent
  <1>1. Init => SolvencyIsTracked
    BY InitIsSolvent
  <1>2. Inductive /\ OperationIsTracked /\ SolvencyIsTracked /\ [Next]_vars
          => SolvencyIsTracked'
    BY NextStaysSolvent
  <1>3. SolvencyIsTracked => Solvent
    BY DEF SolvencyIsTracked, MarketsCanPay, CanPay, Solvent
  <1> QED BY InductiveInvariant, OperationsAreTracked, <1>1, <1>2, <1>3, PTL
          DEF Spec

-----------------------------------------------------------------------------
(* What a liquidator gets                                                  *)

(***************************************************************************)
(* The collateral given is worth no more than the debt repaid, with the    *)
(* spread: the one is rounded down, or the other up.                       *)
(***************************************************************************)
LEMMA CollateralIsPaidFor ==
  ASSUME NEW asked, asked.deltaWei \in Nat, NEW maxHeldWei \in Nat,
         NEW owedPrice \in Nat \ {0}, HeldPrice \in Nat \ {0}
  PROVE  LET amounts == LiquidationAmounts(asked, maxHeldWei, owedPrice)
         IN  (-amounts.heldWei) * HeldPrice <= amounts.owedWei * owedPrice
  <1> DEFINE deltaWei == asked.deltaWei
             seized == GetPartial(deltaWei, owedPrice, HeldPrice)
             paid == GetPartialRoundUp(maxHeldWei, HeldPrice, owedPrice)
             amounts == LiquidationAmounts(asked, maxHeldWei, owedPrice)
  <1>1. deltaWei \in Nat
    OBVIOUS
  <1> HIDE DEF deltaWei
  <1>2. seized \in Nat /\ seized * HeldPrice <= deltaWei * owedPrice
    BY <1>1, GetPartialIsNat, PartialIsPaid
  <1>3. maxHeldWei * HeldPrice <= paid * owedPrice
    BY PartialIsPaid
  <1>4. -(-seized) = seized /\ -(-maxHeldWei) = maxHeldWei
    BY <1>2
  <1>5. /\ amounts.owedWei = IF seized > maxHeldWei THEN paid ELSE deltaWei
        /\ amounts.heldWei = IF seized > maxHeldWei THEN -maxHeldWei
                                                    ELSE -seized
    BY <1>4 DEF LiquidationAmounts, OwedWeiToHeldWei, HeldWeiToOwedWei,
       deltaWei
  <1> HIDE DEF seized, paid, amounts
  <1>6. (-amounts.heldWei) * HeldPrice <= amounts.owedWei * owedPrice
    BY <1>2, <1>3, <1>4, <1>5
  <1> QED BY <1>6 DEF amounts

(***************************************************************************)
(* A balance written in Wei and read again is off by at most the loss of   *)
(* writing: the read is rounded by half a Wei, and the write by half a     *)
(* unit of principal, which is worth a Wei or more.                        *)
(***************************************************************************)
LEMMA WritingLossIsNat ==
  ASSUME NEW index \in Indexes
  PROVE  WritingLoss(index) \in Nat
  <1>1. index.borrow \in Nat /\ Base \in Nat \ {0}
    BY IndexFields, BaseIsPositive
  <1> QED BY <1>1, DivMod DEF WritingLoss

LEMMA WrittenIsNear ==
  ASSUME NEW x \in Int, NEW index \in Indexes, index.borrow >= index.supply
  PROVE  LET y == ParToWei(WeiToPar(x, index), index)
         IN  /\ y \in Int
             /\ y <= x + WritingLoss(index)
             /\ x <= y + WritingLoss(index)
  <1> DEFINE par == WeiToPar(x, index)
             y == ParToWei(par, index)
  <1>1. par \in Int
    BY WeiToParIsInt
  <1>2. y \in Int
    BY <1>1, ParToWeiIsInt
  <1>3. CASE NoInterestYet(index)
    <2>1. par = x
      BY <1>3, NoInterestNoRounding
    <2>2. y = x
      BY <1>3, <2>1, NoInterestNoRounding
    <2>3. WritingLoss(index) = 0
      BY <1>3 DEF WritingLoss
    <2> QED BY <2>2, <2>3
  <1>4. CASE ~NoInterestYet(index)
    <2> DEFINE k == index.borrow \div Base
               by == Base * y
               bx == Base * x
               w == Worth(par, index)
    <2>1. /\ -Base <= 2 * (w - by) /\ 2 * (w - by) <= Base
          /\ -index.borrow <= 2 * (w - bx) /\ 2 * (w - bx) <= index.borrow
      BY <1>1, ParToWeiIsNear, WeiToParIsNear
    <2>2. /\ index.borrow \in Nat /\ Base \in Nat \ {0} /\ Base <= index.borrow
          /\ w \in Int
      BY <1>1, IndexIsAtLeastBase, BaseIsPositive, WorthIsInt
    <2>3. k \in Nat /\ index.borrow < (k + 1) * Base
      <3>1. /\ k \in Nat /\ index.borrow % Base \in 0 .. (Base - 1)
            /\ index.borrow = k * Base + (index.borrow % Base)
        BY <2>2, DivMod
      <3> HIDE DEF k
      <3>2. (k + 1) * Base = k * Base + Base /\ k * Base \in Int
        BY <2>2, <3>1
      <3> QED BY <2>2, <3>1, <3>2
    <2>4. WritingLoss(index) = k
      BY <1>4 DEF WritingLoss
    <2>5. index.borrow \in Nat
      BY <2>2
    <2> HIDE DEF k, w, par, y
    <2>6. /\ by \in Int /\ bx \in Int
          /\ (2 * (y - x)) * Base = 2 * by - 2 * bx
          /\ (2 * (x - y)) * Base = 2 * bx - 2 * by
          /\ (k + 2) * Base = (k + 1) * Base + Base
          /\ (k + 1) * Base \in Int
          /\ 2 * (y - x) \in Int /\ 2 * (x - y) \in Int /\ k + 2 \in Int
      BY <1>2, <2>2, <2>3
    <2>7. k >= 1
      <3>1. 1 * Base < (k + 1) * Base
        <4>1. 1 * Base = Base
          BY <2>2
        <4> HIDE DEF by, bx
        <4> QED BY <2>2, <2>3, <2>6, <4>1
      <3>2. 1 < k + 1
        BY <2>2, <2>3, <3>1, CancelFactor
      <3> QED BY <2>3, <3>2
    <2>8. /\ (2 * (y - x)) * Base < (k + 2) * Base
          /\ (2 * (x - y)) * Base < (k + 2) * Base
      <3> DEFINE a == (2 * (y - x)) * Base
                 b == (2 * (x - y)) * Base
                 c == (k + 2) * Base
                 d == (k + 1) * Base
      <3>1. a = 2 * by - 2 * bx /\ b = 2 * bx - 2 * by /\ c = d + Base
            /\ d \in Int /\ by \in Int /\ bx \in Int /\ index.borrow < d
        BY <2>3, <2>6
      <3> HIDE DEF a, b, c, d, by, bx
      <3>2. a < c /\ b < c
        BY <2>1, <2>2, <2>5, <3>1
      <3> QED BY <3>2 DEF a, b, c
    <2>9. 2 * (y - x) < k + 2 /\ 2 * (x - y) < k + 2
      BY <2>2, <2>6, <2>8, CancelFactor
    <2>10. y <= x + k /\ x <= y + k
      BY <1>2, <2>3, <2>7, <2>9
    <2> QED BY <1>2, <2>4, <2>10 DEF y, par
  <1> QED BY <1>3, <1>4

(***************************************************************************)
(* One write of a balance of the solid account.                            *)
(***************************************************************************)
LEMMA TakenOver ==
  ASSUME NEW L, Sound(L), NEW a \in Accounts, NEW m \in Markets,
         NEW wei \in Int,
         NEW M, M = SetParFromDeltaWei(L, a, m, L.index[m], wei), M.ok
  PROVE  /\ Sound(M) /\ L.ok /\ M.index = L.index
         /\ \A n \in Markets \ {m} : M.par[a][n] = L.par[a][n]
         /\ GetWei(L, a, m, L.index[m]) \in Int
         /\ GetWei(M, a, m, L.index[m]) \in Int
         /\ GetWei(M, a, m, L.index[m])
              <= GetWei(L, a, m, L.index[m]) + wei + WritingLoss(L.index[m])
         /\ GetWei(L, a, m, L.index[m]) + wei
              <= GetWei(M, a, m, L.index[m]) + WritingLoss(L.index[m])
  <1> DEFINE index == L.index[m]
             old == GetWei(L, a, m, index)
             new == GetWei(M, a, m, index)
             par == WeiToPar(old + wei, index)
  <1>1. /\ index \in Indexes /\ index.borrow >= index.supply
        /\ WritingLoss(index) \in Nat
    BY MarketIsTyped, WritingLossIsNat
  <1>2. /\ Sound(M) /\ M.index = L.index
        /\ \A n \in Markets \ {m} : M.par[a][n] = L.par[a][n]
    <2>1. Follows(M, L, {a}, {m})
      BY <1>1, SetParFromDeltaWeiFollows
    <2> QED BY <2>1 DEF Follows, OnlyMoves
  <1>3. old \in Int /\ new \in Int
    BY <1>1, <1>2, GetWeiIsInt
  <1>4. CASE wei = 0
    <2>1. M = L
      BY <1>4 DEF SetParFromDeltaWei
    <2> HIDE DEF index
    <2>2. new = old
      BY <2>1
    <2> HIDE DEF old, new
    <2>3. new <= old + wei + WritingLoss(index)
          /\ old + wei <= new + WritingLoss(index)
      BY <1>1, <1>3, <1>4, <2>2
    <2> QED BY <1>2, <1>3, <2>1, <2>3 DEF index, old, new
  <1>5. CASE wei # 0
    <2>1. M = SetPar(L, a, m, par)
      BY <1>5 DEF SetParFromDeltaWei
    <2>2. L.ok /\ M.par[a][m] = par
      <3>1. L \in Ledgers
        BY DEF Sound
      <3> HIDE DEF par
      <3> QED BY <2>1, <3>1 DEF SetPar, Fail, Ledgers
    <2>3. new = ParToWei(par, index)
      BY <2>2 DEF GetWei
    <2>4. old + wei \in Int
      BY <1>3
    <2> HIDE DEF old, new, index
    <2>5. new <= old + wei + WritingLoss(index)
          /\ old + wei <= new + WritingLoss(index)
      BY <1>1, <2>3, <2>4, WrittenIsNear
    <2> QED BY <1>2, <1>3, <2>2, <2>5 DEF index, old, new
  <1> QED BY <1>4, <1>5

LEMMA ScaleInts ==
  ASSUME NEW x \in Int, NEW y \in Int, x <= y, NEW d \in Nat
  PROVE  x * d <= y * d
  <1>1. y - x \in Nat
    OBVIOUS
  <1>2. (y - x) * d \in Nat
    BY <1>1, ProductIsNat
  <1>3. (y - x) * d = y * d - x * d /\ x * d \in Int /\ y * d \in Int
    OBVIOUS
  <1> QED BY <1>2, <1>3

(***************************************************************************)
(* What the solid account gained and what it now owes more.                *)
(***************************************************************************)
Held(L) == GetWei(L, AccountOne, MarketTwo, CachedIndex(MarketTwo))
Owes(L) == -GetWei(L, AccountOne, MarketOne, CachedIndex(MarketOne))

GainsOnly(owedPrice) ==
  (Held(ledger') - Held(ledger) - WritingLoss(CachedIndex(MarketTwo))) * HeldPrice
    <= (Owes(ledger') - Owes(ledger) + WritingLoss(CachedIndex(MarketOne)))
         * owedPrice

LEMMA LimitedGain ==
  ASSUME Inductive, OperationIsTracked,
         NEW type \in {"Liquidate", "Vaporize"}, Executing(type),
         NEW gained \in Int, Held(ledger') - Held(ledger) = gained,
         NEW owed \in Int, Owes(ledger') - Owes(ledger) = owed,
         NEW given \in Int, NEW repaid \in Int, NEW owedPrice \in Nat,
         given * HeldPrice <= repaid * owedPrice,
         gained <= given + WritingLoss(CachedIndex(MarketTwo)),
         repaid <= owed + WritingLoss(CachedIndex(MarketOne))
  PROVE  GainsOnly(owedPrice)
  <1> DEFINE lossOne == WritingLoss(CachedIndex(MarketOne))
             lossTwo == WritingLoss(CachedIndex(MarketTwo))
  <1>1. lossOne \in Nat /\ lossTwo \in Nat /\ HeldPrice \in Nat
    BY Parties, WritingLossIsNat
  <1> HIDE DEF lossOne, lossTwo
  <1>2. /\ gained - lossTwo \in Int /\ gained - lossTwo <= given
        /\ owed + lossOne \in Int /\ repaid <= owed + lossOne
    BY <1>1 DEF lossOne, lossTwo
  <1>3. /\ (gained - lossTwo) * HeldPrice <= given * HeldPrice
        /\ repaid * owedPrice <= (owed + lossOne) * owedPrice
    BY <1>1, <1>2, ScaleInts
  <1>4. /\ (gained - lossTwo) * HeldPrice \in Int /\ given * HeldPrice \in Int
        /\ repaid * owedPrice \in Int /\ (owed + lossOne) * owedPrice \in Int
    BY <1>1, <1>2
  <1>5. (gained - lossTwo) * HeldPrice <= (owed + lossOne) * owedPrice
    <2> DEFINE a == (gained - lossTwo) * HeldPrice
               b == given * HeldPrice
               c == repaid * owedPrice
               d == (owed + lossOne) * owedPrice
    <2>1. a \in Int /\ b \in Int /\ c \in Int /\ d \in Int
          /\ a <= b /\ b <= c /\ c <= d
      BY <1>3, <1>4
    <2> HIDE DEF a, b, c, d
    <2>2. a <= d
      BY <2>1
    <2> QED BY <2>2 DEF a, d
  <1> QED BY <1>5 DEF GainsOnly, lossOne, lossTwo

LEMMA SettleGains ==
  ASSUME Inductive, OperationIsTracked,
         NEW type \in {"Liquidate", "Vaporize"}, Executing(type),
         NEW L, OnTheWay(L), L.par[AccountOne] = ledger.par[AccountOne],
         NEW amounts, amounts.owedWei \in Int, amounts.heldWei \in Int,
         NEW owedPrice \in Nat,
         (-amounts.heldWei) * HeldPrice <= amounts.owedWei * owedPrice,
         ledger' = SettleSolidAccount(L, amounts), ledger'.ok
  PROVE  GainsOnly(owedPrice)
  <1> DEFINE a == AccountOne
             m == MarketOne
             n == MarketTwo
             owed == SetParFromDeltaWei(L, a, m, CachedIndex(m),
                                        -amounts.owedWei)
             held == SetParFromDeltaWei(owed, a, n, CachedIndex(n),
                                        -amounts.heldWei)
             e == -amounts.owedWei
             f == -amounts.heldWei
  <1>1. /\ a \in Accounts /\ m \in Markets /\ n \in Markets /\ m # n
        /\ CachedIndex(m) = L.index[m] /\ CachedIndex(n) = L.index[n]
        /\ Sound(L)
    BY TwoMarkets DEF OnTheWay
  <1>2. ledger' = held /\ held.ok
    BY DEF SettleSolidAccount
  <1>3. e \in Int /\ f \in Int /\ amounts.owedWei = -e
    OBVIOUS
  <1> HIDE DEF a, m, n
  <1>4. Sound(owed) /\ owed.index = L.index
    <2>1. CachedIndex(m) \in Indexes
      BY <1>1, MarketIsTyped
    <2>2. Follows(owed, L, {a}, {m})
      BY <1>1, <1>3, <2>1, SetParFromDeltaWeiFollows
    <2> QED BY <2>2 DEF Follows
  <1>5. /\ owed.ok
        /\ held.par[a][m] = owed.par[a][m]
        /\ GetWei(owed, a, n, L.index[n]) \in Int
        /\ GetWei(held, a, n, L.index[n]) \in Int
        /\ GetWei(held, a, n, L.index[n])
             <= GetWei(owed, a, n, L.index[n]) + f + WritingLoss(L.index[n])
    BY <1>1, <1>2, <1>3, <1>4, TakenOver
  <1>6. /\ owed.par[a][n] = L.par[a][n]
        /\ GetWei(L, a, m, L.index[m]) \in Int
        /\ GetWei(owed, a, m, L.index[m]) \in Int
        /\ GetWei(owed, a, m, L.index[m])
             <= GetWei(L, a, m, L.index[m]) + e + WritingLoss(L.index[m])
    BY <1>1, <1>3, <1>5, TakenOver
  <1> HIDE DEF owed, held
  <1> DEFINE h == GetWei(ledger, a, n, L.index[n])
             hh == GetWei(ledger', a, n, L.index[n])
             o == GetWei(ledger, a, m, L.index[m])
             oo == GetWei(ledger', a, m, L.index[m])
             lossOne == WritingLoss(L.index[m])
             lossTwo == WritingLoss(L.index[n])
  <1>7. /\ h = GetWei(owed, a, n, L.index[n]) /\ hh = GetWei(held, a, n, L.index[n])
        /\ o = GetWei(L, a, m, L.index[m]) /\ oo = GetWei(owed, a, m, L.index[m])
    BY <1>2, <1>5, <1>6 DEF GetWei, a
  <1>8. /\ Held(ledger) = h /\ Held(ledger') = hh
        /\ Owes(ledger) = -o /\ Owes(ledger') = -oo
        /\ lossOne = WritingLoss(CachedIndex(MarketOne))
        /\ lossTwo = WritingLoss(CachedIndex(MarketTwo))
    BY <1>1 DEF Held, Owes, a, m, n
  <1>9. lossOne \in Nat /\ lossTwo \in Nat
    BY <1>1, MarketIsTyped, WritingLossIsNat
  <1>10. /\ h \in Int /\ hh \in Int /\ o \in Int /\ oo \in Int
         /\ hh <= h + f + lossTwo /\ oo <= o + e + lossOne
    BY <1>5, <1>6, <1>7
  <1>11. f * HeldPrice <= (-e) * owedPrice
    BY <1>3
  <1> HIDE DEF h, hh, o, oo, lossOne, lossTwo, e, f
  <1>12. /\ Held(ledger') - Held(ledger) = hh - h /\ hh - h \in Int
         /\ Owes(ledger') - Owes(ledger) = o - oo /\ o - oo \in Int
         /\ hh - h <= f + lossTwo
         /\ -e <= (o - oo) + lossOne /\ -e \in Int
    BY <1>3, <1>8, <1>9, <1>10
  <1> QED BY <1>3, <1>8, <1>11, <1>12, LimitedGain

(***************************************************************************)
(* Nothing else moves the solid account.                                   *)
(***************************************************************************)
LEMMA SolidAccountUnmoved ==
  ASSUME Inductive, OperationIsTracked,
         NEW type \in {"Liquidate", "Vaporize"}, Executing(type),
         \A m \in Markets : ledger'.par[AccountOne][m] = ledger.par[AccountOne][m],
         NEW owedPrice \in Nat
  PROVE  GainsOnly(owedPrice)
  <1>1. /\ AccountOne \in Accounts
        /\ MarketOne \in Markets /\ MarketTwo \in Markets
        /\ CachedIndex(MarketOne) \in Indexes
        /\ CachedIndex(MarketTwo) \in Indexes
        /\ Sound(ledger) /\ HeldPrice \in Nat
    BY Parties, InductiveIsSound
  <1>2. /\ Held(ledger') = Held(ledger) /\ Held(ledger) \in Int
        /\ Owes(ledger') = Owes(ledger) /\ Owes(ledger) \in Int
    BY <1>1, GetWeiIsInt DEF Held, Owes, GetWei
  <1>3. /\ WritingLoss(CachedIndex(MarketOne)) \in Nat
        /\ WritingLoss(CachedIndex(MarketTwo)) \in Nat
    BY <1>1, WritingLossIsNat
  <1>4. 0 * HeldPrice <= 0 * owedPrice
    BY <1>1
  <1>5. /\ Held(ledger') - Held(ledger) = 0
        /\ Owes(ledger') - Owes(ledger) = 0
        /\ 0 <= 0 + WritingLoss(CachedIndex(MarketTwo))
        /\ 0 <= 0 + WritingLoss(CachedIndex(MarketOne))
    BY <1>2, <1>3
  <1> QED BY <1>4, <1>5, LimitedGain

LEMMA LiquidationGains ==
  ASSUME Inductive, OperationIsTracked, Liquidate
  PROVE  GainsOnly(OwedPriceAdjusted(AccountTwo))
  <1> DEFINE m == MarketOne
             n == MarketTwo
             liquid == AccountTwo
             price1 == OwedPriceAdjusted(liquid)
             marked == SetStatus(ledger, liquid, "Liquid")
             maxHeldWei == GetWei(marked, liquid, n, CachedIndex(n))
             asked == DebtToRepay(marked)
             amounts == LiquidationAmounts(asked, maxHeldWei, price1)
             emptied == SetPar(marked, liquid, n, 0)
             bounded == SetParFromDeltaWei(emptied, liquid, m, CachedIndex(m),
                                           amounts.owedWei)
             repaid == SetPar(marked, liquid, m, asked.par)
             unbounded == SetParFromDeltaWei(repaid, liquid, n, CachedIndex(n),
                                             amounts.heldWei)
             seized == IF amounts.bounded THEN bounded ELSE unbounded
             settled == SettleSolidAccount(seized, amounts)
  <1>1. /\ Executing("Liquidate") /\ ledger' = settled /\ settled.ok
        /\ maxHeldWei >= 0 /\ asked.ok
    BY DEF Liquidate, Complete
  <1>2. /\ AccountOne \in Accounts /\ liquid \in Accounts
        /\ liquid # AccountOne
        /\ m \in Markets /\ n \in Markets
        /\ CachedIndex(m) \in Indexes /\ CachedIndex(n) \in Indexes
        /\ HeldPrice \in Nat \ {0} /\ price1 \in Nat \ {0}
        /\ Arg.amount \in AssetAmounts
        /\ OnTheWay(ledger)
    BY <1>1, Parties, VictimHasNotActed, TwoMarkets
  <1>4. /\ OnTheWay(marked) /\ marked.par = ledger.par
    <2>1. Earns(marked, ledger, m, 0, 0)
      BY <1>2, SetStatusEarns DEF Statuses, OnTheWay
    <2>2. OnTheWay(marked)
      BY <1>2, <2>1 DEF Earns, OnTheWay
    <2> QED BY <2>2 DEF SetStatus
  <1> HIDE DEF marked
  <1>5. asked.par \in Int /\ asked.deltaWei \in Nat
    BY <1>1, <1>2, <1>4, RepaymentIsBounded DEF DebtToRepay, OnTheWay
  <1>6. maxHeldWei \in Nat
    BY <1>1, <1>2, <1>4, GetWeiIsInt DEF OnTheWay
  <1> HIDE DEF asked, maxHeldWei, price1
  <1>7. /\ amounts.owedWei \in Int /\ amounts.heldWei \in Int
        /\ (-amounts.heldWei) * HeldPrice <= amounts.owedWei * price1
    <2>1. /\ amounts.owedWei \in 0 .. asked.deltaWei
          /\ amounts.heldWei \in -maxHeldWei .. 0
          /\ (-amounts.heldWei) * HeldPrice <= amounts.owedWei * price1
      BY <1>2, <1>5, <1>6, AmountsAreBounded, CollateralIsPaidFor
    <2> HIDE DEF amounts
    <2> QED BY <1>5, <1>6, <2>1
  <1> HIDE DEF amounts
  <1>8. Follows(seized, marked, {liquid}, Markets)
    <2>1. CASE amounts.bounded
      <3>1. Follows(emptied, marked, {liquid}, Markets)
        BY <1>2, <1>4, SetParFollows DEF OnTheWay
      <3> HIDE DEF emptied
      <3>2. Follows(bounded, emptied, {liquid}, Markets)
        BY <1>2, <1>7, <3>1, SetParFromDeltaWeiFollows DEF Follows
      <3> HIDE DEF bounded
      <3> QED BY <2>1, <3>1, <3>2, FollowsIsTransitive
    <2>2. CASE ~amounts.bounded
      <3>1. Follows(repaid, marked, {liquid}, Markets)
        BY <1>2, <1>4, <1>5, SetParFollows DEF OnTheWay
      <3> HIDE DEF repaid
      <3>2. Follows(unbounded, repaid, {liquid}, Markets)
        BY <1>2, <1>7, <3>1, SetParFromDeltaWeiFollows DEF Follows
      <3> HIDE DEF unbounded
      <3> QED BY <2>2, <3>1, <3>2, FollowsIsTransitive
    <2> QED BY <2>1, <2>2
  <1> HIDE DEF seized
  <1>9. OnTheWay(seized)
    BY <1>4, <1>8 DEF Follows, OnTheWay
  <1>10. seized.par[AccountOne] = ledger.par[AccountOne]
    <2>1. \A q \in Markets :
            seized.par[AccountOne][q] = ledger.par[AccountOne][q]
      BY <1>2, <1>4, <1>8 DEF Follows, OnlyMoves
    <2>2. /\ seized.par[AccountOne] \in [Markets -> Signed128]
          /\ ledger.par[AccountOne] \in [Markets -> Signed128]
      BY <1>2, <1>9 DEF OnTheWay, Sound, Ledgers
    <2> QED BY <2>1, <2>2
  <1>11. price1 \in Nat
    BY <1>2
  <1> HIDE DEF settled
  <1> QED BY <1>1, <1>7, <1>9, <1>10, <1>11, SettleGains DEF price1, liquid,
             settled


(***************************************************************************)
(* A vaporization moves the excess tokens' refund and the repayment of the *)
(* debt to the victim's account only.                                      *)
(***************************************************************************)
LEMMA UntouchedAccount ==
  ASSUME NEW L, Sound(L), NEW M, Follows(M, L, {AccountTwo}, Markets),
         AccountOne \in Accounts, AccountTwo # AccountOne
  PROVE  M.par[AccountOne] = L.par[AccountOne]
  <1>1. \A q \in Markets : M.par[AccountOne][q] = L.par[AccountOne][q]
    BY DEF Follows, OnlyMoves
  <1>2. /\ M.par[AccountOne] \in [Markets -> Signed128]
        /\ L.par[AccountOne] \in [Markets -> Signed128]
    BY DEF Follows, Sound, Ledgers
  <1> QED BY <1>1, <1>2

LEMMA RefundFollows ==
  ASSUME Inductive, NEW L, Sound(L), NEW a \in Accounts, NEW m \in Markets,
         CachedIndex(m) \in Indexes
  PROVE  Follows(VaporizeUsingExcess(L, a, m), L, {a}, Markets)
  <1>1. GetNumExcessTokens(L, m) \in Int
    BY ExcessIsInt
  <1>2. Follows(SetPar(L, a, m, 0), L, {a}, Markets)
    BY SetParFollows
  <1>3. Follows(SetParFromDeltaWei(L, a, m, CachedIndex(m),
                                   GetNumExcessTokens(L, m)),
                L, {a}, Markets)
    BY <1>1, SetParFromDeltaWeiFollows
  <1>4. Follows(L, L, {a}, Markets)
    BY FollowsIsReflexive
  <1> QED BY <1>2, <1>3, <1>4 DEF VaporizeUsingExcess

LEMMA CollateralGains ==
  ASSUME Inductive, OperationIsTracked, Executing("Vaporize"),
         NEW L, OnTheWay(L), L.par[AccountOne] = ledger.par[AccountOne],
         VaporizeForCollateral(L)
  PROVE  GainsOnly(OwedPriceAdjusted(ZeroAccount))
  <1> DEFINE m == MarketOne
             vapor == AccountTwo
             price1 == OwedPriceAdjusted(ZeroAccount)
             maxHeldWei == GetNumExcessTokens(L, MarketTwo)
             asked == DebtToRepay(L)
             amounts == LiquidationAmounts(asked, maxHeldWei, price1)
             bounded == SetParFromDeltaWei(L, vapor, m, CachedIndex(m),
                                           amounts.owedWei)
             unbounded == SetPar(L, vapor, m, asked.par)
             repaid == IF amounts.bounded THEN bounded ELSE unbounded
             settled == SettleSolidAccount(repaid, amounts)
  <1>1. ledger' = settled /\ settled.ok /\ maxHeldWei >= 0 /\ asked.ok
    BY DEF VaporizeForCollateral, Complete
  <1>2. /\ AccountOne \in Accounts /\ vapor \in Accounts
        /\ vapor # AccountOne
        /\ m \in Markets /\ MarketTwo \in Markets
        /\ CachedIndex(m) \in Indexes
        /\ HeldPrice \in Nat \ {0} /\ price1 \in Nat \ {0}
        /\ Arg.amount \in AssetAmounts
        /\ Sound(L)
    BY Parties, VictimHasNotActed DEF OnTheWay
  <1>3. asked.par \in Int /\ asked.deltaWei \in Nat
    BY <1>1, <1>2, RepaymentIsBounded DEF DebtToRepay
  <1>4. maxHeldWei \in Nat
    BY <1>1, <1>2, ExcessIsInt
  <1> HIDE DEF asked, maxHeldWei, price1
  <1>5. /\ amounts.owedWei \in Int /\ amounts.heldWei \in Int
        /\ (-amounts.heldWei) * HeldPrice <= amounts.owedWei * price1
    <2>1. /\ amounts.owedWei \in 0 .. asked.deltaWei
          /\ amounts.heldWei \in -maxHeldWei .. 0
          /\ (-amounts.heldWei) * HeldPrice <= amounts.owedWei * price1
      BY <1>2, <1>3, <1>4, AmountsAreBounded, CollateralIsPaidFor
    <2> HIDE DEF amounts
    <2> QED BY <1>3, <1>4, <2>1
  <1> HIDE DEF amounts
  <1>6. Follows(repaid, L, {AccountTwo}, Markets)
    <2>1. Follows(bounded, L, {vapor}, Markets)
      BY <1>2, <1>5, SetParFromDeltaWeiFollows
    <2>2. Follows(unbounded, L, {vapor}, Markets)
      BY <1>2, <1>3, SetParFollows
    <2> HIDE DEF bounded, unbounded
    <2> QED BY <2>1, <2>2
  <1> HIDE DEF repaid
  <1>7. /\ OnTheWay(repaid)
        /\ repaid.par[AccountOne] = ledger.par[AccountOne]
    BY <1>2, <1>6, UntouchedAccount DEF Follows, OnTheWay
  <1>8. price1 \in Nat
    BY <1>2
  <1> HIDE DEF settled
  <1> QED BY <1>1, <1>5, <1>7, <1>8, SettleGains DEF price1, settled

LEMMA VaporizationGains ==
  ASSUME Inductive, OperationIsTracked, Vaporize
  PROVE  GainsOnly(OwedPriceAdjusted(ZeroAccount))
  <1> DEFINE marked == SetStatus(ledger, AccountTwo, "Vapor")
             refunded == VaporizeUsingExcess(marked, AccountTwo, MarketOne)
  <1>1. /\ Executing("Vaporize")
        /\ Complete(refunded) \/ VaporizeForCollateral(refunded)
    BY DEF Vaporize
  <1>2. /\ AccountOne \in Accounts /\ AccountTwo \in Accounts
        /\ AccountTwo # AccountOne
        /\ MarketOne \in Markets /\ CachedIndex(MarketOne) \in Indexes
        /\ OwedPriceAdjusted(ZeroAccount) \in Nat
        /\ OnTheWay(ledger)
    BY <1>1, Parties, TwoMarkets, VictimHasNotActed
  <1>3. /\ OnTheWay(marked) /\ marked.par = ledger.par
    <2>1. Earns(marked, ledger, MarketOne, 0, 0)
      BY <1>2, SetStatusEarns DEF Statuses, OnTheWay
    <2>2. OnTheWay(marked)
      BY <1>2, <2>1 DEF Earns, OnTheWay
    <2> QED BY <2>2 DEF SetStatus
  <1> HIDE DEF marked
  <1>4. Follows(refunded, marked, {AccountTwo}, Markets)
    BY <1>2, <1>3, RefundFollows DEF OnTheWay
  <1> HIDE DEF refunded
  <1>5. /\ OnTheWay(refunded)
        /\ refunded.par[AccountOne] = ledger.par[AccountOne]
    BY <1>2, <1>3, <1>4, UntouchedAccount DEF Follows, OnTheWay
  <1>6. CASE Complete(refunded)
    <2>1. \A m \in Markets :
            ledger'.par[AccountOne][m] = ledger.par[AccountOne][m]
      BY <1>5, <1>6 DEF Complete
    <2> QED BY <1>1, <1>2, <2>1, SolidAccountUnmoved
  <1>7. CASE VaporizeForCollateral(refunded)
    BY <1>1, <1>5, <1>7, CollateralGains
  <1> QED BY <1>1, <1>6, <1>7

(***************************************************************************)
(* Whoever takes over a debt, by liquidating or vaporizing, gets no more   *)
(* collateral for it than the debt with the spread is worth, but for the   *)
(* rounding of the two balances that are written.                          *)
(***************************************************************************)
THEOREM LiquidatorsGetTheSpread == Spec => SpreadIsTheMostALiquidatorGets
  <1> DEFINE takesOver ==
               (Executing("Liquidate") \/ Executing("Vaporize")) /\ ~Idle'
             liable == IF Executing("Liquidate") THEN AccountTwo
                                                 ELSE ZeroAccount
  <1>1. ASSUME Inductive, OperationIsTracked, [Next]_vars, takesOver
        PROVE  GainsOnly(OwedPriceAdjusted(liable))
    <2>1. PICK type \in {"Liquidate", "Vaporize"} : Executing(type)
      BY <1>1
    <2>2. /\ ~Idle /\ ~Idle'
          /\ Arg.actionType = type
          /\ AccountLayout(Arg.actionType) = "PrimaryAndSecondary"
      BY <1>1, <2>1 DEF Executing, AccountLayout
    <2>3. /\ liable \in Accounts \cup {ZeroAccount}
          /\ OwedPriceAdjusted(liable) \in Nat
      <3>1. liable \in Accounts \cup {ZeroAccount}
        BY <1>1, <2>1, Parties
      <3> HIDE DEF liable
      <3> QED BY <1>1, <2>1, <3>1, Parties
    <2>4. CASE ~Operate
      <3>1. ledger'.par = ledger.par
        BY <1>1, <2>4, StepIsQuiet DEF Quiet, SameAccounts
      <3> HIDE DEF liable
      <3> QED BY <1>1, <2>1, <2>3, <3>1, SolidAccountUnmoved
    <2>5. CASE Liquidate
      <3>1. liable = AccountTwo
        BY <2>5 DEF Liquidate
      <3> QED BY <1>1, <2>5, <3>1, LiquidationGains
    <2>6. CASE Vaporize
      <3>1. liable = ZeroAccount
        BY <2>6 DEF Vaporize, Executing
      <3> QED BY <1>1, <2>6, <3>1, VaporizationGains
    <2>7. ~PlainAction
      BY <1>1, <2>2, PlainActionKeeps
    <2>8. ~(\E r \in Requests : Begin(r))
      BY <2>2 DEF Begin
    <2>9. ~(Commit \/ Revert)
      BY <1>1, <2>2, EndEnds
    <2> QED BY <2>4, <2>5, <2>6, <2>7, <2>8, <2>9 DEF Operate, PlainAction
  <1>2. Inductive /\ OperationIsTracked /\ [Next]_vars
          => [takesOver => GainsOnly(OwedPriceAdjusted(liable))]_vars
    BY <1>1
  <1> QED BY InductiveInvariant, OperationsAreTracked, <1>2, PTL
          DEF Spec, SpreadIsTheMostALiquidatorGets, GainsOnly, Held, Owes

-----------------------------------------------------------------------------
(* Accruals                                                                *)

(***************************************************************************)
(* No setter leaves a share of the interest that is above the limit.       *)
(***************************************************************************)
EarningsAreBounded ==
  /\ ValidRiskParams(riskParams)
  /\ \A m \in Markets :
       marketParams[m].earningsRateOverride <= RiskLimits.earningsRateMax

LEMMA MarketParamsStayBounded ==
  ASSUME Inductive, EarningsAreBounded, OwnerMarketFunction
  PROVE  \A m \in Markets :
           marketParams'[m].earningsRateOverride <= RiskLimits.earningsRateMax
  <1>1. marketParams \in [Markets -> MarketParamsType]
    BY DEF Inductive, TypeOK, StorageTypeOK
  <1> DEFINE Bounded(p) == p.earningsRateOverride <= RiskLimits.earningsRateMax
  <1>2. ASSUME NEW m \in Markets, NEW p, Bounded(p),
               marketParams' = [marketParams EXCEPT ![m] = p]
        PROVE  \A q \in Markets : Bounded(marketParams'[q])
    BY <1>1, <1>2 DEF EarningsAreBounded
  <1>3. ASSUME NEW m \in Markets, NEW p,
               SetMarketParams(m, p), Bounded(p)
        PROVE  \A q \in Markets : Bounded(marketParams'[q])
    BY <1>2, <1>3 DEF SetMarketParams
  <1>4. CASE marketParams' = marketParams
    BY <1>4 DEF EarningsAreBounded
  <1>5. PICK m \in Markets :
          \/ marketParams' = marketParams
          \/ \E p \in MarketChoices, answer \in Prices[m] :
               OwnerAddMarket(m, p, answer)
          \/ \E p \in MarketChanges :
               \/ OwnerSetIsClosing(m, p.isClosing)
               \/ OwnerSetMarginPremium(m, p.marginPremium)
               \/ OwnerSetLiquidationSpreadPremium(m, p.liquidationSpreadPremium)
               \/ OwnerSetMaxSupplyWei(m, p.maxSupplyWei)
               \/ OwnerSetMaxBorrowWei(m, p.maxBorrowWei)
               \/ OwnerSetEarningsRateOverride(m, p.earningsRateOverride)
    BY DEF OwnerMarketFunction, OwnerWithdrawExcessTokens, params,
       OwnerWithdrawUnsupportedTokens, OwnerSetPriceOracle
  <1> DEFINE old == marketParams[m]
  <1>6. old \in MarketParamsType /\ Bounded(old)
    BY <1>1 DEF EarningsAreBounded
  <1>7. ASSUME NEW p, NEW answer, OwnerAddMarket(m, p, answer)
        PROVE  \A q \in Markets : Bounded(marketParams'[q])
    BY <1>2, <1>7 DEF OwnerAddMarket, ValidMarketParams
  <1>8. ASSUME NEW value
        PROVE  /\ Bounded([old EXCEPT !.isClosing = value])
               /\ Bounded([old EXCEPT !.marginPremium = value])
               /\ Bounded([old EXCEPT !.liquidationSpreadPremium = value])
               /\ Bounded([old EXCEPT !.maxSupplyWei = value])
               /\ Bounded([old EXCEPT !.maxBorrowWei = value])
               /\ value <= RiskLimits.earningsRateMax
                    => Bounded([old EXCEPT !.earningsRateOverride = value])
    BY <1>6 DEF MarketParamsType
  <1> HIDE DEF Bounded, old
  <1>9. ASSUME NEW value,
               \/ OwnerSetIsClosing(m, value)
               \/ OwnerSetMarginPremium(m, value)
               \/ OwnerSetLiquidationSpreadPremium(m, value)
               \/ OwnerSetMaxSupplyWei(m, value)
               \/ OwnerSetMaxBorrowWei(m, value)
               \/ OwnerSetEarningsRateOverride(m, value)
        PROVE  \A q \in Markets : Bounded(marketParams'[q])
    <2>1. \E p : SetMarketParams(m, p) /\ Bounded(p)
      BY <1>8, <1>9 DEF OwnerSetIsClosing, OwnerSetMarginPremium, old,
         OwnerSetLiquidationSpreadPremium, OwnerSetMaxSupplyWei,
         OwnerSetMaxBorrowWei, OwnerSetEarningsRateOverride
    <2> QED BY <1>3, <2>1
  <1> QED BY <1>4, <1>5, <1>7, <1>9 DEF Bounded

LEMMA EarningsStayBounded ==
  ASSUME Inductive, EarningsAreBounded, [Next]_vars
  PROVE  EarningsAreBounded'
  <1>1. ValidRiskParams(riskParams')
    BY RiskParamsKept DEF EarningsAreBounded
  <1>2. CASE marketParams' = marketParams
    BY <1>1, <1>2 DEF EarningsAreBounded
  <1>3. CASE OwnerMarketFunction
    BY <1>1, <1>3, MarketParamsStayBounded DEF EarningsAreBounded
  <1>4. CASE Operate
    <2>1. marketParams' = marketParams
      BY <1>4 DEF Operate, Begin, Deposit, Withdraw, Transfer, Buy, Sell,
         Trade, Call, Liquidate, Vaporize, VaporizeForCollateral, Complete,
         Commit, Revert, EndOperation, params
    <2> QED BY <1>2, <2>1
  <1>5. CASE OwnerRiskFunction
    <2>1. \/ \E p : SetRiskParams(p)
          \/ \E answer : OwnerSetOracleSentinel(answer)
      BY <1>5 DEF OwnerRiskFunction, OwnerSetMarginRatio,
         OwnerSetLiquidationSpread, OwnerSetEarningsRate,
         OwnerSetMinBorrowedValue,
         OwnerSetAccountMaxNumberOfMarketsWithBalances,
         OwnerSetAccountRiskOverride, OwnerSetDefaultAccountRiskOverride
    <2> QED BY <1>2, <2>1 DEF SetRiskParams, OwnerSetOracleSentinel, params
  <1>6. CASE OwnerPermissionFunction \/ Permission \/ World
    <2>1. marketParams' = marketParams
      BY <1>6 DEF OwnerPermissionFunction, OwnerSetGlobalOperator,
         OwnerSetAutoTraderSpecial, Permission, SetOperators, World,
         PriceMoves, SentinelAnswers, TimePasses, Donate, params
    <2> QED BY <1>2, <2>1
  <1>7. CASE UNCHANGED vars
    BY <1>2, <1>7 DEF vars, params
  <1> QED BY <1>3, <1>4, <1>5, <1>6, <1>7 DEF Next

(***************************************************************************)
(* A listed market's index changes with the beginning of an operation, or  *)
(* while one runs.                                                         *)
(***************************************************************************)
LEMMA OnlyBeginsAccrue ==
  ASSUME Inductive, [Next]_vars, Idle, NEW m \in listedMarkets,
         ledger'.index[m] # ledger.index[m]
  PROVE  \E r \in Requests : Begin(r)
  <1>1. ledger \in Ledgers /\ m \in Markets
    BY DEF Inductive, TypeOK, StorageTypeOK
  <1>2. ledger' # ledger
    OBVIOUS
  <1>3. CASE Operate
    <2>1. ~PlainAction
      BY PlainActionKeeps DEF Executing
    <2>2. ~Liquidate /\ ~Vaporize /\ ~(Commit \/ Revert)
      BY EndEnds DEF Liquidate, Vaporize, Executing
    <2> QED BY <1>3, <2>1, <2>2 DEF Operate, PlainAction
  <1>4. CASE OwnerMarketFunction
    <2>1. PICK q \in Markets :
            \/ \E recipient, wei : ledger' = TransferOut(ledger, q, recipient, wei)
            \/ /\ q \notin listedMarkets
               /\ ledger' = [ledger EXCEPT !.index[q] = NewIndex(now)]
      BY <1>2, <1>4 DEF OwnerMarketFunction, OwnerWithdrawExcessTokens,
         OwnerWithdrawUnsupportedTokens, OwnerAddMarket, SetMarketParams,
         OwnerSetIsClosing, OwnerSetMarginPremium,
         OwnerSetLiquidationSpreadPremium, OwnerSetMaxSupplyWei,
         OwnerSetMaxBorrowWei, OwnerSetEarningsRateOverride,
         OwnerSetPriceOracle
    <2>2. ledger'.index[m] = ledger.index[m]
      BY <1>1, <2>1 DEF TransferOut, Fail, Ledgers
    <2> QED BY <2>2
  <1>5. CASE OwnerRiskFunction
    <2>1. \/ \E p : SetRiskParams(p)
          \/ \E answer : OwnerSetOracleSentinel(answer)
      BY <1>5 DEF OwnerRiskFunction, OwnerSetMarginRatio,
         OwnerSetLiquidationSpread, OwnerSetEarningsRate,
         OwnerSetMinBorrowedValue,
         OwnerSetAccountMaxNumberOfMarketsWithBalances,
         OwnerSetAccountRiskOverride, OwnerSetDefaultAccountRiskOverride
    <2> QED BY <1>2, <2>1 DEF SetRiskParams, OwnerSetOracleSentinel
  <1>6. CASE OwnerPermissionFunction \/ Permission
    BY <1>2, <1>6 DEF OwnerPermissionFunction, OwnerSetGlobalOperator,
       OwnerSetAutoTraderSpecial, Permission, SetOperators
  <1>7. CASE World
    <2>1. PICK q, wei : ledger' = [ledger EXCEPT !.balanceOf[q] = @ + wei]
      BY <1>2, <1>7 DEF World, PriceMoves, SentinelAnswers, TimePasses, Donate
    <2> QED BY <1>1, <2>1 DEF Ledgers
  <1>8. CASE UNCHANGED vars
    BY <1>2, <1>8 DEF vars
  <1> QED BY <1>3, <1>4, <1>5, <1>6, <1>7, <1>8 DEF Next

LEMMA BeginAccruesFairly ==
  ASSUME EarningsAreAPart, Inductive, EarningsAreBounded,
         NEW r \in Requests, Begin(r), NEW m \in listedMarkets,
         ledger'.index[m] # ledger.index[m]
  PROVE  GetNumExcessTokens(ledger', m)
           >= GetNumExcessTokens(ledger, m) - AccrualLoss(m)
  <1> DEFINE markets == OperationMarkets(r)
             index == ledger.index[m]
             total == ledger.totalPar[m]
  <1>1. PICK rates \in [markets -> InterestRates] :
          ledger' = UpdateIndexes(ledger, markets, rates)
    BY DEF Begin
  <1>2. /\ ledger \in Ledgers /\ Sound(ledger) /\ m \in Markets
        /\ now \in Nat /\ Base \in Nat \ {0}
    BY BaseIsPositive
       DEF Inductive, Sound, TypeOK, StorageTypeOK, WorldTypeOK
  <1> HIDE DEF markets
  <1>3. /\ m \in markets
        /\ ledger'.index[m] = FetchNewIndex(m, rates[m])
        /\ ledger'.totalPar = ledger.totalPar
        /\ ledger'.balanceOf = ledger.balanceOf
    BY <1>1, <1>2 DEF UpdateIndexes, Ledgers
  <1>4. rates[m] \in InterestRates
    BY <1>3
  <1> DEFINE rate == CappedRate(rates[m])
  <1>5. rate \in Nat
    BY <1>4, OperationAssumption, StorageAssumption DEF CappedRate
  <1>6. EarningsRate(m) \in 0 .. Base
    <2>1. /\ EarningsRate(m) \in Nat
          /\ RiskLimits.earningsRateMax \in Nat
      BY <1>2, StorageAssumption DEF Inductive, TypeOK, StorageTypeOK, EarningsRate,
         RiskParamsType, MarketParamsType
    <2>2. EarningsRate(m) <= RiskLimits.earningsRateMax
      BY <1>2 DEF EarningsAreBounded, ValidRiskParams, EarningsRate
    <2> QED BY <1>2, <2>1, <2>2 DEF EarningsAreAPart
  <1>7. /\ index \in Indexes /\ index.lastUpdate <= now
        /\ total \in [borrow : Nat, supply : Nat]
    BY <1>2, MathAssumption DEF Sound, Ledgers, IndexIsSound
  <1> DEFINE new == CalculateNewIndex(index, rate, total, EarningsRate(m), now)
  <1>8. ledger'.index[m] = new
    BY <1>3 DEF FetchNewIndex
  <1> HIDE DEF index, total, rate
  <1>9. BorrowWei(total, new) - SupplyWei(total, new)
          >= BorrowWei(total, index) - SupplyWei(total, index)
               - (2 + (total.borrow + (new.borrow - index.borrow)) \div Base)
    BY <1>2, <1>5, <1>6, <1>7, AccrualIsFair
  <1> HIDE DEF new
  <1>10. AccrualLoss(m)
           = 2 + (total.borrow + (new.borrow - index.borrow)) \div Base
    BY <1>8 DEF AccrualLoss, total, index
  <1>11. /\ GetNumExcessTokens(ledger', m)
              = ledger.balanceOf[m] + BorrowWei(total, new) - SupplyWei(total, new)
         /\ GetNumExcessTokens(ledger, m)
              = ledger.balanceOf[m] + BorrowWei(total, index) - SupplyWei(total, index)
    BY <1>3, <1>8 DEF GetNumExcessTokens, total, index
  <1>12. /\ ledger' \in Ledgers
         /\ ledger.balanceOf[m] \in Nat /\ ledger'.index[m] \in Indexes
    BY <1>2, BeginKeeps, MarketIsTyped
       DEF KeptAndRisen, Inductive, TypeOK, StorageTypeOK, Sound, Ledgers
  <1>13. /\ BorrowWei(total, new) \in Nat /\ SupplyWei(total, new) \in Nat
         /\ BorrowWei(total, index) \in Nat /\ SupplyWei(total, index) \in Nat
    BY <1>7, <1>8, <1>12, TotalsAreNat
  <1>14. AccrualLoss(m) \in Int
    <2>1. total.borrow + (new.borrow - index.borrow) \in Int
      BY <1>7, <1>8, <1>12, IndexFields
    <2> QED BY <1>2, <1>10, <2>1, DivIsInt
  <1> QED BY <1>9, <1>10, <1>11, <1>12, <1>13, <1>14

(***************************************************************************)
(* Whatever the rates, the shares and the time since the last update, what *)
(* an accrual credits to suppliers is covered by what it charges, but for  *)
(* its roundings.                                                          *)
(***************************************************************************)
THEOREM AccrualsAreCovered ==
  ASSUME EarningsAreAPart
  PROVE  Spec => AccrualIsCovered
  <1> DEFINE Covered ==
        \A m \in listedMarkets :
          Idle /\ ledger'.index[m] # ledger.index[m] =>
            GetNumExcessTokens(ledger', m)
              >= GetNumExcessTokens(ledger, m) - AccrualLoss(m)
  <1>1. Init => EarningsAreBounded
    <2>1. RiskLimits.earningsRateMax \in Nat
      BY StorageAssumption
    <2> QED BY <2>1 DEF Init, NoMarketParams, EarningsAreBounded
  <1>2. Inductive /\ EarningsAreBounded /\ [Next]_vars => EarningsAreBounded'
    BY EarningsStayBounded
  <1>3. Inductive /\ EarningsAreBounded /\ [Next]_vars => [Covered]_vars
    BY OnlyBeginsAccrue, BeginAccruesFairly
  <1> QED BY InductiveInvariant, <1>1, <1>2, <1>3, PTL
          DEF Spec, AccrualIsCovered
=============================================================================

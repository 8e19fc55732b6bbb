--------------------------- MODULE MarginOperation ---------------------------
(***************************************************************************)
(* OperationImpl.operate: the one entry point through which accounts       *)
(* change.  An operation is a transaction: it is verified and preprocessed *)
(* (Begin), runs its actions one at a time and in order, and ends with the *)
(* checks of the final state (Commit), or reverts and leaves no trace      *)
(* (Revert).  Between two steps of an operation the code it calls --       *)
(* callees, exchange wrappers, auto-traders, callbacks of account owners,  *)
(* token contracts -- may call DolomiteMargin back, which the reentrancy   *)
(* guard forbids for everything but setOperators.                          *)
(***************************************************************************)
EXTENDS MarginStorage, Sequences

CONSTANTS
  Requests,      \* the calls of operate: [sender, accounts, actions]
  NoRequest,     \* no operation is running
  NoSnapshot,    \* nothing to go back to
  InterestRates, \* what an interest setter may answer
  ExchangeCosts, \* what an exchange wrapper may ask, or pay, in Wei
  TradeCosts     \* what an auto-trader may answer: asset amounts

ActionTypes == {"Deposit", "Withdraw", "Transfer", "Buy", "Sell", "Trade",
                "Liquidate", "Vaporize", "Call"}

ActionArgs ==
  [actionType : ActionTypes, accountId : Nat, otherAccountId : Nat,
   primaryMarket : Markets, secondaryMarket : Markets, amount : AssetAmounts,
   otherAddress : Addresses, calculateAmountWithMakerAccount : BOOLEAN]

ASSUME OperationAssumption ==
  /\ \A r \in Requests : r \in [sender : Addresses, accounts : Seq(Accounts),
                                actions : Seq(ActionArgs)]
  /\ NoRequest \notin Requests
  /\ NoSnapshot \notin Ledgers
  /\ InterestRates \subseteq Nat
  /\ ExchangeCosts \subseteq Nat
  /\ TradeCosts \subseteq AssetAmounts

VARIABLES
  request, \* the running operation, or NoRequest
  pc,      \* the index of its next action
  cache,   \* market -> what preprocessing read of it
  saved    \* the ledger and the operators a revert goes back to

operation == <<request, pc, cache, saved>>

Idle == request = NoRequest
NoCache == [m \in {} |-> 0]

CacheEntries == [isClosing : BOOLEAN, borrowPar : 0 .. MaxUint128,
                 supplyPar : 0 .. MaxUint128, index : Indexes,
                 price : Nat \ {0}]

-----------------------------------------------------------------------------
(* Preprocessing                                                           *)

AccountLayout(type) ==
  CASE type \in {"Transfer", "Trade"}     -> "TwoPrimary"
    [] type \in {"Liquidate", "Vaporize"} -> "PrimaryAndSecondary"
    [] OTHER                              -> "OnePrimary"

MarketLayout(type) ==
  CASE type \in {"Deposit", "Withdraw", "Transfer"} -> "OneMarket"
    [] type = "Call"                                -> "ZeroMarkets"
    [] OTHER                                        -> "TwoMarkets"

VerifyInputs(r) ==
  /\ r.accounts # << >>
  /\ r.actions # << >>
  /\ \A i, j \in DOMAIN r.accounts : i # j => r.accounts[i] # r.accounts[j]

(***************************************************************************)
(* The ids of the accounts that the first n actions make primary.          *)
(***************************************************************************)
PrimaryIds(r, n) ==
  {r.actions[i].accountId : i \in 1 .. n}
    \cup {r.actions[i].otherAccountId : i \in
            {j \in 1 .. n :
               AccountLayout(r.actions[j].actionType) = "TwoPrimary"}}

PrimaryAccounts(r, n) == {r.accounts[id] : id \in PrimaryIds(r, n)}

ListedAccounts(r) == {r.accounts[i] : i \in DOMAIN r.accounts}

\* A fault: an account that acted may be liquidated or vaporized.
VerifyAccountIdsOnly(r, i) ==
  LET arg == r.actions[i]
  IN  /\ arg.accountId \in DOMAIN r.accounts
      /\ AccountLayout(arg.actionType) # "OnePrimary" =>
           /\ arg.otherAccountId \in DOMAIN r.accounts
           /\ arg.accountId # arg.otherAccountId

VerifyAccountLayout(r, i) ==
  LET arg == r.actions[i]
      layout == AccountLayout(arg.actionType)
  IN  /\ arg.accountId \in DOMAIN r.accounts
      /\ layout # "OnePrimary" =>
           /\ arg.otherAccountId \in DOMAIN r.accounts
           /\ arg.accountId # arg.otherAccountId
      /\ layout = "PrimaryAndSecondary" =>
           arg.otherAccountId \notin PrimaryIds(r, i - 1)

VerifyMarketLayout(r, i) ==
  LET arg == r.actions[i]
  IN  MarketLayout(arg.actionType) = "TwoMarkets" =>
        arg.primaryMarket # arg.secondaryMarket

ActionMarkets(arg) ==
  CASE MarketLayout(arg.actionType) = "ZeroMarkets" -> {}
    [] MarketLayout(arg.actionType) = "OneMarket"   -> {arg.primaryMarket}
    [] OTHER -> {arg.primaryMarket, arg.secondaryMarket}

(***************************************************************************)
(* The markets of the actions, and every other market in which a listed    *)
(* account has a balance.                                                  *)
(***************************************************************************)
\* A fault: the markets of the accounts' other balances are not read.
MarketsOfActions(r) ==
  UNION {ActionMarkets(r.actions[i]) : i \in DOMAIN r.actions}

OperationMarkets(r) ==
  (UNION {ActionMarkets(r.actions[i]) : i \in DOMAIN r.actions})
    \cup (UNION {ledger.marketsWithBalances[a] : a \in ListedAccounts(r)})

EarningsRate(m) ==
  IF marketParams[m].earningsRateOverride = 0
  THEN riskParams.earningsRate
  ELSE marketParams[m].earningsRateOverride

CappedRate(rate) ==
  IF rate > RiskLimits.interestRateMax THEN RiskLimits.interestRateMax
                                       ELSE rate

FetchNewIndex(m, rate) ==
  CalculateNewIndex(ledger.index[m], CappedRate(rate), ledger.totalPar[m],
                    EarningsRate(m), now)

IndexIsCurrent(m) == ledger.index[m].lastUpdate = now

UpdateIndexes(L, markets, rates) ==
  [L EXCEPT !.index = [m \in Markets |->
     IF m \in markets /\ ~IndexIsCurrent(m) THEN FetchNewIndex(m, rates[m])
                                            ELSE @[m]]]

InitializeCache(L, markets) ==
  [m \in markets |-> [isClosing |-> marketParams[m].isClosing,
                      borrowPar |-> L.totalPar[m].borrow,
                      supplyPar |-> L.totalPar[m].supply,
                      index     |-> L.index[m],
                      price     |-> price[m]]]

Begin(r) ==
  LET markets == OperationMarkets(r)
  IN  /\ Idle
      /\ VerifyInputs(r)
      /\ \A i \in DOMAIN r.actions :
           VerifyAccountLayout(r, i) /\ VerifyMarketLayout(r, i)
      /\ markets \subseteq listedMarkets
      /\ \A m \in markets : price[m] # 0
      /\ \E rates \in [markets -> InterestRates] :
           /\ \A m \in markets :
                ~IndexIsCurrent(m) =>
                  NewIndexIsValid(ledger.index[m], CappedRate(rates[m]),
                                  ledger.totalPar[m], EarningsRate(m), now)
           /\ ledger' = UpdateIndexes(ledger, markets, rates)
      /\ cache' = InitializeCache(ledger', markets)
      /\ saved' = [ledger |-> ledger, operators |-> operators]
      /\ request' = r
      /\ pc' = 1
      /\ UNCHANGED <<params, operators, permissions, world>>

-----------------------------------------------------------------------------
(* The actions                                                             *)

Arg == request.actions[pc]
Sender == request.sender
AccountOne == request.accounts[Arg.accountId]
AccountTwo == request.accounts[Arg.otherAccountId]
MarketOne == Arg.primaryMarket
MarketTwo == Arg.secondaryMarket
CachedIndex(m) == cache[m].index

Executing(type) ==
  /\ ~Idle
  /\ pc \in DOMAIN request.actions
  /\ Arg.actionType = type

(***************************************************************************)
(* The action has left the ledger L, unless one of its writes failed.      *)
(***************************************************************************)
Complete(L) ==
  /\ L.ok
  /\ ledger' = L
  /\ pc' = pc + 1
  /\ UNCHANGED <<params, operators, permissions, world, request, cache, saved>>

AmountOf(a, m) ==
  GetNewParAndDeltaWei(ledger, a, m, CachedIndex(m), Arg.amount)

Deposit ==
  /\ Executing("Deposit")
  /\ RequireIsOperator(AccountOne, Sender)
  /\ Arg.otherAddress \in {Sender, Owner[AccountOne]}
  /\ LET new == AmountOf(AccountOne, MarketOne)
         set == SetPar(ledger, AccountOne, MarketOne, new.par)
     IN  /\ new.ok
         /\ Complete(TransferIn(set, MarketOne, Arg.otherAddress, new.deltaWei))

Withdraw ==
  /\ Executing("Withdraw")
  /\ RequireIsOperator(AccountOne, Sender)
  /\ LET new == AmountOf(AccountOne, MarketOne)
         set == SetPar(ledger, AccountOne, MarketOne, new.par)
     IN  /\ new.ok
         /\ Complete(TransferOut(set, MarketOne, Arg.otherAddress, new.deltaWei))

Transfer ==
  /\ Executing("Transfer")
  /\ RequireIsOperator(AccountOne, Sender)
  /\ RequireIsOperator(AccountTwo, Sender)
  /\ LET index == CachedIndex(MarketOne)
         new == AmountOf(AccountOne, MarketOne)
         set == SetPar(ledger, AccountOne, MarketOne, new.par)
     IN  /\ new.ok
         /\ Complete(SetParFromDeltaWei(set, AccountTwo, MarketOne, index,
                                        -new.deltaWei))

(***************************************************************************)
(* Pay soldWei (never positive) to the exchange wrapper and collect        *)
(* boughtWei from it.                                                      *)
(***************************************************************************)
Exchange(L, wrapper, soldMarket, soldWei, boughtMarket, boughtWei) ==
  TransferIn(TransferOut(L, soldMarket, wrapper, soldWei),
             boughtMarket, wrapper, boughtWei)

(***************************************************************************)
(* Buy an amount of the first market; the wrapper names the cost in the    *)
(* second and may deliver more than was asked.                             *)
(***************************************************************************)
Buy ==
  /\ Executing("Buy")
  /\ RequireIsOperator(AccountOne, Sender)
  /\ Arg.otherAddress # DolomiteMarginAddress
  /\ \E cost, received \in ExchangeCosts :
       LET new == AmountOf(AccountOne, MarketOne)
           paid == Exchange(ledger, Arg.otherAddress, MarketTwo, -cost,
                            MarketOne, received)
           bought == SetParFromDeltaWei(paid, AccountOne, MarketOne,
                                        CachedIndex(MarketOne), received)
       IN  /\ new.ok
           /\ new.deltaWei >= 0
           /\ received >= new.deltaWei
           /\ Complete(SetParFromDeltaWei(bought, AccountOne, MarketTwo,
                                          CachedIndex(MarketTwo), -cost))

(***************************************************************************)
(* Sell an amount of the first market for whatever the wrapper delivers of *)
(* the second.  The new balance is computed before the wrapper is called   *)
(* and written after it.                                                   *)
(***************************************************************************)
Sell ==
  /\ Executing("Sell")
  /\ RequireIsOperator(AccountOne, Sender)
  /\ Arg.otherAddress # DolomiteMarginAddress
  /\ \E received \in ExchangeCosts :
       LET new == AmountOf(AccountOne, MarketOne)
           paid == Exchange(ledger, Arg.otherAddress, MarketOne, new.deltaWei,
                            MarketTwo, received)
           sold == SetPar(paid, AccountOne, MarketOne, new.par)
       IN  /\ new.ok
           /\ Complete(SetParFromDeltaWei(sold, AccountOne, MarketTwo,
                                          CachedIndex(MarketTwo), received))

(***************************************************************************)
(* Trade: the taker (AccountOne) against the maker (AccountTwo), at the    *)
(* cost the maker's auto-trader names.  The amount is the maker's, unless  *)
(* it was given for the taker and is inverted.                             *)
(***************************************************************************)
MakerInput ==
  LET takers == AmountOf(AccountOne, MarketOne)
      inverted == [denomination |-> "Wei", ref |-> "Delta",
                   value |-> -takers.deltaWei]
      makers == GetNewParAndDeltaWei(ledger, AccountTwo, MarketOne,
                                     CachedIndex(MarketOne), inverted)
  IN  IF Arg.calculateAmountWithMakerAccount
      THEN AmountOf(AccountTwo, MarketOne)
      ELSE [makers EXCEPT !.ok = @ /\ takers.ok]

OneSided(inputWei, outputWei) ==
  /\ inputWei # 0
  /\ outputWei # 0
  /\ (inputWei > 0) <=> (outputWei > 0)

Trade ==
  /\ Executing("Trade")
  /\ RequireIsOperator(AccountOne, Sender)
  /\ RequireIsOperator(AccountTwo, Arg.otherAddress)
  /\ Arg.otherAddress \in specialAutoTraders => RequireIsGlobalOperator(Sender)
  /\ \E outputAmount \in TradeCosts :
       LET input == MakerInput
           output == GetNewParAndDeltaWei(ledger, AccountTwo, MarketTwo,
                                          CachedIndex(MarketTwo), outputAmount)
           makerIn == SetPar(ledger, AccountTwo, MarketOne, input.par)
           maker == SetPar(makerIn, AccountTwo, MarketTwo, output.par)
           takerIn == SetParFromDeltaWei(maker, AccountOne, MarketOne,
                                         CachedIndex(MarketOne),
                                         -input.deltaWei)
       IN  /\ input.ok
           /\ output.ok
           /\ ~OneSided(input.deltaWei, output.deltaWei)
           /\ Complete(SetParFromDeltaWei(takerIn, AccountOne, MarketTwo,
                                          CachedIndex(MarketTwo),
                                          -output.deltaWei))

Call ==
  /\ Executing("Call")
  /\ RequireIsOperator(AccountOne, Sender)
  /\ Complete(ledger)

-----------------------------------------------------------------------------
(* Liquidation and vaporization: AccountOne is the solid account, MarketOne *)
(* the owed market and MarketTwo the held one.                             *)

OwedPriceAdjusted(a) ==
  LET owedPrice == cache[MarketOne].price
  IN  owedPrice
        + DecimalMul(owedPrice,
            GetLiquidationSpreadForAccountAndPair(a, MarketTwo, MarketOne))

HeldPrice == cache[MarketTwo].price

OwedWeiToHeldWei(owedWei, owedPrice) ==
  -GetPartial(owedWei, owedPrice, HeldPrice)

\* A fault: the debt that bounded collateral repays is rounded down.
HeldWeiToOwedWeiRoundedDown(heldWei, owedPrice) ==
  GetPartial(-heldWei, HeldPrice, owedPrice)

HeldWeiToOwedWei(heldWei, owedPrice) ==
  GetPartialRoundUp(-heldWei, HeldPrice, owedPrice)

(***************************************************************************)
(* What the debtor's debt and the collateral change by, given the most     *)
(* collateral there is to give.                                            *)
(***************************************************************************)
\* A fault: the collateral given is not bounded by what there is.
LiquidationAmountsUnbounded(asked, maxHeldWei, owedPrice) ==
  [bounded |-> FALSE, heldWei |-> OwedWeiToHeldWei(asked.deltaWei, owedPrice),
   owedWei |-> asked.deltaWei]

LiquidationAmounts(asked, maxHeldWei, owedPrice) ==
  LET heldWei == OwedWeiToHeldWei(asked.deltaWei, owedPrice)
      bounded == -heldWei > maxHeldWei
  IN  [bounded |-> bounded,
       heldWei |-> IF bounded THEN -maxHeldWei ELSE heldWei,
       owedWei |-> IF bounded THEN HeldWeiToOwedWei(-maxHeldWei, owedPrice)
                              ELSE asked.deltaWei]

(***************************************************************************)
(* The solid account takes over the debt repaid and the collateral given.  *)
(***************************************************************************)
SettleSolidAccount(L, amounts) ==
  LET owed == SetParFromDeltaWei(L, AccountOne, MarketOne,
                                 CachedIndex(MarketOne), -amounts.owedWei)
  IN  SetParFromDeltaWei(owed, AccountOne, MarketTwo,
                         CachedIndex(MarketTwo), -amounts.heldWei)

DebtToRepay(L) ==
  GetNewParAndDeltaWeiForLiquidation(L, AccountTwo, MarketOne,
                                     CachedIndex(MarketOne), Arg.amount)

IsLiquidatable(a) ==
  ledger.status[a] # "Liquid" =>
    /\ CollateralCheckRuns(ledger, a, cache, FALSE)
    /\ ~IsCollateralized(ledger, a, cache)

Liquidate ==
  /\ Executing("Liquidate")
  /\ RequireIsGlobalOperator(Sender)
  /\ sentinel.isLiquidationAllowed
  /\ IsLiquidatable(AccountTwo)
  /\ ValidAccountRiskOverride(GetAccountRiskOverride(AccountTwo))
  /\ LET liquid == AccountTwo
         marked == SetStatus(ledger, liquid, "Liquid")
         maxHeldWei == GetWei(marked, liquid, MarketTwo, CachedIndex(MarketTwo))
         asked == DebtToRepay(marked)
         amounts == LiquidationAmounts(asked, maxHeldWei,
                                       OwedPriceAdjusted(liquid))
         seized ==
           IF amounts.bounded
           THEN SetParFromDeltaWei(SetPar(marked, liquid, MarketTwo, 0),
                                   liquid, MarketOne, CachedIndex(MarketOne),
                                   amounts.owedWei)
           ELSE SetParFromDeltaWei(SetPar(marked, liquid, MarketOne, asked.par),
                                   liquid, MarketTwo, CachedIndex(MarketTwo),
                                   amounts.heldWei)
     IN  /\ maxHeldWei >= 0
         /\ asked.ok
         /\ Complete(SettleSolidAccount(seized, amounts))

CanVaporize(a) ==
  ledger.status[a] # "Vapor" => IsVaporizable(ledger, a, cache)

(***************************************************************************)
(* The excess tokens of the owed market are used before a solid account    *)
(* takes over what debt is left.                                           *)
(***************************************************************************)
ExcessRepaysInFull(L, a, m) ==
  /\ GetNumExcessTokens(L, m) > 0
  /\ GetNumExcessTokens(L, m) >= Abs(GetWei(L, a, m, CachedIndex(m)))

VaporizeUsingExcess(L, a, m) ==
  IF GetNumExcessTokens(L, m) <= 0 THEN L
  ELSE IF ExcessRepaysInFull(L, a, m) THEN SetPar(L, a, m, 0)
  ELSE SetParFromDeltaWei(L, a, m, CachedIndex(m), GetNumExcessTokens(L, m))

VaporizeForCollateral(L) ==
  LET vapor == AccountTwo
      maxHeldWei == GetNumExcessTokens(L, MarketTwo)
      asked == DebtToRepay(L)
      amounts == LiquidationAmounts(asked, maxHeldWei,
                                    OwedPriceAdjusted(ZeroAccount))
      repaid ==
        IF amounts.bounded
        THEN SetParFromDeltaWei(L, vapor, MarketOne, CachedIndex(MarketOne),
                                amounts.owedWei)
        ELSE SetPar(L, vapor, MarketOne, asked.par)
  IN  /\ maxHeldWei >= 0
      /\ asked.ok
      /\ ValidAccountRiskOverride(GetAccountRiskOverride(ZeroAccount))
      /\ Complete(SettleSolidAccount(repaid, amounts))

Vaporize ==
  /\ Executing("Vaporize")
  /\ RequireIsOperator(AccountOne, Sender)
  /\ CanVaporize(AccountTwo)
  /\ LET marked == SetStatus(ledger, AccountTwo, "Vapor")
         refunded == VaporizeUsingExcess(marked, AccountTwo, MarketOne)
     IN  IF ExcessRepaysInFull(marked, AccountTwo, MarketOne)
         THEN Complete(refunded)
         ELSE VaporizeForCollateral(refunded)

-----------------------------------------------------------------------------
(* The end of an operation                                                 *)

\* A fault: the sentinel is asked about liquidations only.
WithinBorrowLimitAnyway(m) ==
  LET total  == ledger.totalPar[m]
      limit  == marketParams[m].maxBorrowWei
      before == [total EXCEPT !.borrow = cache[m].borrowPar]
  IN  IF cache[m].isClosing
      THEN total.borrow <= cache[m].borrowPar
      ELSE limit # 0 => BorrowWei(total, CachedIndex(m))
                          <= Max({limit, BorrowWei(before, CachedIndex(m))})

WithinBorrowLimit(m) ==
  LET total  == ledger.totalPar[m]
      limit  == marketParams[m].maxBorrowWei
      before == [total EXCEPT !.borrow = cache[m].borrowPar]
  IN  IF cache[m].isClosing \/ ~sentinel.isBorrowAllowed
      THEN total.borrow <= cache[m].borrowPar
      ELSE limit # 0 => BorrowWei(total, CachedIndex(m))
                          <= Max({limit, BorrowWei(before, CachedIndex(m))})

WithinSupplyLimit(m) ==
  LET total  == ledger.totalPar[m]
      limit  == marketParams[m].maxSupplyWei
      before == [total EXCEPT !.supply = cache[m].supplyPar]
  IN  limit # 0 => SupplyWei(total, CachedIndex(m))
                     <= Max({limit, SupplyWei(before, CachedIndex(m))})

(***************************************************************************)
(* Preprocessing counted each account's markets before any action ran.     *)
(***************************************************************************)
\* A fault: one balance too many.
VerifyOneMarketTooMany(a) ==
  Cardinality(ledger.marketsWithBalances[a])
    <= Max({Cardinality(saved.ledger.marketsWithBalances[a]),
            riskParams.accountMaxNumberOfMarketsWithBalances + 1})

VerifyNumberOfMarketsWithBalances(a) ==
  Cardinality(ledger.marketsWithBalances[a])
    <= Max({Cardinality(saved.ledger.marketsWithBalances[a]),
            riskParams.accountMaxNumberOfMarketsWithBalances})

\* A fault: the flag of a vaporized account outlives what the account does.
ClearLiquidOnly(L, accounts) ==
  [L EXCEPT !.status = [a \in Accounts |->
     IF a \in accounts /\ @[a] = "Liquid" THEN "Normal" ELSE @[a]]]

ClearStatuses(L, accounts) ==
  [L EXCEPT !.status = [a \in Accounts |->
     IF a \in accounts THEN "Normal" ELSE @[a]]]

AllPrimaryAccounts == PrimaryAccounts(request, Len(request.actions))

EndOperation ==
  /\ request' = NoRequest
  /\ pc' = 0
  /\ cache' = NoCache
  /\ saved' = NoSnapshot
  /\ UNCHANGED <<params, permissions, world>>

Commit ==
  /\ ~Idle
  /\ pc = Len(request.actions) + 1
  /\ \A m \in DOMAIN cache : WithinBorrowLimit(m) /\ WithinSupplyLimit(m)
  /\ \A a \in ListedAccounts(request) : VerifyNumberOfMarketsWithBalances(a)
  /\ \A a \in AllPrimaryAccounts :
       /\ CollateralCheckRuns(ledger, a, cache, TRUE)
       /\ IsCollateralized(ledger, a, cache)
  /\ ledger' = ClearStatuses(ledger, AllPrimaryAccounts)
  /\ operators' = operators
  /\ EndOperation

(***************************************************************************)
(* A require fails, the called code reverts or the gas runs out: at any    *)
(* point of an operation the transaction may be undone.                    *)
(***************************************************************************)
Revert ==
  /\ ~Idle
  /\ ledger' = saved.ledger
  /\ operators' = saved.operators
  /\ EndOperation

Operate ==
  \/ \E r \in Requests : Begin(r)
  \/ Deposit \/ Withdraw \/ Transfer \/ Buy \/ Sell \/ Trade
  \/ Call \/ Liquidate \/ Vaporize
  \/ Commit
  \/ Revert
=============================================================================

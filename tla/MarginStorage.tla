---------------------------- MODULE MarginStorage ----------------------------
(***************************************************************************)
(* Storage.sol: what DolomiteMargin keeps, and the reads and writes every  *)
(* other part of it is built from.                                         *)
(*                                                                         *)
(* The books -- accounts, market totals and indexes -- and the tokens that *)
(* the token contracts hold for DolomiteMargin form one record, the        *)
(* ledger.  A write is an operator from a ledger to a ledger, so that the  *)
(* several writes of one action compose in the order of the code.  A write *)
(* whose SafeMath, cast or token transfer would revert leaves the ledger   *)
(* as it was and clears its field ok; only an ok ledger is ever stored.    *)
(***************************************************************************)
EXTENDS MarginMath, FiniteSets, FiniteSetsExt, Functions

CONSTANTS
  Accounts,     \* the accounts (Account.Info: an owner and a number)
  Addresses,    \* owners, operators, auto-traders, exchange wrappers, callees
  Owner,        \* account -> the address that owns it
  DolomiteMarginAddress, \* address(this)
  Markets,      \* the tokens that are, or may become, markets
  TokenSupply,  \* how many units of each token exist
  RiskSetters,  \* contracts that override the risk parameters of accounts
  NoSetter,     \* address(0) in place of such a contract
  ZeroAccount,  \* Account.Info(address(0), 0), and every account of an
                \* address that none of Accounts belongs to
  DefaultAccount, \* address -> its account number 0
  SetterAnswer, \* setter -> account -> [marginRatio, liquidationSpread]
  RiskLimits    \* the immutable bounds of the risk parameters

ASSUME StorageAssumption ==
  /\ IsFiniteSet(Accounts)
  /\ IsFiniteSet(Markets)
  /\ Owner \in [Accounts -> Addresses]
  /\ TokenSupply \in Nat
  /\ ZeroAccount \notin Accounts
  /\ DefaultAccount \in [Addresses -> Accounts \cup {ZeroAccount}]
  /\ NoSetter \notin RiskSetters
  /\ SetterAnswer \in [RiskSetters -> [Accounts \cup {ZeroAccount} ->
                          [marginRatio : Nat, liquidationSpread : Nat]]]
  /\ RiskLimits \in [marginRatioMax : Nat, liquidationSpreadMax : Nat,
                     earningsRateMax : Nat, marginPremiumMax : Nat,
                     liquidationSpreadPremiumMax : Nat, interestRateMax : Nat,
                     minBorrowedValueMax : Nat]

VARIABLES
  ledger,             \* the books and the tokens held
  riskParams,         \* the global risk parameters
  marketParams,       \* market -> its risk parameters
  listedMarkets,      \* the markets the owner has added
  operators,          \* pairs <<owner, operator>>: local operators
  globalOperators,    \* addresses that control every account
  specialAutoTraders, \* auto-traders only global operators may use
  price,              \* market -> what its price oracle answers
  sentinel,           \* what the oracle sentinel answers
  now                 \* block.timestamp

params == <<riskParams, marketParams, listedMarkets>>
permissions == <<globalOperators, specialAutoTraders>>
world == <<price, sentinel, now>>

-----------------------------------------------------------------------------

Statuses == {"Normal", "Liquid", "Vapor"}
Signed128 == -MaxUint128 .. MaxUint128

Ledgers ==
  [par                     : [Accounts -> [Markets -> Signed128]],
   numberOfMarketsWithDebt : [Accounts -> Int],
   marketsWithBalances     : [Accounts -> SUBSET Markets],
   status                  : [Accounts -> Statuses],
   totalPar                : [Markets -> [borrow : 0 .. MaxUint128,
                                          supply : 0 .. MaxUint128]],
   index                   : [Markets -> Indexes],
   balanceOf               : [Markets -> 0 .. TokenSupply],
   ok                      : BOOLEAN]

RiskParamsType ==
  [marginRatio        : Nat,
   liquidationSpread  : Nat,
   earningsRate       : Nat,
   minBorrowedValue   : Nat,
   accountMaxNumberOfMarketsWithBalances : Nat,
   accountRiskOverrideSetterMap     : [Addresses -> RiskSetters \cup {NoSetter}],
   defaultAccountRiskOverrideSetter : RiskSetters \cup {NoSetter}]

MarketParamsType ==
  [isClosing                : BOOLEAN,
   marginPremium            : Nat,
   liquidationSpreadPremium : Nat,
   maxSupplyWei             : Nat,
   maxBorrowWei             : Nat,
   earningsRateOverride     : Nat]

SentinelType == [isBorrowAllowed : BOOLEAN, isLiquidationAllowed : BOOLEAN]

AssetAmounts == [denomination : {"Wei", "Par"}, ref : {"Delta", "Target"},
                 value : Int]

-----------------------------------------------------------------------------
(* Writes                                                                  *)

Fail(L) == [L EXCEPT !.ok = FALSE]

(***************************************************************************)
(* setPar: replace one balance, and with it the market's totals, the       *)
(* account's count of debts and its set of markets with a balance.         *)
(***************************************************************************)
PositivePart(x) == IF x > 0 THEN x ELSE 0
NegativePart(x) == IF x < 0 THEN -x ELSE 0

\* A fault: the old debt is rolled back only if there is a new one.
RolledTotalParKeepingDebt(total, oldPar, newPar) ==
  [supply |-> total.supply - PositivePart(oldPar) + PositivePart(newPar),
   borrow |-> IF newPar < 0 THEN total.borrow - NegativePart(oldPar) - newPar
                            ELSE total.borrow]

RolledTotalPar(total, oldPar, newPar) ==
  [supply |-> total.supply - PositivePart(oldPar) + PositivePart(newPar),
   borrow |-> total.borrow - NegativePart(oldPar) + NegativePart(newPar)]

RollIsSafe(total, oldPar, newPar) ==
  /\ total.supply >= PositivePart(oldPar)
  /\ total.borrow >= NegativePart(oldPar)
  /\ FitsUint128(RolledTotalPar(total, oldPar, newPar).supply)
  /\ FitsUint128(RolledTotalPar(total, oldPar, newPar).borrow)

\* A fault: a balance that flips its sign at once is not counted.
DebtChangeFromZeroOnly(oldPar, newPar) ==
  CASE oldPar < 0 /\ newPar = 0 -> -1
    [] oldPar = 0 /\ newPar < 0 -> 1
    [] OTHER                    -> 0

DebtChange(oldPar, newPar) ==
  CASE oldPar < 0  /\ newPar >= 0 -> -1
    [] oldPar >= 0 /\ newPar < 0  -> 1
    [] OTHER                      -> 0

BalancesAfter(held, m, oldPar, newPar) ==
  CASE newPar = 0 /\ oldPar # 0 -> held \ {m}
    [] newPar # 0 /\ oldPar = 0 -> held \cup {m}
    [] OTHER                    -> held

SetPar(L, a, m, newPar) ==
  LET oldPar == L.par[a][m]
      total  == L.totalPar[m]
  IN  IF newPar = oldPar THEN L
      ELSE IF FitsUint128(newPar) /\ RollIsSafe(total, oldPar, newPar)
      THEN [L EXCEPT
             !.par[a][m] = newPar,
             !.totalPar[m] = RolledTotalPar(total, oldPar, newPar),
             !.numberOfMarketsWithDebt[a] = @ + DebtChange(oldPar, newPar),
             !.marketsWithBalances[a] = BalancesAfter(@, m, oldPar, newPar)]
      ELSE Fail(L)

GetWei(L, a, m, index) == ParToWei(L.par[a][m], index)

\* A fault: the old balance is forgotten.
SetParToDeltaWei(L, a, m, index, deltaWei) ==
  IF deltaWei = 0 THEN L ELSE SetPar(L, a, m, WeiToPar(deltaWei, index))

SetParFromDeltaWei(L, a, m, index, deltaWei) ==
  IF deltaWei = 0 THEN L
  ELSE SetPar(L, a, m, WeiToPar(GetWei(L, a, m, index) + deltaWei, index))

SetStatus(L, a, status) == [L EXCEPT !.status[a] = status]

(***************************************************************************)
(* Tokens move between DolomiteMargin and the rest of the world, which     *)
(* holds all the tokens DolomiteMargin does not.                           *)
(***************************************************************************)
TransferIn(L, m, from, wei) ==
  IF wei < 0 \/ (from # DolomiteMarginAddress
                  /\ L.balanceOf[m] + wei > TokenSupply)
  THEN Fail(L)
  ELSE IF from = DolomiteMarginAddress THEN L
  ELSE [L EXCEPT !.balanceOf[m] = @ + wei]

TransferOut(L, m, to, wei) ==
  IF wei > 0 \/ (to # DolomiteMarginAddress /\ L.balanceOf[m] + wei < 0)
  THEN Fail(L)
  ELSE IF to = DolomiteMarginAddress THEN L
  ELSE [L EXCEPT !.balanceOf[m] = @ + wei]

-----------------------------------------------------------------------------
(* Reads                                                                   *)

(***************************************************************************)
(* The tokens DolomiteMargin holds beyond what it owes its suppliers.      *)
(***************************************************************************)
GetNumExcessTokens(L, m) ==
  L.balanceOf[m] + BorrowWei(L.totalPar[m], L.index[m])
                 - SupplyWei(L.totalPar[m], L.index[m])

(***************************************************************************)
(* The balance an amount asks for, and the change in Wei that it makes.    *)
(***************************************************************************)
GetNewParAndDeltaWei(L, a, m, index, amount) ==
  LET oldPar == L.par[a][m]
      oldWei == GetWei(L, a, m, index)
      deltaWei == IF amount.ref = "Target" THEN amount.value - oldWei
                                           ELSE amount.value
      newPar   == IF amount.ref = "Delta"  THEN oldPar + amount.value
                                           ELSE amount.value
      newParOfWei == WeiToPar(oldWei + deltaWei, index)
  IN  IF amount.value = 0 /\ amount.ref = "Delta"
      THEN [par |-> oldPar, deltaWei |-> 0, ok |-> TRUE]
      ELSE IF amount.denomination = "Wei"
      THEN [par |-> newParOfWei, deltaWei |-> deltaWei,
            ok |-> FitsUint128(newParOfWei)]
      ELSE [par |-> newPar, deltaWei |-> ParToWei(newPar, index) - oldWei,
            ok |-> FitsUint128(amount.value) /\ FitsUint128(newPar)]

(***************************************************************************)
(* The same for the debt of an account that is liquidated or vaporized: it *)
(* may be repaid in part or in full and never grows.                       *)
(***************************************************************************)
\* A fault: more may be repaid than is owed.
GetNewParAndDeltaWeiUnbounded(L, a, m, index, amount) ==
  LET asked == GetNewParAndDeltaWei(L, a, m, index, amount)
  IN  [asked EXCEPT !.ok = @ /\ L.par[a][m] <= 0 /\ asked.deltaWei >= 0]

GetNewParAndDeltaWeiForLiquidation(L, a, m, index, amount) ==
  LET oldPar  == L.par[a][m]
      asked   == GetNewParAndDeltaWei(L, a, m, index, amount)
      overpays == asked.par > 0
      newPar  == IF overpays THEN 0 ELSE asked.par
      bounded == IF overpays THEN -GetWei(L, a, m, index) ELSE asked.deltaWei
  IN  [par      |-> newPar,
       deltaWei |-> IF newPar = oldPar THEN 0 ELSE bounded,
       ok       |-> /\ asked.ok
                    /\ oldPar <= 0
                    /\ bounded >= 0
                    /\ Abs(oldPar) >= Abs(newPar)]

RequireIsGlobalOperator(operator) == operator \in globalOperators

\* A fault: the mapping of local operators is read the wrong way round.
LocalOperatorsSwapped(owner) == {x \in Addresses : <<x, owner>> \in operators}

LocalOperators(owner) == {x \in Addresses : <<owner, x>> \in operators}

RequireIsOperator(a, operator) ==
  operator \in {Owner[a]} \cup globalOperators \cup LocalOperators(Owner[a])

(***************************************************************************)
(* The contract that overrides an account's risk parameters, its answer,   *)
(* and the check of that answer.                                           *)
(***************************************************************************)
RiskOverrideSetter(a) ==
  LET own == IF a = ZeroAccount
             THEN NoSetter
             ELSE riskParams.accountRiskOverrideSetterMap[Owner[a]]
  IN  IF own # NoSetter THEN own
      ELSE riskParams.defaultAccountRiskOverrideSetter

GetAccountRiskOverride(a) ==
  LET setter == RiskOverrideSetter(a)
  IN  IF setter = NoSetter
      THEN [marginRatio |-> 0, liquidationSpread |-> 0]
      ELSE SetterAnswer[setter][a]

ValidAccountRiskOverride(override) ==
  /\ override.marginRatio <= RiskLimits.marginRatioMax
  /\ override.liquidationSpread <= RiskLimits.liquidationSpreadMax
  /\ IF override.marginRatio # 0 /\ override.liquidationSpread # 0
     THEN override.liquidationSpread < override.marginRatio
     ELSE override.liquidationSpread = 0 /\ override.marginRatio = 0

GetLiquidationSpreadForAccountAndPair(a, heldMarket, owedMarket) ==
  LET override == GetAccountRiskOverride(a).liquidationSpread
      premium(m) == OnePlus(marketParams[m].liquidationSpreadPremium)
  IN  IF override # 0 THEN override
      ELSE DecimalMul(DecimalMul(riskParams.liquidationSpread,
                                 premium(heldMarket)),
                      premium(owedMarket))

(***************************************************************************)
(* What an account is worth: its supplies and its debts over the markets   *)
(* of the cache, at the cached prices and indexes, each market's value     *)
(* adjusted by its margin premium unless the account's margin ratio is     *)
(* overridden.                                                             *)
(***************************************************************************)
LiquidityAdjustment(a, m) ==
  IF GetAccountRiskOverride(a).marginRatio = 0
  THEN OnePlus(marketParams[m].marginPremium)
  ELSE Base

SupplyValue(L, a, m, entry) ==
  DecimalDiv(PositivePart(GetWei(L, a, m, entry.index)) * entry.price,
             LiquidityAdjustment(a, m))

BorrowValue(L, a, m, entry) ==
  DecimalMul(NegativePart(GetWei(L, a, m, entry.index)) * entry.price,
             LiquidityAdjustment(a, m))

AccountSupplyValue(L, a, cache) ==
  SumFunction([m \in DOMAIN cache |-> SupplyValue(L, a, m, cache[m])])

AccountBorrowValue(L, a, cache) ==
  SumFunction([m \in DOMAIN cache |-> BorrowValue(L, a, m, cache[m])])

RequiredMarginRatio(a) ==
  LET override == GetAccountRiskOverride(a).marginRatio
  IN  IF override = 0 THEN riskParams.marginRatio ELSE override

\* A fault: the value required is compared strictly.
IsCollateralizedStrictly(L, a, cache) ==
  L.numberOfMarketsWithDebt[a] # 0 =>
    LET borrowValue == AccountBorrowValue(L, a, cache)
    IN  AccountSupplyValue(L, a, cache)
          > borrowValue + DecimalMul(borrowValue, RequiredMarginRatio(a))

\* A fault: the margin ratio is not the account's own.
IsCollateralizedGlobally(L, a, cache) ==
  L.numberOfMarketsWithDebt[a] # 0 =>
    LET borrowValue == AccountBorrowValue(L, a, cache)
    IN  AccountSupplyValue(L, a, cache)
          >= borrowValue + DecimalMul(borrowValue, riskParams.marginRatio)

IsCollateralized(L, a, cache) ==
  L.numberOfMarketsWithDebt[a] # 0 =>
    LET borrowValue == AccountBorrowValue(L, a, cache)
    IN  AccountSupplyValue(L, a, cache)
          >= borrowValue + DecimalMul(borrowValue, RequiredMarginRatio(a))

(***************************************************************************)
(* The requires inside isCollateralized: the risk override is valid and,   *)
(* when the caller asks for it, the debt is not too small.                 *)
(***************************************************************************)
CollateralCheckRuns(L, a, cache, requireMinBorrow) ==
  L.numberOfMarketsWithDebt[a] # 0 =>
    /\ ValidAccountRiskOverride(GetAccountRiskOverride(a))
    /\ requireMinBorrow =>
         AccountBorrowValue(L, a, cache) >= riskParams.minBorrowedValue

IsVaporizable(L, a, cache) ==
  /\ \A m \in DOMAIN cache : L.par[a][m] <= 0
  /\ \E m \in DOMAIN cache : L.par[a][m] < 0

-----------------------------------------------------------------------------
(***************************************************************************)
(* The counter of debts and the set of markets that setPar maintains by    *)
(* increments agree with the balances.  isCollateralized skips every       *)
(* account whose counter is 0, and preprocessing caches the markets of the *)
(* set only: a drifted counter or set would let a debt go unchecked.       *)
(***************************************************************************)
BooksAreExact(L) ==
  \A a \in Accounts :
    /\ L.numberOfMarketsWithDebt[a]
         = Cardinality({m \in Markets : L.par[a][m] < 0})
    /\ L.marketsWithBalances[a] = {m \in Markets : L.par[a][m] # 0}

(***************************************************************************)
(* The totals of a market, on which the index, the excess tokens and the   *)
(* limits depend, are the sums of its accounts' balances.                  *)
(***************************************************************************)
Supplies(L, m) == [a \in Accounts |-> PositivePart(L.par[a][m])]
Borrows(L, m) == [a \in Accounts |-> NegativePart(L.par[a][m])]

TotalsAreExact(L) ==
  \A m \in Markets :
    /\ L.totalPar[m].supply = SumFunction(Supplies(L, m))
    /\ L.totalPar[m].borrow = SumFunction(Borrows(L, m))

(***************************************************************************)
(* A sound ledger: typed, with exact books and totals, and with indexes    *)
(* that belong to no later time than now and charge at least what they     *)
(* credit.                                                                 *)
(***************************************************************************)
IndexIsSound(index) ==
  /\ index.lastUpdate <= now
  /\ index.borrow >= index.supply

Sound(L) ==
  /\ L \in Ledgers
  /\ BooksAreExact(L)
  /\ TotalsAreExact(L)
  /\ \A m \in Markets : IndexIsSound(L.index[m])
=============================================================================

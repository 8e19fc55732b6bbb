--------------------------- MODULE DolomiteMargin ---------------------------
(***************************************************************************)
(* DolomiteMargin: the contract that inherits Operation, Admin and         *)
(* Permission over one storage, in a world where prices move, the          *)
(* sequencer goes down and comes back, time passes and anyone may send     *)
(* tokens to the contract.                                                 *)
(***************************************************************************)
EXTENDS MarginAdmin

CONSTANTS
  MaxTime,  \* the last block.timestamp of a behaviour
  Donations \* how many tokens may be sent to the contract at once

ASSUME WorldAssumption ==
  /\ MaxTime \in Nat
  /\ Donations \subseteq Nat

vars == <<ledger, params, operators, permissions, world, operation>>

(***************************************************************************)
(* The constructor: valid risk parameters, a sentinel that allows          *)
(* everything, and no markets.                                             *)
(***************************************************************************)
EmptyLedger ==
  [par                     |-> [a \in Accounts |-> [m \in Markets |-> 0]],
   numberOfMarketsWithDebt |-> [a \in Accounts |-> 0],
   marketsWithBalances     |-> [a \in Accounts |-> {}],
   status                  |-> [a \in Accounts |-> "Normal"],
   totalPar                |-> [m \in Markets |-> [borrow |-> 0, supply |-> 0]],
   index                   |-> [m \in Markets |-> NewIndex(0)],
   balanceOf               |-> [m \in Markets |-> 0],
   ok                      |-> TRUE]

NoMarketParams ==
  [isClosing |-> FALSE, marginPremium |-> 0, liquidationSpreadPremium |-> 0,
   maxSupplyWei |-> 0, maxBorrowWei |-> 0, earningsRateOverride |-> 0]

Init ==
  /\ ledger = EmptyLedger
  /\ riskParams \in {p \in RiskChoices : ValidRiskParams(p)}
  /\ marketParams = [m \in Markets |-> NoMarketParams]
  /\ listedMarkets = {}
  /\ operators = {}
  /\ globalOperators = {}
  /\ specialAutoTraders = {}
  /\ price = [m \in Markets |-> 0]
  /\ sentinel = [isBorrowAllowed |-> TRUE, isLiquidationAllowed |-> TRUE]
  /\ now = 0
  /\ request = NoRequest
  /\ pc = 0
  /\ cache = NoCache
  /\ saved = NoSnapshot

-----------------------------------------------------------------------------
(* The world, between transactions; and, at any time, a gift of tokens.    *)

PriceMoves(m) ==
  /\ Idle
  /\ m \in listedMarkets
  /\ \E answer \in Prices[m] : price' = [price EXCEPT ![m] = answer]
  /\ UNCHANGED <<ledger, params, operators, permissions, sentinel, now,
                 operation>>

SentinelAnswers ==
  /\ Idle
  /\ sentinel' \in SentinelChoices
  /\ UNCHANGED <<ledger, params, operators, permissions, price, now, operation>>

TimePasses ==
  /\ Idle
  /\ now < MaxTime
  /\ now' = now + 1
  /\ UNCHANGED <<ledger, params, operators, permissions, price, sentinel,
                 operation>>

Donate(m, wei) ==
  /\ ledger.balanceOf[m] + wei <= TokenSupply
  /\ ledger' = [ledger EXCEPT !.balanceOf[m] = @ + wei]
  /\ UNCHANGED <<params, operators, permissions, world, operation>>

World ==
  \/ \E m \in Markets : PriceMoves(m)
  \/ SentinelAnswers
  \/ TimePasses
  \/ \E m \in Markets, wei \in Donations : Donate(m, wei)

Next ==
  \/ Operate
  \/ OwnerMarketFunction
  \/ OwnerRiskFunction
  \/ OwnerPermissionFunction
  \/ Permission
  \/ World

Spec == Init /\ [][Next]_vars

-----------------------------------------------------------------------------
(***************************************************************************)
(* DolomiteMargin owns no account and calls no operate: a deposit from the *)
(* contract itself would add to a balance and move no tokens, as Token.sol *)
(* moves none whose source is their destination.  It has no code that      *)
(* opens an account or calls operate, but a global operator could name an  *)
(* account with the contract's address as its owner.                       *)
(***************************************************************************)
MarginActsForNobody ==
  /\ \A a \in Accounts : Owner[a] # DolomiteMarginAddress
  /\ \A r \in Requests : r.sender # DolomiteMarginAddress

(***************************************************************************)
(* What suppliers earn is a part of what borrowers are charged, or all of  *)
(* it: earningsRateMax of getRiskLimits (migrations/helpers.js) is 100%.   *)
(* The constructor takes any limit.                                        *)
(***************************************************************************)
EarningsAreAPart == RiskLimits.earningsRateMax <= Base

-----------------------------------------------------------------------------
(* Invariants                                                              *)

(***************************************************************************)
(* Every variable has its type; in particular no balance, total or index   *)
(* leaves the width that the code stores it in, and no ledger with a       *)
(* failed write is ever kept.                                              *)
(***************************************************************************)
StorageTypeOK ==
  /\ ledger \in Ledgers
  /\ ledger.ok
  /\ riskParams \in RiskParamsType
  /\ marketParams \in [Markets -> MarketParamsType]
  /\ listedMarkets \subseteq Markets
  /\ operators \subseteq Addresses \X Addresses
  /\ globalOperators \subseteq Addresses
  /\ specialAutoTraders \subseteq Addresses

WorldTypeOK ==
  /\ price \in [Markets -> Nat]
  /\ sentinel \in SentinelType
  /\ now \in Nat

SnapshotTypeOK ==
  /\ saved.ledger \in Ledgers
  /\ saved.ledger.ok
  /\ saved.operators \subseteq Addresses \X Addresses

OperationTypeOK ==
  /\ request \in Requests \cup {NoRequest}
  /\ pc \in Nat
  /\ DOMAIN cache \subseteq Markets
  /\ cache \in [DOMAIN cache -> CacheEntries]
  /\ IF Idle THEN saved = NoSnapshot ELSE SnapshotTypeOK

TypeOK == StorageTypeOK /\ WorldTypeOK /\ OperationTypeOK

(***************************************************************************)
(* What every step relies on and keeps: sound books, now and to go back    *)
(* to, and a running operation whose accounts were verified and whose      *)
(* markets were cached when it began.                                      *)
(***************************************************************************)
RequestIsVerified ==
  ~Idle => /\ VerifyInputs(request)
           /\ \A i \in DOMAIN request.actions :
                /\ VerifyAccountLayout(request, i)
                /\ VerifyMarketLayout(request, i)
                /\ ActionMarkets(request.actions[i]) \subseteq DOMAIN cache

Inductive ==
  /\ TypeOK
  /\ Sound(ledger)
  /\ ~Idle => Sound(saved.ledger)
  /\ RequestIsVerified

(***************************************************************************)
(* The books agree with themselves at every step.                          *)
(***************************************************************************)
ExactBooks == BooksAreExact(ledger)

(***************************************************************************)
(* The totals of a market, on which the index, the excess tokens and the   *)
(* limits depend, are the sums of its accounts' balances.                  *)
(***************************************************************************)
ExactTotals == TotalsAreExact(ledger)

(***************************************************************************)
(* While an operation runs its cache holds every market in which one of    *)
(* its accounts has a balance, old or new: getAccountValues and            *)
(* isVaporizable look at the cached markets only.                          *)
(***************************************************************************)
CacheCoversAccounts ==
  ~Idle => \A a \in ListedAccounts(request), m \in Markets :
             ledger.par[a][m] # 0 => m \in DOMAIN cache

\* Whether an account has acted in the operation that is running.
HasActed(a) == ~Idle /\ a \in PrimaryAccounts(request, pc - 1)

(***************************************************************************)
(* Until an account acts, or is traded or transferred with, an operation   *)
(* can only bring its balances nearer to zero: liquidation and             *)
(* vaporization never flip a balance, never grow a debt and never touch an *)
(* account that the operation does not list.                               *)
(***************************************************************************)
Between(x, y) == IF y >= 0 THEN 0 <= x /\ x <= y ELSE y <= x /\ x <= 0

BystandersOnlyShrink ==
  ~Idle => \A a \in Accounts, m \in Markets :
    \/ HasActed(a)
    \/ /\ Between(ledger.par[a][m], saved.ledger.par[a][m])
       /\ a \in ListedAccounts(request)
    \/ ledger.par[a][m] = saved.ledger.par[a][m]

(***************************************************************************)
(* What preprocessing read stays true while the operation runs, whatever   *)
(* the code it calls does: the cache holds the current index, price and    *)
(* closing flag of each of its markets and the totals from before the      *)
(* operation, and the totals of the other markets do not move.             *)
(***************************************************************************)
CacheIsCurrent ==
  ~Idle => \A m \in Markets :
    LET before == saved.ledger.totalPar[m]
    IN  IF m \in DOMAIN cache
        THEN /\ cache[m].index = ledger.index[m]
             /\ cache[m].price = price[m]
             /\ cache[m].isClosing = marketParams[m].isClosing
             /\ cache[m].borrowPar = before.borrow
             /\ cache[m].supplyPar = before.supply
        ELSE ledger.totalPar[m] = before

(***************************************************************************)
(* An account that has lost a balance without acting is flagged for it:    *)
(* liquidation and vaporization mark their victim before they touch it,    *)
(* and nothing clears the mark before the operation ends.                  *)
(***************************************************************************)
LosersAreFlagged ==
  ~Idle => \A a \in Accounts, m \in Markets :
    ledger.par[a][m] < saved.ledger.par[a][m]
      => HasActed(a) \/ ledger.status[a] \in {"Liquid", "Vapor"}

(***************************************************************************)
(* An account flagged as vapor has no supply until it acts, in this ledger *)
(* and in the one that a revert restores: vaporize does not look again at  *)
(* an account that has the flag.                                           *)
(***************************************************************************)
HasNoSupply(L, a) == \A m \in Markets : L.par[a][m] <= 0

VaporHasNoSupply ==
  \A a \in Accounts :
    /\ ledger.status[a] = "Vapor" => HasActed(a) \/ HasNoSupply(ledger, a)
    /\ ~Idle /\ saved.ledger.status[a] = "Vapor" => HasNoSupply(saved.ledger, a)

(***************************************************************************)
(* What the checks at the end of an operation rest on, and what every step *)
(* of an operation keeps.                                                  *)
(***************************************************************************)
OperationIsTracked ==
  /\ CacheCoversAccounts
  /\ CacheIsCurrent
  /\ BystandersOnlyShrink
  /\ LosersAreFlagged
  /\ VaporHasNoSupply

(***************************************************************************)
(* DolomiteMargin can pay all its suppliers once its borrowers have paid   *)
(* it, before, during and after every operation, while no interest has     *)
(* accrued in the market: with it, rounding half up can cost a unit.       *)
(***************************************************************************)
NoInterestYet(index) == index.borrow = Base /\ index.supply = Base

Solvent ==
  \A m \in listedMarkets :
    NoInterestYet(ledger.index[m]) => GetNumExcessTokens(ledger, m) >= 0

(***************************************************************************)
(* However the owner changes the risk parameters, in whatever order, the   *)
(* liquidation spread stays below the margin ratio, so that an account     *)
(* that has just become unhealthy can pay it.                              *)
(***************************************************************************)
RiskParamsStayValid == ValidRiskParams(riskParams)

-----------------------------------------------------------------------------
(* Action properties                                                       *)

(***************************************************************************)
(* Whether an account's supplies cover its debts with the required margin, *)
(* over all markets and at the current prices: a reference for             *)
(* isCollateralized that uses neither the cache nor the counter of debts.  *)
(***************************************************************************)
Healthy(L, a) ==
  LET all    == InitializeCache(L, Markets)
      borrow == AccountBorrowValue(L, a, all)
  IN  \/ \A m \in Markets : L.par[a][m] >= 0
      \/ AccountSupplyValue(L, a, all)
           >= borrow + DecimalMul(borrow, RequiredMarginRatio(a))

OperationEnds == ~Idle /\ request' = NoRequest

(***************************************************************************)
(* An operation that lowers any balance of an account leaves the account   *)
(* healthy, and with no debt or one worth liquidating, unless it           *)
(* liquidated it, and perhaps vaporized it afterwards.                     *)
(***************************************************************************)
WorthLiquidating(L, a) ==
  (\E m \in Markets : L.par[a][m] < 0) =>
    AccountBorrowValue(L, a, InitializeCache(L, Markets)) >= riskParams.minBorrowedValue

NobodyBorrowsUnhealthily ==
  [][OperationEnds =>
       \A a \in Accounts :
         (\E m \in Markets : ledger'.par[a][m] < saved.ledger.par[a][m])
           => \/ Healthy(ledger', a) /\ WorthLiquidating(ledger', a)
              \/ ledger'.status[a] \in {"Liquid", "Vapor"}]_vars

(***************************************************************************)
(* Only an unhealthy account is flagged for liquidation.                   *)
(***************************************************************************)
OnlyUnhealthyAreLiquidated ==
  [][\A a \in Accounts :
       ledger'.status[a] = "Liquid" /\ ledger.status[a] # "Liquid"
         => ~Healthy(ledger, a) \/ OperationEnds]_vars

(***************************************************************************)
(* Vaporizing an account never takes a supply of it.  _vaporizeUsingExcess *)
(* sets the balance of the owed market to zero before anything has looked  *)
(* at its sign, so this rests on the order of preprocessing's account      *)
(* checks and on the flags being cleared in time.                          *)
(***************************************************************************)
VaporizeTakesNoSupply ==
  [][Executing("Vaporize") /\ ~Idle' =>
       \A m \in Markets :
         ledger.par[AccountTwo][m] > 0
           => ledger'.par[AccountTwo][m] >= ledger.par[AccountTwo][m]]_vars

(***************************************************************************)
(* No step of an operation moves an account without authority: the sender  *)
(* is an operator of it, or its own auto-trader agreed to the trade, or    *)
(* the account is liquidated or vaporized.                                 *)
(***************************************************************************)
Controls(x, a) ==
  x = Owner[a] \/ x \in globalOperators \/ <<Owner[a], x>> \in operators

MayMove(a) ==
  \/ Controls(Sender, a)
  \/ Arg.actionType = "Trade" /\ Controls(Arg.otherAddress, a)
  \/ Arg.actionType = "Liquidate" /\ Sender \in globalOperators
  \/ Arg.actionType = "Vaporize"

NoMoveWithoutAuthority ==
  [][\A a \in Accounts :
       ledger'.par[a] # ledger.par[a] => ~Idle /\ (OperationEnds \/ MayMove(a))]_vars

(***************************************************************************)
(* Excess tokens go only to the owner, who takes no more than there are,   *)
(* or to debts that are vaporized; a reverted operation may take back a    *)
(* gift it received, and an accrual is AccrualIsCovered's.  Every other    *)
(* step moves tokens and balances by the same amounts, but for the         *)
(* rounding of two balances and of the market's totals: half a Wei for     *)
(* each reading, half a unit of principal for each writing.                *)
(***************************************************************************)
RoundingLoss(index) ==
  IF NoInterestYet(index) THEN 0 ELSE 3 + index.borrow \div Base

ExcessIsKept ==
  [][\A m \in listedMarkets :
       GetNumExcessTokens(ledger', m) + RoundingLoss(ledger.index[m])
           < GetNumExcessTokens(ledger, m)
         => \/ Idle /\ Idle' /\ GetNumExcessTokens(ledger', m) >= 0
            \/ OperationEnds
            \/ ~Idle /\ Executing("Vaporize")
            \/ ledger'.index[m] # ledger.index[m]]_vars

(***************************************************************************)
(* Whoever takes over a debt gets collateral for it that is worth no more  *)
(* than the debt with the liquidation spread, but for the rounding of the  *)
(* two balances that are written.                                          *)
(***************************************************************************)
WritingLoss(index) == IF NoInterestYet(index) THEN 0 ELSE index.borrow \div Base

SpreadIsTheMostALiquidatorGets ==
  [][(Executing("Liquidate") \/ Executing("Vaporize")) /\ ~Idle' =>
       LET held(L) == GetWei(L, AccountOne, MarketTwo, CachedIndex(MarketTwo))
           owes(L) == -GetWei(L, AccountOne, MarketOne, CachedIndex(MarketOne))
           gained == held(ledger') - held(ledger)
           owed   == owes(ledger') - owes(ledger)
           liable == IF Executing("Liquidate") THEN AccountTwo ELSE ZeroAccount
       IN  (gained - WritingLoss(CachedIndex(MarketTwo))) * HeldPrice
             <= (owed + WritingLoss(CachedIndex(MarketOne)))
                  * OwedPriceAdjusted(liable)]_vars

(***************************************************************************)
(* An operation leaves every market within its limits, or no further       *)
(* beyond them than it found it: nothing more is borrowed from a market    *)
(* that is closing, or while the sentinel forbids it.                      *)
(***************************************************************************)
LimitsHold ==
  [][OperationEnds =>
       \A m \in Markets :
         LET before == saved.ledger.totalPar[m]
             after  == ledger'.totalPar[m]
             index  == ledger'.index[m]
             limits == marketParams[m]
         IN  /\ after.borrow > before.borrow =>
                  /\ ~limits.isClosing
                  /\ sentinel.isBorrowAllowed
                  /\ limits.maxBorrowWei # 0 =>
                       \/ BorrowWei(after, index) <= limits.maxBorrowWei
                       \/ BorrowWei(after, index) = BorrowWei(before, index)
             /\ after.supply > before.supply /\ limits.maxSupplyWei # 0 =>
                  \/ SupplyWei(after, index) <= limits.maxSupplyWei
                  \/ SupplyWei(after, index) = SupplyWei(before, index)]_vars

(***************************************************************************)
(* No account gathers balances in more markets than an account may have: a *)
(* larger number of balances than before is within the limit.              *)
(***************************************************************************)
BalancesStayFew ==
  [][OperationEnds =>
       \A a \in Accounts :
         LET before == {m \in Markets : saved.ledger.par[a][m] # 0}
             after  == {m \in Markets : ledger'.par[a][m] # 0}
         IN  Cardinality(after) > Cardinality(before) =>
               Cardinality(after)
                 <= riskParams.accountMaxNumberOfMarketsWithBalances]_vars

(***************************************************************************)
(* An index never falls, except back with a reverted operation, and what   *)
(* borrowers owe never grows slower than what suppliers earn.              *)
(***************************************************************************)
IndexRises(m) ==
  /\ ledger'.index[m].borrow >= ledger.index[m].borrow
  /\ ledger'.index[m].supply >= ledger.index[m].supply
  /\ ledger'.index[m].borrow >= ledger'.index[m].supply

IndexesNeverFall ==
  [][\A m \in listedMarkets : OperationEnds \/ IndexRises(m)]_vars

(***************************************************************************)
(* Interest is not made from nothing: what an update of the indexes        *)
(* credits to a market's suppliers is covered by what it charges its       *)
(* borrowers, but for roundings: of the two totals, before and after the   *)
(* update; of the borrow index, which loses at most one part in Base of    *)
(* each unit borrowed; and of the two totals that the suppliers' share is  *)
(* computed from, half a unit of each and the interest on it, which is no  *)
(* more than what the borrow index grows by.                               *)
(***************************************************************************)
AccrualLoss(m) ==
  2 + (ledger.totalPar[m].borrow
         + (ledger'.index[m].borrow - ledger.index[m].borrow)) \div Base

AccrualIsCovered ==
  [][\A m \in listedMarkets :
       Idle /\ ledger'.index[m] # ledger.index[m] =>
         GetNumExcessTokens(ledger', m)
           >= GetNumExcessTokens(ledger, m) - AccrualLoss(m)]_vars

=============================================================================

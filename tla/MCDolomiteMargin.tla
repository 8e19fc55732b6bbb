-------------------------- MODULE MCDolomiteMargin --------------------------
(***************************************************************************)
(* Small instances of DolomiteMargin for TLC: two accounts, two markets    *)
(* and lists of operations, one list for each run.  Base is 10, so a       *)
(* margin ratio of 5 is 50% and a liquidation spread of 2 is 20%.          *)
(***************************************************************************)
EXTENDS DolomiteMargin, TLC

CONSTANTS
  solid, debtor,              \* accounts
  alice, bob, trader, margin, \* their owners, a contract, DolomiteMargin
  eth, usd, btc,              \* markets
  none                        \* in place of a risk setter

MCOwner == (solid :> alice) @@ (debtor :> bob)
MCDefaultAccount ==
  [x \in Addresses |-> CASE x = alice -> solid
                         [] x = bob   -> debtor
                         [] OTHER     -> ZeroAccount]
MCSoleOwner == debtor :> bob
MCSoleAccount ==
  [x \in Addresses |-> IF x = bob THEN debtor ELSE ZeroAccount]
MCNoAnswers == [s \in {} |-> 0]
MCRiskLimits ==
  [marginRatioMax |-> 20, liquidationSpreadMax |-> 10, earningsRateMax |-> 10,
   marginPremiumMax |-> 10, liquidationSpreadPremiumMax |-> 10,
   interestRateMax |-> 10, minBorrowedValueMax |-> 20]

MCRisk ==
  [marginRatio |-> 5, liquidationSpread |-> 2, earningsRate |-> 10,
   minBorrowedValue |-> 0, accountMaxNumberOfMarketsWithBalances |-> 2,
   accountRiskOverrideSetterMap |-> [x \in Addresses |-> NoSetter],
   defaultAccountRiskOverrideSetter |-> NoSetter]
MCRiskChoices == {MCRisk}
MCMarketChoices == {NoMarketParams}
PremiumMarkets == {[NoMarketParams EXCEPT !.liquidationSpreadPremium = 10]}
MCSentinelUp == {[isBorrowAllowed |-> TRUE, isLiquidationAllowed |-> TRUE]}

Wei(ref, value) == [denomination |-> "Wei", ref |-> ref, value |-> value]
Par(ref, value) == [denomination |-> "Par", ref |-> ref, value |-> value]
MCTradeCosts == {Wei("Delta", 1), Wei("Delta", -1)}

-----------------------------------------------------------------------------
(* Actions: account id 1 acts, with account id 2 as the other account.     *)

OtherMarket(m) == IF m = eth THEN usd ELSE eth
OtherAccount(a) == IF a = solid THEN debtor ELSE solid

ActionOn(type, m, amount, address) ==
  [actionType |-> type, accountId |-> 1, otherAccountId |-> 2,
   primaryMarket |-> m, secondaryMarket |-> OtherMarket(m), amount |-> amount,
   otherAddress |-> address, calculateAmountWithMakerAccount |-> TRUE]

DepositOf(a, m, n) == ActionOn("Deposit", m, Wei("Delta", n), Owner[a])
WithdrawOf(a, m, n) == ActionOn("Withdraw", m, Wei("Delta", -n), Owner[a])
LiquidateOn(m, amount) == ActionOn("Liquidate", m, amount, alice)
VaporizeOn(m, amount) == ActionOn("Vaporize", m, amount, alice)

RequestBy(sender, a, actions) ==
  [sender |-> sender, accounts |-> <<a, OtherAccount(a)>>, actions |-> actions]

OwnersRequest(a, actions) == RequestBy(Owner[a], a, actions)

-----------------------------------------------------------------------------
(* Deposits, borrows, liquidation and vaporization.                        *)

\* alice gives the debtor's account 2 usd; it has then acted, and a request
\* that vaporizes it again is refused.
Refund ==
  [ActionOn("Deposit", usd, Wei("Delta", 2), alice) EXCEPT !.accountId = 2]

LiquidationRequests ==
  {OwnersRequest(solid, <<DepositOf(solid, usd, 1)>>),
   OwnersRequest(solid, <<WithdrawOf(solid, usd, 1)>>),
   OwnersRequest(debtor, <<DepositOf(debtor, eth, 1)>>),
   OwnersRequest(debtor, <<DepositOf(debtor, usd, 1)>>),
   OwnersRequest(debtor, <<WithdrawOf(debtor, eth, 1)>>),
   OwnersRequest(debtor, <<WithdrawOf(debtor, usd, 1)>>),
   OwnersRequest(solid, <<LiquidateOn(usd, Wei("Target", 0))>>),
   OwnersRequest(solid, <<LiquidateOn(usd, Par("Delta", 1))>>),
   OwnersRequest(solid, <<LiquidateOn(usd, Par("Delta", 1)),
                          VaporizeOn(usd, Wei("Delta", 1))>>),
   OwnersRequest(solid, <<VaporizeOn(usd, Wei("Delta", 2))>>),
   RequestBy(alice, solid, <<VaporizeOn(usd, Wei("Delta", 1)), Refund>>),
   RequestBy(alice, solid, <<VaporizeOn(usd, Wei("Delta", 1)), Refund,
                             VaporizeOn(usd, Wei("Delta", 1))>>)}

VolatilePrices ==
  [m \in Markets |-> IF m = eth THEN {10, 15, 30} ELSE {10}]

-----------------------------------------------------------------------------
(* Transfers, trades, exchanges and calls, by owners and by operators that *)
(* come and go.                                                            *)

TradingGrants == {<<bob, alice>>, <<bob, trader>>}

BalanceOf(type, a, m, n) == ActionOn(type, m, Par("Target", n), Owner[a])
TransferOn(m, n) == ActionOn("Transfer", m, Wei("Delta", n), alice)
TradeOn(m, n) == ActionOn("Trade", m, Wei("Delta", n), trader)
TakersTradeOn(m, n) ==
  [TradeOn(m, n) EXCEPT !.calculateAmountWithMakerAccount = FALSE]
ExchangeOn(type, m, n) == ActionOn(type, m, Wei("Delta", n), trader)
CallOn == ActionOn("Call", eth, Wei("Delta", 0), trader)

TradingRequests ==
  {OwnersRequest(solid, <<BalanceOf("Deposit", solid, usd, 1)>>),
   OwnersRequest(solid, <<TransferOn(usd, 1)>>),
   OwnersRequest(solid, <<TransferOn(usd, -1)>>),
   OwnersRequest(solid, <<TradeOn(usd, 1)>>),
   OwnersRequest(solid, <<TakersTradeOn(usd, 1)>>),
   OwnersRequest(debtor, <<TransferOn(usd, 1)>>),
   OwnersRequest(debtor, <<BalanceOf("Deposit", debtor, eth, 2)>>),
   OwnersRequest(debtor, <<BalanceOf("Withdraw", debtor, eth, 0)>>),
   OwnersRequest(debtor, <<ExchangeOn("Buy", usd, 1)>>),
   OwnersRequest(debtor, <<ExchangeOn("Sell", usd, -1)>>),
   OwnersRequest(debtor, <<WithdrawOf(debtor, usd, 1),
                           DepositOf(debtor, usd, 1)>>),
   RequestBy(alice, debtor, <<CallOn, WithdrawOf(debtor, usd, 1)>>)}

-----------------------------------------------------------------------------
(* One account in three markets, of which it may use two.                  *)

PortfolioRequests ==
  {[sender |-> bob, accounts |-> <<debtor>>, actions |-> actions] : actions \in
     {<<DepositOf(debtor, m, 1)>> : m \in Markets}
       \cup {<<WithdrawOf(debtor, m, 1)>> : m \in Markets}
       \cup {<<DepositOf(debtor, btc, 2), WithdrawOf(debtor, usd, 1)>>,
             <<WithdrawOf(debtor, usd, 2)>>}}

FewerMarkets ==
  {[MCRisk EXCEPT !.accountMaxNumberOfMarketsWithBalances = n] : n \in {2, 3}}

-----------------------------------------------------------------------------
(* A market that is closed, capped and reopened, and a sequencer that goes *)
(* down, while an account borrows from it.                                 *)

LimitRequests ==
  {OwnersRequest(solid, <<DepositOf(solid, usd, 1)>>),
   OwnersRequest(debtor, <<DepositOf(debtor, eth, 2)>>),
   OwnersRequest(debtor, <<WithdrawOf(debtor, usd, 1)>>),
   OwnersRequest(debtor, <<WithdrawOf(debtor, usd, 2),
                           DepositOf(debtor, usd, 1)>>),
   OwnersRequest(debtor, <<DepositOf(debtor, usd, 1)>>)}

LimitChanges ==
  {[NoMarketParams EXCEPT !.isClosing = TRUE, !.maxBorrowWei = 1],
   [NoMarketParams EXCEPT !.maxSupplyWei = 1]}

SentinelStates == {[isBorrowAllowed |-> b, isLiquidationAllowed |-> TRUE] : b \in BOOLEAN}

FixedPrices == [m \in Markets |-> {10}]

-----------------------------------------------------------------------------
(* Risk parameters, risk setters and premiums that the owner changes.      *)

GovernanceRequests ==
  {OwnersRequest(solid, <<DepositOf(solid, usd, 1)>>),
   OwnersRequest(debtor, <<DepositOf(debtor, eth, 2)>>),
   OwnersRequest(debtor, <<WithdrawOf(debtor, usd, 1)>>),
   OwnersRequest(solid, <<LiquidateOn(usd, Wei("Target", 0))>>)}

StrictRisk ==
  [MCRisk EXCEPT !.marginRatio = 12, !.liquidationSpread = 6,
                 !.minBorrowedValue = 15]
RiskRange == {MCRisk, StrictRisk}

\* The uneven setter is strict with the debtor and not valid for the other.
MCSetters == {"Lenient", "Uneven"}
MCSetterAnswers ==
  [s \in MCSetters |-> [a \in Accounts \cup {ZeroAccount} |->
     CASE s = "Lenient" -> [marginRatio |-> 2, liquidationSpread |-> 1]
       [] a = debtor    -> [marginRatio |-> 12, liquidationSpread |-> 6]
       [] a = solid     -> [marginRatio |-> 2, liquidationSpread |-> 3]
       [] OTHER         -> [marginRatio |-> 0, liquidationSpread |-> 0]]]

\* At 13, one eth against one usd is healthy for the lenient setter only.
OverridePrices == [m \in Markets |-> IF m = eth THEN {13, 30} ELSE {10}]

PremiumChanges ==
  {NoMarketParams,
   [NoMarketParams EXCEPT !.marginPremium = 10]}

-----------------------------------------------------------------------------
(* Interest.                                                               *)

HalfEarnings == {[NoMarketParams EXCEPT !.earningsRateOverride = 5]}

InterestRequests ==
  {OwnersRequest(solid, <<DepositOf(solid, usd, 4)>>),
   OwnersRequest(solid, <<BalanceOf("Withdraw", solid, usd, 0)>>),
   OwnersRequest(solid, <<LiquidateOn(usd, Wei("Delta", 3))>>),
   OwnersRequest(debtor, <<DepositOf(debtor, eth, 4)>>),
   OwnersRequest(debtor, <<WithdrawOf(debtor, usd, 1)>>),
   OwnersRequest(debtor, <<DepositOf(debtor, usd, 1)>>)}

-----------------------------------------------------------------------------
(* The hypothesis of the theorems on solvency, in every run.               *)

ASSUME InstanceAssumption == MarginActsForNobody /\ EarningsAreAPart
=============================================================================

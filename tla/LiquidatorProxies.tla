-------------------------- MODULE LiquidatorProxies --------------------------
(***************************************************************************)
(* The proxies through which a liquidator repays the debts of another      *)
(* account: LiquidatorProxyV1.sol, LiquidatorProxyV4WithGenericTrader.sol  *)
(* over LiquidatorProxyBase.sol, ExpiryProxy.sol, and the registry of      *)
(* which of them may touch which market.  Each works out from balances and *)
(* prices what to ask of DolomiteMargin or Expiry, which work it out again *)
(* and round in their own way.                                             *)
(*                                                                         *)
(* As in Expiry, indexes are 1 and prices do not move; `wei` is the account *)
(* that is liquidated.  No market has a premium on its margin and no       *)
(* account an override of its risk; senders are those the proxies accept.  *)
(***************************************************************************)
EXTENDS Expiry, FiniteSets, Functions

CONSTANTS
  MarginRatio,       \* the margin ratio of DolomiteMargin
  LiquidatorRatios,  \* _minLiquidatorRatio of V1
  MinValues,         \* _minValueLiquidated of V1
  OwedPreferences,   \* _owedPreferences of V1
  HeldPreferences,   \* _heldPreferences of V1
  All,               \* uint256(-1)
  InputAmounts,      \* _inputAmountWei of V4, All among them
  MinOutputs,        \* _minOutputAmountWei of V4, All among them
  Gains,             \* what traders may give above the least that is asked
  SolidAccounts,     \* balances of the liquidator at first
  LiquidAccounts,    \* balances of the other account at first
  Listings           \* arguments of the registry: pairs <<market, proxy>>

ASSUME LiquidatorsAssumption ==
  /\ IsFiniteSet(Markets)
  /\ LiquidatorRatios \subseteq Nat
  /\ OwedPreferences \cup HeldPreferences \subseteq Seq(Markets)
  /\ InputAmounts \ {All} \subseteq Nat
  /\ MinOutputs \ {All} \subseteq Nat
  /\ Gains \subseteq Nat
  /\ SolidAccounts \cup LiquidAccounts \subseteq [Markets -> Int]

VARIABLES
  solid,     \* the balance of the liquidator in each market
  isLiquid,  \* whether the other account has the status Liquid
  whitelist  \* _marketIdToLiquidatorWhitelistMap

liquidatorVars == <<solid, isLiquid, whitelist>>

LiquidatorsInit ==
  /\ wei \in LiquidAccounts
  /\ expiry = [m \in Markets |-> 0]
  /\ approved = 0
  /\ rampTime \in RampTimes
  /\ now = 1
  /\ plan = NoPlan
  /\ solid \in SolidAccounts
  /\ isLiquid = FALSE
  /\ whitelist = [m \in Markets |-> {}]

\* _isCollateralized of LiquidatorProxyBase and isCollateralized of Storage.
\* The worth of a supply, and that of a debt.
Positive(amount, price) == IF amount > 0 THEN amount * price ELSE 0
Negative(amount, price) == Positive(-amount, price)

SupplyValue(balances) ==
  SumFunction([m \in Markets |-> Positive(balances[m], Price[m])])

BorrowValue(balances) ==
  SumFunction([m \in Markets |-> Negative(balances[m], Price[m])])

HasMargin(supplyValue, borrowValue, ratio) ==
  supplyValue >= borrowValue + DecimalMul(borrowValue, ratio)

Healthy(balances) ==
  HasMargin(SupplyValue(balances), BorrowValue(balances), MarginRatio)

MayTouch(proxy, markets) ==
  \A m \in markets : whitelist[m] = {} \/ proxy \in whitelist[m]

-----------------------------------------------------------------------------
(* DolomiteMargin, on a state [solid |-> .., wei |-> .., isLiquid |-> ..].  *)

Here == [solid |-> solid, wei |-> wei, isLiquid |-> isLiquid]

LiquidationPrice(held, owed) ==
  Price[owed] + DecimalMul(Price[owed], Spread[<<held, owed>>])

\* The solid account pays `repaid` of the debt and is given `taken`.
Moved(s, held, owed, taken, repaid) ==
  [solid |-> [s.solid EXCEPT ![held] = @ + taken, ![owed] = @ - repaid],
   wei |-> [s.wei EXCEPT ![held] = @ - taken, ![owed] = @ + repaid],
   isLiquid |-> TRUE]

MayLiquidate(s) == s.isLiquid \/ ~Healthy(s.wei)

Liquidated(s, held, owed, amount) ==
  LET price == LiquidationPrice(held, owed)
      asked == Least(amount, -s.wei[owed])
      wanted == GetPartial(asked, price, Price[held])
  IN  IF wanted > s.wei[held]
      THEN Moved(s, held, owed, s.wei[held],
                 GetPartialRoundUp(s.wei[held], Price[held], price))
      ELSE Moved(s, held, owed, wanted, asked)

\* A trade of Expiry, after which the account has to be healthy too.
ExpiryTraded(s, t) ==
  LET after == Traded([wei |-> s.wei, expiry |-> expiry], t).wei
  IN  [solid |-> [m \in Markets |-> s.solid[m] + s.wei[m] - after[m]],
       wei |-> after, isLiquid |-> FALSE]

Become(s) ==
  /\ solid' = s.solid
  /\ wei' = s.wei
  /\ isLiquid' = s.isLiquid
  /\ UNCHANGED <<approved, rampTime, now, plan, whitelist>>

-----------------------------------------------------------------------------
(* LiquidatorProxyV1: as much of each pair as leaves the liquidator with    *)
(* the ratio that was asked for.  A cache has the amounts so far.          *)

InitializeV1Cache(s, held, owed) ==
  [toLiquidate |-> 0, held |-> s.solid[held], owed |-> s.solid[owed],
   supply |-> SupplyValue(s.solid), borrow |-> BorrowValue(s.solid)]

\* A fault: the old held value is not rolled back.
SetCacheWeiValuesOnTop(c, held, owed, newHeld, newOwed) ==
  [toLiquidate |-> c.toLiquidate + c.owed - newOwed,
   held |-> newHeld, owed |-> newOwed,
   supply |-> c.supply - Positive(c.owed, Price[owed])
                + Positive(newHeld, Price[held]) + Positive(newOwed, Price[owed]),
   borrow |-> c.borrow - Negative(c.owed, Price[owed])
                + Negative(newHeld, Price[held]) + Negative(newOwed, Price[owed])]

SetCacheWeiValues(c, held, owed, newHeld, newOwed) ==
  [toLiquidate |-> c.toLiquidate + c.owed - newOwed,
   held |-> newHeld, owed |-> newOwed,
   supply |-> c.supply
                - Positive(c.held, Price[held]) - Positive(c.owed, Price[owed])
                + Positive(newHeld, Price[held]) + Positive(newOwed, Price[owed]),
   borrow |-> c.borrow
                - Negative(c.held, Price[held]) - Negative(c.owed, Price[owed])
                + Negative(newHeld, Price[held]) + Negative(newOwed, Price[owed])]

\* A fault: the worth of the owed balance is compared without the spread.
OwedGoesToZeroLastUnadjusted(c, held, owed) ==
  c.owed > 0 /\ (c.held >= 0 \/ c.owed * Price[owed] > -c.held * Price[held])

OwedGoesToZeroLast(c, held, owed) ==
  /\ c.owed > 0
  /\ c.held >= 0 \/ c.owed * LiquidationPrice(held, owed) > -c.held * Price[held]

\* Until the liquidator has supply in the held and debt in the owed market.
CalculateSafeLiquidationAmount(c, held, owed) ==
  LET price == LiquidationPrice(held, owed)
  IN  IF c.owed <= 0 /\ c.held >= 0 THEN c
      ELSE IF OwedGoesToZeroLast(c, held, owed)
      THEN SetCacheWeiValues(c, held, owed,
             c.held + GetPartial(c.owed, price, Price[held]), 0)
      ELSE SetCacheWeiValues(c, held, owed,
             0, c.owed - GetPartial(-c.held, Price[held], price))

\* What is asked of DolomiteMargin for one pair, or why nothing is.
CalculateMaxLiquidationAmount(c, held, owed, ratio) ==
  LET spread == Spread[<<held, owed>>]
      buffer == c.supply - (c.borrow + DecimalMul(c.borrow, ratio))
  IN  IF c.held < 0 \/ c.owed > 0 \/ c.toLiquidate < 0
      THEN [outcome |-> "assertion", amount |-> 0]
      ELSE IF ~HasMargin(c.supply, c.borrow, ratio)
      THEN [outcome |-> "done", amount |-> 0]
      ELSE IF ratio <= spread
      THEN [outcome |-> "refused", amount |-> 0]
      ELSE [outcome |-> "done",
            amount |-> c.toLiquidate
                         + DecimalDiv(buffer, ratio - spread) \div Price[owed]]

AmountForPair(s, held, owed, ratio) ==
  CalculateMaxLiquidationAmount(
    CalculateSafeLiquidationAmount(InitializeV1Cache(s, held, owed), held, owed),
    held, owed, ratio)

Skipped(s, held, owed) == held = owed \/ s.wei[owed] >= 0 \/ s.wei[held] <= 0

\* One round of the two loops, each an operation of its own.
LiquidatePair(run, held, owed, ratio) ==
  LET asked == AmountForPair(run.state, held, owed, ratio)
      after == Liquidated(run.state, held, owed, asked.amount)
  IN  IF run.outcome # "done" \/ Skipped(run.state, held, owed) THEN run
      ELSE IF asked.outcome # "done" THEN [run EXCEPT !.outcome = asked.outcome]
      ELSE IF asked.amount = 0 THEN run
      ELSE IF ~MayLiquidate(run.state) \/ ~Healthy(after.solid)
      THEN [run EXCEPT !.outcome = "refused"]
      ELSE [state |-> after, outcome |-> "done",
            value |-> run.value + asked.amount * Price[owed]]

\* The pair of each round: the held markets in turn for each owed one.
HeldOf(i, heldPreferences) ==
  heldPreferences[((i - 1) % Len(heldPreferences)) + 1]

OwedOf(i, owedPreferences, heldPreferences) ==
  owedPreferences[((i - 1) \div Len(heldPreferences)) + 1]

\* What there is after each round, and after all of them.
V1Rounds(ratio, owedPreferences, heldPreferences) ==
  LET run[i \in 0 .. Len(owedPreferences) * Len(heldPreferences)] ==
        IF i = 0 THEN [state |-> Here, outcome |-> "done", value |-> 0]
        ELSE LiquidatePair(run[i - 1], HeldOf(i, heldPreferences),
               OwedOf(i, owedPreferences, heldPreferences), ratio)
  IN  run

V1Run(ratio, owedPreferences, heldPreferences) ==
  V1Rounds(ratio, owedPreferences, heldPreferences)
    [Len(owedPreferences) * Len(heldPreferences)]

V1CheckRequirements ==
  /\ SupplyValue(wei) # 0
  /\ MayLiquidate(Here)

V1MayTouch(owedPreferences, heldPreferences) ==
  MayTouch("LiquidatorProxyV1", Range(owedPreferences) \cup Range(heldPreferences))

LiquidateV1(ratio, minValue, owedPreferences, heldPreferences) ==
  /\ V1MayTouch(owedPreferences, heldPreferences)
  /\ V1CheckRequirements
  /\ LET run == V1Run(ratio, owedPreferences, heldPreferences)
     IN  /\ run.outcome = "done"
         /\ run.value >= minValue
         /\ Become(run.state)
  /\ UNCHANGED expiry

-----------------------------------------------------------------------------
(* LiquidatorProxyBase and LiquidatorProxyV4: one pair, as much as there is *)
(* or as the least output asks for, and a sale of what was taken.          *)

OwedPriceAdj(held, owed, expiring) ==
  IF expiring THEN AdjustedOwedPrice(held, owed, expiry[owed])
  ELSE LiquidationPrice(held, owed)

\* A fault: the debt is compared without the spread.
MaxLiquidationAmountUnadjusted(held, owed, price) ==
  IF wei[held] * Price[held] < -wei[owed] * Price[owed]
  THEN [flip |-> TRUE, takes |-> wei[held],
        repays |-> GetPartialRoundUp(wei[held], Price[held], price)]
  ELSE [flip |-> FALSE, takes |-> GetPartial(-wei[owed], price, Price[held]),
        repays |-> -wei[owed]]

MaxLiquidationAmount(held, owed, price) ==
  IF wei[held] * Price[held] < -wei[owed] * price
  THEN [flip |-> TRUE, takes |-> wei[held],
        repays |-> GetPartialRoundUp(wei[held], Price[held], price)]
  ELSE [flip |-> FALSE, takes |-> GetPartial(-wei[owed], price, Price[held]),
        repays |-> -wei[owed]]

\* With the least output as it is from here on.
ActualLiquidationAmount(most, held, price, minOutput) ==
  IF minOutput = All THEN [amounts |-> most, minOutput |-> most.repays]
  ELSE IF minOutput < most.repays
  THEN [amounts |-> [most EXCEPT !.repays = minOutput,
                                 !.takes = GetPartial(minOutput, price, Price[held])],
        minOutput |-> minOutput]
  ELSE [amounts |-> most, minOutput |-> minOutput]

V4Plan(held, owed, minOutput, expiring) ==
  LET price == OwedPriceAdj(held, owed, expiring)
  IN  ActualLiquidationAmount(MaxLiquidationAmount(held, owed, price),
                              held, price, minOutput)

CheckConstants(held, owed, expiring) ==
  /\ owed # held
  /\ wei[owed] <= 0 /\ wei[held] > 0
  /\ expiring => expiry[owed] \in 1 .. now

\* The account's held market goes down, or its owed market goes up.
EncodeExpiryLiquidateAction(held, owed, amounts) ==
  [input |-> IF amounts.flip THEN held ELSE owed,
   output |-> IF amounts.flip THEN owed ELSE held,
   owed |-> owed, toZero |-> FALSE,
   amount |-> IF amounts.flip THEN -amounts.takes ELSE amounts.repays,
   maxExpiry |-> expiry[owed]]

\* The first action of the operation, and whether it goes through.
LiquidationAction(held, owed, expiring, amounts) ==
  LET t == EncodeExpiryLiquidateAction(held, owed, amounts)
  IN  IF expiring
      THEN [accepted |-> Accepted(Now, t), state |-> ExpiryTraded(Here, t)]
      ELSE [accepted |-> wei[owed] < 0 /\ MayLiquidate(Here),
            state |-> Liquidated(Here, held, owed, amounts.repays)]

\* The other actions sell the held market, all that was taken or an amount,
\* for no less than the least output.
Sold(s, held, owed, input, output) ==
  LET sold == IF input = All THEN s.solid[held] - solid[held] ELSE input
  IN  [s EXCEPT !.solid[held] = @ - sold, !.solid[owed] = @ + output]

LiquidateV4(held, owed, inputAmount, minOutput, expiring, gain) ==
  LET planned == V4Plan(held, owed, minOutput, expiring)
      action == LiquidationAction(held, owed, expiring, planned.amounts)
      after == Sold(action.state, held, owed, inputAmount, planned.minOutput + gain)
  IN  /\ CheckConstants(held, owed, expiring)
      /\ MayTouch("LiquidatorProxyV4", {held, owed})
      /\ planned.amounts.repays # 0
      /\ action.accepted
      /\ Healthy(after.solid)
      /\ expiring => Healthy(after.wei)
      /\ Become(after)
      /\ expiry' = IF expiring /\ after.wei[owed] = 0
                   THEN [expiry EXCEPT ![owed] = 0] ELSE expiry

-----------------------------------------------------------------------------
(* ExpiryProxy.  Values lose their signs; a wrong one is left to Expiry.    *)

AmountsForExpiration(held, owed) ==
  LET price == AdjustedOwedPrice(held, owed, expiry[owed])
  IN  IF Abs(wei[held]) * Price[held] < Abs(wei[owed]) * Price[owed]
      THEN [flip |-> TRUE, takes |-> Abs(wei[held]),
            repays |-> GetPartialRoundUp(Abs(wei[held]), Price[held], price)]
      ELSE [flip |-> FALSE,
            takes |-> GetPartial(Abs(wei[owed]), price, Price[held]),
            repays |-> Abs(wei[owed])]

ExpireTrade(held, owed) ==
  EncodeExpiryLiquidateAction(held, owed, AmountsForExpiration(held, owed))

Expire(held, owed) ==
  LET t == ExpireTrade(held, owed)
      after == ExpiryTraded(Here, t)
  IN  /\ MayTouch("ExpiryProxy", {held, owed})
      /\ held # owed
      /\ Accepted(Now, t)
      /\ Healthy(after.solid) /\ Healthy(after.wei)
      /\ Become(after)
      /\ expiry' = Traded(Now, t).expiry

-----------------------------------------------------------------------------
(* LiquidatorAssetRegistry, and what others do meanwhile.                  *)

OwnerAddLiquidatorToAssetWhitelist(market, proxy) ==
  /\ whitelist' = [whitelist EXCEPT ![market] = @ \cup {proxy}]
  /\ UNCHANGED <<expiryVars, solid, isLiquid>>

OwnerRemoveLiquidatorFromAssetWhitelist(market, proxy) ==
  /\ whitelist' = [whitelist EXCEPT ![market] = @ \ {proxy}]
  /\ UNCHANGED <<expiryVars, solid, isLiquid>>

ProxiesNext ==
  \/ \E ratio \in LiquidatorRatios, minValue \in MinValues :
       \E owed \in OwedPreferences, held \in HeldPreferences :
         LiquidateV1(ratio, minValue, owed, held)
  \/ \E held, owed \in Markets, inputAmount \in InputAmounts,
        minOutput \in MinOutputs, expiring \in BOOLEAN, gain \in Gains :
       LiquidateV4(held, owed, inputAmount, minOutput, expiring, gain)
  \/ \E held, owed \in Markets : Expire(held, owed)

SetExpiry(owed) ==
  CallFunctionSetExpiry(Owner,
    <<[market |-> owed, timeDelta |-> 1, forceUpdate |-> FALSE]>>)

LiquidatorsNext ==
  \/ ProxiesNext
  \/ \E listing \in Listings :
       \/ OwnerAddLiquidatorToAssetWhitelist(listing[1], listing[2])
       \/ OwnerRemoveLiquidatorFromAssetWhitelist(listing[1], listing[2])
  \/ (\E owed \in Markets : SetExpiry(owed)) /\ UNCHANGED liquidatorVars
  \/ Tick /\ UNCHANGED liquidatorVars

LiquidatorsSpec ==
  LiquidatorsInit /\ [][LiquidatorsNext]_<<expiryVars, liquidatorVars>>

-----------------------------------------------------------------------------
(* Properties.                                                             *)

\* The room the liquidator has above a ratio, scaled by Base.
Room(balances, ratio) ==
  SupplyValue(balances) * Base - BorrowValue(balances) * (Base + ratio)

\* What one pair may cost the liquidator: two tokens of each market, the debt at
\* the price he is paid for, as the proxy and DolomiteMargin round to tokens; and
\* for each token repaid what this price was rounded down by.
PairRounding(held, owed, ratio, repaid) ==
  2 * (Base + ratio) * (Price[held] + LiquidationPrice(held, owed))
    + repaid * ((Price[owed] * Spread[<<held, owed>>]) % Base)

\* However often V1 is asked, over whatever pairs, none of them brings the
\* liquidator below the ratio, nor further below than he was, by more than what
\* is rounded; and no assertion of its own stops it.
LiquidatorKeepsHisRatio ==
  \A owed \in OwedPreferences, held \in HeldPreferences :
    V1MayTouch(owed, held) /\ V1CheckRequirements =>
      \A ratio \in LiquidatorRatios :
        LET run == V1Rounds(ratio, owed, held)
        IN  \A i \in 1 .. Len(owed) * Len(held) :
              LET before == run[i - 1].state.solid
                  after == run[i].state.solid
                  h == HeldOf(i, held)
                  o == OwedOf(i, owed, held)
              IN  /\ run[i].outcome # "assertion"
                  /\ Room(after, ratio)
                       >= Least(Room(before, ratio), 0)
                            - PairRounding(h, o, ratio, before[o] - after[o])

\* What V4 has worked out is what happens: the first action is accepted where
\* the account may be liquidated or has expired, exactly the collateral that was
\* worked out is taken, and no more is repaid than the sale of it has to bring.
PlansAreExact ==
  \A held, owed \in Markets, minOutput \in MinOutputs, expiring \in BOOLEAN :
    /\ MayTouch("LiquidatorProxyV4", {held, owed})
    /\ CheckConstants(held, owed, expiring)
    /\ wei[owed] < 0
    /\ expiring \/ MayLiquidate(Here)
    => LET planned == V4Plan(held, owed, minOutput, expiring)
           action == LiquidationAction(held, owed, expiring, planned.amounts)
       IN  /\ action.accepted
           /\ wei[held] - action.state.wei[held] = planned.amounts.takes
           /\ action.state.wei[owed] - wei[owed] \in 0 .. planned.minOutput

\* A proxy leaves the liquidator with the ratio he asked for, and with the
\* amounts that the sale after it was set up for.
LiquidatorsPlanWell == LiquidatorKeepsHisRatio /\ PlansAreExact

\* ExpiryProxy sells the collateral where, as its comment has it, "The held
\* collateral is worth less than the adjusted debt", and the debt is repaid in
\* full elsewhere: so Expiry accepts what it asks for, of a debt that has expired,
\* a healthy account and collateral that is there.
ExpiredDebtsAreAccepted ==
  \A held, owed \in Markets :
    /\ wei[owed] < 0 /\ wei[held] > 0 /\ Healthy(wei)
    /\ expiry[owed] \in 1 .. now
    => Accepted(Now, ExpireTrade(held, owed))
=============================================================================

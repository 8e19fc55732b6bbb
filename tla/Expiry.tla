------------------------------- MODULE Expiry -------------------------------
(***************************************************************************)
(* Expiry.sol: the expiries of one account that borrows, who may set them, *)
(* and the trades by which a global operator repays a debt that expired    *)
(* from the collateral of the account; and fullyLiquidateExpiredAccount of *)
(* the client, which plans such trades from what it has read and has them  *)
(* mined some time later, all or none.                                     *)
(*                                                                         *)
(* DolomiteMargin is external: here an account is a number of tokens per   *)
(* market, an index is 1, and prices do not move.                          *)
(***************************************************************************)
EXTENDS MarginMath, Sequences

CONSTANTS
  Markets,       \* the markets
  Price,         \* their prices
  Spread,        \* for each <<held, owed>>: its spread, premiums included
  Owner, Friend, \* the owner of the account, and someone else
  Orders,        \* arguments of setExpiry: sequences of SetExpiryArg
  Deltas,        \* minimum time deltas to approve
  Balances,      \* for each market: balances other operations may leave there
  Inputs,        \* input amounts of trades: [toZero, amount]
  RampTimes,     \* values of g_expiryRampTime
  ClientRampTime, \* expiryRampTime of expiry-constants.json, for the network
  Preferences,   \* collateralPreferences of the client
  MaxTime,       \* a bound on the clock
  MaxUint32      \* the largest timestamp

ASSUME ExpiryAssumption ==
  /\ Price \in [Markets -> Nat \ {0}]
  /\ Spread \in [Markets \X Markets -> Nat]
  /\ Owner # Friend
  /\ Orders \subseteq
       Seq([market : Markets, timeDelta : Nat, forceUpdate : BOOLEAN])
  /\ Deltas \subseteq Nat
  /\ Balances \in [Markets -> SUBSET Int]
  /\ Inputs \subseteq [toZero : BOOLEAN, amount : Int]
  /\ RampTimes \subseteq Nat
  /\ MaxUint32 \in Nat
  /\ ClientRampTime \in Nat \ {0}
  /\ Preferences \subseteq Seq(Markets)
  /\ \A preferences \in Preferences :
       \A i, j \in DOMAIN preferences : preferences[i] = preferences[j] => i = j

VARIABLES
  wei,       \* the balance of the account in each market
  expiry,    \* g_expiries of the account, 0 when not set
  approved,  \* g_approvedSender of the owner for the friend
  rampTime,  \* g_expiryRampTime
  now,       \* block.timestamp
  plan       \* what the client has planned, and from what, or NoPlan

expiryVars == <<wei, expiry, approved, rampTime, now, plan>>

NoPlan == [trades |-> <<>>, outcome |-> "none"]

ExpiryInit ==
  /\ wei \in {w \in [Markets -> UNION {Balances[m] : m \in Markets}] :
               \A m \in Markets : w[m] \in Balances[m]}
  /\ expiry = [m \in Markets |-> 0]
  /\ approved = 0
  /\ rampTime \in RampTimes
  /\ now = 1
  /\ plan = NoPlan

-----------------------------------------------------------------------------
(* Setting expiries.                                                       *)

\* A fault: an approved sender may set any positive time.
MaySetWithoutMinimum(sender, arg) ==
  sender = Owner \/ (approved # 0 /\ arg.timeDelta # 0)

MaySet(sender, arg) ==
  sender = Owner \/ (approved # 0 /\ arg.timeDelta >= approved)

\* One round of the loop of _callFunctionSetExpiry.
SetOne(set, sender, arg) ==
  IF ~MaySet(sender, arg) THEN set
  ELSE IF arg.timeDelta = 0 \/ wei[arg.market] >= 0
       THEN [set EXCEPT ![arg.market] = 0]
  ELSE IF arg.forceUpdate \/ set[arg.market] = 0
       THEN [set EXCEPT ![arg.market] = now + arg.timeDelta]
  ELSE set

SetAll(sender, args) ==
  LET set[i \in 0 .. Len(args)] ==
        IF i = 0 THEN expiry ELSE SetOne(set[i - 1], sender, args[i])
  IN  set[Len(args)]

\* `to32` reverts, and everything with it.
CallFunctionSetExpiry(sender, args) ==
  /\ \A m \in Markets : SetAll(sender, args)[m] <= MaxUint32
  /\ expiry' = SetAll(sender, args)
  /\ UNCHANGED <<wei, approved, rampTime, now, plan>>

\* approveSender, or a call action with SetApproval.
SetApproval(minTimeDelta) ==
  /\ approved' = minTimeDelta
  /\ UNCHANGED <<wei, expiry, rampTime, now, plan>>

OwnerSetExpiryRampTime(newRampTime) ==
  /\ rampTime' = newRampTime
  /\ UNCHANGED <<wei, expiry, approved, now, plan>>

-----------------------------------------------------------------------------
(* Prices and trades, for balances and expiries that may be those in the   *)
(* middle of an operation: a state is [wei |-> .., expiry |-> ..].         *)

Least(x, y) == IF x < y THEN x ELSE y

ExpiryAge(time, since) == IF time <= since THEN 0 ELSE time - since

\* A fault: the spread is whole from the first second.
AdjustedOwedPriceUnramped(held, owed, since) ==
  Price[owed] + DecimalMul(Price[owed], Spread[<<held, owed>>])

AdjustedOwedPrice(held, owed, since) ==
  LET age == ExpiryAge(now, since)
      spread == IF age < rampTime
                THEN GetPartial(Spread[<<held, owed>>], age, rampTime)
                ELSE Spread[<<held, owed>>]
  IN  Price[owed] + DecimalMul(Price[owed], spread)

OwedWeiToHeldWei(amount, held, owed, since) ==
  GetPartial(amount, AdjustedOwedPrice(held, owed, since), Price[held])

HeldWeiToOwedWei(amount, held, owed, since) ==
  GetPartialRoundUp(amount, Price[held], AdjustedOwedPrice(held, owed, since))

\* The input the maker is given: an amount, or what brings it to zero.
InputWei(s, t) == IF t.toZero THEN -s.wei[t.input] ELSE t.amount

\* `input` is the owed market when the account gets it and the held market
\* when it gives it: the two branches of _getTradeCostInternal.
OutputWei(s, t) ==
  IF InputWei(s, t) > 0
  THEN -OwedWeiToHeldWei(InputWei(s, t), t.output, t.input, s.expiry[t.owed])
  ELSE HeldWeiToOwedWei(-InputWei(s, t), t.input, t.output, s.expiry[t.owed])

IsExpired(s, t) ==
  /\ s.expiry[t.owed] # 0
  /\ s.expiry[t.owed] <= now
  /\ s.expiry[t.owed] <= t.maxExpiry

CanTrade(s, t) ==
  LET input == InputWei(s, t)
      output == OutputWei(s, t)
  IN  /\ IsExpired(s, t)
      /\ IF input > 0
         THEN /\ t.input = t.owed
              /\ s.wei[t.input] < 0 /\ s.wei[t.input] + input <= 0
              /\ s.wei[t.output] > 0 /\ -output <= s.wei[t.output]
         ELSE /\ t.output = t.owed
              /\ s.wei[t.input] > 0 /\ s.wei[t.input] + input >= 0
              /\ s.wei[t.output] < 0 /\ output <= -s.wei[t.output]

\* A trade of nothing is let through before anything is looked at.
Traded(s, t) ==
  IF InputWei(s, t) = 0 THEN s
  ELSE LET after == [s.wei EXCEPT ![t.input] = @ + InputWei(s, t),
                                  ![t.output] = @ + OutputWei(s, t)]
       IN  [wei |-> after,
            expiry |-> IF after[t.owed] = 0
                       THEN [s.expiry EXCEPT ![t.owed] = 0] ELSE s.expiry]

Accepted(s, t) == InputWei(s, t) = 0 \/ CanTrade(s, t)

Now == [wei |-> wei, expiry |-> expiry]

Apply(s) ==
  /\ wei' = s.wei
  /\ expiry' = s.expiry

Trade(t) ==
  /\ t.input # t.output
  /\ Accepted(Now, t)
  /\ Apply(Traded(Now, t))
  /\ UNCHANGED <<approved, rampTime, now, plan>>

\* Deposits, withdrawals, trades: what other operations do to the account.
Rebalance(m, balance) ==
  /\ Apply([Now EXCEPT !.wei[m] = balance])
  /\ UNCHANGED <<approved, rampTime, now, plan>>

Tick ==
  /\ now < MaxTime
  /\ now' = now + 1
  /\ UNCHANGED <<wei, expiry, approved, rampTime, plan>>

-----------------------------------------------------------------------------
(* fullyLiquidateExpiredAccount.  A rational is a pair <<num, den>>.       *)

\* What the client takes for the worth of the collateral and of the debt, both
\* scaled by ClientRampTime and Base.
HeldValue(held) == wei[held] * Price[held] * ClientRampTime * Base

\* A fault: the spread is left out.
OwedValueWithoutSpread(held, owed) ==
  -wei[owed] * Price[owed] * Least(ExpiryAge(now, expiry[owed]), ClientRampTime) * Base

OwedValue(held, owed) ==
  -wei[owed] * Price[owed] * Least(ExpiryAge(now, expiry[owed]), ClientRampTime)
    * (Base + Spread[<<held, owed>>])

LiquidationTrade(input, output, owed) ==
  [input |-> input, output |-> output, owed |-> owed, toZero |-> TRUE,
   amount |-> 0, maxExpiry |-> expiry[owed]]

\* One round of the loop, on the trades so far and the share of the debt that
\* is expected to remain.
PlanOne(planned, held, owed) ==
  LET heldValue == HeldValue(held) * planned.rest[2]
      owedValue == OwedValue(held, owed) * planned.rest[1]
  IN  IF planned.rest[1] = 0 \/ wei[held] <= 0 THEN planned
      ELSE IF heldValue > owedValue
      THEN [trades |-> Append(planned.trades, LiquidationTrade(owed, held, owed)),
            rest |-> <<0, 1>>]
      ELSE [trades |-> Append(planned.trades, LiquidationTrade(held, owed, owed)),
            rest |-> <<owedValue - heldValue,
                       OwedValue(held, owed) * planned.rest[2]>>]

Planned(owed, preferences) ==
  LET planned[i \in 0 .. Len(preferences)] ==
        IF i = 0 THEN [trades |-> <<>>, rest |-> <<1, 1>>]
        ELSE PlanOne(planned[i - 1], preferences[i], owed)
  IN  planned[Len(preferences)]

\* The places of the markets that are not skipped.
Positives(preferences) == {i \in DOMAIN preferences : wei[preferences[i]] > 0}

FullyLiquidate(owed, preferences) ==
  /\ plan.outcome # "waiting"
  /\ expiry[owed] # 0
  /\ wei[owed] < 0 /\ now >= expiry[owed]
  /\ LET planned == Planned(owed, preferences)
     IN  /\ planned.trades # <<>>
         /\ plan' = [trades |-> planned.trades, read |-> Now, at |-> now,
                     expected |-> IF planned.rest[1] = 0 THEN {owed}
                                  ELSE {preferences[i] : i \in Positives(preferences)},
                     owed |-> owed, outcome |-> "waiting"]
  /\ UNCHANGED <<wei, expiry, approved, rampTime, now>>

\* The state after the first i trades, with whether they all went through.
AfterTrades(trades) ==
  LET after[i \in 0 .. Len(trades)] ==
        IF i = 0 THEN [state |-> Now, accepted |-> TRUE]
        ELSE LET before == after[i - 1]
             IN  IF before.accepted /\ Accepted(before.state, trades[i])
                 THEN [state |-> Traded(before.state, trades[i]), accepted |-> TRUE]
                 ELSE [state |-> Now, accepted |-> FALSE]
  IN  after[Len(trades)]

Mine ==
  /\ plan.outcome = "waiting"
  /\ LET after == AfterTrades(plan.trades)
     IN  /\ Apply(after.state)
         /\ plan' = [NoPlan EXCEPT !.outcome =
                       IF after.accepted THEN "mined" ELSE "reverted"]
  /\ UNCHANGED <<approved, rampTime, now>>

-----------------------------------------------------------------------------

SetNext ==
  \/ \E sender \in {Owner, Friend}, args \in Orders :
       CallFunctionSetExpiry(sender, args)
  \/ \E minTimeDelta \in Deltas : SetApproval(minTimeDelta)
  \/ \E newRampTime \in RampTimes : OwnerSetExpiryRampTime(newRampTime)
  \/ \E m \in Markets : \E balance \in Balances[m] : Rebalance(m, balance)
  \/ Tick

TradeNext ==
  \E input, output \in Markets, t \in Inputs :
    \E owed \in {input, output} :
      Trade([input |-> input, output |-> output, owed |-> owed,
             toZero |-> t.toZero, amount |-> t.amount, maxExpiry |-> MaxUint32])

ClientNext ==
  \/ \E owed \in Markets, preferences \in Preferences :
       FullyLiquidate(owed, preferences)
  \/ Mine

ExpiryNext == SetNext \/ TradeNext \/ ClientNext

ExpirySpec == ExpiryInit /\ [][ExpiryNext]_expiryVars

-----------------------------------------------------------------------------
(* Properties.                                                             *)

\* A friend moves expiries only where he was approved and there is a debt, and
\* never to less than the time he was granted; trades and plans move them only
\* away, with the debt; other operations and the passing of time do not.
ExpiriesAreConsented ==
  [][\A m \in Markets :
       expiry'[m] # expiry[m] =>
         /\ (\E args \in Orders : CallFunctionSetExpiry(Friend, args)) =>
              /\ approved # 0
              /\ IF expiry'[m] = 0 THEN wei[m] >= 0
                 ELSE expiry'[m] >= now + approved /\ wei[m] < 0
         /\ TradeNext \/ Mine => wei[m] < 0 /\ wei'[m] = 0 /\ expiry'[m] = 0
         /\ UNCHANGED wei \/ TradeNext \/ Mine]_expiryVars

\* What a trade does to the account, at the prices of both: it gives up
\* collateral of at most the worth of the debt that is repaid, with the part of
\* the spread that the age of the expiry allows.
TradeIsFair(held, owed) ==
  LET repaid == wei'[owed] - wei[owed]
      taken == wei[held] - wei'[held]
      ramp == Least(ExpiryAge(now, expiry[owed]), rampTime)
      spread == Spread[<<held, owed>>]
  IN  /\ repaid >= 0 /\ wei'[owed] <= 0
      /\ taken >= 0 /\ wei'[held] >= 0
      /\ IF rampTime = 0
         THEN taken * Price[held] * Base <= repaid * Price[owed] * (Base + spread)
         ELSE taken * Price[held] * Base * rampTime
                <= repaid * Price[owed] * (Base * rampTime + spread * ramp)

\* However a trade is asked for, the debt has expired, it is not overpaid, the
\* collateral is not overdrawn, rounding is never for the one who trades, and
\* no expiry is left behind for a debt that is borrowed later.
TradesAreFair ==
  [][\/ wei' = wei
     \/ \E held, owed \in Markets :
          /\ \A m \in Markets \ {held, owed} : wei'[m] = wei[m]
          /\ expiry[owed] # 0 /\ expiry[owed] <= now
          /\ wei'[owed] = 0 => expiry'[owed] = 0
          /\ TradeIsFair(held, owed)
     \/ ~TradeNext]_expiryVars

\* A plan that is mined before anything it was made from has changed goes
\* through, and what the client expected to be used up is used up: the debt, or
\* else every collateral it was allowed to take.
PlanComesTrue ==
  /\ plan'.outcome = "mined"
  /\ \A m \in plan.expected : wei'[m] = 0
  /\ plan.owed \in plan.expected => expiry'[plan.owed] = 0

\* What the collateral of a plan repays, each market rounded up.
RoundedUp(trades) ==
  LET sum[i \in 0 .. Len(trades)] ==
        IF i = 0 THEN 0
        ELSE IF trades[i].input = trades[i].owed THEN sum[i - 1]
        ELSE sum[i - 1] + OutputWei(Now, trades[i])
  IN  sum[Len(trades)]

\* Plans come true once the ramp of the spread is over, on chain and for the
\* client, unless rounding, which the client leaves out, asks for a unit too many.
LatePlansComeTrue ==
  [][/\ Mine /\ plan.read = Now
     /\ plan.at >= expiry[plan.owed] + rampTime
     /\ plan.at >= expiry[plan.owed] + ClientRampTime
     /\ RoundedUp(plan.trades) <= -wei[plan.owed]
     => PlanComesTrue]_expiryVars

\* What fullyLiquidateExpiredAccount says for every age: it expects no remaining
\* debt where it lets the debt bound the trade.
PlansComeTrue == [][Mine /\ plan.read = Now /\ plan.at = now => PlanComesTrue]_expiryVars
=============================================================================

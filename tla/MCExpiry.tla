------------------------------ MODULE MCExpiry ------------------------------
(***************************************************************************)
(* Small instances of Expiry and of LiquidatorProxies for TLC: a debt in   *)
(* usd, collateral in eth and dai, prices that give round and not so round *)
(* amounts.                                                                *)
(***************************************************************************)
EXTENDS LiquidatorProxies, TLC

CONSTANTS usd, eth, dai

Arg(market, timeDelta, forceUpdate) ==
  [market |-> market, timeDelta |-> timeDelta, forceUpdate |-> forceUpdate]
MCOrders ==
  {<<Arg(usd, 1, FALSE)>>, <<Arg(usd, 0, FALSE)>>,
   <<Arg(usd, 2, TRUE), Arg(eth, 1, FALSE)>>}
OneOrder == {<<Arg(usd, 1, FALSE)>>}

\* Late, a token of usd is worth one of eth and three of dai.
MCPrice == (usd :> 20) @@ (eth :> 22) @@ (dai :> 8)
MCSpread ==
  [pair \in Markets \X Markets |->
     IF dai \in {pair[1], pair[2]} THEN Base \div 4 ELSE Base \div 10]
MCBalances == (usd :> {-3, 0}) @@ (eth :> {1}) @@ (dai :> {5})
MCInputs ==
  {[toZero |-> FALSE, amount |-> -2], [toZero |-> TRUE, amount |-> 0]}

MCPreferences == {<<eth, dai>>}

\* Liquidators with debts, with supplies and with both; accounts with much, some
\* and too little collateral, in one or in two markets.
MCSolidAccounts ==
  {(usd :> s[1]) @@ (eth :> s[2]) @@ (dai :> s[3]) :
     s \in {<<0, 0, 0>>, <<900, 0, 0>>, <<144, -135, 80>>, <<205, 190, -701>>,
            <<-80, 0, 403>>}}
MCLiquidAccounts ==
  {(usd :> a[1]) @@ (eth :> a[2]) @@ (dai :> a[3]) :
     a \in {<<-1200, 1100, 0>>, <<-1200, 1100, 3001>>, <<-1207, 503, 1502>>,
            <<-610, 900, -702>>, <<-1, 1, 0>>}}

MCOwedPreferences == {<<usd>>, <<dai, usd>>}
MCHeldPreferences == {<<eth, dai>>, <<dai, eth>>}
MCListings == {<<dai, "LiquidatorProxyV1">>}

ExpiryIdle ==
  /\ wei = [m \in Markets |-> 0]
  /\ expiry = [m \in Markets |-> 0]
  /\ approved = 0
  /\ rampTime = ClientRampTime
  /\ now = 1
  /\ plan = NoPlan

\* No proxy may touch a market.
LiquidatorsIdle ==
  /\ solid = [m \in Markets |-> 0]
  /\ isLiquid = FALSE
  /\ whitelist = [m \in Markets |-> {"another proxy"}]

\* Expiry alone.
MCExpirySpec ==
  /\ ExpiryInit /\ LiquidatorsIdle
  /\ [][ExpiryNext /\ UNCHANGED liquidatorVars]_<<expiryVars, liquidatorVars>>
=============================================================================

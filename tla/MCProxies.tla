------------------------------ MODULE MCProxies ------------------------------
(***************************************************************************)
(* Small instances for TLC of three parts that share nothing, each about   *)
(* what others may do to an account: operations that were signed, expiries *)
(* with the trades that follow, and liquidations through the proxies.      *)
(*                                                                         *)
(* Signed operations: alice signs, and bob and carol send.  Alice's        *)
(* operations sell, transfer between her accounts and transfer to bob, who *)
(* has made carol an operator of his.                                      *)
(***************************************************************************)
EXTENDS SignedOperationProxy, MCExpiry

VARIABLE part \* the part that this behaviour is of

Init ==
  /\ SignedInit
  /\ \/ part = "signed" /\ ExpiryIdle /\ LiquidatorsIdle
     \/ part = "expiries" /\ ExpiryInit /\ LiquidatorsIdle
     \/ part = "liquidators" /\ LiquidatorsInit /\ rampTime = ClientRampTime

Next ==
  \/ /\ part = "signed" /\ SignedNext
     /\ UNCHANGED <<expiryVars, liquidatorVars, part>>
  \/ /\ part = "expiries" /\ ExpiryNext
     /\ UNCHANGED <<signedVars, liquidatorVars, part>>
  \/ /\ part = "liquidators" /\ LiquidatorsNext
     /\ UNCHANGED <<signedVars, part>>

Spec == Init /\ [][Next]_<<signedVars, expiryVars, liquidatorVars, part>>

-----------------------------------------------------------------------------

CONSTANTS
  alice, ALICE, bob, carol, zero, \* owners; alice and ALICE are one address
  expiryTrader, bytes

MCAddressOf ==
  (alice :> "alice") @@ (ALICE :> "alice") @@ (bob :> "bob")
  @@ (carol :> "carol") @@ (zero :> "zero")

Wallet(prefix, v) == [prefix |-> prefix, vOfHash |-> "low", vOfTypedData |-> v]
MCWallets ==
  ("alice" :> Wallet("Decimal", "high")) @@ ("bob" :> Wallet("None", "high"))

MCLocalOperators == {<<"bob", "carol">>}

Account(owner, number) == [owner |-> owner, number |-> number]
Request(kind, account, other, amount, address) ==
  [kind |-> kind, account |-> account, otherAccount |-> other,
   markets |-> <<eth, usd>>, amount |-> [number |-> amount, unit |-> "Par"],
   otherAddress |-> address, data |-> bytes]

Sell(owner) == Request("Sell", Account(owner, 1), ZeroAccountInfo, Number(-1), usd)
Move == Request("Transfer", Account(alice, 0), Account(ALICE, 1), Number(0), zero)
Give == Request("Transfer", Account(alice, 1), Account(bob, 0), Number(1), zero)
Call(owner) == Request("Call", Account(owner, 0), ZeroAccountInfo, Number(0), eth)
TradeWith(owner) == Request("Trade", Account(owner, 0), Account(bob, 0), Number(0), expiryTrader)

MadeOf(requests) ==
  LET built[i \in 0 .. Len(requests)] ==
        IF i = 0 THEN Initiate("None") ELSE AddAction(built[i - 1], requests[i])
  IN  built[Len(requests)]

Signable(requests, expiration, sender, signer, method) ==
  [operation |-> CreateSignableOperation(MadeOf(requests),
     [expiration |-> expiration, salt |-> 0, sender |-> sender, signer |-> signer]),
   method |-> method]

Once == Signable(<<Move, Sell(alice)>>, 0, zero, alice, "Compatibility")
Soon == Signable(<<Call(ALICE)>>, 1, bob, alice, "MetaMask")
Gift == Signable(<<Give>>, 0, zero, alice, "Hash")
Trading == Signable(<<TradeWith(alice)>>, 0, zero, alice, "TypedData")
NoPrefix == Signable(<<Call(bob)>>, 2, zero, bob, "Compatibility")
AllSignables == {Once, Soon, Gift, Trading, NoPrefix}

Use(s) == [kind |-> "Signable", signable |-> s]
AllPlans ==
  {<<Use(Gift), Use(Once)>>, <<Use(Once), Use(Once)>>, <<Use(Soon), Sell(bob), Use(Gift)>>,
   <<Call(carol), Use(Gift), Call(carol)>>,
   <<Use(NoPrefix), Use(Trading), Call(bob)>>}

\* What ProxiesProofs assumes of the client, the signers and the senders holds here.
ASSUME InstanceAssumption == ClientFitsProxy /\ SignablesAreClear /\ PlansAreKnown
=============================================================================

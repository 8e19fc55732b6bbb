------------------------- MODULE MCAccountOperation -------------------------
(***************************************************************************)
(* Small instances of AccountOperation for TLC: two people, one of them    *)
(* with an address in two spellings, a handful of requests and two signed  *)
(* operations.                                                             *)
(***************************************************************************)
EXTENDS AccountOperation, TLC

CONSTANTS
  first, second,              \* calls
  alice, ALICE, bob, zero,    \* owners; alice and ALICE are one address
  eth, usd,                   \* markets
  expiry,                     \* an address
  bytes                       \* call data

MCAddressOf ==
  (alice :> "alice") @@ (ALICE :> "alice") @@ (bob :> "bob") @@ (zero :> "zero")

Account(owner, number) == [owner |-> owner, number |-> number]
Amount(n) == [number |-> Number(n), unit |-> "Par"]
MinusZero == [number |-> [abs |-> 0, isNegative |-> TRUE], unit |-> "Par"]

Request(kind, account, other, amount) ==
  [kind |-> kind, account |-> account, otherAccount |-> other,
   markets |-> <<eth, usd>>, amount |-> amount, otherAddress |-> expiry,
   data |-> bytes]

DepositRequest == Request("Deposit", Account(ALICE, 0), ZeroAccountInfo, Amount(2))
SellRequest == Request("Sell", Account(alice, 1), ZeroAccountInfo, Amount(-1))
CallRequest == Request("Call", Account(bob, 0), ZeroAccountInfo, Amount(0))
TransferRequest == Request("Transfer", Account(alice, 0), Account(bob, 0), MinusZero)
TradeRequest == Request("Trade", Account(bob, 0), Account(ALICE, 1), Amount(0))

AllRequests ==
  {DepositRequest, SellRequest, CallRequest, TransferRequest, TradeRequest}
SignerRequests == {SellRequest, TransferRequest}
FewRequests == {DepositRequest, TransferRequest}

\* What a user signs: an operation built by the client itself.
Header(salt) ==
  [expiration |-> 0, salt |-> salt, sender |-> zero, signer |-> zero]
SignedBy(requests, salt) ==
  LET built[i \in 0 .. Len(requests)] ==
        IF i = 0 THEN Initiate("None") ELSE AddAction(built[i - 1], requests[i])
      operation == CreateSignableOperation(built[Len(requests)], Header(salt))
  IN  [header |-> operation.header, actions |-> operation.actions,
       signature |-> [signer |-> operation.header.signer, operation |-> operation]]

MCSignedOps ==
  {SignedBy(<<TransferRequest, CallRequest>>, 1), SignedBy(<<SellRequest>>, 2)}

TwoRequests == {TransferRequest, TradeRequest}

Choice(type, n) == [confirmationType |-> type, confirmations |-> n, gas |-> FALSE]
EveryType ==
  {Choice("Simulate", 0), Choice("Hash", 0), Choice("Confirmed", 0),
   Choice("Both", 1), Choice("Invalid", 0)}

\* What AccountOperationProofs assumes of the callers holds here.
ASSUME InstanceAssumption == OtherAccountsHaveOwners /\ CommitsAreInOrder
=============================================================================

-------------------------- MODULE OperationBuilder --------------------------
(***************************************************************************)
(* The methods of AccountOperation that build an operation, as functions   *)
(* of the object: the list of accounts, the list of actions that refer to  *)
(* accounts by their place, and the authorizations of signed operations    *)
(* that refer to actions by theirs.  A method that throws part of the way  *)
(* leaves behind what it has done so far.                                  *)
(*                                                                         *)
(* An owner is a text and two texts may be the same address.  A BigNumber  *)
(* is a magnitude with a sign of its own, so that there is a minus zero.   *)
(* Places count from 1.  Markets, addresses and call data are opaque; data *)
(* that hexStringToBytes cannot read is BadHex.                            *)
(***************************************************************************)
EXTENDS Integers, Sequences

CONSTANTS
  OwnerTexts,  \* the texts of owners
  AddressOf,   \* the address a text stands for
  ZeroOwner,   \* the text ADDRESSES.ZERO
  BadHex,      \* data that is not hexadecimal
  NoMarket     \* a market id when there is none: '0'

IsList(s) == s \in Seq({s[i] : i \in DOMAIN s})

ASSUME BuilderAssumption ==
  /\ ZeroOwner \in OwnerTexts
  /\ AddressOf = [t \in OwnerTexts |-> AddressOf[t]]
  /\ \A t \in OwnerTexts : AddressOf[t] = AddressOf[ZeroOwner] => t = ZeroOwner

-----------------------------------------------------------------------------
(* BigNumbers.                                                             *)

Number(n) == [abs |-> IF n < 0 THEN -n ELSE n, isNegative |-> n < 0]
\* A fault: numbers without a minus zero.
TimesWithoutMinusZero(x, sign) ==
  [x EXCEPT !.isNegative = IF sign \/ x.abs = 0 THEN @ ELSE ~@]

Times(x, sign) == [x EXCEPT !.isNegative = IF sign THEN @ ELSE ~@]

\* What an amount means: Int, whatever the sign of a zero.
ValueOf(x) == IF x.isNegative THEN -x.abs ELSE x.abs

-----------------------------------------------------------------------------
(* Accounts, and the object as initiate() makes it.                        *)

Initiate(proxy) ==
  [accounts |-> <<>>, actions |-> <<>>, auths |-> <<>>, proxy |-> proxy,
   committed |-> FALSE]

\* The account that an owner and a number stand for.
AccountMeant(account) == <<AddressOf[account.owner], account.number>>

SameAccount(x, y) == AccountMeant(x) = AccountMeant(y)

\* Where findIndex looks: the places of the accounts equal to one.
Places(accounts, account) ==
  {i \in DOMAIN accounts : SameAccount(accounts[i], account)}

FirstPlace(accounts, account) ==
  CHOOSE i \in Places(accounts, account) :
    \A j \in Places(accounts, account) : i <= j

\* getAccountId returns a place and may push; here these are two functions.
WithAccount(accounts, account) ==
  IF Places(accounts, account) # {} THEN accounts ELSE Append(accounts, account)

GetAccountId(accounts, account) ==
  IF Places(accounts, account) # {} THEN FirstPlace(accounts, account)
  ELSE Len(accounts) + 1

-----------------------------------------------------------------------------
(* The methods.  A request is what their callers pass: the kind of action, *)
(* the account, the other account where the kind has one, the markets, the *)
(* amount (or none), another address and data.                             *)

TwoAccountTypes == {"Transfer", "Trade", "Liquidate", "Vaporize"}
OneAccountTypes == {"Deposit", "Withdraw", "Buy", "Sell", "Call"}

NoAmount == [sign |-> FALSE, unit |-> "Par", value |-> 0]
AmountArgs(amount) ==
  [sign |-> ~amount.number.isNegative, unit |-> amount.unit,
   value |-> amount.number.abs]

\* The arguments of an action with the place of its account.
At(accountId, args) ==
  [actionType |-> args.actionType, accountId |-> accountId,
   otherAccountId |-> args.otherAccountId, markets |-> args.markets,
   amount |-> args.amount, otherAddress |-> args.otherAddress,
   data |-> args.data]

\* A fault: a committed operation still takes actions.
AddActionArgsAlways(op, account, args) ==
  [op EXCEPT
     !.accounts = WithAccount(@, account),
     !.actions = Append(@, At(GetAccountId(op.accounts, account), args))]

AddActionArgs(op, account, args) ==
  IF op.committed THEN op
  ELSE [op EXCEPT
          !.accounts = WithAccount(@, account),
          !.actions = Append(@, At(GetAccountId(op.accounts, account), args))]

\* Buy and Sell take their markets from the order; Sell the other way round.
MarketsOf(r) ==
  IF r.kind = "Sell" THEN <<r.markets[2], r.markets[1]>> ELSE r.markets

ArgsOf(r, otherAccountId) ==
  [actionType |-> r.kind, otherAccountId |-> otherAccountId,
   markets |-> MarketsOf(r), amount |-> AmountArgs(r.amount),
   otherAddress |-> r.otherAddress, data |-> r.data]

\* deposit, withdraw, buy and sell: one account.
AddOneAccountAction(op, r) == AddActionArgs(op, r.account, ArgsOf(r, 1))

\* A fault: both places are looked up before either account is pushed.
AddTwoAccountActionAtOnce(op, r) ==
  LET otherAccountId == GetAccountId(op.accounts, r.otherAccount)
      added == AddActionArgs(op, r.account, ArgsOf(r, otherAccountId))
  IN  [added EXCEPT !.accounts = WithAccount(@, r.otherAccount)]

\* transfer, liquidate, vaporize, trade and liquidateExpiredAccount: the other
\* account is looked up, and pushed, before anything else is done.
AddTwoAccountAction(op, r) ==
  LET otherAccountId == GetAccountId(op.accounts, r.otherAccount)
      pushed == [op EXCEPT !.accounts = WithAccount(@, r.otherAccount)]
  IN  AddActionArgs(pushed, r.account, ArgsOf(r, otherAccountId))

\* call, setExpiry and setApprovalForExpiry: no amount.
AddCall(op, r) ==
  AddActionArgs(op, r.account,
                [actionType |-> "Call", otherAccountId |-> 1,
                 markets |-> <<NoMarket, NoMarket>>, amount |-> NoAmount,
                 otherAddress |-> r.otherAddress, data |-> r.data])

AddAction(op, r) ==
  CASE r.kind = "Call"              -> AddCall(op, r)
    [] r.kind \in TwoAccountTypes   -> AddTwoAccountAction(op, r)
    [] OTHER                        -> AddOneAccountAction(op, r)

-----------------------------------------------------------------------------
(* Signed operations.  The actions of one name their accounts.             *)

ZeroAccountInfo == [owner |-> ZeroOwner, number |-> 0]

\* actionArgsToAction of createSignableOperation.
Action(op, args) ==
  [actionType       |-> args.actionType,
   primaryAccount   |-> op.accounts[args.accountId],
   secondaryAccount |-> IF args.actionType \in TwoAccountTypes
                        THEN op.accounts[args.otherAccountId]
                        ELSE ZeroAccountInfo,
   markets          |-> args.markets,
   amount           |-> args.amount,
   otherAddress     |-> args.otherAddress,
   data             |-> args.data]

CanCreateSignableOperation(op) == op.auths = <<>> /\ op.actions # <<>>

CreateSignableOperation(op, header) ==
  [header  |-> [header EXCEPT !.signer = IF @ = ZeroOwner
                                         THEN op.accounts[1].owner ELSE @],
   actions |-> [i \in DOMAIN op.actions |-> Action(op, op.actions[i])]]

\* One round of the loop of addSignedOperation; its amount goes through
\* value.times(sign ? 1 : -1) and the sign of that.
AddSignedAction(op, action) ==
  LET other == action.secondaryAccount
      pushed == IF other.owner = ZeroOwner THEN op
                ELSE [op EXCEPT !.accounts = WithAccount(@, other)]
      value == Times([abs |-> action.amount.value, isNegative |-> FALSE],
                     action.amount.sign)
  IN  AddActionArgs(pushed, action.primaryAccount,
        [actionType |-> action.actionType,
         otherAccountId |-> IF other.owner = ZeroOwner THEN 1
                            ELSE GetAccountId(op.accounts, other),
         markets |-> action.markets,
         amount |-> AmountArgs([number |-> value, unit |-> action.amount.unit]),
         otherAddress |-> action.otherAddress, data |-> action.data])

\* The loop, up to the action whose data cannot be read: by then its other
\* account has been pushed.  A committed operation throws at the first action.
AddSignedActions(op, actions) ==
  LET added[i \in 0 .. Len(actions)] ==
        IF i = 0 THEN [op |-> op, threw |-> FALSE]
        ELSE IF added[i - 1].threw THEN added[i - 1]
        ELSE IF actions[i].data = BadHex
             THEN [op |-> IF actions[i].secondaryAccount.owner = ZeroOwner
                          THEN added[i - 1].op
                          ELSE [added[i - 1].op EXCEPT !.accounts =
                                  WithAccount(@, actions[i].secondaryAccount)],
                   threw |-> TRUE]
             ELSE [op |-> AddSignedAction(added[i - 1].op, actions[i]),
                   threw |-> op.committed]
  IN  added[Len(actions)].op

AddSignedOperation(op, signed) ==
  IF op.proxy # "Signed" THEN op
  ELSE AddSignedActions(
         [op EXCEPT !.auths = Append(@,
            [startIndex |-> Len(op.actions), numActions |-> Len(signed.actions),
             header |-> signed.header, signature |-> signed.signature])],
         signed.actions)

-----------------------------------------------------------------------------
(* generateAuthData: the authorizations, with an empty one for every gap.  *)

NoSigner == [expiration |-> 0, salt |-> 0, sender |-> ZeroOwner, signer |-> ZeroOwner]
NoSignature == [signer |-> ZeroOwner, operation |-> <<>>]
EmptyAuth(numActions) ==
  [numActions |-> numActions, header |-> NoSigner, signature |-> NoSignature]

\* A fault: no empty authorization between two signed operations.
GenerateAuthDataWithoutGaps(op) ==
  [i \in DOMAIN op.auths |->
     [numActions |-> op.auths[i].numActions, header |-> op.auths[i].header,
      signature |-> op.auths[i].signature]]
  \o LET last == op.auths[Len(op.auths)]
         end == IF op.auths = <<>> THEN 0 ELSE last.startIndex + last.numActions
     IN  IF end < Len(op.actions) THEN <<EmptyAuth(Len(op.actions) - end)>>
         ELSE <<>>

GenerateAuthData(op) ==
  LET EndOf(i) == IF i = 0 THEN 0
                  ELSE op.auths[i].startIndex + op.auths[i].numActions
      Gap(from, to) == IF to > from THEN <<EmptyAuth(to - from)>> ELSE <<>>
      data[i \in 0 .. Len(op.auths)] ==
        IF i = 0 THEN <<>>
        ELSE data[i - 1] \o Gap(EndOf(i - 1), op.auths[i].startIndex)
             \o <<[numActions |-> op.auths[i].numActions,
                   header     |-> op.auths[i].header,
                   signature  |-> op.auths[i].signature]>>
  IN  data[Len(op.auths)] \o Gap(EndOf(Len(op.auths)), Len(op.actions))
=============================================================================

-------------------------- MODULE AccountOperation --------------------------
(***************************************************************************)
(* One AccountOperation in the hands of its user: actions and signed       *)
(* operations are added, and the operation is committed through            *)
(* callContractFunction, while earlier commits of it are still waiting.    *)
(*                                                                         *)
(* web3 encodes the arguments of a method when it sends it, from the same  *)
(* lists that the object keeps: what is sent is what the lists hold then.  *)
(* Only the authorizations are computed by commit itself.                  *)
(***************************************************************************)
EXTENDS OperationBuilder, Contracts, FiniteSets, SequencesExt

CONSTANTS
  Proxies,     \* proxy types to initiate an operation with
  Requests,    \* what is passed to deposit, withdraw, transfer and so on
  SignedOps,   \* what is passed to addSignedOperation
  CommitOptions, \* what is passed to commit: options, or None for nothing
  MaxActions,  \* a bound on the actions of the operation
  MaxAuths     \* a bound on its authorizations

\* Options and actions are of the types that the client declares.
ASSUME RequestsAssumption ==
  /\ CommitOptions \subseteq Options \cup {None}
  /\ \A r \in Requests : r.kind \in OneAccountTypes \cup TwoAccountTypes
  /\ \A s \in SignedOps :
       /\ IsList(s.actions)
       /\ \A i \in DOMAIN s.actions :
            s.actions[i].actionType \in OneAccountTypes \cup TwoAccountTypes

VARIABLES
  op,       \* the object
  asked,    \* what its user has asked for, action by action
  authData, \* for each call: the authorizations computed by commit
  sent      \* for each call: the arguments of the transaction

operationVars == <<op, asked, authData, sent>>
vars == <<op, asked, authData, sent, clientVars>>

-----------------------------------------------------------------------------
(* What an action means, to the one who asks for it and to the contract    *)
(* that gets the lists.                                                    *)

OtherAccountMeant(type, account) ==
  IF type \in TwoAccountTypes THEN AccountMeant(account) ELSE <<>>

Wanted(r) ==
  [type |-> r.kind, account |-> AccountMeant(r.account),
   other |-> OtherAccountMeant(r.kind, r.otherAccount),
   markets |-> IF r.kind = "Sell" THEN <<r.markets[2], r.markets[1]>>
               ELSE IF r.kind = "Call" THEN <<NoMarket, NoMarket>> ELSE r.markets,
   amount |-> IF r.kind = "Call" THEN 0 ELSE ValueOf(r.amount.number),
   address |-> r.otherAddress, data |-> r.data]

Signed(amount) == IF amount.sign THEN amount.value ELSE -amount.value

WantedSigned(action) ==
  [type |-> action.actionType, account |-> AccountMeant(action.primaryAccount),
   other |-> OtherAccountMeant(action.actionType, action.secondaryAccount),
   markets |-> action.markets, amount |-> Signed(action.amount),
   address |-> action.otherAddress, data |-> action.data]

\* The reading of Actions.sol: the accounts are those at the places given.
Understood(accounts, args) ==
  [type |-> args.actionType, account |-> AccountMeant(accounts[args.accountId]),
   other |-> OtherAccountMeant(args.actionType, accounts[args.otherAccountId]),
   markets |-> args.markets, amount |-> Signed(args.amount),
   address |-> args.otherAddress, data |-> args.data]

AllUnderstood(accounts, actions) ==
  [i \in DOMAIN actions |-> Understood(accounts, actions[i])]

-----------------------------------------------------------------------------
(* The user.                                                               *)

Init ==
  /\ \E proxy \in Proxies : op = Initiate(proxy)
  /\ asked = <<>>
  /\ authData = [c \in Calls |-> <<>>]
  /\ sent = [c \in Calls |-> {}]
  /\ ClientInit

Add(r) ==
  /\ Len(op.actions) < MaxActions
  /\ op' = AddAction(op, r)
  /\ asked' = IF op.committed THEN asked ELSE Append(asked, Wanted(r))
  /\ UNCHANGED <<authData, sent, clientVars>>

AddSigned(s) ==
  /\ Len(op.actions) + Len(s.actions) <= MaxActions
  /\ Len(op.auths) < MaxAuths
  /\ op' = AddSignedOperation(op, s)
  /\ asked' = asked \o [i \in 1 .. Len(op'.actions) - Len(op.actions) |->
                          WantedSigned(s.actions[i])]
  /\ UNCHANGED <<authData, sent, clientVars>>

NoOptions == [confirmationType |-> None, confirmations |-> 0, gas |-> FALSE]

\* A fault: a failed commit may be repeated because committed is only set when
\* the transaction is there.
CommitsAfterwards(options) == FALSE

\* `if (options && options.confirmationType !== Simulate) committed = true`
Commits(options) == options # None /\ options.confirmationType # "Simulate"

\* The transaction of a call is encoded in the step that sends it.
Encode(c) ==
  sent' = IF web3'[c] = "sending" /\ web3[c] # "sending"
          THEN [sent EXCEPT ![c] = {[accounts |-> op.accounts,
                                     actions  |-> op.actions]}]
          ELSE sent

Commit(c, options) ==
  /\ ~op.committed
  /\ op.actions # <<>>
  /\ op.proxy \in {"None", "Payable", "Signed"}
  /\ op' = [op EXCEPT !.committed = Commits(options)]
  /\ authData' = [authData EXCEPT ![c] =
                    IF op.proxy = "Signed" THEN GenerateAuthData(op) ELSE <<>>]
  /\ CallContractFunction(c, IF options = None THEN NoOptions ELSE options)
  /\ Encode(c)
  /\ UNCHANGED asked

-----------------------------------------------------------------------------

UserNext ==
  \/ \E r \in Requests : Add(r)
  \/ \E s \in SignedOps : AddSigned(s)
  \/ \E c \in Calls, options \in CommitOptions : Commit(c, options)

\* What goes with a step of a call.
WithEncode(c) == Encode(c) /\ UNCHANGED <<op, asked, authData>>

NetworkNext ==
  \E c \in Calls : (ClientStep(c) \/ NodeStep(c)) /\ WithEncode(c)

Next == UserNext \/ NetworkNext

\* As for the calls on their own: nobody has to commit, or to mine.
Fairness ==
  \A c \in Calls : /\ WF_vars(ClientStep(c) /\ WithEncode(c))
                   /\ WF_vars(NodeAnswers(c) /\ WithEncode(c))
                   /\ WF_vars(NodeWatches(c) /\ WithEncode(c))

Spec == Init /\ [][Next]_vars /\ Fairness

-----------------------------------------------------------------------------
(* Properties.                                                             *)

\* What the client does not check: that a signed action has the other account
\* it needs, nobody being no account.
OtherAccountsHaveOwners ==
  \A s \in SignedOps : \A i \in DOMAIN s.actions :
    s.actions[i].actionType \in TwoAccountTypes =>
      s.actions[i].secondaryAccount.owner # ZeroOwner

\* Nor that signed operations can be read, and are what their signatures are of,
\* and that options are passed to commit.
CommitsAreInOrder ==
  /\ \A s \in SignedOps :
       /\ s.signature.operation.actions = s.actions
       /\ \A i \in DOMAIN s.actions : s.actions[i].data # BadHex
  /\ None \notin CommitOptions

\* The contract reads in the two lists, at every moment, exactly what the user
\* asked for: places are not shifted by accounts pushed later or in vain, signed
\* operations come through with the signs of their amounts, and no account is
\* listed twice, which OperationImpl would reject, whatever texts callers use.
ListsMeanWhatWasAsked ==
  /\ AllUnderstood(op.accounts, op.actions) = asked
  /\ \A i, j \in DOMAIN op.accounts :
       AccountMeant(op.accounts[i]) = AccountMeant(op.accounts[j]) => i = j

\* Where the actions of each authorization start, and where the last one ends.
Starts(data) ==
  LET start[n \in 1 .. Len(data) + 1] ==
        IF n = 1 THEN 0 ELSE start[n - 1] + data[n - 1].numActions
  IN  start

\* The authorizations that commit computes cover, in the lists as they are sent
\* later, every action, and each signed one covers the actions it was signed for.
AuthorizationsFitActions ==
  \A c \in Calls : \A m \in sent[c] :
    op.proxy = "Signed" =>
      LET data == authData[c]
          start == Starts(data)
      IN  /\ start[Len(data) + 1] = Len(m.actions)
          /\ \A k \in DOMAIN data :
               data[k].signature # NoSignature =>
                 [i \in 1 .. data[k].numActions |->
                    Understood(m.accounts, m.actions[start[k] + i])]
                 = [i \in DOMAIN data[k].signature.operation.actions |->
                      WantedSigned(data[k].signature.operation.actions[i])]

\* Whenever the operation is looked at, and whenever it is sent, the lists and
\* the authorizations that cover them mean what the user asked for and signed.
RequestsMeanWhatWasAsked == ListsMeanWhatWasAsked /\ AuthorizationsFitActions

\* The transactions of this operation that took effect.
Executed ==
  {c \in Calls : chain[c] = "mined"}

\* The operation as its user sees it: OperationIntent.
Intent ==
  INSTANCE OperationIntent WITH
    Intents  <- {Wanted(r) : r \in Requests}
                \cup UNION {{WantedSigned(s.actions[i]) : i \in DOMAIN s.actions} :
                              s \in SignedOps},
    intents  <- asked,
    sealed   <- op.committed,
    executed <- [i \in 1 .. Cardinality(Executed) |->
                   LET m == CHOOSE m \in sent[SetToSeq(Executed)[i]] : TRUE
                   IN  AllUnderstood(m.accounts, m.actions)]

\* An operation executes what was asked for, all of it, and once: also when
\* actions are added while a commit is waiting, when web3 gives up on a
\* transaction that is mined later, and when a failed commit is repeated.
ImplementsIntent == Intent!Spec
=============================================================================

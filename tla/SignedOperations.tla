-------------------------- MODULE SignedOperations --------------------------
(***************************************************************************)
(* The hashes of signed operations, as SignedOperations.ts computes them   *)
(* from an operation that names its accounts and SignedOperationProxy.sol  *)
(* from lists that refer to accounts by place, and the arguments of        *)
(* cancelOperation.                                                        *)
(***************************************************************************)
EXTENDS OperationBuilder, Signatures

CONSTANTS
  ClientDomain, \* networkId and address of the proxy, as the client has them
  ChainDomain   \* as the constructor of the proxy has hashed them

\* What the client does not check of an operation: that the accounts its actions
\* need have owners.  It takes the account of nobody for no account.
AccountsHaveOwners(operation) ==
  \A i \in DOMAIN operation.actions :
    LET action == operation.actions[i]
    IN  /\ action.primaryAccount.owner # ZeroOwner
        /\ action.actionType \in OneAccountTypes => action.secondaryAccount = ZeroAccountInfo
        /\ action.actionType \notin OneAccountTypes => action.secondaryAccount.owner # ZeroOwner

ActionHash(action, primary, secondary) ==
  [actionType |-> action.actionType, primaryAccount |-> AccountMeant(primary),
   secondaryAccount |-> AccountMeant(secondary), markets |-> action.markets,
   amount |-> action.amount, otherAddress |-> action.otherAddress,
   data |-> action.data]

HeaderHash(header) ==
  [header EXCEPT !.sender = AddressOf[@], !.signer = AddressOf[@]]

-----------------------------------------------------------------------------
(* The client.                                                             *)

GetOperationHash(operation) ==
  [domain  |-> ClientDomain,
   actions |-> [i \in DOMAIN operation.actions |->
                  LET action == operation.actions[i]
                  IN  ActionHash(action, action.primaryAccount,
                                 action.secondaryAccount)],
   header  |-> HeaderHash(operation.header)]

CancelOperationHash(hash) == [domain |-> ClientDomain, cancelled |-> {hash}]

SignOperation(operation, method) ==
  Sign(GetOperationHash(operation), AddressOf[operation.header.signer], method)

SignCancelOperation(operation, method) ==
  Sign(CancelOperationHash(GetOperationHash(operation)),
       AddressOf[operation.header.signer], method)

OperationHasValidSignature(signed) ==
  HasValidSignature(GetOperationHash(signed), signed.signature,
                    AddressOf[signed.header.signer])

CancelOperationHasValidSignature(operation, signature) ==
  HasValidSignature(CancelOperationHash(GetOperationHash(operation)), signature,
                    AddressOf[operation.header.signer])

\* cancelOperation: indexOf compares objects, so that every account is pushed
\* again, and nobody is the first account.
PushAccount(accounts, account) ==
  IF account.owner = ZeroOwner THEN accounts ELSE Append(accounts, account)
PushedPlace(accounts, account) ==
  IF account.owner = ZeroOwner THEN 1 ELSE Len(accounts) + 1

\* A fault: the place of the other account is taken before the account of the
\* action is pushed.
CancelActionEarly(lists, action) ==
  LET pushed == PushAccount(lists.accounts, action.primaryAccount)
  IN  [accounts |-> PushAccount(pushed, action.secondaryAccount),
       actions  |-> Append(lists.actions,
         [actionType |-> action.actionType,
          accountId |-> PushedPlace(lists.accounts, action.primaryAccount),
          otherAccountId |-> PushedPlace(lists.accounts, action.secondaryAccount),
          markets |-> action.markets, amount |-> action.amount,
          otherAddress |-> action.otherAddress, data |-> action.data])]

CancelAction(lists, action) ==
  LET pushed == PushAccount(lists.accounts, action.primaryAccount)
  IN  [accounts |-> PushAccount(pushed, action.secondaryAccount),
       actions  |-> Append(lists.actions,
         [actionType |-> action.actionType,
          accountId |-> PushedPlace(lists.accounts, action.primaryAccount),
          otherAccountId |-> PushedPlace(pushed, action.secondaryAccount),
          markets |-> action.markets, amount |-> action.amount,
          otherAddress |-> action.otherAddress, data |-> action.data])]

CancelArgs(operation) ==
  LET lists[i \in 0 .. Len(operation.actions)] ==
        IF i = 0 THEN [accounts |-> <<>>, actions |-> <<>>]
        ELSE CancelAction(lists[i - 1], operation.actions[i])
      made == lists[Len(operation.actions)]
  IN  [accounts |-> made.accounts, actions |-> made.actions,
       auth |-> [numActions |-> Len(operation.actions),
                 header |-> operation.header, signature |-> NoSignature]]

-----------------------------------------------------------------------------
(* The contract.                                                           *)

GetOperationHashOf(accounts, actions, auth, start) ==
  [domain  |-> ChainDomain,
   actions |-> [i \in 1 .. auth.numActions |->
                  LET action == actions[start + i]
                  IN  ActionHash(action, accounts[action.accountId],
                        IF action.actionType \in OneAccountTypes
                        THEN ZeroAccountInfo
                        ELSE accounts[action.otherAccountId])],
   header  |-> HeaderHash(auth.header)]
=============================================================================

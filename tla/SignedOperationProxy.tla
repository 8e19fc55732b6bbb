------------------------ MODULE SignedOperationProxy ------------------------
(***************************************************************************)
(* SignedOperationProxy.sol with its clients around it.  Signers sign      *)
(* operations and hand them out; anyone builds an operation of the client  *)
(* from signed ones and from requests of his own and sends it; signers     *)
(* cancel.  A transaction stays in the pool for any time, transactions are *)
(* mined in any order, and the same signed operation may be in several of  *)
(* them or twice in one.                                                   *)
(***************************************************************************)
EXTENDS SignedOperations, FiniteSets

CONSTANTS
  People,          \* texts of senders, each the only text of its address
  LocalOperators,  \* pairs <<owner, operator>> of addresses
  GlobalOperators, \* addresses
  SpecialTraders,  \* auto traders only global operators may trade with
  Signables,       \* operations to sign, with their signing method
  Plans,           \* what senders send: sequences of signables and requests
  DefaultAccount,  \* who sends a cancellation made with options
  MaxTxs,          \* a bound on the transactions
  MaxBlockTime          \* a bound on the clock

ASSUME SignedAssumption ==
  /\ \A s \in Signables : IsList(s.operation.actions)
  /\ \A s \in Signables : AddressOf[s.operation.header.signer] \in DOMAIN Wallets
  /\ \A s \in Signables : s.method \in HashMethods \cup TypedDataMethods
  /\ \A plan \in Plans : IsList(plan)

VARIABLES
  isOperational,  \* g_isOperational
  invalidated,    \* the hashes of g_invalidated
  blockTime,            \* block.timestamp
  signed,         \* the signed operations that are in circulation
  txs,            \* the transactions that were sent
  status,         \* of each transaction: "pool", "mined", or why it reverted
  history         \* the transactions that were mined, and when

signedVars == <<isOperational, invalidated, blockTime, signed, txs, status, history>>

SignedInit ==
  /\ isOperational = TRUE
  /\ invalidated = {}
  /\ blockTime = 1
  /\ signed = {}
  /\ txs = <<>>
  /\ status = <<>>
  /\ history = <<>>

-----------------------------------------------------------------------------
(* The clients.                                                            *)

SignedBy ==
  [s \in Signables |->
     [header |-> s.operation.header, actions |-> s.operation.actions,
      signature |-> SignOperation(s.operation, s.method)]]

PublishOperation(s) ==
  /\ SignedBy[s] \notin signed
  /\ signed' = signed \cup {SignedBy[s]}
  /\ UNCHANGED <<isOperational, invalidated, blockTime, txs, status, history>>

\* The object after a sequence of addSignedOperation and of own requests.
Built(plan) ==
  LET op[i \in 0 .. Len(plan)] ==
        IF i = 0 THEN Initiate("Signed")
        ELSE IF plan[i].kind = "Signable"
        THEN AddSignedOperation(op[i - 1], SignedBy[plan[i].signable])
        ELSE AddAction(op[i - 1], plan[i])
  IN  op[Len(plan)]

Pool(tx) ==
  /\ Len(txs) < MaxTxs
  /\ txs' = Append(txs, tx)
  /\ status' = Append(status, "pool")
  /\ UNCHANGED <<isOperational, invalidated, blockTime, signed, history>>

Submit(sender, plan) ==
  /\ LET op == Built(plan)
     IN  Pool([method |-> "operate", sender |-> sender,
               accounts |-> op.accounts, actions |-> op.actions,
               auths |-> GenerateAuthData(op)])
  /\ \A i \in DOMAIN plan :
       plan[i].kind = "Signable" => SignedBy[plan[i].signable] \in signed

\* `options || { from: operation.signer }`
CancelOperation(operation, hasOptions) ==
  LET args == CancelArgs(operation)
  IN  Pool([method   |-> "cancel",
            sender   |-> IF hasOptions THEN DefaultAccount
                         ELSE operation.header.signer,
            accounts |-> args.accounts, actions |-> args.actions,
            auths    |-> <<args.auth>>, operation |-> operation])

-----------------------------------------------------------------------------
(* The contract.                                                           *)

Start(auths, k) ==
  LET start[j \in 1 .. k] == IF j = 1 THEN 0 ELSE start[j - 1] + auths[j - 1].numActions
  IN  start[k]

HashOf(tx, k) ==
  GetOperationHashOf(tx.accounts, tx.actions, tx.auths[k], Start(tx.auths, k))

IsSigned(tx, k) == tx.auths[k].signature # NoSignature
Hashes(tx) == {HashOf(tx, k) : k \in {j \in DOMAIN tx.auths : IsSigned(tx, j)}}

SignerOf(tx, k) ==
  IF IsSigned(tx, k) THEN Recover(HashOf(tx, k), tx.auths[k].signature)
  ELSE AddressOf[tx.sender]

AllActionsCovered(tx) ==
  (IF tx.auths = <<>> THEN 0
   ELSE Start(tx.auths, Len(tx.auths)) + tx.auths[Len(tx.auths)].numActions)
    = Len(tx.actions)

SignatureIsValid(tx, k) ==
  IsSigned(tx, k) =>
    /\ AddressOf[tx.auths[k].header.signer] = SignerOf(tx, k)
    /\ SignerOf(tx, k) # NoOne

HeaderAccepts(tx, k) ==
  LET header == tx.auths[k].header
  IN  /\ header.expiration = 0 \/ header.expiration >= blockTime
      /\ header.sender = ZeroOwner \/ AddressOf[header.sender] = AddressOf[tx.sender]

\* A fault: only what earlier transactions used counts, not this one.
NotUsedBefore(tx, k) == IsSigned(tx, k) => HashOf(tx, k) \notin invalidated

NotUsed(tx, k) ==
  IsSigned(tx, k) =>
    /\ HashOf(tx, k) \notin invalidated
    /\ \A j \in 1 .. k - 1 : IsSigned(tx, j) => HashOf(tx, j) # HashOf(tx, k)

ValidateAccountOwner(tx, account, signer) ==
  LET owner == AddressOf[tx.accounts[account].owner]
      sender == AddressOf[tx.sender]
  IN  owner \in {sender, signer} \/ {<<owner, sender>>, <<owner, signer>>}
                                      \cap LocalOperators # {}

\* A fault: the receiving account of a transfer is not looked at.
ActionAcceptedFromPrimary(tx, action, signer) ==
  ValidateAccountOwner(tx, action.accountId, signer)

ActionAccepted(tx, action, signer) ==
  /\ ValidateAccountOwner(tx, action.accountId, signer)
  /\ action.actionType = "Transfer" =>
       ValidateAccountOwner(tx, action.otherAccountId, signer)
  /\ action.actionType # "Liquidate"
  /\ action.actionType = "Trade" /\ action.otherAddress \in SpecialTraders =>
       AddressOf[tx.sender] \in GlobalOperators

ActionsAccepted(tx, k) ==
  \A i \in 1 .. tx.auths[k].numActions :
    ActionAccepted(tx, tx.actions[Start(tx.auths, k) + i], SignerOf(tx, k))

\* DolomiteMargin.operate, which may refuse for reasons of its own, and does
\* refuse a list with the same account twice.
AccountsDiffer(accounts) ==
  \A i, j \in DOMAIN accounts : SameAccount(accounts[i], accounts[j]) => i = j

Refuse(t, reason) ==
  /\ status' = [status EXCEPT ![t] = reason]
  /\ UNCHANGED <<invalidated, history>>

Accept(t, hashes) ==
  /\ status' = [status EXCEPT ![t] = "mined"]
  /\ invalidated' = invalidated \cup hashes
  /\ history' = Append(history, [tx |-> t, at |-> blockTime])

\* The contract checks one authorization after the other; a transaction that
\* fails any check reverts, so that their order does not show.
Operate(t) ==
  LET tx == txs[t]
      IsFor(P(_, _)) == \A k \in DOMAIN tx.auths : P(tx, k)
  IN  /\ status[t] = "pool" /\ tx.method = "operate"
      /\ IF ~(AllActionsCovered(tx) /\ IsFor(SignatureIsValid))
         THEN Refuse(t, "malformed")
         ELSE IF /\ isOperational
                 /\ IsFor(HeaderAccepts) /\ IsFor(NotUsed) /\ IsFor(ActionsAccepted)
                 /\ AccountsDiffer(tx.accounts)
         THEN Accept(t, Hashes(tx)) \/ Refuse(t, "reverted")
         ELSE Refuse(t, "reverted")
      /\ UNCHANGED <<isOperational, blockTime, signed, txs>>

Cancel(t) ==
  LET tx == txs[t]
      auth == tx.auths[1]
  IN  /\ status[t] = "pool" /\ tx.method = "cancel"
      /\ IF auth.header.signer = tx.sender
         THEN Accept(t, {GetOperationHashOf(tx.accounts, tx.actions, auth, 0)})
         ELSE Refuse(t, "reverted")
      /\ UNCHANGED <<isOperational, blockTime, signed, txs>>

ShutDown ==
  /\ isOperational' = FALSE
  /\ UNCHANGED <<invalidated, blockTime, signed, txs, status, history>>

StartUp ==
  /\ isOperational' = TRUE
  /\ UNCHANGED <<invalidated, blockTime, signed, txs, status, history>>

BlockTick ==
  /\ blockTime < MaxBlockTime
  /\ blockTime' = blockTime + 1
  /\ UNCHANGED <<isOperational, invalidated, signed, txs, status, history>>

SignedNext ==
  \/ \E s \in Signables : PublishOperation(s)
  \/ \E sender \in People, plan \in Plans : Submit(sender, plan)
  \/ \E s \in Signables, hasOptions \in BOOLEAN :
       CancelOperation(s.operation, hasOptions)
  \/ \E t \in DOMAIN txs : Operate(t) \/ Cancel(t)
  \/ ShutDown \/ StartUp \/ BlockTick

SignedSpec == SignedInit /\ [][SignedNext]_signedVars

-----------------------------------------------------------------------------
(* Properties.                                                             *)

\* The client is configured for the chain and the address of the proxy, and
\* signs operations on accounts that have owners.
ClientFitsProxy ==
  /\ ClientDomain = ChainDomain
  /\ \A s \in Signables : AccountsHaveOwners(s.operation)

\* What is signed can be read by the client, and is signed by wallets whose
\* signatures the client finds valid and whose v ecrecover knows.
IsClear(action) ==
  /\ action.actionType \in OneAccountTypes \cup TwoAccountTypes
  /\ action.data # BadHex
  /\ action.amount = [sign |-> action.amount.sign, unit |-> action.amount.unit,
                      value |-> action.amount.value]
  /\ action.amount.sign \in BOOLEAN

SignablesAreClear ==
  \A s \in Signables :
    /\ \A i \in DOMAIN s.operation.actions : IsClear(s.operation.actions[i])
    /\ OperationHasValidSignature(SignedBy[s])
    /\ SignedBy[s].signature.raw.v = "high"

PlansAreKnown ==
  \A plan \in Plans :
    \A i \in DOMAIN plan :
      IF plan[i].kind = "Signable" THEN plan[i].signable \in Signables
      ELSE plan[i].kind \in OneAccountTypes \cup TwoAccountTypes

Executed == {i \in DOMAIN history : txs[history[i].tx].method = "operate"}
ExecutedTx(i) == txs[history[i].tx]

\* A signed operation is executed at most once: not by two transactions, not
\* twice by one, whoever sends them and in whatever order they are mined.
ExecutesOncePerSignature ==
  \A i, j \in Executed :
    \A k \in DOMAIN ExecutedTx(i).auths, l \in DOMAIN ExecutedTx(j).auths :
      /\ IsSigned(ExecutedTx(i), k)
      /\ IsSigned(ExecutedTx(j), l)
      /\ HashOf(ExecutedTx(i), k) = HashOf(ExecutedTx(j), l)
      => i = j /\ k = l

\* Once cancelOperation has gone through for an operation, that operation, by
\* the hash its signer knows it by, is never executed.
NeverAfterCancel ==
  \A i \in DOMAIN history \ Executed, j \in Executed :
    i < j => GetOperationHash(ExecutedTx(i).operation) \notin Hashes(ExecutedTx(j))

Controls(person, account) ==
  \/ AddressOf[account.owner] = person
  \/ <<AddressOf[account.owner], person>> \in LocalOperators

ConcernedAccounts(tx, i) ==
  {tx.accounts[tx.actions[i].accountId]}
  \cup IF tx.actions[i].actionType = "Transfer"
       THEN {tx.accounts[tx.actions[i].otherAccountId]} ELSE {}

\* The action at a place, on its own.
Meant(tx, i) ==
  GetOperationHashOf(tx.accounts, tx.actions,
                     [numActions |-> 1, header |-> NoSigner], i - 1).actions[1]

\* An operation that is valid for a sender at a time and covers, in order and
\* as they were signed, the actions around a place.
Authorizes(s, tx, at, i) ==
  /\ s.header.expiration = 0 \/ s.header.expiration >= at
  /\ s.header.sender = ZeroOwner \/ AddressOf[s.header.sender] = AddressOf[tx.sender]
  /\ \E from \in 0 .. i - 1 :
       /\ i <= from + Len(s.actions)
       /\ from + Len(s.actions) <= Len(tx.actions)
       /\ \A j \in DOMAIN s.actions :
            Meant(tx, from + j) = GetOperationHash(s).actions[j]

\* Every executed action is on accounts its sender controls or on accounts
\* controlled by the signer of an operation in circulation, all of whose actions
\* are executed there, as they were signed.
OnlyWhatWasSigned ==
  \A h \in Executed :
    \A i \in DOMAIN ExecutedTx(h).actions :
      LET tx == ExecutedTx(h)
          others == {a \in ConcernedAccounts(tx, i) :
                       ~Controls(AddressOf[tx.sender], a)}
      IN  others # {} =>
            \E s \in signed :
              /\ Authorizes(s, tx, history[h].at, i)
              /\ \A a \in others : Controls(AddressOf[s.header.signer], a)

\* What the client builds from signed operations and own requests in any order
\* is read back by the contract: no transaction of it fails because a signature
\* does not fit or an action is not covered.
NothingIsMalformed == \A t \in DOMAIN txs : status[t] # "malformed"
=============================================================================

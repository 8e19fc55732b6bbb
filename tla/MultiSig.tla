------------------------------ MODULE MultiSig ------------------------------
(***************************************************************************)
(* The wallets that own the contracts: MultiSig.sol, DelayedMultiSig.sol   *)
(* and PartiallyDelayedMultiSig.sol.  Owners submit, confirm, revoke and   *)
(* execute transactions; a transaction may call the wallet itself, or      *)
(* contracts, which may be owners and call back before they return.        *)
(*                                                                         *)
(* Ids start at 1.  An execution is a frame of `running` from its call to  *)
(* its return, and brings the wallet back if it fails: alone in MultiSig,  *)
(* with the whole call in the others.                                      *)
(***************************************************************************)
EXTENDS Naturals, FiniteSets, SequencesExt

CONSTANTS
  Kinds,            \* the contracts that this wallet may be
  FirstOwners, FirstRequired, FirstTimeLock, FirstInstantData,
  OwnerContracts,   \* the addresses that are contracts
  Calls,            \* what transactions may do: a destination, a selector, arguments
  WalletAddress, ZeroAddress,
  MaxOwnerCount,
  MaxTransactions, MaxWalletTime, MaxFrames \* bounds

ASSUME MultiSigAssumption ==
  /\ MaxOwnerCount \in Nat /\ MaxTransactions \in Nat
  /\ FirstOwners \in Seq(Range(FirstOwners)) /\ IsInjective(FirstOwners)
  /\ FirstRequired \in 1 .. Len(FirstOwners)
  /\ Len(FirstOwners) <= MaxOwnerCount
  /\ \A call \in Calls : call.selector = "changeRequirement" => call.required \in Nat

VARIABLES
  kind,
  wallet,     \* the storage of the wallet
  running,    \* the executions under way, the innermost last
  walletTime

multiSigVars == <<kind, wallet, running, walletTime>>

Ids == 1 .. MaxTransactions
NoQuorum == [since |-> 0, by |-> "nobody"]

\* The fields `quorum` (since when a transaction has been fully confirmed
\* without a break, and what completed it) and `runs` are history.
MultiSigInit ==
  /\ kind \in Kinds
  /\ wallet = [owners |-> FirstOwners, isOwner |-> Range(FirstOwners),
               required |-> FirstRequired, transactions |-> <<>>,
               executed |-> {}, confirmations |-> {},
               secondsTimeLocked |-> FirstTimeLock,
               confirmationTimes |-> [id \in Ids |-> 0],
               instantData |-> FirstInstantData,
               quorum |-> [id \in Ids |-> NoQuorum],
               runs |-> [id \in Ids |-> 0]]
  /\ running = <<>>
  /\ walletTime = 1

Delayed == kind # "MultiSig"

-----------------------------------------------------------------------------
(* What the modifiers ask.                                                 *)

IsConfirmed(w, id) ==
  Cardinality({i \in DOMAIN w.owners : <<id, w.owners[i]>> \in w.confirmations})
    >= w.required

CanBeExecutedInstantly(w, id) ==
  LET call == w.transactions[id]
  IN  /\ kind = "PartiallyDelayedMultiSig"
      /\ call.selector # "short"
      /\ \/ <<call.destination, call.selector>> \in w.instantData
         \/ <<ZeroAddress, call.selector>> \in w.instantData

PastTimeLock(w, id) ==
  \/ walletTime >= w.confirmationTimes[id] + w.secondsTimeLocked
  \/ CanBeExecutedInstantly(w, id)

MayExecute(w, sender, id) ==
  /\ sender \in w.isOwner
  /\ id \in DOMAIN w.transactions
  /\ id \notin w.executed
  /\ IsConfirmed(w, id)
  /\ IF Delayed THEN PastTimeLock(w, id) ELSE <<id, sender>> \in w.confirmations

ValidRequirement(ownerCount, n) ==
  ownerCount <= MaxOwnerCount /\ n <= ownerCount /\ n # 0 /\ ownerCount # 0

\* The history of the quorums, after the wallet w has become `after`.
Noted(w, after, by) ==
  [after EXCEPT !.quorum =
     [id \in Ids |->
        IF ~IsConfirmed(after, id) THEN NoQuorum
        ELSE IF IsConfirmed(w, id) THEN w.quorum[id]
        ELSE [since |-> walletTime, by |-> by]]]

-----------------------------------------------------------------------------
(* The functions that only the wallet may call.                            *)

WalletFunctions ==
  {"addOwner", "removeOwner", "replaceOwner", "changeRequirement"}
    \cup (IF Delayed THEN {"changeTimeLock"} ELSE {})
    \cup (IF kind = "PartiallyDelayedMultiSig" THEN {"setSelector"} ELSE {})

\* The last owner takes the place of the one removed.
OwnersWithout(w, owner) ==
  Front([i \in DOMAIN w.owners |->
           IF w.owners[i] = owner THEN Last(w.owners) ELSE w.owners[i]])

\* A fault: the requirement stays when owners go.
RemoveOwnerOnly(w, owner) ==
  [w EXCEPT !.owners = OwnersWithout(w, owner), !.isOwner = @ \ {owner}]

RemoveOwner(w, owner) ==
  [w EXCEPT !.owners = OwnersWithout(w, owner), !.isOwner = @ \ {owner},
            !.required = IF @ > Len(w.owners) - 1 THEN Len(w.owners) - 1 ELSE @]

Accepts(w, call) ==
  CASE call.selector = "addOwner" ->
         /\ call.owner \notin w.isOwner
         /\ ValidRequirement(Len(w.owners) + 1, w.required)
    [] call.selector = "removeOwner" ->
         /\ call.owner \in w.isOwner
         /\ w.required >= Len(w.owners) =>
              ValidRequirement(Len(w.owners) - 1, Len(w.owners) - 1)
    [] call.selector = "replaceOwner" ->
         call.owner \in w.isOwner /\ call.newOwner \notin w.isOwner
    [] call.selector = "changeRequirement" ->
         ValidRequirement(Len(w.owners), call.required)
    [] OTHER -> TRUE

Changed(w, call) ==
  CASE call.selector = "addOwner" ->
         [w EXCEPT !.owners = Append(@, call.owner), !.isOwner = @ \cup {call.owner}]
    [] call.selector = "removeOwner" -> RemoveOwner(w, call.owner)
    [] call.selector = "replaceOwner" ->
         [w EXCEPT !.owners = [i \in DOMAIN @ |->
                                 IF @[i] = call.owner THEN call.newOwner ELSE @[i]],
                   !.isOwner = (@ \ {call.owner}) \cup {call.newOwner}]
    [] call.selector = "changeRequirement" -> [w EXCEPT !.required = call.required]
    [] call.selector = "changeTimeLock" ->
         [w EXCEPT !.secondsTimeLocked = call.seconds]
    [] call.selector = "setSelector" ->
         LET entry == <<call.of, call.named>>
         IN  [w EXCEPT !.instantData =
                IF call.approved THEN @ \cup {entry} ELSE @ \ {entry}]

-----------------------------------------------------------------------------
(* Executions.                                                             *)

Marked(w, id) == [w EXCEPT !.executed = @ \cup {id}, !.runs[id] = @ + 1]

Start(w, sender, ids) ==
  /\ Len(running) < MaxFrames
  /\ wallet' = Marked(w, Head(ids))
  /\ running' = Append(running, [sender |-> sender, ids |-> ids, before |-> w])

Execution == Last(running)
CurrentCall == wallet.transactions[Head(Execution.ids)]
CallsWallet == CurrentCall.destination = WalletAddress

\* The call of the innermost execution fails, or one after it may not start.
Reverts ==
  /\ wallet' = Execution.before
  /\ running' = Front(running)

\* It returns with the wallet as w: executeMultipleTransactions goes on.
ReturnsWith(w) ==
  IF Len(Execution.ids) = 1
  THEN wallet' = w /\ running' = Front(running)
  ELSE LET next == Execution.ids[2]
       IN  IF MayExecute(w, Execution.sender, next)
           THEN /\ wallet' = Marked(w, next)
                /\ running' = [running EXCEPT
                                 ![Len(running)].ids = Tail(Execution.ids)]
           ELSE Reverts

RunWalletFunction ==
  /\ running # <<>> /\ CallsWallet
  /\ IF CurrentCall.selector \in WalletFunctions /\ Accepts(wallet, CurrentCall)
     THEN ReturnsWith(Noted(wallet, Changed(wallet, CurrentCall), "rules"))
     ELSE Reverts
  /\ UNCHANGED <<kind, walletTime>>

ExternalCallReturns ==
  /\ running # <<>> /\ ~CallsWallet
  /\ ReturnsWith(wallet)
  /\ UNCHANGED <<kind, walletTime>>

ExternalCallFails ==
  /\ running # <<>> /\ ~CallsWallet
  /\ Reverts
  /\ UNCHANGED <<kind, walletTime>>

-----------------------------------------------------------------------------
(* The functions of owners.                                                *)

\* Anyone calls between transactions; within one, the contracts it has called.
MayCall(sender) ==
  IF running = <<>> THEN TRUE ELSE sender \in OwnerContracts /\ ~CallsWallet

\* A fault: only the first quorum of a transaction sets its time.
FirstConfirmationTime(w, id) ==
  IF w.confirmationTimes[id] = 0 THEN walletTime ELSE w.confirmationTimes[id]

SetConfirmationTime(w, id) == walletTime

Confirmed(w, sender, id) ==
  LET after == [w EXCEPT !.confirmations = @ \cup {<<id, sender>>}]
  IN  Noted(w, IF Delayed /\ IsConfirmed(after, id)
               THEN [after EXCEPT !.confirmationTimes[id] = SetConfirmationTime(w, id)]
               ELSE after, "confirmation")

\* confirmTransaction on the wallet w, which MultiSig goes on to execute.
Confirm(w, sender, id) ==
  /\ sender \in w.isOwner
  /\ <<id, sender>> \notin w.confirmations
  /\ IF Delayed THEN ~IsConfirmed(w, id) ELSE id \notin w.executed
  /\ LET after == Confirmed(w, sender, id)
     IN  IF ~Delayed /\ IsConfirmed(after, id) THEN Start(after, sender, <<id>>)
         ELSE wallet' = after /\ UNCHANGED running

SubmitTransaction(sender, call) ==
  /\ MayCall(sender)
  /\ Len(wallet.transactions) < MaxTransactions
  /\ call.destination # ZeroAddress
  /\ Confirm([wallet EXCEPT !.transactions = Append(@, call)], sender,
             Len(wallet.transactions) + 1)
  /\ UNCHANGED <<kind, walletTime>>

ConfirmTransaction(sender, id) ==
  /\ MayCall(sender)
  /\ Confirm(wallet, sender, id)
  /\ UNCHANGED <<kind, walletTime>>

RevokeConfirmation(sender, id) ==
  /\ MayCall(sender)
  /\ sender \in wallet.isOwner
  /\ <<id, sender>> \in wallet.confirmations
  /\ id \notin wallet.executed
  /\ wallet' = Noted(wallet, [wallet EXCEPT !.confirmations = @ \ {<<id, sender>>}],
                     "nobody")
  /\ UNCHANGED <<kind, running, walletTime>>

\* executeTransaction, or executeMultipleTransactions for several.
ExecuteTransactions(sender, ids) ==
  /\ MayCall(sender)
  /\ Delayed \/ Len(ids) = 1
  /\ MayExecute(wallet, sender, Head(ids))
  /\ Start(wallet, sender, ids)
  /\ UNCHANGED <<kind, walletTime>>

WalletTimePasses ==
  /\ running = <<>>
  /\ walletTime < MaxWalletTime
  /\ walletTime' = walletTime + 1
  /\ UNCHANGED <<kind, wallet, running>>

MultiSigNext ==
  \/ RunWalletFunction \/ ExternalCallReturns \/ ExternalCallFails
  \/ \E sender \in wallet.isOwner :
       \/ \E call \in Calls : SubmitTransaction(sender, call)
       \/ \E id \in DOMAIN wallet.transactions :
            ConfirmTransaction(sender, id) \/ RevokeConfirmation(sender, id)
       \/ \E ids \in {<<id>> : id \in Ids} \cup (Ids \X Ids) :
            ExecuteTransactions(sender, ids)
  \/ WalletTimePasses

MultiSigSpec == MultiSigInit /\ [][MultiSigNext]_multiSigVars

-----------------------------------------------------------------------------
(* Properties.                                                             *)

\* The list and the map of owners agree, nobody is on the list twice, and there
\* are always enough owners to meet the requirement, through every sequence of
\* additions, removals, replacements and changes of it.
OwnersStayValid ==
  /\ IsInjective(wallet.owners)
  /\ Range(wallet.owners) = wallet.isOwner
  /\ ValidRequirement(Len(wallet.owners), wallet.required)

\* A transaction runs at most once, re-entered or repeated, with a quorum of the
\* owners of that moment; where there is a time lock, the lock has passed since
\* the present quorum was completed, revocations in between included, unless
\* the transaction is exempt or the quorum was completed by a change of
\* the owners or of the requirement.
ExecutionsAreDue ==
  [][\A id \in Ids :
       wallet'.runs[id] > wallet.runs[id] =>
         LET quorum == wallet'.quorum[id]
         IN  /\ wallet'.runs[id] = 1
             /\ IsConfirmed(wallet', id)
             /\ \/ ~Delayed
                \/ CanBeExecutedInstantly(wallet', id)
                \/ quorum.by = "rules"
                \/ walletTime >= quorum.since + wallet'.secondsTimeLocked
       ]_multiSigVars
=============================================================================

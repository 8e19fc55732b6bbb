----------------------------- MODULE Contracts -----------------------------
(***************************************************************************)
(* Contracts.callContractFunction of the TypeScript client: what happens   *)
(* to a call between the method of the caller and the chain.  A call       *)
(* awaits the block gas limit, then a gas estimate, sends the transaction  *)
(* and turns the events of web3's PromiEvent into the promises it returns. *)
(*                                                                         *)
(* web3 1.2.1 and the node behind it are external: they hand out a hash or *)
(* refuse, see the receipt or give up waiting for it (the transaction may  *)
(* be mined all the same), and count confirmations up to a last one.       *)
(***************************************************************************)
EXTENDS Naturals

CONSTANTS
  Calls,                \* calls of callContractFunction
  DefaultTypeOption,    \* options.confirmationType of the client, or None
  DefaultConfirmations, \* options.defaultConfirmations, 0 when not given
  DefaultGas,           \* whether options.defaultGas was given
  BlockGasLimitOption,  \* whether options.blockGasLimit was given
  RequestedTypes,       \* the confirmation types callers pass, None for none
  RequestedConfirmations, \* the confirmations they pass, 0 for none
  LastConfirmation,     \* web3 stops counting here
  None

ConfirmationTypes == {"Hash", "Confirmed", "Both", "Simulate"}

ASSUME ContractsAssumption ==
  /\ None \notin ConfirmationTypes
  /\ DefaultTypeOption \in ConfirmationTypes \cup {None}
  /\ LastConfirmation \in Nat \ {0}
  /\ DefaultConfirmations \in 0 .. LastConfirmation
  /\ RequestedConfirmations \subseteq 0 .. LastConfirmation
  /\ DefaultGas \in BOOLEAN
  /\ BlockGasLimitOption \in BOOLEAN

VARIABLES
  blockGasLimit, \* whether the client knows it yet
  offWorks,      \* whether off() without a name removes the listeners
  calls,         \* for each call: where it is and what it has told its caller
  web3,          \* for each call: what web3 is waiting for
  confirmations, \* for each call: confirmations web3 has counted
  chain          \* for each call: its transaction

clientVars == <<blockGasLimit, offWorks, calls, web3, confirmations, chain>>

Outcomes == {"INITIAL", "RESOLVED", "REJECTED"}
Options ==
  [confirmationType : RequestedTypes, confirmations : RequestedConfirmations,
   gas : BOOLEAN]

NoCall ==
  [pc |-> "idle", options |-> None, hashOutcome |-> "INITIAL",
   confirmationOutcome |-> "INITIAL", listening |-> FALSE,
   result |-> "none", confirmation |-> "none"]

(***************************************************************************)
(* The constructor: `options.confirmationType || Confirmed` also replaces  *)
(* ConfirmationType.Hash, which is 0.                                      *)
(***************************************************************************)
DefaultType ==
  IF DefaultTypeOption \in {None, "Hash"} THEN "Confirmed"
  ELSE DefaultTypeOption

ClientInit ==
  /\ blockGasLimit = BlockGasLimitOption
  /\ offWorks \in BOOLEAN
  /\ calls = [c \in Calls |-> NoCall]
  /\ web3 = [c \in Calls |-> "none"]
  /\ confirmations = [c \in Calls |-> 0]
  /\ chain = [c \in Calls |-> "absent"]

-----------------------------------------------------------------------------
(* The listeners a call puts on the PromiEvent, as functions of the call.  *)

TypeOf(call) ==
  IF call.options.confirmationType # None THEN call.options.confirmationType
  ELSE DefaultType

DesiredConfirmations(call) ==
  IF call.options.confirmations # 0 THEN call.options.confirmations
  ELSE DefaultConfirmations

AwaitsHash(call) == TypeOf(call) \in {"Hash", "Both"}
AwaitsConfirmation(call) == TypeOf(call) \in {"Confirmed", "Both"}

\* A fault: a request for 0 confirmations is a request like any other.
CountsConfirmationsFromZero(call) == call.listening /\ AwaitsConfirmation(call)

CountsConfirmations(call) ==
  call.listening /\ AwaitsConfirmation(call) /\ DesiredConfirmations(call) > 0

Off(call) == [call EXCEPT !.listening = @ /\ ~offWorks]

\* A promise is settled once; the call returns what its first await gives it.
SettleResult(call, value) ==
  IF call.result = "pending"
  THEN [call EXCEPT !.result = value, !.pc = "settled"]
  ELSE call

SettleConfirmation(call, value) ==
  LET settled ==
        IF call.confirmation = "pending"
        THEN [call EXCEPT !.confirmation = value] ELSE call
  IN  IF TypeOf(call) = "Confirmed" THEN SettleResult(settled, value)
      ELSE settled

HashRejects(call) ==
  IF AwaitsHash(call) /\ call.hashOutcome = "INITIAL"
  THEN Off(SettleResult([call EXCEPT !.hashOutcome = "REJECTED"], "rejected"))
  ELSE call

\* A fault: errors count only after the hash, for every type.
ConfirmationRejectsAfterHash(call) ==
  IF /\ AwaitsConfirmation(call)
     /\ call.hashOutcome = "RESOLVED"
     /\ call.confirmationOutcome = "INITIAL"
  THEN Off(SettleConfirmation([call EXCEPT !.confirmationOutcome = "REJECTED"],
                              "rejected"))
  ELSE call

ConfirmationRejects(call) ==
  IF /\ AwaitsConfirmation(call)
     /\ TypeOf(call) = "Confirmed" \/ call.hashOutcome = "RESOLVED"
     /\ call.confirmationOutcome = "INITIAL"
  THEN Off(SettleConfirmation([call EXCEPT !.confirmationOutcome = "REJECTED"],
                              "rejected"))
  ELSE call

OnError(call) ==
  IF call.listening THEN ConfirmationRejects(HashRejects(call)) ELSE call

\* A fault: off() as soon as the hash is known, for Both as well.
OnTransactionHashAlwaysOff(call) ==
  IF call.listening /\ AwaitsHash(call) /\ call.hashOutcome = "INITIAL"
  THEN Off(SettleResult([call EXCEPT !.hashOutcome = "RESOLVED"], "hash"))
  ELSE call

OnTransactionHash(call) ==
  IF call.listening /\ AwaitsHash(call) /\ call.hashOutcome = "INITIAL"
  THEN LET resolved == SettleResult([call EXCEPT !.hashOutcome = "RESOLVED"],
                                    "hash")
       IN  IF TypeOf(call) = "Both" THEN resolved ELSE Off(resolved)
  ELSE call

OnConfirmation(call, number) ==
  IF /\ CountsConfirmations(call)
     /\ number >= DesiredConfirmations(call)
     /\ call.confirmationOutcome = "INITIAL"
  THEN Off(SettleConfirmation([call EXCEPT !.confirmationOutcome = "RESOLVED"],
                              "receipt"))
  ELSE call

OnReceipt(call) ==
  IF call.listening /\ AwaitsConfirmation(call) /\ DesiredConfirmations(call) = 0
  THEN Off(SettleConfirmation([call EXCEPT !.confirmationOutcome = "RESOLVED"],
                              "receipt"))
  ELSE call

-----------------------------------------------------------------------------
(* The function itself, from one await to the next.                        *)

Attached(call) ==
  [call EXCEPT !.pc = "waiting", !.listening = TRUE,
               !.confirmation = IF AwaitsConfirmation(call) THEN "pending"
                                ELSE "none"]

(* After method.send: an invalid type throws, and a Simulate that is only  *)
(* the client's default leaves nothing to wait for.                        *)
AfterSend(call) ==
  CASE TypeOf(call) \notin ConfirmationTypes -> SettleResult(call, "rejected")
    [] TypeOf(call) = "Simulate"             -> SettleResult(call, "nothing")
    [] OTHER                                 -> Attached(call)

Send(c, call) ==
  /\ calls' = [calls EXCEPT ![c] = AfterSend(call)]
  /\ web3' = [web3 EXCEPT ![c] = "sending"]

IsSimulation(call) == call.options.confirmationType = "Simulate"
NeedsEstimate(call) ==
  IsSimulation(call) \/ (~call.options.gas /\ ~DefaultGas)

EstimateOrSend(c, call) ==
  IF NeedsEstimate(call)
  THEN /\ calls' = [calls EXCEPT ![c] = [call EXCEPT !.pc = "estimating"]]
       /\ UNCHANGED web3
  ELSE Send(c, call)

CallContractFunction(c, options) ==
  /\ calls[c].pc = "idle"
  /\ LET call == [NoCall EXCEPT !.options = options, !.result = "pending"]
     IN  IF blockGasLimit
         THEN EstimateOrSend(c, call)
         ELSE /\ calls' = [calls EXCEPT ![c] =
                             [call EXCEPT !.pc = "gettingGasLimit"]]
              /\ UNCHANGED web3
  /\ UNCHANGED <<blockGasLimit, offWorks, confirmations, chain>>

\* The node answers getBlock, or fails to.
SetGasLimit(c) ==
  /\ calls[c].pc = "gettingGasLimit"
  /\ \/ blockGasLimit' = TRUE /\ EstimateOrSend(c, calls[c])
     \/ /\ calls' = [calls EXCEPT ![c] = SettleResult(@, "rejected")]
        /\ UNCHANGED <<blockGasLimit, web3>>
  /\ UNCHANGED <<offWorks, confirmations, chain>>

\* The node answers estimateGas; an error goes to the caller.
EstimateGas(c) ==
  /\ calls[c].pc = "estimating"
  /\ \/ /\ ~IsSimulation(calls[c])
        /\ Send(c, calls[c])
     \/ /\ IsSimulation(calls[c])
        /\ calls' = [calls EXCEPT ![c] = SettleResult(@, "simulated")]
        /\ UNCHANGED web3
     \/ /\ calls' = [calls EXCEPT ![c] = SettleResult(@, "rejected")]
        /\ UNCHANGED web3
  /\ UNCHANGED <<blockGasLimit, offWorks, confirmations, chain>>

-----------------------------------------------------------------------------
(* web3 and the node.                                                      *)

\* The node takes the transaction into its pool and web3 emits its hash.
NodeAccepts(c) ==
  /\ web3[c] = "sending"
  /\ web3' = [web3 EXCEPT ![c] = "watching"]
  /\ chain' = [chain EXCEPT ![c] = "pool"]
  /\ calls' = [calls EXCEPT ![c] = OnTransactionHash(@)]
  /\ UNCHANGED <<blockGasLimit, offWorks, confirmations>>

NodeRefuses(c) ==
  /\ web3[c] = "sending"
  /\ web3' = [web3 EXCEPT ![c] = "over"]
  /\ calls' = [calls EXCEPT ![c] = OnError(@)]
  /\ UNCHANGED <<blockGasLimit, offWorks, confirmations, chain>>

Mine(c) ==
  /\ chain[c] = "pool"
  /\ \E status \in {"mined", "reverted"} :
       chain' = [chain EXCEPT ![c] = status]
  /\ UNCHANGED <<blockGasLimit, offWorks, calls, web3, confirmations>>

\* Confirmation 0 comes with the receipt, before web3 looks at its status.
SeeReceipt(c) ==
  /\ web3[c] = "watching"
  /\ chain[c] \in {"mined", "reverted"}
  /\ LET confirmed == OnConfirmation(calls[c], 0)
     IN  calls' = [calls EXCEPT ![c] = IF chain[c] = "mined"
                                       THEN OnReceipt(confirmed)
                                       ELSE OnError(confirmed)]
  /\ web3' = [web3 EXCEPT ![c] =
                IF chain[c] = "mined" /\ CountsConfirmations(calls[c])
                THEN "confirming" ELSE "over"]
  /\ UNCHANGED <<blockGasLimit, offWorks, confirmations, chain>>

SeeConfirmation(c) ==
  /\ web3[c] = "confirming"
  /\ confirmations' = [confirmations EXCEPT ![c] = @ + 1]
  /\ calls' = [calls EXCEPT ![c] = OnConfirmation(@, confirmations'[c])]
  /\ web3' = [web3 EXCEPT ![c] =
                IF /\ confirmations'[c] < LastConfirmation
                   /\ CountsConfirmations(calls'[c])
                THEN @ ELSE "over"]
  /\ UNCHANGED <<blockGasLimit, offWorks, chain>>

\* Not mined within web3's number of blocks: it stops watching.
GiveUp(c) ==
  /\ web3[c] = "watching"
  /\ chain[c] = "pool"
  /\ web3' = [web3 EXCEPT ![c] = "over"]
  /\ calls' = [calls EXCEPT ![c] = OnError(@)]
  /\ UNCHANGED <<blockGasLimit, offWorks, confirmations, chain>>

ClientStep(c) == SetGasLimit(c) \/ EstimateGas(c)
NodeAnswers(c) == NodeAccepts(c) \/ NodeRefuses(c)
NodeWatches(c) == SeeReceipt(c) \/ SeeConfirmation(c) \/ GiveUp(c)
NodeStep(c) == NodeAnswers(c) \/ NodeWatches(c) \/ Mine(c)

ClientNext ==
  \E c \in Calls :
    \/ \E options \in Options : CallContractFunction(c, options)
    \/ ClientStep(c)
    \/ NodeStep(c)

(***************************************************************************)
(* The node answers the requests it gets, and web3 goes on watching until  *)
(* it sees a receipt and the confirmations, or gives up.  Nothing obliges  *)
(* a caller to call, or the network to mine a transaction.                 *)
(***************************************************************************)
ClientFairness ==
  \A c \in Calls : /\ WF_clientVars(ClientStep(c))
                   /\ WF_clientVars(NodeAnswers(c))
                   /\ WF_clientVars(NodeWatches(c))

ClientSpec == ClientInit /\ [][ClientNext]_clientVars /\ ClientFairness

-----------------------------------------------------------------------------
(* Properties.                                                             *)

CallRecords ==
  [pc : {"idle", "gettingGasLimit", "estimating", "waiting", "settled"},
   options : Options \cup {None}, hashOutcome : Outcomes,
   confirmationOutcome : Outcomes, listening : BOOLEAN,
   result : {"none", "pending", "hash", "receipt", "simulated", "nothing",
             "rejected"},
   confirmation : {"none", "pending", "receipt", "rejected"}]

\* Every variable of the client has its type, a call that is not idle has
\* options, and a call waits for events only while web3 has some to come.
ClientTypeOK ==
  /\ blockGasLimit \in BOOLEAN
  /\ offWorks \in BOOLEAN
  /\ calls \in [Calls -> CallRecords]
  /\ \A c \in Calls : calls[c].pc # "idle" => calls[c].options \in Options
  /\ web3 \in [Calls -> {"none", "sending", "watching", "confirming", "over"}]
  /\ confirmations \in [Calls -> 0 .. LastConfirmation]
  /\ chain \in [Calls -> {"absent", "pool", "mined", "reverted"}]
  /\ \A c \in Calls :
       calls[c].pc = "waiting" => web3[c] \in {"sending", "watching", "confirming"}

\* A promise that resolves to a receipt stands for a transaction that was
\* mined, did not revert and has the confirmations the caller asked for,
\* however hash, receipt, confirmations and errors arrive.
ReceiptsAreConfirmed ==
  \A c \in Calls :
    "receipt" \in {calls[c].result, calls[c].confirmation} =>
      /\ chain[c] = "mined"
      /\ confirmations[c] >= DesiredConfirmations(calls[c])

\* Every call returns or throws, and the confirmation promise that a call of
\* type Both hands to its caller is settled too: no sequence of answers leaves
\* a caller waiting, whether or not off() removes the listeners.
EveryPromiseSettles ==
  \A c \in Calls :
    /\ calls[c].pc # "idle" ~> calls[c].pc = "settled"
    /\ calls[c].result = "hash" /\ TypeOf(calls[c]) = "Both" ~>
         calls[c].confirmation \in {"receipt", "rejected"}
=============================================================================

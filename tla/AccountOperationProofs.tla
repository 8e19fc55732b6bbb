----------------------- MODULE AccountOperationProofs -----------------------
(***************************************************************************)
(* What the user of an AccountOperation can rely on, for any requests,     *)
(* signed operations, calls and answers of web3 and the node: a receipt    *)
(* stands for what was mined and confirmed, what is sent is what was asked *)
(* for and signed, and the chain executes it once.                         *)
(***************************************************************************)
EXTENDS AccountOperation, OperationBuilderProofs, FiniteSetTheorems,
  SequenceTheorems

-----------------------------------------------------------------------------
(* The listeners                                                           *)

IsCall(call) ==
  call = [pc |-> call.pc, options |-> call.options,
          hashOutcome |-> call.hashOutcome,
          confirmationOutcome |-> call.confirmationOutcome,
          listening |-> call.listening, result |-> call.result,
          confirmation |-> call.confirmation]

HasReceipt(call) == "receipt" \in {call.result, call.confirmation}

(***************************************************************************)
(* A listener leaves the options alone and moves a call nowhere but to its *)
(* end; a quiet one hands out no receipt.                                  *)
(***************************************************************************)
Moves(new, call) ==
  /\ IsCall(new)
  /\ new.options = call.options
  /\ new.pc \in {call.pc, "settled"}

Quiet(new, call) == Moves(new, call) /\ (HasReceipt(new) => HasReceipt(call))

LEMMA SameIsQuiet ==
  ASSUME NEW call, IsCall(call)
  PROVE  Quiet(call, call)
  BY DEF Quiet, Moves

LEMMA QuietTwice ==
  ASSUME NEW call, NEW mid, Quiet(mid, call), NEW new, Quiet(new, mid)
  PROVE  Quiet(new, call)
  BY DEF Quiet, Moves

LEMMA OffIsQuiet ==
  ASSUME NEW call, IsCall(call)
  PROVE  Quiet(Off(call), call)
  <1>1. Off(call) = [pc |-> call.pc, options |-> call.options,
                     hashOutcome |-> call.hashOutcome,
                     confirmationOutcome |-> call.confirmationOutcome,
                     listening |-> (call.listening /\ ~offWorks),
                     result |-> call.result, confirmation |-> call.confirmation]
    BY DEF Off, IsCall
  <1> QED BY <1>1 DEF Quiet, Moves, IsCall, HasReceipt

LEMMA OutcomesAreQuiet ==
  ASSUME NEW call, IsCall(call), NEW outcome
  PROVE  /\ Quiet([call EXCEPT !.hashOutcome = outcome], call)
         /\ Quiet([call EXCEPT !.confirmationOutcome = outcome], call)
  <1>1. /\ [call EXCEPT !.hashOutcome = outcome]
             = [pc |-> call.pc, options |-> call.options,
                hashOutcome |-> outcome,
                confirmationOutcome |-> call.confirmationOutcome,
                listening |-> call.listening, result |-> call.result,
                confirmation |-> call.confirmation]
        /\ [call EXCEPT !.confirmationOutcome = outcome]
             = [pc |-> call.pc, options |-> call.options,
                hashOutcome |-> call.hashOutcome,
                confirmationOutcome |-> outcome,
                listening |-> call.listening, result |-> call.result,
                confirmation |-> call.confirmation]
    BY DEF IsCall
  <1> QED BY <1>1 DEF Quiet, Moves, IsCall, HasReceipt

(***************************************************************************)
(* A call with one field changed.                                          *)
(***************************************************************************)
LEMMA ChangedPc ==
  ASSUME NEW call, IsCall(call), NEW v
  PROVE  LET new == [call EXCEPT !.pc = v]
         IN  /\ IsCall(new) /\ new.options = call.options /\ new.pc = v
             /\ new.result = call.result
             /\ new.confirmation = call.confirmation
  BY DEF IsCall

LEMMA ChangedOptions ==
  ASSUME NEW call, IsCall(call), NEW v
  PROVE  LET new == [call EXCEPT !.options = v]
         IN  /\ IsCall(new) /\ new.options = v /\ new.pc = call.pc
             /\ new.result = call.result
             /\ new.confirmation = call.confirmation
  BY DEF IsCall

LEMMA ChangedListening ==
  ASSUME NEW call, IsCall(call), NEW v
  PROVE  LET new == [call EXCEPT !.listening = v]
         IN  /\ IsCall(new) /\ new.options = call.options /\ new.pc = call.pc
             /\ new.result = call.result
             /\ new.confirmation = call.confirmation
  BY DEF IsCall

LEMMA ChangedResult ==
  ASSUME NEW call, IsCall(call), NEW v
  PROVE  LET new == [call EXCEPT !.result = v]
         IN  /\ IsCall(new) /\ new.options = call.options /\ new.pc = call.pc
             /\ new.result = v
             /\ new.confirmation = call.confirmation
  BY DEF IsCall

LEMMA ChangedConfirmation ==
  ASSUME NEW call, IsCall(call), NEW v
  PROVE  LET new == [call EXCEPT !.confirmation = v]
         IN  /\ IsCall(new) /\ new.options = call.options /\ new.pc = call.pc
             /\ new.result = call.result
             /\ new.confirmation = v
  BY DEF IsCall

LEMMA NoCallIsCall ==
  /\ IsCall(NoCall)
  /\ NoCall.pc = "idle" /\ NoCall.options = None
  /\ NoCall.result = "none" /\ NoCall.confirmation = "none"
  BY DEF NoCall, IsCall

(***************************************************************************)
(* A promise is settled with what is handed to it.                         *)
(***************************************************************************)
LEMMA ResultSettles ==
  ASSUME NEW call, IsCall(call), NEW value
  PROVE  /\ Moves(SettleResult(call, value), call)
         /\ value # "receipt" => Quiet(SettleResult(call, value), call)
         /\ call.result = "pending" => SettleResult(call, value).pc = "settled"
  <1>1. CASE call.result = "pending"
    <2>1. SettleResult(call, value)
            = [pc |-> "settled", options |-> call.options,
               hashOutcome |-> call.hashOutcome,
               confirmationOutcome |-> call.confirmationOutcome,
               listening |-> call.listening, result |-> value,
               confirmation |-> call.confirmation]
      BY <1>1 DEF SettleResult, IsCall
    <2> QED BY <2>1 DEF Moves, Quiet, IsCall, HasReceipt
  <1>2. CASE call.result # "pending"
    <2>1. SettleResult(call, value) = call
      BY <1>2 DEF SettleResult
    <2> QED BY <1>2, <2>1 DEF Moves, Quiet
  <1> QED BY <1>1, <1>2

LEMMA ConfirmationSettles ==
  ASSUME NEW call, IsCall(call), NEW value
  PROVE  /\ Moves(SettleConfirmation(call, value), call)
         /\ value # "receipt" => Quiet(SettleConfirmation(call, value), call)
  <1> DEFINE settled == IF call.confirmation = "pending"
                        THEN [call EXCEPT !.confirmation = value] ELSE call
  <1>1. /\ Moves(settled, call)
        /\ value # "receipt" => Quiet(settled, call)
    <2>1. CASE call.confirmation = "pending"
      <3>1. settled = [pc |-> call.pc, options |-> call.options,
                       hashOutcome |-> call.hashOutcome,
                       confirmationOutcome |-> call.confirmationOutcome,
                       listening |-> call.listening, result |-> call.result,
                       confirmation |-> value]
        BY <2>1 DEF IsCall
      <3> QED BY <3>1 DEF Moves, Quiet, IsCall, HasReceipt
    <2>2. CASE call.confirmation # "pending"
      BY <2>2 DEF Moves, Quiet
    <2> QED BY <2>1, <2>2
  <1>2. SettleConfirmation(call, value)
          \in {settled, SettleResult(settled, value)}
    BY DEF SettleConfirmation
  <1> HIDE DEF settled
  <1>3. IsCall(settled)
    BY <1>1 DEF Moves
  <1>4. /\ Moves(SettleResult(settled, value), settled)
        /\ value # "receipt" => Quiet(SettleResult(settled, value), settled)
    BY <1>3, ResultSettles
  <1>5. Moves(SettleResult(settled, value), call)
    BY <1>1, <1>4 DEF Moves
  <1>6. value # "receipt" => Quiet(SettleResult(settled, value), call)
    BY <1>1, <1>4, QuietTwice
  <1> QED BY <1>1, <1>2, <1>5, <1>6

LEMMA HashRejectsIsQuiet ==
  ASSUME NEW call, IsCall(call)
  PROVE  Quiet(HashRejects(call), call)
  <1> DEFINE marked == [call EXCEPT !.hashOutcome = "REJECTED"]
             settled == SettleResult(marked, "rejected")
  <1>1. Quiet(marked, call)
    BY OutcomesAreQuiet
  <1>2. HashRejects(call) \in {call, Off(settled)}
    BY DEF HashRejects
  <1> HIDE DEF marked
  <1>3. Quiet(settled, marked)
    BY <1>1, ResultSettles DEF Quiet, Moves
  <1> HIDE DEF settled
  <1>4. Quiet(Off(settled), settled)
    BY <1>3, OffIsQuiet DEF Quiet, Moves
  <1>5. Quiet(Off(settled), call)
    BY <1>1, <1>3, <1>4, QuietTwice
  <1> QED BY <1>2, <1>5, SameIsQuiet

LEMMA ConfirmationRejectsIsQuiet ==
  ASSUME NEW call, IsCall(call)
  PROVE  Quiet(ConfirmationRejects(call), call)
  <1> DEFINE marked == [call EXCEPT !.confirmationOutcome = "REJECTED"]
             settled == SettleConfirmation(marked, "rejected")
  <1>1. Quiet(marked, call)
    BY OutcomesAreQuiet
  <1>2. ConfirmationRejects(call) \in {call, Off(settled)}
    BY DEF ConfirmationRejects
  <1> HIDE DEF marked
  <1>3. Quiet(settled, marked)
    BY <1>1, ConfirmationSettles DEF Quiet, Moves
  <1> HIDE DEF settled
  <1>4. Quiet(Off(settled), settled)
    BY <1>3, OffIsQuiet DEF Quiet, Moves
  <1>5. Quiet(Off(settled), call)
    BY <1>1, <1>3, <1>4, QuietTwice
  <1> QED BY <1>2, <1>5, SameIsQuiet

LEMMA OnErrorIsQuiet ==
  ASSUME NEW call, IsCall(call)
  PROVE  Quiet(OnError(call), call)
  <1> DEFINE mid == HashRejects(call)
  <1>1. Quiet(mid, call)
    BY HashRejectsIsQuiet
  <1>2. OnError(call) \in {call, ConfirmationRejects(mid)}
    BY DEF OnError
  <1> HIDE DEF mid
  <1>3. Quiet(ConfirmationRejects(mid), mid)
    BY <1>1, ConfirmationRejectsIsQuiet DEF Quiet, Moves
  <1>4. Quiet(ConfirmationRejects(mid), call)
    BY <1>1, <1>3, QuietTwice
  <1> QED BY <1>2, <1>4, SameIsQuiet

LEMMA OnTransactionHashIsQuiet ==
  ASSUME NEW call, IsCall(call)
  PROVE  Quiet(OnTransactionHash(call), call)
  <1> DEFINE marked == [call EXCEPT !.hashOutcome = "RESOLVED"]
             resolved == SettleResult(marked, "hash")
  <1>1. Quiet(marked, call)
    BY OutcomesAreQuiet
  <1>2. OnTransactionHash(call) \in {call, resolved, Off(resolved)}
    BY DEF OnTransactionHash
  <1> HIDE DEF marked
  <1>3. Quiet(resolved, marked)
    BY <1>1, ResultSettles DEF Quiet, Moves
  <1> HIDE DEF resolved
  <1>4. Quiet(Off(resolved), resolved)
    BY <1>3, OffIsQuiet DEF Quiet, Moves
  <1>5. Quiet(resolved, call) /\ Quiet(Off(resolved), call)
    BY <1>1, <1>3, <1>4, QuietTwice
  <1> QED BY <1>2, <1>5, SameIsQuiet

(***************************************************************************)
(* A receipt is handed out at the confirmation that was asked for, or at   *)
(* once when none was.                                                     *)
(***************************************************************************)
LEMMA ReceiptMoves ==
  ASSUME NEW call, IsCall(call)
  PROVE  Moves(Off(SettleConfirmation(
                 [call EXCEPT !.confirmationOutcome = "RESOLVED"], "receipt")),
               call)
  <1> DEFINE marked == [call EXCEPT !.confirmationOutcome = "RESOLVED"]
             settled == SettleConfirmation(marked, "receipt")
  <1>1. Quiet(marked, call)
    BY OutcomesAreQuiet
  <1> HIDE DEF marked
  <1>2. Moves(settled, marked)
    BY <1>1, ConfirmationSettles DEF Quiet, Moves
  <1> HIDE DEF settled
  <1>3. Quiet(Off(settled), settled)
    BY <1>2, OffIsQuiet DEF Moves
  <1>4. Moves(Off(settled), call)
    BY <1>1, <1>2, <1>3 DEF Quiet, Moves
  <1> QED BY <1>4 DEF settled, marked

LEMMA OnConfirmationConfirms ==
  ASSUME NEW call, IsCall(call), NEW number
  PROVE  LET new == OnConfirmation(call, number)
         IN  /\ Moves(new, call)
             /\ HasReceipt(new) /\ ~HasReceipt(call) =>
                  /\ DesiredConfirmations(call) > 0
                  /\ number >= DesiredConfirmations(call)
  <1>1. CASE /\ CountsConfirmations(call)
             /\ number >= DesiredConfirmations(call)
             /\ call.confirmationOutcome = "INITIAL"
    <2>1. Moves(OnConfirmation(call, number), call)
      BY <1>1, ReceiptMoves DEF OnConfirmation
    <2> QED BY <1>1, <2>1 DEF CountsConfirmations
  <1>2. CASE ~(/\ CountsConfirmations(call)
               /\ number >= DesiredConfirmations(call)
               /\ call.confirmationOutcome = "INITIAL")
    <2>1. OnConfirmation(call, number) = call
      BY <1>2 DEF OnConfirmation
    <2> QED BY <2>1, SameIsQuiet DEF Quiet
  <1> QED BY <1>1, <1>2

LEMMA OnReceiptReceives ==
  ASSUME NEW call, IsCall(call)
  PROVE  LET new == OnReceipt(call)
         IN  /\ Moves(new, call)
             /\ HasReceipt(new) /\ ~HasReceipt(call) =>
                  DesiredConfirmations(call) = 0
  <1>1. CASE /\ call.listening /\ AwaitsConfirmation(call)
             /\ DesiredConfirmations(call) = 0
    <2>1. Moves(OnReceipt(call), call)
      BY <1>1, ReceiptMoves DEF OnReceipt
    <2> QED BY <1>1, <2>1
  <1>2. CASE ~(/\ call.listening /\ AwaitsConfirmation(call)
               /\ DesiredConfirmations(call) = 0)
    <2>1. OnReceipt(call) = call
      BY <1>2 DEF OnReceipt
    <2> QED BY <2>1, SameIsQuiet DEF Quiet
  <1> QED BY <1>1, <1>2

-----------------------------------------------------------------------------
(* The calls                                                               *)

(***************************************************************************)
(* What is true of a call, with what web3 is waiting for, the              *)
(* confirmations it has counted and the state of the transaction: before   *)
(* it is sent there is nothing to settle, and a receipt is of a            *)
(* transaction that was mined and has its confirmations.                   *)
(***************************************************************************)
Early == {"gettingGasLimit", "estimating"}

CallOK(call, waits, count, tx) ==
  /\ IsCall(call)
  /\ count \in Nat
  /\ call.pc = "idle" => waits = "none" /\ ~HasReceipt(call)
  /\ call.pc # "idle" => call.options.confirmations \in Nat
  /\ call.pc \in Early =>
       waits = "none" /\ call.result = "pending" /\ ~HasReceipt(call)
  /\ waits \in {"none", "sending"} => tx = "absent"
  /\ waits # "none" => ~IsSimulation(call)
  /\ waits = "confirming" => tx = "mined"
  /\ HasReceipt(call) =>
       tx = "mined" /\ count >= DesiredConfirmations(call)

IsFor(f) == f = [c \in Calls |-> f[c]]

CallsAreOK ==
  /\ IsFor(calls) /\ IsFor(web3) /\ IsFor(confirmations) /\ IsFor(chain)
  /\ \A c \in Calls : CallOK(calls[c], web3[c], confirmations[c], chain[c])

\* A step of one call is no step of another.
IsStepOf(c) ==
  /\ calls' = [calls EXCEPT ![c] = calls'[c]]
  /\ web3' = [web3 EXCEPT ![c] = web3'[c]]
  /\ confirmations' = [confirmations EXCEPT ![c] = confirmations'[c]]
  /\ chain' = [chain EXCEPT ![c] = chain'[c]]

LEMMA DesiredIsNat ==
  ASSUME NEW call, call.options.confirmations \in Nat
  PROVE  DesiredConfirmations(call) \in Nat
  BY ContractsAssumption DEF DesiredConfirmations

LEMMA SameOptions ==
  ASSUME NEW call, NEW new, new.options = call.options
  PROVE  /\ DesiredConfirmations(new) = DesiredConfirmations(call)
         /\ IsSimulation(new) = IsSimulation(call)
  BY DEF DesiredConfirmations, IsSimulation

(***************************************************************************)
(* What is kept when a call is moved after it was sent.                    *)
(***************************************************************************)
LEMMA MovedIsOK ==
  ASSUME NEW call, NEW waits, NEW count, NEW tx, CallOK(call, waits, count, tx),
         waits # "none",
         NEW new, Moves(new, call),
         NEW then, then # "none", NEW more \in Nat, more >= count, NEW now,
         then = "sending" => now = "absent",
         then = "confirming" => now = "mined",
         HasReceipt(call) => now = "mined",
         HasReceipt(new) /\ ~HasReceipt(call) =>
           now = "mined" /\ more >= DesiredConfirmations(call)
  PROVE  CallOK(new, then, more, now)
  <1>1. call.pc \notin {"idle"} \cup Early
    BY DEF CallOK
  <1>2. new.pc \notin {"idle"} \cup Early
    BY <1>1 DEF Moves, Early
  <1>3. /\ IsCall(new) /\ new.options = call.options
        /\ call.options.confirmations \in Nat /\ ~IsSimulation(call)
        /\ count \in Nat
    BY <1>1 DEF Moves, CallOK
  <1>4. /\ DesiredConfirmations(new) = DesiredConfirmations(call)
        /\ IsSimulation(new) = IsSimulation(call)
        /\ DesiredConfirmations(call) \in Nat
    BY <1>3, SameOptions, DesiredIsNat
  <1>5. ASSUME HasReceipt(new)
        PROVE  now = "mined" /\ more >= DesiredConfirmations(new)
    <2>1. CASE HasReceipt(call)
      <3>1. count >= DesiredConfirmations(call)
        BY <2>1 DEF CallOK
      <3> QED BY <1>3, <1>4, <2>1, <3>1
    <2>2. CASE ~HasReceipt(call)
      BY <1>4, <1>5, <2>2
    <2> QED BY <2>1, <2>2
  <1> QED BY <1>2, <1>3, <1>4, <1>5 DEF CallOK

(***************************************************************************)
(* A call that is at work before it is sent: it is sent, once, or settled. *)
(***************************************************************************)
AtWork(call) ==
  /\ IsCall(call)
  /\ call.options.confirmations \in Nat
  /\ call.result = "pending" /\ ~HasReceipt(call)

LEMMA SentIsOK ==
  ASSUME NEW call, AtWork(call), ~IsSimulation(call), NEW count \in Nat
  PROVE  /\ CallOK(AfterSend(call), "sending", count, "absent")
         /\ AfterSend(call).options = call.options
         /\ AfterSend(call).pc # "idle"
  <1> DEFINE new == AfterSend(call)
  <1>1. new \in {SettleResult(call, "rejected"), SettleResult(call, "nothing"),
                 Attached(call)}
    BY DEF AfterSend
  <1>2. /\ Quiet(SettleResult(call, "rejected"), call)
        /\ Quiet(SettleResult(call, "nothing"), call)
        /\ SettleResult(call, "rejected").pc = "settled"
        /\ SettleResult(call, "nothing").pc = "settled"
    BY ResultSettles DEF AtWork
  <1>3. /\ IsCall(Attached(call)) /\ Attached(call).options = call.options
        /\ Attached(call).pc = "waiting" /\ ~HasReceipt(Attached(call))
    <2> DEFINE promise == IF AwaitsConfirmation(call) THEN "pending" ELSE "none"
               waiting == [call EXCEPT !.pc = "waiting"]
               listening == [waiting EXCEPT !.listening = TRUE]
               attached == [listening EXCEPT !.confirmation = promise]
    <2>1. Attached(call) = attached
      BY DEF Attached, AtWork, IsCall
    <2>2. promise # "receipt"
      OBVIOUS
    <2>3. /\ IsCall(waiting) /\ waiting.pc = "waiting"
          /\ waiting.options = call.options /\ waiting.result = call.result
      BY ChangedPc DEF AtWork
    <2> HIDE DEF promise, waiting
    <2>4. /\ IsCall(listening) /\ listening.pc = "waiting"
          /\ listening.options = call.options /\ listening.result = call.result
      BY <2>3, ChangedListening
    <2> HIDE DEF listening
    <2>5. /\ IsCall(attached) /\ attached.pc = "waiting" /\ attached.options = call.options
          /\ attached.result = call.result /\ attached.confirmation = promise
      BY <2>4, ChangedConfirmation
    <2> HIDE DEF attached
    <2> QED BY <2>1, <2>2, <2>5 DEF HasReceipt, AtWork
  <1> HIDE DEF new
  <1>4. /\ IsCall(new) /\ new.options = call.options
        /\ new.pc \in {"waiting", "settled"} /\ ~HasReceipt(new)
    BY <1>1, <1>2, <1>3 DEF Quiet, Moves, AtWork
  <1>5. new.pc \notin {"idle"} \cup Early
    BY <1>4 DEF Early
  <1>6. ~IsSimulation(new) /\ new.options.confirmations \in Nat
    BY <1>4 DEF IsSimulation, AtWork
  <1> QED BY <1>4, <1>5, <1>6 DEF CallOK, new

LEMMA SettledIsOK ==
  ASSUME NEW call, AtWork(call), NEW value, value # "receipt", NEW count \in Nat
  PROVE  /\ CallOK(SettleResult(call, value), "none", count, "absent")
         /\ SettleResult(call, value).options = call.options
         /\ SettleResult(call, value).pc # "idle"
  <1> DEFINE new == SettleResult(call, value)
  <1>1. Quiet(new, call) /\ new.pc = "settled"
    BY ResultSettles DEF AtWork
  <1> HIDE DEF new
  <1>2. /\ IsCall(new) /\ new.options = call.options /\ ~HasReceipt(new)
        /\ new.pc \notin {"idle"} \cup Early
    BY <1>1 DEF Quiet, Moves, AtWork, Early
  <1> QED BY <1>2 DEF CallOK, AtWork, new

LEMMA PcIsSet ==
  ASSUME NEW call, AtWork(call), NEW pc
  PROVE  LET new == [call EXCEPT !.pc = pc]
         IN  AtWork(new) /\ new.pc = pc /\ new.options = call.options
  <1>1. [call EXCEPT !.pc = pc]
          = [pc |-> pc, options |-> call.options,
             hashOutcome |-> call.hashOutcome,
             confirmationOutcome |-> call.confirmationOutcome,
             listening |-> call.listening, result |-> call.result,
             confirmation |-> call.confirmation]
    BY DEF AtWork, IsCall
  <1> QED BY <1>1 DEF AtWork, IsCall, HasReceipt

LEMMA WaitingIsOK ==
  ASSUME NEW call, AtWork(call), NEW pc \in Early, NEW count \in Nat
  PROVE  CallOK([call EXCEPT !.pc = pc], "none", count, "absent")
  <1> DEFINE new == [call EXCEPT !.pc = pc]
  <1>1. AtWork(new) /\ new.pc = pc
    BY PcIsSet
  <1> HIDE DEF new
  <1>2. pc # "idle"
    BY DEF Early
  <1> QED BY <1>1, <1>2 DEF CallOK, AtWork, new

(***************************************************************************)
(* The steps of a call: the new state of it is OK, it keeps its options,   *)
(* and it is not sent twice.                                               *)
(***************************************************************************)
StaysOK(c) ==
  /\ IsStepOf(c)
  /\ CallOK(calls'[c], web3'[c], confirmations'[c], chain'[c])

Continues(c) ==
  /\ StaysOK(c)
  /\ calls[c].pc # "idle" /\ calls'[c].pc # "idle"
  /\ calls'[c].options = calls[c].options
  /\ web3[c] # "none" => web3'[c] \notin {"none", "sending"}

LEMMA EstimateOrSendIsOK ==
  ASSUME CallsAreOK, NEW c \in Calls, NEW call, AtWork(call),
         web3[c] = "none", EstimateOrSend(c, call),
         UNCHANGED <<confirmations, chain>>
  PROVE  /\ StaysOK(c) /\ calls'[c].pc # "idle"
         /\ calls'[c].options = call.options
  <1>1. /\ IsFor(calls) /\ IsFor(web3) /\ IsFor(confirmations) /\ IsFor(chain)
        /\ confirmations[c] \in Nat /\ chain[c] = "absent"
    BY DEF CallsAreOK, CallOK
  <1>2. CASE NeedsEstimate(call)
    <2> DEFINE new == [call EXCEPT !.pc = "estimating"]
    <2>1. calls' = [calls EXCEPT ![c] = new] /\ web3' = web3
      BY <1>2 DEF EstimateOrSend
    <2>2. /\ CallOK(new, "none", confirmations[c], "absent")
          /\ new.pc # "idle" /\ new.options = call.options
      BY <1>1, WaitingIsOK, PcIsSet DEF Early
    <2> HIDE DEF new
    <2>3. calls'[c] = new /\ IsStepOf(c)
      BY <1>1, <2>1 DEF IsFor, IsStepOf
    <2> QED BY <1>1, <2>1, <2>2, <2>3 DEF StaysOK
  <1>3. CASE ~NeedsEstimate(call)
    <2> DEFINE new == AfterSend(call)
    <2>1. /\ calls' = [calls EXCEPT ![c] = new]
          /\ web3' = [web3 EXCEPT ![c] = "sending"]
      BY <1>3 DEF EstimateOrSend, Send
    <2>2. ~IsSimulation(call)
      BY <1>3 DEF NeedsEstimate
    <2>3. /\ CallOK(new, "sending", confirmations[c], "absent")
          /\ new.pc # "idle" /\ new.options = call.options
      BY <1>1, <2>2, SentIsOK
    <2> HIDE DEF new
    <2>4. calls'[c] = new /\ web3'[c] = "sending" /\ IsStepOf(c)
      BY <1>1, <2>1 DEF IsFor, IsStepOf
    <2> QED BY <1>1, <2>3, <2>4 DEF StaysOK
  <1> QED BY <1>2, <1>3

LEMMA CallIsOK ==
  ASSUME CallsAreOK, NEW c \in Calls, NEW options, options.confirmations \in Nat,
         CallContractFunction(c, options)
  PROVE  /\ StaysOK(c) /\ calls[c].pc = "idle" /\ web3[c] = "none"
         /\ calls'[c].pc # "idle" /\ calls'[c].options = options
  <1> DEFINE call == [NoCall EXCEPT !.options = options, !.result = "pending"]
  <1>1. /\ calls[c].pc = "idle" /\ UNCHANGED <<confirmations, chain>>
        /\ IF blockGasLimit THEN EstimateOrSend(c, call)
           ELSE /\ calls' = [calls EXCEPT ![c] =
                               [call EXCEPT !.pc = "gettingGasLimit"]]
                /\ UNCHANGED web3
    BY DEF CallContractFunction
  <1>2. /\ IsCall(call) /\ call.pc = "idle" /\ call.options = options
        /\ call.result = "pending" /\ call.confirmation = "none"
    <2> DEFINE idle == [NoCall EXCEPT !.options = options]
    <2>1. /\ IsCall(idle) /\ idle.pc = "idle" /\ idle.options = options
          /\ idle.result = "none" /\ idle.confirmation = "none"
      BY NoCallIsCall, ChangedOptions
    <2>2. call = [idle EXCEPT !.result = "pending"]
      BY DEF NoCall
    <2> HIDE DEF idle, call
    <2>3. LET new == [idle EXCEPT !.result = "pending"]
          IN  /\ IsCall(new) /\ new.options = idle.options /\ new.pc = idle.pc
              /\ new.result = "pending"
              /\ new.confirmation = idle.confirmation
      BY <2>1, ChangedResult
    <2> QED BY <2>1, <2>2, <2>3
  <1> HIDE DEF call
  <1>3. AtWork(call) /\ call.options = options
    BY <1>2 DEF AtWork, HasReceipt
  <1>4. /\ IsFor(calls) /\ IsFor(web3) /\ IsFor(confirmations) /\ IsFor(chain)
        /\ confirmations[c] \in Nat /\ web3[c] = "none" /\ chain[c] = "absent"
    BY <1>1 DEF CallsAreOK, CallOK
  <1>5. CASE blockGasLimit
    BY <1>1, <1>3, <1>4, <1>5, EstimateOrSendIsOK
  <1>6. CASE ~blockGasLimit
    <2> DEFINE new == [call EXCEPT !.pc = "gettingGasLimit"]
    <2>1. calls' = [calls EXCEPT ![c] = new] /\ web3' = web3
      BY <1>1, <1>6
    <2>2. /\ CallOK(new, "none", confirmations[c], "absent")
          /\ new.pc # "idle" /\ new.options = options
      BY <1>3, <1>4, WaitingIsOK, PcIsSet DEF Early
    <2> HIDE DEF new
    <2>3. calls'[c] = new /\ IsStepOf(c)
      BY <1>1, <1>4, <2>1 DEF IsFor, IsStepOf
    <2> QED BY <1>1, <1>4, <2>1, <2>2, <2>3 DEF StaysOK
  <1> QED BY <1>5, <1>6

LEMMA GasLimitIsOK ==
  ASSUME CallsAreOK, NEW c \in Calls, SetGasLimit(c)
  PROVE  Continues(c)
  <1> DEFINE call == calls[c]
  <1>1. /\ call.pc = "gettingGasLimit" /\ UNCHANGED <<confirmations, chain>>
        /\ \/ EstimateOrSend(c, call)
           \/ /\ calls' = [calls EXCEPT ![c] = SettleResult(call, "rejected")]
              /\ UNCHANGED web3
    BY DEF SetGasLimit, CallsAreOK, IsFor
  <1>2. /\ IsFor(calls) /\ IsFor(web3) /\ IsFor(confirmations) /\ IsFor(chain)
        /\ AtWork(call) /\ confirmations[c] \in Nat
        /\ web3[c] = "none" /\ chain[c] = "absent" /\ call.pc # "idle"
    BY <1>1 DEF CallsAreOK, CallOK, AtWork, Early
  <1>3. CASE EstimateOrSend(c, call)
    <2>1. /\ StaysOK(c) /\ calls'[c].pc # "idle"
          /\ calls'[c].options = call.options
      BY <1>1, <1>2, <1>3, EstimateOrSendIsOK
    <2> QED BY <1>2, <2>1 DEF Continues
  <1>4. CASE /\ calls' = [calls EXCEPT ![c] = SettleResult(call, "rejected")]
             /\ UNCHANGED web3
    <2> DEFINE new == SettleResult(call, "rejected")
    <2>1. /\ CallOK(new, "none", confirmations[c], "absent")
          /\ new.options = call.options /\ new.pc # "idle"
      BY <1>2, SettledIsOK
    <2>2. calls' = [calls EXCEPT ![c] = new] /\ web3' = web3
      BY <1>4
    <2> HIDE DEF new, call
    <2>3. calls'[c] = new /\ IsStepOf(c)
      BY <1>1, <1>2, <2>2 DEF IsFor, IsStepOf
    <2> QED BY <1>1, <1>2, <2>1, <2>2, <2>3 DEF Continues, StaysOK, call
  <1> QED BY <1>1, <1>3, <1>4

LEMMA EstimateIsOK ==
  ASSUME CallsAreOK, NEW c \in Calls, EstimateGas(c)
  PROVE  Continues(c)
  <1> DEFINE call == calls[c]
  <1>1. /\ call.pc = "estimating" /\ UNCHANGED <<confirmations, chain>>
        /\ \/ ~IsSimulation(call) /\ Send(c, call)
           \/ \E value \in {"simulated", "rejected"} :
                /\ calls' = [calls EXCEPT ![c] = SettleResult(call, value)]
                /\ UNCHANGED web3
    BY DEF EstimateGas, CallsAreOK, IsFor
  <1>2. /\ IsFor(calls) /\ IsFor(web3) /\ IsFor(confirmations) /\ IsFor(chain)
        /\ AtWork(call) /\ confirmations[c] \in Nat
        /\ web3[c] = "none" /\ chain[c] = "absent" /\ call.pc # "idle"
    BY <1>1 DEF CallsAreOK, CallOK, AtWork, Early
  <1>3. CASE ~IsSimulation(call) /\ Send(c, call)
    <2> DEFINE new == AfterSend(call)
    <2>1. /\ CallOK(new, "sending", confirmations[c], "absent")
          /\ new.options = call.options /\ new.pc # "idle"
      BY <1>2, <1>3, SentIsOK
    <2>2. /\ calls' = [calls EXCEPT ![c] = new]
          /\ web3' = [web3 EXCEPT ![c] = "sending"]
      BY <1>3 DEF Send
    <2> HIDE DEF new, call
    <2>3. calls'[c] = new /\ web3'[c] = "sending" /\ IsStepOf(c)
      BY <1>1, <1>2, <2>2 DEF IsFor, IsStepOf
    <2> QED BY <1>1, <1>2, <2>1, <2>3 DEF Continues, StaysOK, call
  <1>4. CASE \E value \in {"simulated", "rejected"} :
               /\ calls' = [calls EXCEPT ![c] = SettleResult(call, value)]
               /\ UNCHANGED web3
    <2>1. PICK value \in {"simulated", "rejected"} :
            /\ calls' = [calls EXCEPT ![c] = SettleResult(call, value)]
            /\ UNCHANGED web3
      BY <1>4
    <2> DEFINE new == SettleResult(call, value)
    <2>2. value # "receipt"
      OBVIOUS
    <2>3. /\ CallOK(new, "none", confirmations[c], "absent")
          /\ new.options = call.options /\ new.pc # "idle"
      BY <1>2, <2>2, SettledIsOK
    <2>4. calls' = [calls EXCEPT ![c] = new] /\ web3' = web3
      BY <2>1
    <2> HIDE DEF new, call
    <2>5. calls'[c] = new /\ IsStepOf(c)
      BY <1>1, <1>2, <2>4 DEF IsFor, IsStepOf
    <2> QED BY <1>1, <1>2, <2>3, <2>4, <2>5 DEF Continues, StaysOK, call
  <1> QED BY <1>1, <1>3, <1>4

(***************************************************************************)
(* What web3 and the node do, told as a move of the call.                  *)
(***************************************************************************)
IsMoveTo(c, new, then, more, now) ==
  /\ Moves(new, calls[c])
  /\ then \notin {"none", "sending"}
  /\ then = "confirming" => now = "mined"
  /\ more \in Nat /\ more >= confirmations[c]
  /\ HasReceipt(calls[c]) => now = "mined"
  /\ HasReceipt(new) /\ ~HasReceipt(calls[c]) =>
       now = "mined" /\ more >= DesiredConfirmations(calls[c])
  /\ calls' = [calls EXCEPT ![c] = new]
  /\ web3' = [web3 EXCEPT ![c] = then]
  /\ confirmations' = [confirmations EXCEPT ![c] = more]
  /\ chain' = [chain EXCEPT ![c] = now]

LEMMA WatchedContinues ==
  ASSUME CallsAreOK, NEW c \in Calls, web3[c] # "none",
         NEW new, NEW then, NEW more, NEW now, IsMoveTo(c, new, then, more, now)
  PROVE  /\ StaysOK(c)
         /\ calls[c].pc # "idle" /\ calls'[c].pc # "idle"
         /\ calls'[c].options = calls[c].options
  <1>1. /\ IsFor(calls) /\ IsFor(web3) /\ IsFor(confirmations) /\ IsFor(chain)
        /\ CallOK(calls[c], web3[c], confirmations[c], chain[c])
    BY DEF CallsAreOK
  <1>2. /\ calls'[c] = new /\ web3'[c] = then /\ confirmations'[c] = more
        /\ chain'[c] = now /\ IsStepOf(c)
    BY <1>1 DEF IsFor, IsStepOf, IsMoveTo
  <1>3. /\ then \notin {"none", "sending"} /\ Moves(new, calls[c])
        /\ then = "confirming" => now = "mined"
        /\ more \in Nat /\ more >= confirmations[c]
        /\ HasReceipt(calls[c]) => now = "mined"
        /\ HasReceipt(new) /\ ~HasReceipt(calls[c]) =>
             now = "mined" /\ more >= DesiredConfirmations(calls[c])
    BY DEF IsMoveTo
  <1>4. CallOK(new, then, more, now)
    BY <1>1, <1>3, MovedIsOK
  <1>5. calls[c].pc # "idle"
    BY <1>1 DEF CallOK
  <1>6. new.pc # "idle" /\ new.options = calls[c].options
    BY <1>3, <1>5 DEF Moves
  <1> QED BY <1>2, <1>4, <1>5, <1>6 DEF StaysOK

LEMMA AcceptedIsOK ==
  ASSUME CallsAreOK, NEW c \in Calls, NodeAccepts(c)
  PROVE  Continues(c)
  <1> DEFINE new == OnTransactionHash(calls[c])
  <1>1. /\ web3[c] = "sending" /\ web3' = [web3 EXCEPT ![c] = "watching"]
        /\ chain' = [chain EXCEPT ![c] = "pool"]
        /\ calls' = [calls EXCEPT ![c] = new]
        /\ confirmations' = confirmations
    BY DEF NodeAccepts, CallsAreOK, IsFor
  <1>2. /\ IsCall(calls[c]) /\ chain[c] = "absent" /\ ~HasReceipt(calls[c])
        /\ confirmations[c] \in Nat
        /\ confirmations = [confirmations EXCEPT ![c] = confirmations[c]]
        /\ IsFor(web3)
    BY <1>1 DEF CallsAreOK, CallOK, IsFor
  <1>3. Moves(new, calls[c]) /\ ~HasReceipt(new)
    BY <1>2, OnTransactionHashIsQuiet DEF Quiet
  <1> HIDE DEF new
  <1>4. IsMoveTo(c, new, "watching", confirmations[c], "pool")
    BY <1>1, <1>2, <1>3 DEF IsMoveTo
  <1>5. /\ StaysOK(c)
        /\ calls[c].pc # "idle" /\ calls'[c].pc # "idle"
        /\ calls'[c].options = calls[c].options
    BY <1>1, <1>4, WatchedContinues
  <1>6. web3'[c] = "watching"
    BY <1>1, <1>2 DEF IsFor
  <1> QED BY <1>5, <1>6 DEF Continues

LEMMA RefusedIsOK ==
  ASSUME CallsAreOK, NEW c \in Calls, NodeRefuses(c) \/ GiveUp(c)
  PROVE  Continues(c)
  <1> DEFINE new == OnError(calls[c])
  <1>1. /\ web3[c] \in {"sending", "watching"} /\ chain[c] # "mined"
        /\ web3' = [web3 EXCEPT ![c] = "over"]
        /\ calls' = [calls EXCEPT ![c] = new]
        /\ confirmations' = confirmations /\ chain' = chain
    BY DEF NodeRefuses, GiveUp, CallsAreOK, IsFor, CallOK
  <1>2. /\ IsCall(calls[c]) /\ ~HasReceipt(calls[c])
        /\ confirmations[c] \in Nat
        /\ confirmations = [confirmations EXCEPT ![c] = confirmations[c]]
        /\ chain = [chain EXCEPT ![c] = chain[c]]
        /\ IsFor(web3)
    BY <1>1 DEF CallsAreOK, CallOK, IsFor
  <1>3. Moves(new, calls[c]) /\ ~HasReceipt(new)
    BY <1>2, OnErrorIsQuiet DEF Quiet
  <1> HIDE DEF new
  <1>4. IsMoveTo(c, new, "over", confirmations[c], chain[c])
    BY <1>1, <1>2, <1>3 DEF IsMoveTo
  <1>5. /\ StaysOK(c)
        /\ calls[c].pc # "idle" /\ calls'[c].pc # "idle"
        /\ calls'[c].options = calls[c].options
    BY <1>1, <1>4, WatchedContinues
  <1>6. web3'[c] = "over"
    BY <1>1, <1>2 DEF IsFor
  <1> QED BY <1>5, <1>6 DEF Continues

LEMMA MinedIsOK ==
  ASSUME CallsAreOK, NEW c \in Calls, Mine(c)
  PROVE  Continues(c)
  <1>1. PICK now \in {"mined", "reverted"} : chain' = [chain EXCEPT ![c] = now]
    BY DEF Mine
  <1>2. chain[c] = "pool" /\ UNCHANGED <<calls, web3, confirmations>>
    BY DEF Mine
  <1>3. /\ IsFor(calls) /\ IsFor(web3) /\ IsFor(confirmations) /\ IsFor(chain)
        /\ CallOK(calls[c], web3[c], confirmations[c], chain[c])
    BY DEF CallsAreOK
  <1>4. /\ web3[c] \notin {"none", "sending", "confirming"}
        /\ ~HasReceipt(calls[c]) /\ calls[c].pc # "idle"
    BY <1>2, <1>3 DEF CallOK
  <1>5. CallOK(calls[c], web3[c], confirmations[c], now)
    BY <1>3, <1>4 DEF CallOK
  <1>6. IsStepOf(c) /\ chain'[c] = now
    BY <1>1, <1>2, <1>3 DEF IsStepOf, IsFor
  <1> QED BY <1>2, <1>4, <1>5, <1>6 DEF Continues, StaysOK

\* Confirmation 0 settles nothing: who asked for none gets the receipt.
LEMMA ReceiptIsOK ==
  ASSUME CallsAreOK, NEW c \in Calls, SeeReceipt(c)
  PROVE  Continues(c)
  <1> DEFINE call == calls[c]
             confirmed == OnConfirmation(call, 0)
             new == IF chain[c] = "mined" THEN OnReceipt(confirmed)
                    ELSE OnError(confirmed)
             then == IF chain[c] = "mined" /\ CountsConfirmations(call)
                     THEN "confirming" ELSE "over"
  <1>1. /\ web3[c] = "watching" /\ chain[c] \in {"mined", "reverted"}
        /\ calls' = [calls EXCEPT ![c] = new]
        /\ web3' = [web3 EXCEPT ![c] = then]
        /\ confirmations' = confirmations /\ chain' = chain
    BY DEF SeeReceipt
  <1>2. /\ IsCall(call)
        /\ HasReceipt(call) => chain[c] = "mined"
        /\ confirmations[c] \in Nat
        /\ confirmations = [confirmations EXCEPT ![c] = confirmations[c]]
        /\ chain = [chain EXCEPT ![c] = chain[c]]
        /\ IsFor(web3) /\ call.options.confirmations \in Nat
    BY <1>1 DEF CallsAreOK, CallOK, IsFor
  <1>3. DesiredConfirmations(call) \in Nat
    BY <1>2, DesiredIsNat
  <1>4. /\ Moves(confirmed, call)
        /\ HasReceipt(confirmed) /\ ~HasReceipt(call) =>
             /\ DesiredConfirmations(call) > 0
             /\ 0 >= DesiredConfirmations(call)
    BY <1>2, OnConfirmationConfirms
  <1> HIDE DEF confirmed
  <1>5. HasReceipt(confirmed) => HasReceipt(call)
    BY <1>3, <1>4
  <1>6. IsCall(confirmed) /\ confirmed.options = call.options
    BY <1>4 DEF Moves
  <1>7. DesiredConfirmations(confirmed) = DesiredConfirmations(call)
    BY <1>6, SameOptions
  <1>8. /\ Moves(new, confirmed)
        /\ HasReceipt(new) /\ ~HasReceipt(confirmed) =>
             chain[c] = "mined" /\ DesiredConfirmations(confirmed) = 0
    <2>1. CASE chain[c] = "mined"
      BY <1>6, <2>1, OnReceiptReceives
    <2>2. CASE chain[c] # "mined"
      BY <1>6, <2>2, OnErrorIsQuiet DEF Quiet
    <2> QED BY <2>1, <2>2
  <1>9. then = "over" \/ (then = "confirming" /\ chain[c] = "mined")
    OBVIOUS
  <1> HIDE DEF new, then, call
  <1>10. Moves(new, call)
    BY <1>4, <1>8 DEF Moves
  <1>11. HasReceipt(new) /\ ~HasReceipt(call) =>
           chain[c] = "mined" /\ confirmations[c] >= DesiredConfirmations(call)
    BY <1>2, <1>3, <1>5, <1>7, <1>8
  <1>12. /\ then \notin {"none", "sending"} /\ confirmations[c] >= confirmations[c]
         /\ then = "sending" => chain[c] = "absent"
         /\ then = "confirming" => chain[c] = "mined"
    BY <1>2, <1>9
  <1>13. IsMoveTo(c, new, then, confirmations[c], chain[c])
    BY <1>1, <1>2, <1>10, <1>11, <1>12 DEF IsMoveTo, call
  <1>14. /\ StaysOK(c)
         /\ calls[c].pc # "idle" /\ calls'[c].pc # "idle"
         /\ calls'[c].options = calls[c].options
    BY <1>1, <1>13, WatchedContinues
  <1>15. web3'[c] = then
    BY <1>1, <1>2 DEF IsFor
  <1> QED BY <1>12, <1>14, <1>15 DEF Continues

LEMMA ConfirmationIsOK ==
  ASSUME CallsAreOK, NEW c \in Calls, SeeConfirmation(c)
  PROVE  Continues(c)
  <1> DEFINE call == calls[c]
             more == confirmations[c] + 1
             new == OnConfirmation(call, more)
  <1>0. /\ IsCall(call) /\ IsFor(calls) /\ IsFor(web3) /\ IsFor(confirmations)
        /\ IsFor(chain) /\ confirmations[c] \in Nat
    BY DEF CallsAreOK, CallOK
  <1>1. /\ web3[c] = "confirming" /\ chain' = chain
        /\ confirmations' = [confirmations EXCEPT ![c] = more]
    BY DEF SeeConfirmation
  <1>2. confirmations'[c] = more
    BY <1>0, <1>1 DEF IsFor
  <1>3. calls' = [calls EXCEPT ![c] = new]
    BY <1>2 DEF SeeConfirmation
  <1> DEFINE then == IF more < LastConfirmation /\ CountsConfirmations(calls'[c])
                     THEN "confirming" ELSE "over"
  <1>4. web3' = [web3 EXCEPT ![c] = then]
    BY <1>1, <1>2 DEF SeeConfirmation
  <1>5. chain[c] = "mined" /\ chain = [chain EXCEPT ![c] = chain[c]]
    BY <1>0, <1>1 DEF CallsAreOK, CallOK, IsFor
  <1>6. /\ Moves(new, call)
        /\ HasReceipt(new) /\ ~HasReceipt(call) =>
             more >= DesiredConfirmations(call)
    BY <1>0, OnConfirmationConfirms
  <1>7. then \in {"confirming", "over"} /\ more \in Nat /\ more >= confirmations[c]
    BY <1>0
  <1> HIDE DEF new, then, call, more
  <1>8. HasReceipt(calls[c]) => chain[c] = "mined"
    BY DEF CallsAreOK, CallOK
  <1>9. IsMoveTo(c, new, then, more, chain[c])
    BY <1>1, <1>3, <1>4, <1>5, <1>6, <1>7, <1>8 DEF IsMoveTo, call
  <1>10. /\ StaysOK(c)
         /\ calls[c].pc # "idle" /\ calls'[c].pc # "idle"
         /\ calls'[c].options = calls[c].options
    BY <1>1, <1>9, WatchedContinues
  <1>11. web3'[c] = then
    BY <1>0, <1>4 DEF IsFor
  <1> QED BY <1>7, <1>10, <1>11 DEF Continues

LEMMA NetworkContinues ==
  ASSUME CallsAreOK, NEW c \in Calls, ClientStep(c) \/ NodeStep(c)
  PROVE  Continues(c)
  BY GasLimitIsOK, EstimateIsOK, AcceptedIsOK, RefusedIsOK, MinedIsOK,
     ReceiptIsOK, ConfirmationIsOK
     DEF ClientStep, NodeStep, NodeAnswers, NodeWatches

LEMMA CallsStayOK ==
  ASSUME CallsAreOK, NEW c \in Calls, StaysOK(c)
  PROVE  /\ CallsAreOK'
         /\ \A d \in Calls \ {c} :
              /\ calls'[d] = calls[d] /\ web3'[d] = web3[d]
              /\ confirmations'[d] = confirmations[d] /\ chain'[d] = chain[d]
  <1>1. \A d \in Calls \ {c} :
          /\ calls'[d] = calls[d] /\ web3'[d] = web3[d]
          /\ confirmations'[d] = confirmations[d] /\ chain'[d] = chain[d]
    BY DEF StaysOK, IsStepOf, CallsAreOK, IsFor
  <1>2. IsFor(calls') /\ IsFor(web3') /\ IsFor(confirmations') /\ IsFor(chain')
    BY DEF StaysOK, IsStepOf, CallsAreOK, IsFor
  <1>3. \A d \in Calls : CallOK(calls'[d], web3'[d], confirmations'[d], chain'[d])
    BY <1>1 DEF StaysOK, CallsAreOK
  <1>4. ASSUME NEW d \in Calls
        PROVE  CallOK(calls[d], web3[d], confirmations[d], chain[d])'
    <2>1. CallOK(calls'[d], web3'[d], confirmations'[d], chain'[d])
      BY <1>3
    <2> QED BY <2>1 DEF CallOK, HasReceipt, DesiredConfirmations, IsSimulation,
                        IsCall
  <1> QED BY <1>1, <1>2, <1>4 DEF CallsAreOK, IsFor

LEMMA CallsInitially ==
  ASSUME Init
  PROVE  CallsAreOK
  <1>1. /\ calls = [c \in Calls |-> NoCall] /\ web3 = [c \in Calls |-> "none"]
        /\ confirmations = [c \in Calls |-> 0]
        /\ chain = [c \in Calls |-> "absent"]
    BY DEF Init, ClientInit
  <1>2. CallOK(NoCall, "none", 0, "absent")
    BY NoCallIsCall DEF CallOK, HasReceipt, Early
  <1>3. IsFor(calls) /\ IsFor(web3) /\ IsFor(confirmations) /\ IsFor(chain)
    BY <1>1 DEF IsFor
  <1> QED BY <1>1, <1>2, <1>3 DEF CallsAreOK

-----------------------------------------------------------------------------
(* Receipts                                                                *)

Given(options) == IF options = None THEN NoOptions ELSE options

LEMMA GivenIsOK ==
  ASSUME NEW options \in CommitOptions
  PROVE  Given(options).confirmations \in Nat
  <1>1. CASE options = None
    BY <1>1 DEF Given, NoOptions
  <1>2. CASE options # None
    <2>1. options \in Options
      BY <1>2, RequestsAssumption
    <2>2. options.confirmations \in RequestedConfirmations
      BY <2>1 DEF Options
    <2>3. options.confirmations \in 0 .. LastConfirmation
      BY <2>2, ContractsAssumption
    <2> QED BY <1>2, <2>3, ContractsAssumption DEF Given
  <1> QED BY <1>1, <1>2

LEMMA SameCallsAreOK ==
  ASSUME CallsAreOK, UNCHANGED clientVars
  PROVE  CallsAreOK'
  BY DEF CallsAreOK, clientVars, IsFor, CallOK, HasReceipt, DesiredConfirmations,
         IsSimulation, IsCall

\* A commit starts a call that was idle, and touches no other.
LEMMA CommitCalls ==
  ASSUME CallsAreOK, NEW c \in Calls, NEW options \in CommitOptions,
         Commit(c, options)
  PROVE  /\ CallsAreOK'
         /\ calls[c].pc = "idle" /\ web3[c] = "none" /\ calls'[c].pc # "idle"
         /\ calls'[c].options = Given(options) /\ chain'[c] = "absent"
         /\ \A d \in Calls \ {c} :
              /\ calls'[d] = calls[d] /\ web3'[d] = web3[d] /\ chain'[d] = chain[d]
  <1>1. CallContractFunction(c, Given(options))
    BY DEF Commit, Given
  <1>2. Given(options).confirmations \in Nat
    BY GivenIsOK
  <1>3. /\ StaysOK(c) /\ calls[c].pc = "idle" /\ web3[c] = "none"
        /\ calls'[c].pc # "idle" /\ calls'[c].options = Given(options)
    BY <1>1, <1>2, CallIsOK
  <1>4. chain' = chain /\ chain[c] = "absent"
    BY <1>1, <1>3 DEF CallContractFunction, CallsAreOK, CallOK
  <1> QED BY <1>3, <1>4, CallsStayOK

\* A step of the client or of the network goes on with a call that is there.
LEMMA NetworkCalls ==
  ASSUME CallsAreOK, NEW c \in Calls, ClientStep(c) \/ NodeStep(c)
  PROVE  /\ CallsAreOK'
         /\ calls[c].pc # "idle" /\ calls'[c].pc # "idle"
         /\ calls'[c].options = calls[c].options
         /\ web3[c] # "none" => web3'[c] \notin {"none", "sending"}
         /\ \A d \in Calls \ {c} :
              /\ calls'[d] = calls[d] /\ web3'[d] = web3[d] /\ chain'[d] = chain[d]
  <1>1. Continues(c)
    BY NetworkContinues
  <1>2. StaysOK(c)
    BY <1>1 DEF Continues
  <1> QED BY <1>1, <1>2, CallsStayOK DEF Continues

LEMMA CallsAreKept ==
  ASSUME CallsAreOK, [Next]_vars
  PROVE  CallsAreOK'
  <1>1. CASE \E r \in Requests : Add(r)
    BY <1>1, SameCallsAreOK DEF Add
  <1>2. CASE \E s \in SignedOps : AddSigned(s)
    BY <1>2, SameCallsAreOK DEF AddSigned
  <1>3. CASE \E c \in Calls, options \in CommitOptions : Commit(c, options)
    BY <1>3, CommitCalls
  <1>4. CASE NetworkNext
    BY <1>4, NetworkCalls DEF NetworkNext
  <1>5. CASE UNCHANGED vars
    BY <1>5, SameCallsAreOK DEF vars
  <1> QED BY <1>1, <1>2, <1>3, <1>4, <1>5 DEF Next, UserNext

(***************************************************************************)
(* A promise of callContractFunction that resolves to a receipt stands for *)
(* a transaction that was mined, did not revert and has the confirmations  *)
(* asked for, for any number of calls, options and defaults, however hash, *)
(* receipt, confirmations and errors arrive.                               *)
(***************************************************************************)
THEOREM ReceiptsConfirmed == Spec => []ReceiptsAreConfirmed
  <1>1. Init => CallsAreOK
    BY CallsInitially
  <1>2. CallsAreOK /\ [Next]_vars => CallsAreOK'
    BY CallsAreKept
  <1>3. CallsAreOK => ReceiptsAreConfirmed
    <2> SUFFICES ASSUME CallsAreOK, NEW c \in Calls,
                        "receipt" \in {calls[c].result, calls[c].confirmation}
                 PROVE  /\ chain[c] = "mined"
                        /\ confirmations[c] >= DesiredConfirmations(calls[c])
      BY DEF ReceiptsAreConfirmed
    <2> QED BY DEF CallsAreOK, CallOK, HasReceipt
  <1> QED BY <1>1, <1>2, <1>3, PTL DEF Spec

-----------------------------------------------------------------------------
(* What was asked for                                                      *)

(***************************************************************************)
(* The contract's reading of an action, the user's wish and the signer's   *)
(* are readings of what the client says.                                   *)
(***************************************************************************)
Reading(said) ==
  [type |-> said.type, account |-> said.account, other |-> said.other,
   markets |-> said.markets, amount |-> Signed(said.amount),
   address |-> said.address, data |-> said.data]

LEMMA UnderstoodIsRead ==
  ASSUME NEW accounts, NEW args, IsActionType(args.actionType)
  PROVE  Understood(accounts, args) = Reading(Says(accounts, args))
  <1>1. args.actionType \in TwoAccountTypes <=> args.actionType \notin OneAccountTypes
    BY ActionTypes DEF IsActionType
  <1> QED BY <1>1 DEF Understood, Reading, Says, OtherAccountMeant

LEMMA WantedIsRead ==
  ASSUME NEW r, IsActionType(r.kind)
  PROVE  Wanted(r) = Reading(SaysRequest(r))
  <1> DEFINE markets == IF r.kind = "Call" THEN <<NoMarket, NoMarket>>
                        ELSE MarketsOf(r)
             amount == IF r.kind = "Call" THEN NoAmount ELSE AmountArgs(r.amount)
  <1>1. r.kind \in TwoAccountTypes <=> r.kind \notin OneAccountTypes
    BY ActionTypes DEF IsActionType
  <1>2. (IF r.kind = "Sell" THEN <<r.markets[2], r.markets[1]>>
         ELSE IF r.kind = "Call" THEN <<NoMarket, NoMarket>> ELSE r.markets)
        = markets
    BY DEF MarketsOf
  <1>3. (IF r.kind = "Call" THEN 0 ELSE ValueOf(r.amount.number)) = Signed(amount)
    <2>1. CASE r.kind = "Call"
      <3>1. ~NoAmount.sign
        BY DEF NoAmount
      <3>2. NoAmount.value = 0
        BY DEF NoAmount
      <3>3. -NoAmount.value = 0
        <4>1. \A x \in Int : -x = 0 - x
          OBVIOUS
        <4>2. NoAmount.value \in Int
          BY <3>2
        <4>3. -NoAmount.value = 0 - NoAmount.value
          BY <4>1, <4>2
        <4> QED BY <3>2, <4>3
      <3>4. Signed(NoAmount) = 0
        BY <3>1, <3>3 DEF Signed
      <3> QED BY <2>1, <3>4
    <2>2. CASE r.kind # "Call"
      BY <2>2 DEF Signed, AmountArgs, ValueOf
    <2> QED BY <2>1, <2>2
  <1>4. Wanted(r) =
          [type |-> r.kind, account |-> AccountMeant(r.account),
           other |-> OtherAccountMeant(r.kind, r.otherAccount),
           markets |-> markets, amount |-> Signed(amount),
           address |-> r.otherAddress, data |-> r.data]
    BY <1>2, <1>3 DEF Wanted
  <1> HIDE DEF markets, amount
  <1>5. SaysRequest(r) =
          [type |-> r.kind, account |-> AccountMeant(r.account),
           other |-> OtherAccountMeant(r.kind, r.otherAccount),
           markets |-> markets, amount |-> amount,
           address |-> r.otherAddress, data |-> r.data]
    BY <1>1 DEF SaysRequest, OtherAccountMeant, markets, amount
  <1> QED BY <1>4, <1>5 DEF Reading

LEMMA WantedSignedIsRead ==
  ASSUME NEW action, IsActionType(action.actionType)
  PROVE  WantedSigned(action) = Reading(SaysSigned(action))
  <1>1. action.actionType \in TwoAccountTypes
          <=> action.actionType \notin OneAccountTypes
    BY ActionTypes DEF IsActionType
  <1>2. Signed(SignedAmount(action.amount)) = Signed(action.amount)
    BY DEF Signed, SignedAmount, AmountArgs, Times
  <1> QED BY <1>1, <1>2 DEF WantedSigned, Reading, SaysSigned, OtherAccountMeant

(***************************************************************************)
(* The lists and the wishes agree, action by action.                       *)
(***************************************************************************)
Agree(o, list) ==
  /\ IsSound(o)
  /\ IsList(list)
  /\ Len(list) = Len(o.actions)
  /\ \A i \in 1 .. Len(list) : list[i] = Reading(Says(o.accounts, o.actions[i]))

LEMMA AgreeOnMore ==
  ASSUME NEW o, NEW list, Agree(o, list), NEW k \in Nat, NEW said, NEW new,
         AddsActions(new, o, k, said), NEW more, IsList(more), Len(more) = k,
         \A j \in 1 .. k : more[j] = Reading(said[j])
  PROVE  Agree(new, list \o more)
  <1> DEFINE all == list \o more
             n == Len(list)
  <1>1. /\ IsList(list) /\ n \in Nat /\ n = Len(o.actions)
        /\ \A i \in 1 .. n : list[i] = Reading(Says(o.accounts, o.actions[i]))
    BY ListPlaces DEF Agree
  <1>2. /\ IsList(all) /\ Len(all) = n + k
        /\ \A i \in 1 .. n : all[i] = list[i]
        /\ \A i \in n + 1 .. n + k : all[i] = more[i - n]
    BY <1>1, JoinLists
  <1> HIDE DEF all, n
  <1>3. /\ IsSound(new) /\ Len(new.actions) = n + k
        /\ \A i \in 1 .. n :
             Says(new.accounts, new.actions[i]) = Says(o.accounts, o.actions[i])
        /\ \A j \in 1 .. k : Says(new.accounts, new.actions[n + j]) = said[j]
    BY <1>1 DEF AddsActions
  <1>4. ASSUME NEW i \in 1 .. n + k
        PROVE  all[i] = Reading(Says(new.accounts, new.actions[i]))
    <2>1. CASE i \in 1 .. n
      BY <1>1, <1>2, <1>3, <2>1
    <2>2. CASE i \notin 1 .. n
      <3>1. /\ i - n \in 1 .. k /\ n + (i - n) = i /\ i \in n + 1 .. n + k
        BY <1>1, <2>2
      <3>2. Says(new.accounts, new.actions[i]) = said[i - n]
        BY <1>3, <3>1
      <3>3. all[i] = more[i - n] /\ more[i - n] = Reading(said[i - n])
        BY <1>2, <3>1
      <3> QED BY <3>2, <3>3
    <2> QED BY <2>1, <2>2
  <1> QED BY <1>2, <1>3, <1>4 DEF Agree, all

(***************************************************************************)
(* What is known of the object: it is sound, its lists say what was asked  *)
(* for, and that is what can be asked for.                                 *)
(***************************************************************************)
AllIntents ==
  {Wanted(r) : r \in Requests}
  \cup UNION {{WantedSigned(s.actions[i]) : i \in DOMAIN s.actions} :
                s \in SignedOps}

ObjectIsOK ==
  /\ op.committed \in BOOLEAN
  /\ Agree(op, asked)

\* The user adds k actions, none when the operation is committed.
Grows(k, said, more) ==
  /\ AddsActions(op', op, k, said)
  /\ IsList(more) /\ Len(more) = k
  /\ \A j \in 1 .. k : more[j] = Reading(said[j]) /\ more[j] \in AllIntents
  /\ asked' = asked \o more
  /\ op.committed => k = 0

LEMMA AddGrows ==
  ASSUME ObjectIsOK, NEW r \in Requests, Add(r)
  PROVE  /\ \E k \in Nat : \E said, more : Grows(k, said, more)
         /\ op'.auths = op.auths
  <1>0. /\ op' = AddAction(op, r) /\ IsSound(op) /\ IsList(asked)
        /\ asked' = IF op.committed THEN asked ELSE Append(asked, Wanted(r))
        /\ op.committed \in BOOLEAN
    BY DEF Add, ObjectIsOK, Agree
  <1>1. CASE op.committed
    <2>1. Adds(AddAction(op, r), op, 0, <<>>)
      BY <1>0, <1>1, CommittedIgnores
    <2>2. AddsActions(op', op, 0, <<>>) /\ op'.auths = op.auths
      BY <1>0, <2>1 DEF Adds, AddsActions
    <2>3. asked' = asked \o <<>> /\ IsList(<<>>) /\ Len(<<>>) = 0
      BY <1>0, <1>1, JoinNothing, EmptyList
    <2>4. Grows(0, <<>>, <<>>)
      BY <2>2, <2>3 DEF Grows
    <2> QED BY <2>2, <2>4
  <1>2. CASE ~op.committed
    <2> DEFINE said == <<SaysRequest(r)>>
               more == <<Wanted(r)>>
    <2>1. said[1] = SaysRequest(r) /\ IsActionType(r.kind)
      BY RequestsAssumption DEF IsActionType
    <2>2. IsList(more) /\ Len(more) = 1 /\ more[1] = Wanted(r)
      BY ListOfOne
    <2>3. asked' = asked \o more
      BY <1>0, <1>2 DEF IsList
    <2> HIDE DEF said, more
    <2>4. Adds(AddAction(op, r), op, 1, said)
      BY <1>0, <1>2, <2>1, ActionAdds
    <2>5. AddsActions(op', op, 1, said) /\ op'.auths = op.auths
      BY <1>0, <2>4 DEF Adds, AddsActions
    <2>6. Wanted(r) = Reading(SaysRequest(r)) /\ Wanted(r) \in AllIntents
      BY <2>1, WantedIsRead DEF AllIntents
    <2>7. \A j \in 1 .. 1 : more[j] = Reading(said[j]) /\ more[j] \in AllIntents
      <3>1. \A j \in 1 .. 1 : j = 1
        OBVIOUS
      <3> QED BY <2>1, <2>2, <2>6, <3>1
    <2>8. Grows(1, said, more)
      BY <1>2, <2>2, <2>3, <2>5, <2>7 DEF Grows
    <2> QED BY <2>5, <2>8
  <1> QED BY <1>0, <1>1, <1>2

\* A signed operation comes with its authorization, and when it can be read the
\* authorizations fit the actions.
LEMMA AddSignedGrows ==
  ASSUME OtherAccountsHaveOwners, ObjectIsOK, NEW s \in SignedOps, AddSigned(s)
  PROVE  /\ \E k \in Nat : \E said, more : Grows(k, said, more)
         /\ CommitsAreInOrder /\ ~op.committed /\ AuthsFit(op, SignedOps)
              => AuthsFit(op', SignedOps)
  <1> DEFINE said == [i \in DOMAIN s.actions |-> SaysSigned(s.actions[i])]
             new == AddSignedOperation(op, s)
  <1>0. /\ op' = new /\ IsSound(op) /\ op.committed \in BOOLEAN
        /\ asked' = asked \o [i \in 1 .. Len(op'.actions) - Len(op.actions) |->
                                WantedSigned(s.actions[i])]
    BY DEF AddSigned, ObjectIsOK, Agree
  <1>1. \A i \in DOMAIN s.actions : said[i] = SaysSigned(s.actions[i])
    OBVIOUS
  <1>2. /\ \A t \in SignedOps : IsList(t.actions)
        /\ \A i \in DOMAIN s.actions : HasItsAccounts(s.actions[i])
        /\ DOMAIN s.actions = 1 .. Len(s.actions) /\ Len(s.actions) \in Nat
    BY RequestsAssumption, ListPlaces
       DEF OtherAccountsHaveOwners, HasItsAccounts, IsActionType
  <1> HIDE DEF said
  <1>3. PICK k \in 0 .. Len(s.actions) :
          /\ AddsActions(new, op, k, said)
          /\ op.committed => k = 0
    BY <1>0, <1>1, <1>2, SignedOperationAdds
  <1> HIDE DEF new
  <1> DEFINE more == [i \in 1 .. k |-> WantedSigned(s.actions[i])]
  <1>4. k \in Nat
    BY <1>2
  <1>5. Len(new.actions) - Len(op.actions) = k
    <2>1. Len(op.actions) \in Nat
      BY <1>0, ListPlaces DEF IsSound, IsObject
    <2> QED BY <1>3, <1>4, <2>1 DEF AddsActions
  <1>6. IsList(more) /\ Len(more) = k
    <2>1. more \in Seq({WantedSigned(s.actions[i]) : i \in 1 .. k}) /\ Len(more) = k
      BY <1>4
    <2> QED BY <2>1, SequencesAreLists
  <1>7. ASSUME NEW j \in 1 .. k
        PROVE  more[j] = Reading(said[j]) /\ more[j] \in AllIntents
    <2>1. j \in DOMAIN s.actions
      BY <1>2
    <2>2. WantedSigned(s.actions[j]) = Reading(SaysSigned(s.actions[j]))
      BY <1>2, <2>1, WantedSignedIsRead DEF HasItsAccounts
    <2>3. WantedSigned(s.actions[j]) \in AllIntents
      BY <2>1 DEF AllIntents
    <2> QED BY <1>1, <2>1, <2>2, <2>3
  <1>8. asked' = asked \o more
    BY <1>0, <1>5
  <1> HIDE DEF more
  <1>9. Grows(k, said, more)
    BY <1>0, <1>3, <1>6, <1>7, <1>8 DEF Grows
  <1>10. ASSUME CommitsAreInOrder, ~op.committed, AuthsFit(op, SignedOps)
         PROVE  AuthsFit(op', SignedOps)
    <2>1. IsReadable(s)
      BY <1>10 DEF CommitsAreInOrder, IsReadable
    <2>2. op.committed = FALSE
      BY <1>0, <1>10
    <2> QED BY <1>0, <1>2, <1>10, <2>1, <2>2, SignedOperationFits DEF new
  <1> QED BY <1>4, <1>9, <1>10

LEMMA GrownIsOK ==
  ASSUME ObjectIsOK, NEW k \in Nat, NEW said, NEW more, Grows(k, said, more)
  PROVE  ObjectIsOK'
  <1>1. Agree(op', asked \o more)
    BY AgreeOnMore DEF ObjectIsOK, Grows
  <1>2. op'.committed = op.committed /\ asked' = asked \o more
    BY DEF Grows, AddsActions
  <1>3. Agree(op', asked')
    BY <1>1, <1>2
  <1>4. Agree(op, asked)'
    BY <1>3 DEF Agree, IsSound, IsObject, NoAccountTwice, HasAccounts, IsList,
                SameAccount, AccountMeant, Reading, Says, Signed
  <1> QED BY <1>2, <1>4 DEF ObjectIsOK

LEMMA MarkedIsSound ==
  ASSUME NEW o, IsSound(o), NEW b
  PROVE  LET new == [o EXCEPT !.committed = b]
         IN  /\ IsSound(new) /\ new.committed = b
             /\ new.accounts = o.accounts /\ new.actions = o.actions
             /\ new.auths = o.auths /\ new.proxy = o.proxy
  <1> DEFINE new == [o EXCEPT !.committed = b]
  <1>1. o = [accounts |-> o.accounts, actions |-> o.actions, auths |-> o.auths,
             proxy |-> o.proxy, committed |-> o.committed]
    BY DEF IsSound, IsObject
  <1>2. new = [accounts |-> o.accounts, actions |-> o.actions, auths |-> o.auths,
               proxy |-> o.proxy, committed |-> b]
    BY <1>1
  <1> HIDE DEF new
  <1>3. /\ new.accounts = o.accounts /\ new.actions = o.actions
        /\ new.auths = o.auths /\ new.proxy = o.proxy /\ new.committed = b
    BY <1>2
  <1>4. IsObject(new)
    BY <1>2, <1>3 DEF IsSound, IsObject
  <1>5. IsSound(new)
    BY <1>3, <1>4 DEF IsSound
  <1> QED BY <1>3, <1>5 DEF new

LEMMA CommitMarks ==
  ASSUME ObjectIsOK, NEW c \in Calls, NEW options, Commit(c, options)
  PROVE  /\ ObjectIsOK'
         /\ op'.committed = Commits(options) /\ op'.proxy = op.proxy
         /\ op'.actions = op.actions /\ op'.accounts = op.accounts
         /\ op'.auths = op.auths
  <1>1. op' = [op EXCEPT !.committed = Commits(options)] /\ asked' = asked
    BY DEF Commit
  <1>2. Commits(options) \in BOOLEAN
    BY DEF Commits
  <1>3. /\ IsSound(op') /\ op'.committed = Commits(options)
        /\ op'.proxy = op.proxy /\ op'.auths = op.auths
        /\ op'.actions = op.actions /\ op'.accounts = op.accounts
    BY <1>1, MarkedIsSound DEF ObjectIsOK, Agree
  <1>4. Agree(op', asked')
    BY <1>1, <1>3 DEF ObjectIsOK, Agree
  <1>5. Agree(op, asked)'
    BY <1>4 DEF Agree, IsSound, IsObject, NoAccountTwice, HasAccounts, IsList,
                SameAccount, AccountMeant, Reading, Says, Signed
  <1> QED BY <1>2, <1>3, <1>5 DEF ObjectIsOK

LEMMA SameObjectIsOK ==
  ASSUME ObjectIsOK, UNCHANGED <<op, asked>>
  PROVE  ObjectIsOK'
  <1>1. Agree(op', asked')
    BY DEF ObjectIsOK
  <1>2. Agree(op, asked)'
    BY <1>1 DEF Agree, IsSound, IsObject, NoAccountTwice, HasAccounts, IsList,
                SameAccount, AccountMeant, Reading, Says, Signed
  <1> QED BY <1>2 DEF ObjectIsOK

LEMMA ObjectIsKept ==
  ASSUME OtherAccountsHaveOwners, ObjectIsOK, [Next]_vars
  PROVE  ObjectIsOK'
  <1>1. CASE \E r \in Requests : Add(r)
    BY <1>1, AddGrows, GrownIsOK
  <1>2. CASE \E s \in SignedOps : AddSigned(s)
    BY <1>2, AddSignedGrows, GrownIsOK
  <1>3. CASE \E c \in Calls, options \in CommitOptions : Commit(c, options)
    BY <1>3, CommitMarks
  <1>4. CASE NetworkNext
    BY <1>4, SameObjectIsOK DEF NetworkNext, WithEncode
  <1>5. CASE UNCHANGED vars
    BY <1>5, SameObjectIsOK DEF vars
  <1> QED BY <1>1, <1>2, <1>3, <1>4, <1>5 DEF Next, UserNext

LEMMA ObjectInitially ==
  ASSUME Init
  PROVE  ObjectIsOK /\ AuthsFit(op, SignedOps)
  <1>1. PICK proxy \in Proxies : op = Initiate(proxy)
    BY DEF Init
  <1>2. /\ op.accounts = <<>> /\ op.actions = <<>> /\ op.auths = <<>>
        /\ op.committed = FALSE /\ asked = <<>>
    BY <1>1 DEF Initiate, Init
  <1>3. IsList(<<>>) /\ Len(<<>>) = 0 /\ DOMAIN <<>> = {}
    BY EmptyList, ListPlaces
  <1>4. op = [accounts |-> op.accounts, actions |-> op.actions,
              auths |-> op.auths, proxy |-> op.proxy, committed |-> op.committed]
    BY <1>1 DEF Initiate
  <1>5. IsSound(op)
    BY <1>2, <1>3, <1>4 DEF IsSound, IsObject, NoAccountTwice
  <1>6. Agree(op, asked)
    BY <1>2, <1>3, <1>5 DEF Agree
  <1>7. AuthsFit(op, SignedOps)
    BY <1>2, <1>3 DEF AuthsFit
  <1> QED BY <1>2, <1>6, <1>7 DEF ObjectIsOK

LEMMA ListsAgree ==
  ASSUME NEW o, NEW list, Agree(o, list)
  PROVE  AllUnderstood(o.accounts, o.actions) = list
  <1>1. /\ IsList(list) /\ IsList(o.actions) /\ Len(list) = Len(o.actions)
    BY DEF Agree, IsSound, IsObject
  <1>2. DOMAIN o.actions = 1 .. Len(list) /\ list = [i \in 1 .. Len(list) |-> list[i]]
    BY <1>1, ListPlaces DEF IsList
  <1>3. ASSUME NEW i \in 1 .. Len(list)
        PROVE  Understood(o.accounts, o.actions[i]) = list[i]
    <2>1. IsActionType(o.actions[i].actionType)
      BY <1>2 DEF Agree, IsSound, HasAccounts
    <2> QED BY <2>1, UnderstoodIsRead DEF Agree
  <1> QED BY <1>2, <1>3 DEF AllUnderstood

(***************************************************************************)
(* The lists of an operation mean what its user asked for, at every        *)
(* moment, for any requests and signed operations, in any order, readable  *)
(* or not, while commits are waiting: provided that a signed action that   *)
(* needs another account names one.                                        *)
(***************************************************************************)
THEOREM ListsMeanThat ==
  ASSUME OtherAccountsHaveOwners
  PROVE  Spec => []ListsMeanWhatWasAsked
  <1>1. Init => ObjectIsOK
    BY ObjectInitially
  <1>2. ObjectIsOK /\ [Next]_vars => ObjectIsOK'
    BY ObjectIsKept
  <1>3. ObjectIsOK => ListsMeanWhatWasAsked
    <2> SUFFICES ASSUME ObjectIsOK
                 PROVE  ListsMeanWhatWasAsked
      OBVIOUS
    <2>1. AllUnderstood(op.accounts, op.actions) = asked
      BY ListsAgree DEF ObjectIsOK
    <2>2. NoAccountTwice(op.accounts)
      BY DEF ObjectIsOK, Agree, IsSound
    <2> QED BY <2>1, <2>2 DEF ListsMeanWhatWasAsked, NoAccountTwice, SameAccount
  <1> QED BY <1>1, <1>2, <1>3, PTL DEF Spec

-----------------------------------------------------------------------------
(* What is sent                                                            *)

\* The lists of new say what those of o say, and no more.
SaysAll(new, o) ==
  /\ IsList(new.actions)
  /\ Len(new.actions) = Len(o.actions)
  /\ \A i \in 1 .. Len(o.actions) :
       /\ IsActionType(new.actions[i].actionType)
       /\ Says(new.accounts, new.actions[i]) = Says(o.accounts, o.actions[i])

LEMMA SoundSays ==
  ASSUME NEW o, IsSound(o), NEW new, IsSound(new),
         Len(new.actions) = Len(o.actions),
         \A i \in 1 .. Len(o.actions) :
           Says(new.accounts, new.actions[i]) = Says(o.accounts, o.actions[i])
  PROVE  SaysAll(new, o)
  <1>1. IsList(new.actions) /\ DOMAIN new.actions = 1 .. Len(o.actions)
    BY ListPlaces DEF IsSound, IsObject
  <1> QED BY <1>1 DEF SaysAll, IsSound, HasAccounts

\* Also what was sent before the object changed.
LEMMA SaysAllStays ==
  ASSUME NEW m, NEW o, SaysAll(m, o), NEW new, SaysAll(new, o)
  PROVE  SaysAll(m, new)
  BY DEF SaysAll

LEMMA ReachesStays ==
  ASSUME NEW o, NEW new, SaysAll(new, o), NEW data, NEW end, NEW published,
         IsList(o.actions),
         \A s \in published : IsList(s.actions),
         Reaches(o, data, end, published)
  PROVE  Reaches(new, data, end, published)
  <1>1. PICK st : ReachesBy(o, data, st, end, published)
    BY DEF Reaches
  <1>2. ASSUME NEW k \in 1 .. Len(data), NEW s \in published,
               CoversOne(o, data[k], st[k], s)
        PROVE  CoversOne(new, data[k], st[k], s)
    <2>1. st[k] \in Nat /\ Len(s.actions) \in Nat /\ Len(o.actions) \in Nat
      BY <1>1, ListPlaces DEF ReachesBy, StartsOf
    <2>2. \A i \in 1 .. Len(s.actions) : st[k] + i \in 1 .. Len(o.actions)
      BY <1>2, <2>1 DEF CoversOne
    <2> QED BY <1>2, <2>2 DEF CoversOne, SaysAll
  <1>3. ReachesBy(new, data, st, end, published)
    BY <1>1, <1>2 DEF ReachesBy, CoversSigned
  <1> QED BY <1>3 DEF Reaches

(***************************************************************************)
(* A call is live when it can send a transaction: it is not a simulation.  *)
(* There is one at most, and then the operation is committed.  While it is *)
(* not, the authorizations fit the actions; those of a live call reach to  *)
(* the last action, and what it sends says what the object says.           *)
(***************************************************************************)
Live(c) == calls[c].pc # "idle" /\ ~IsSimulation(calls[c])

SentIsSame(c) ==
  /\ web3[c] = "none" => sent[c] = {}
  /\ web3[c] # "none" => \E m : sent[c] = {m} /\ SaysAll(m, op)

OneIsLive ==
  /\ \A c \in Calls : Live(c) => op.committed
  /\ \A c, d \in Calls : Live(c) /\ Live(d) => c = d

AuthsReach(c) ==
  Live(c) /\ op.proxy = "Signed" =>
    Reaches(op, authData[c], Len(op.actions), SignedOps)

RequestsAreOK ==
  /\ CallsAreOK
  /\ ObjectIsOK
  /\ IsFor(authData) /\ IsFor(sent)
  /\ ~op.committed => AuthsFit(op, SignedOps)
  /\ OneIsLive
  /\ \A c \in Calls : AuthsReach(c)
  /\ \A c \in Calls : SentIsSame(c)

LEMMA SignedOpsAreLists == \A s \in SignedOps : IsList(s.actions)
  BY RequestsAssumption

LEMMA RequestsInitially ==
  ASSUME Init
  PROVE  RequestsAreOK
  <1>1. CallsAreOK /\ ObjectIsOK /\ AuthsFit(op, SignedOps)
    BY CallsInitially, ObjectInitially
  <1>2. /\ calls = [c \in Calls |-> NoCall] /\ web3 = [c \in Calls |-> "none"]
        /\ authData = [c \in Calls |-> <<>>] /\ sent = [c \in Calls |-> {}]
    BY DEF Init, ClientInit
  <1>3. IsFor(authData) /\ IsFor(sent)
    BY <1>2 DEF IsFor
  <1>4. \A c \in Calls : ~Live(c)
    BY <1>2 DEF Live, NoCall
  <1>5. OneIsLive /\ \A c \in Calls : AuthsReach(c)
    BY <1>4 DEF OneIsLive, AuthsReach
  <1>6. \A c \in Calls : SentIsSame(c)
    BY <1>2 DEF SentIsSame
  <1> QED BY <1>1, <1>3, <1>5, <1>6 DEF RequestsAreOK

(***************************************************************************)
(* The object changes, the calls do not: the calls that are live still     *)
(* have what they need, when the object says the same.                     *)
(***************************************************************************)
LEMMA ObjectGoesOn ==
  ASSUME RequestsAreOK, ObjectIsOK', UNCHANGED <<authData, sent, clientVars>>,
         ~op'.committed => AuthsFit(op', SignedOps),
         op'.committed = op.committed, op'.proxy = op.proxy,
         op.committed => SaysAll(op', op)
  PROVE  RequestsAreOK'
  <1>1. CallsAreOK'
    BY SameCallsAreOK DEF RequestsAreOK
  <1>2. /\ calls' = calls /\ web3' = web3 /\ authData' = authData /\ sent' = sent
    BY DEF clientVars
  <1>3. \A c \in Calls : Live(c)' <=> Live(c)
    BY <1>2 DEF Live, IsSimulation
  <1>4. OneIsLive'
    BY <1>3 DEF OneIsLive, RequestsAreOK
  <1>5. IsFor(authData)' /\ IsFor(sent)'
    BY <1>2 DEF RequestsAreOK, IsFor
  <1>6. ASSUME op.committed
        PROVE  Len(op'.actions) = Len(op.actions) /\ SaysAll(op', op)
    BY <1>6 DEF SaysAll
  <1>7. ASSUME NEW c \in Calls
        PROVE  AuthsReach(c)'
    <2> SUFFICES ASSUME Live(c)', op'.proxy = "Signed"
                 PROVE  Reaches(op', authData'[c], Len(op'.actions), SignedOps)
      BY DEF AuthsReach, Reaches, ReachesBy, StartsOf, IsList, CoversSigned,
                  CoversOne, Says, SaysSigned, AccountMeant, SignedAmount,
                  AmountArgs, Times
    <2>1. Live(c) /\ op.committed /\ op.proxy = "Signed"
      BY <1>3 DEF RequestsAreOK, OneIsLive
    <2>2. Reaches(op, authData[c], Len(op.actions), SignedOps)
      BY <2>1 DEF RequestsAreOK, AuthsReach
    <2>3. IsList(op.actions)
      BY DEF RequestsAreOK, ObjectIsOK, Agree, IsSound, IsObject
    <2>4. Reaches(op', authData[c], Len(op.actions), SignedOps)
      BY <1>6, <2>1, <2>2, <2>3, ReachesStays, SignedOpsAreLists
    <2> QED BY <1>2, <1>6, <2>1, <2>4
  <1>8. ASSUME NEW c \in Calls
        PROVE  SentIsSame(c)'
    <2>1. SentIsSame(c) /\ CallOK(calls[c], web3[c], confirmations[c], chain[c])
      BY DEF RequestsAreOK, CallsAreOK
    <2>2. web3[c] # "none" => Live(c)
      BY <2>1 DEF CallOK, Live
    <2>3. web3[c] # "none" => op.committed
      BY <2>2 DEF RequestsAreOK, OneIsLive
    <2>4. web3[c] # "none" => \E m : sent[c] = {m} /\ SaysAll(m, op')
      BY <1>6, <2>1, <2>3, SaysAllStays DEF SentIsSame
    <2>5. ASSUME NEW m, SaysAll(m, op')
          PROVE  SaysAll(m, op)'
      BY <2>5 DEF SaysAll, IsList, Says, AccountMeant, IsActionType
    <2> QED BY <1>2, <2>1, <2>4, <2>5 DEF SentIsSame
  <1>9. ~op'.committed => AuthsFit(op, SignedOps)'
    BY DEF AuthsFit, EndOf, CoversOne, Says, SaysSigned, AccountMeant,
           SignedAmount, AmountArgs, Times
  <1> QED BY <1>1, <1>4, <1>5, <1>7, <1>8, <1>9 DEF RequestsAreOK

\* A call that has not been sent is sent next, if at all.
LEMMA WebStarts ==
  ASSUME CallsAreOK, NEW c \in Calls, web3[c] = "none",
         \/ \E options : CallContractFunction(c, options)
         \/ ClientStep(c) \/ NodeStep(c)
  PROVE  web3'[c] \in {"none", "sending"}
  <1>1. web3' = web3 \/ web3' = [web3 EXCEPT ![c] = "sending"]
    <2>1. CASE \E options : CallContractFunction(c, options)
      BY <2>1 DEF CallContractFunction, EstimateOrSend, Send
    <2>2. CASE ClientStep(c)
      BY <2>2 DEF ClientStep, SetGasLimit, EstimateGas, EstimateOrSend, Send
    <2>3. CASE NodeStep(c)
      BY <2>3 DEF NodeStep, NodeAnswers, NodeWatches, NodeAccepts, NodeRefuses,
                  SeeReceipt, SeeConfirmation, GiveUp, Mine
    <2> QED BY <2>1, <2>2, <2>3
  <1>2. IsFor(web3)
    BY DEF CallsAreOK
  <1> QED BY <1>1, <1>2 DEF IsFor

(***************************************************************************)
(* What a call sends is what the object holds when it sends it.            *)
(***************************************************************************)
LEMMA EncodedIsSame ==
  ASSUME IsFor(sent), IsSound(op), NEW c \in Calls, SentIsSame(c), Encode(c),
         op'.actions = op.actions, op'.accounts = op.accounts,
         web3[c] = "none" => web3'[c] \in {"none", "sending"},
         web3[c] # "none" => web3'[c] \notin {"none", "sending"}
  PROVE  /\ IsFor(sent)'
         /\ SentIsSame(c)'
         /\ \A d \in Calls \ {c} : sent'[d] = sent[d]
  <1> DEFINE m == [accounts |-> op.accounts, actions |-> op.actions]
  <1>1. CASE web3'[c] = "sending" /\ web3[c] # "sending"
    <2>1. sent' = [sent EXCEPT ![c] = {m}] /\ web3[c] = "none"
      BY <1>1 DEF Encode
    <2>2. IsFor(sent)' /\ sent'[c] = {m} /\ \A d \in Calls \ {c} : sent'[d] = sent[d]
      BY <2>1 DEF IsFor
    <2>3. m.accounts = op.accounts /\ m.actions = op.actions
      OBVIOUS
    <2> HIDE DEF m
    <2>4. IsList(op.actions) /\ DOMAIN op.actions = 1 .. Len(op.actions)
      BY ListPlaces DEF IsSound, IsObject
    <2>5. \A i \in 1 .. Len(op.actions) : IsActionType(op.actions[i].actionType)
      BY <2>4 DEF IsSound, HasAccounts
    <2>6. SaysAll(m, op)
      BY <2>3, <2>4, <2>5 DEF SaysAll, Says
    <2>7. SaysAll(m, op)'
      BY <2>6 DEF SaysAll, Says, m
    <2>8. web3'[c] # "none"
      BY <1>1
    <2> QED BY <2>2, <2>7, <2>8 DEF SentIsSame, m
  <1>2. CASE ~(web3'[c] = "sending" /\ web3[c] # "sending")
    <2>1. sent' = sent
      BY <1>2 DEF Encode
    <2>2. web3'[c] = "none" <=> web3[c] = "none"
      BY <1>2
    <2>3. \A x : SaysAll(x, op)' <=> SaysAll(x, op)
      BY DEF SaysAll, Says
    <2> QED BY <2>1, <2>2, <2>3 DEF IsFor, SentIsSame
  <1> QED BY <1>1, <1>2

LEMMA OthersStay ==
  ASSUME op'.actions = op.actions, op'.accounts = op.accounts,
         NEW d \in Calls, web3'[d] = web3[d], sent'[d] = sent[d], SentIsSame(d)
  PROVE  SentIsSame(d)'
  <1>1. \A x : SaysAll(x, op)' <=> SaysAll(x, op)
    BY DEF SaysAll, Says
  <1> QED BY <1>1 DEF SentIsSame

\* Only the lists count.
LEMMA SameListsFit ==
  ASSUME NEW o, NEW new, new.actions = o.actions, new.accounts = o.accounts,
         new.auths = o.auths, NEW published, AuthsFit(o, published)
  PROVE  AuthsFit(new, published)
  <1>1. \A k : EndOf(new, k) = EndOf(o, k)
    BY DEF EndOf
  <1>2. \A auth, start, s : CoversOne(o, auth, start, s) => CoversOne(new, auth, start, s)
    BY DEF CoversOne
  <1> QED BY <1>1, <1>2 DEF AuthsFit

LEMMA CommitGoesOn ==
  ASSUME CommitsAreInOrder, RequestsAreOK,
         NEW c \in Calls, NEW options \in CommitOptions, Commit(c, options)
  PROVE  RequestsAreOK'
  <1>1. /\ CallsAreOK /\ ObjectIsOK /\ IsFor(authData) /\ IsFor(sent)
        /\ IsSound(op) /\ ~op.committed /\ AuthsFit(op, SignedOps)
        /\ \A d \in Calls : ~Live(d) /\ SentIsSame(d)
    BY DEF RequestsAreOK, ObjectIsOK, Agree, Commit, OneIsLive
  <1>2. /\ CallsAreOK'
        /\ calls[c].pc = "idle" /\ web3[c] = "none" /\ calls'[c].pc # "idle"
        /\ calls'[c].options = Given(options)
        /\ \A d \in Calls \ {c} : calls'[d] = calls[d] /\ web3'[d] = web3[d]
    BY <1>1, CommitCalls
  <1>3. /\ ObjectIsOK' /\ op'.committed = Commits(options) /\ op'.proxy = op.proxy
        /\ op'.actions = op.actions /\ op'.accounts = op.accounts
        /\ op'.auths = op.auths
    BY <1>1, CommitMarks
  <1>4. /\ authData' = [authData EXCEPT ![c] =
                          IF op.proxy = "Signed" THEN GenerateAuthData(op) ELSE <<>>]
        /\ CallContractFunction(c, Given(options)) /\ Encode(c)
    BY DEF Commit, Given
  <1>5. /\ IsFor(authData)'
        /\ op.proxy = "Signed" => authData'[c] = GenerateAuthData(op)
    BY <1>1, <1>4 DEF IsFor
  <1>6. IsFor(sent)' /\ SentIsSame(c)' /\ \A d \in Calls \ {c} : sent'[d] = sent[d]
    BY <1>1, <1>2, <1>3, <1>4, WebStarts, EncodedIsSame
  <1>7. \A d \in Calls : SentIsSame(d)'
    BY <1>1, <1>2, <1>3, <1>6, OthersStay
  <1>8. options # None /\ Given(options) = options
    BY DEF CommitsAreInOrder, Given
  <1>9. Live(c)' => op'.committed
    BY <1>2, <1>3, <1>8 DEF Live, IsSimulation, Commits
  <1>10. \A d \in Calls \ {c} : ~Live(d)'
    BY <1>1, <1>2 DEF Live, IsSimulation
  <1>11. OneIsLive'
    BY <1>9, <1>10 DEF OneIsLive
  <1>12. ASSUME NEW d \in Calls
         PROVE  AuthsReach(d)'
    <2> SUFFICES ASSUME Live(d)', op'.proxy = "Signed"
                 PROVE  Reaches(op', authData'[d], Len(op'.actions), SignedOps)
      BY DEF AuthsReach, Reaches, ReachesBy, StartsOf, IsList, CoversSigned,
             CoversOne, Says, SaysSigned, AccountMeant, SignedAmount,
             AmountArgs, Times
    <2>1. d = c /\ authData'[d] = GenerateAuthData(op)
      BY <1>3, <1>5, <1>10
    <2>2. Reaches(op, GenerateAuthData(op), Len(op.actions), SignedOps)
      BY <1>1, GeneratedReaches
    <2>3. IsSound(op') /\ IsList(op.actions)
      BY <1>1, <1>3 DEF ObjectIsOK, Agree, IsSound, IsObject, NoAccountTwice,
                        HasAccounts, IsList, SameAccount, AccountMeant
    <2>4. SaysAll(op', op)
      BY <1>1, <1>3, <2>3, SoundSays
    <2>5. Reaches(op', GenerateAuthData(op), Len(op.actions), SignedOps)
      BY <2>2, <2>3, <2>4, ReachesStays, SignedOpsAreLists
    <2> QED BY <1>3, <2>1, <2>5
  <1>13. AuthsFit(op', SignedOps)
    BY <1>1, <1>3, SameListsFit
  <1>14. AuthsFit(op, SignedOps)'
    BY <1>13 DEF AuthsFit, EndOf, CoversOne, Says, SaysSigned, AccountMeant,
                 SignedAmount, AmountArgs, Times
  <1> QED BY <1>2, <1>3, <1>5, <1>6, <1>7, <1>11, <1>12, <1>14 DEF RequestsAreOK

LEMMA NetworkGoesOn ==
  ASSUME RequestsAreOK, NEW c \in Calls, ClientStep(c) \/ NodeStep(c), WithEncode(c)
  PROVE  RequestsAreOK'
  <1>1. /\ CallsAreOK /\ ObjectIsOK /\ IsFor(authData) /\ IsFor(sent)
        /\ IsSound(op) /\ \A d \in Calls : SentIsSame(d)
    BY DEF RequestsAreOK, ObjectIsOK, Agree
  <1>2. /\ CallsAreOK'
        /\ calls[c].pc # "idle" /\ calls'[c].pc # "idle"
        /\ calls'[c].options = calls[c].options
        /\ web3[c] # "none" => web3'[c] \notin {"none", "sending"}
        /\ \A d \in Calls \ {c} : calls'[d] = calls[d] /\ web3'[d] = web3[d]
    BY <1>1, NetworkCalls
  <1>3. op' = op /\ asked' = asked /\ authData' = authData /\ Encode(c)
    BY DEF WithEncode
  <1>4. ObjectIsOK'
    BY <1>1, <1>3, SameObjectIsOK
  <1>5. IsFor(sent)' /\ SentIsSame(c)' /\ \A d \in Calls \ {c} : sent'[d] = sent[d]
    BY <1>1, <1>2, <1>3, WebStarts, EncodedIsSame
  <1>6. \A d \in Calls : SentIsSame(d)'
    BY <1>1, <1>2, <1>3, <1>5, OthersStay
  <1>7. \A d \in Calls : Live(d)' <=> Live(d)
    BY <1>2 DEF Live, IsSimulation
  <1>8. OneIsLive'
    BY <1>3, <1>7 DEF RequestsAreOK, OneIsLive
  <1>9. \A d \in Calls : AuthsReach(d)'
    <2> SUFFICES ASSUME NEW d \in Calls
                 PROVE  AuthsReach(d)'
      OBVIOUS
    <2> SUFFICES ASSUME Live(d)', op'.proxy = "Signed"
                 PROVE  Reaches(op', authData'[d], Len(op'.actions), SignedOps)
      BY DEF AuthsReach, Reaches, ReachesBy, StartsOf, IsList, CoversSigned,
             CoversOne, Says, SaysSigned, AccountMeant, SignedAmount,
             AmountArgs, Times
    <2> QED BY <1>3, <1>7 DEF RequestsAreOK, AuthsReach
  <1>10. ~op'.committed => AuthsFit(op, SignedOps)'
    <2>1. ~op'.committed => AuthsFit(op', SignedOps)
      BY <1>3 DEF RequestsAreOK
    <2> QED BY <2>1 DEF AuthsFit, EndOf, CoversOne, Says, SaysSigned, AccountMeant,
                        SignedAmount, AmountArgs, Times
  <1>11. IsFor(authData)'
    BY <1>1, <1>3 DEF IsFor
  <1> QED BY <1>2, <1>4, <1>5, <1>6, <1>8, <1>9, <1>10, <1>11 DEF RequestsAreOK

LEMMA RequestsGoOn ==
  ASSUME OtherAccountsHaveOwners, CommitsAreInOrder, RequestsAreOK, [Next]_vars
  PROVE  RequestsAreOK'
  <1>1. ASSUME NEW k \in Nat, NEW said, NEW more, Grows(k, said, more),
               UNCHANGED <<authData, sent, clientVars>>,
               ~op.committed => AuthsFit(op', SignedOps)
        PROVE  RequestsAreOK'
    <2>1. ObjectIsOK'
      BY <1>1, GrownIsOK DEF RequestsAreOK
    <2>2. AddsActions(op', op, k, said) /\ op.committed => k = 0
      BY <1>1 DEF Grows
    <2>3. op'.committed = op.committed /\ op'.proxy = op.proxy /\ IsSound(op')
      BY <1>1 DEF Grows, AddsActions
    <2>4. ASSUME op.committed
          PROVE  SaysAll(op', op)
      <3>1. /\ IsSound(op) /\ Len(op.actions) \in Nat
        BY ListPlaces DEF RequestsAreOK, ObjectIsOK, Agree, IsSound, IsObject
      <3>2. /\ Len(op'.actions) = Len(op.actions)
            /\ \A i \in 1 .. Len(op.actions) :
                 Says(op'.accounts, op'.actions[i]) = Says(op.accounts, op.actions[i])
        BY <1>1, <2>4, <3>1 DEF Grows, AddsActions
      <3> QED BY <2>3, <3>1, <3>2, SoundSays
    <2> QED BY <1>1, <2>1, <2>3, <2>4, ObjectGoesOn
  <1>2. ASSUME NEW r \in Requests, Add(r)
        PROVE  RequestsAreOK'
    <2>1. PICK k \in Nat : \E said, more : Grows(k, said, more)
      BY <1>2, AddGrows DEF RequestsAreOK
    <2>2. PICK said, more : Grows(k, said, more)
      BY <2>1
    <2>3. op'.auths = op.auths /\ UNCHANGED <<authData, sent, clientVars>>
      BY <1>2, AddGrows DEF RequestsAreOK, Add
    <2>4. ~op.committed => AuthsFit(op', SignedOps)
      BY <2>2, <2>3, AuthsStayFit, SignedOpsAreLists
         DEF RequestsAreOK, ObjectIsOK, Agree, Grows
    <2> QED BY <1>1, <2>2, <2>3, <2>4
  <1>3. ASSUME NEW s \in SignedOps, AddSigned(s)
        PROVE  RequestsAreOK'
    <2>1. PICK k \in Nat : \E said, more : Grows(k, said, more)
      BY <1>3, AddSignedGrows DEF RequestsAreOK
    <2>2. PICK said, more : Grows(k, said, more)
      BY <2>1
    <2>3. UNCHANGED <<authData, sent, clientVars>>
      BY <1>3 DEF AddSigned
    <2>4. ~op.committed => AuthsFit(op', SignedOps)
      BY <1>3, AddSignedGrows DEF RequestsAreOK
    <2> QED BY <1>1, <2>2, <2>3, <2>4
  <1>4. CASE \E c \in Calls, options \in CommitOptions : Commit(c, options)
    BY <1>4, CommitGoesOn
  <1>5. CASE NetworkNext
    BY <1>5, NetworkGoesOn DEF NetworkNext
  <1>6. CASE UNCHANGED vars
    <2>1. ObjectIsOK'
      BY <1>6, SameObjectIsOK DEF RequestsAreOK, vars
    <2>2. op' = op /\ UNCHANGED <<authData, sent, clientVars>>
      BY <1>6 DEF vars
    <2>3. IsSound(op)
      BY DEF RequestsAreOK, ObjectIsOK, Agree
    <2>4. SaysAll(op', op)
      BY <2>2, <2>3, SoundSays
    <2>5. ~op'.committed => AuthsFit(op', SignedOps)
      BY <2>2 DEF RequestsAreOK
    <2> QED BY <2>1, <2>2, <2>4, <2>5, ObjectGoesOn
  <1> QED BY <1>2, <1>3, <1>4, <1>5, <1>6 DEF Next, UserNext

(***************************************************************************)
(* At most one commit is under way, and it marks the operation; until then *)
(* the authorizations of the object follow each other and fit its actions; *)
(* from then on those of the commit do, and what was sent says what the    *)
(* object says: the invariant behind the next two theorems.                *)
(***************************************************************************)
THEOREM RequestsAreInductive ==
  ASSUME OtherAccountsHaveOwners, CommitsAreInOrder
  PROVE  Spec => []RequestsAreOK
  <1>1. Init => RequestsAreOK
    BY RequestsInitially
  <1>2. RequestsAreOK /\ [Next]_vars => RequestsAreOK'
    BY RequestsGoOn
  <1> QED BY <1>1, <1>2, PTL DEF Spec

(***************************************************************************)
(* What authorizations of a request cover.                                 *)
(***************************************************************************)
LEMMA StartsIsThat ==
  ASSUME NEW data, IsList(data)
  PROVE  StartBy(data, Len(data) + 1, Starts(data))
  <1>1. Len(data) + 1 \in Nat
    BY ListPlaces
  <1>2. Starts(data) = CHOOSE f : StartBy(data, Len(data) + 1, f)
    BY DEF Starts, StartBy
  <1> QED BY <1>1, <1>2, StartsExist

CoversWhatWasSigned(m, auth, start) ==
  [i \in 1 .. auth.numActions |-> Understood(m.accounts, m.actions[start + i])]
  = [i \in DOMAIN auth.signature.operation.actions |->
       WantedSigned(auth.signature.operation.actions[i])]

LEMMA CoveredAsSigned ==
  ASSUME CommitsAreInOrder, OtherAccountsHaveOwners,
         NEW m, NEW auth, NEW start \in Nat, NEW s \in SignedOps,
         CoversOne(m, auth, start, s), IsList(m.actions),
         \A i \in 1 .. Len(m.actions) : IsActionType(m.actions[i].actionType)
  PROVE  CoversWhatWasSigned(m, auth, start)
  <1>1. /\ auth.signature.operation.actions = s.actions
        /\ auth.numActions = Len(s.actions)
        /\ DOMAIN s.actions = 1 .. Len(s.actions) /\ Len(s.actions) \in Nat
        /\ Len(m.actions) \in Nat
    BY SignedOpsAreLists, ListPlaces DEF CommitsAreInOrder, CoversOne
  <1>2. ASSUME NEW i \in 1 .. Len(s.actions)
        PROVE  Understood(m.accounts, m.actions[start + i]) = WantedSigned(s.actions[i])
    <2>1. start + i \in 1 .. Len(m.actions)
      BY <1>1 DEF CoversOne
    <2>2. Understood(m.accounts, m.actions[start + i])
            = Reading(Says(m.accounts, m.actions[start + i]))
      BY <2>1, UnderstoodIsRead
    <2>3. WantedSigned(s.actions[i]) = Reading(SaysSigned(s.actions[i]))
      BY <1>1, RequestsAssumption, WantedSignedIsRead DEF IsActionType
    <2> QED BY <2>2, <2>3 DEF CoversOne
  <1> QED BY <1>1, <1>2 DEF CoversWhatWasSigned

LEMMA RequestsFit ==
  ASSUME CommitsAreInOrder, OtherAccountsHaveOwners, RequestsAreOK
  PROVE  AuthorizationsFitActions
  <1> SUFFICES ASSUME NEW c \in Calls, NEW m \in sent[c], op.proxy = "Signed"
               PROVE  LET data == authData[c]
                          start == Starts(data)
                      IN  /\ start[Len(data) + 1] = Len(m.actions)
                          /\ \A k \in DOMAIN data :
                               data[k].signature # NoSignature =>
                                 [i \in 1 .. data[k].numActions |->
                                    Understood(m.accounts, m.actions[start[k] + i])]
                                 = [i \in DOMAIN data[k].signature.operation.actions |->
                                      WantedSigned(data[k].signature.operation.actions[i])]
    BY DEF AuthorizationsFitActions
  <1> DEFINE data == authData[c]
             start == Starts(data)
  <1>1. web3[c] # "none" /\ SaysAll(m, op) /\ Live(c)
    BY DEF RequestsAreOK, SentIsSame, CallsAreOK, CallOK, Live
  <1>2. Reaches(op, data, Len(op.actions), SignedOps) /\ IsList(op.actions)
    BY <1>1 DEF RequestsAreOK, AuthsReach, ObjectIsOK, Agree, IsSound, IsObject
  <1>3. /\ Reaches(m, data, Len(m.actions), SignedOps) /\ IsList(m.actions)
        /\ \A i \in 1 .. Len(m.actions) : IsActionType(m.actions[i].actionType)
    BY <1>1, <1>2, ReachesStays, SignedOpsAreLists DEF SaysAll
  <1>4. PICK st : ReachesBy(m, data, st, Len(m.actions), SignedOps)
    BY <1>3 DEF Reaches
  <1> HIDE DEF data
  <1>5. /\ IsList(data) /\ DOMAIN data = 1 .. Len(data) /\ Len(data) \in Nat
        /\ StartsOf(data, st) /\ st[Len(data) + 1] = Len(m.actions)
    BY <1>4, ListPlaces DEF ReachesBy
  <1>6. \A k \in 1 .. Len(data) + 1 : start[k] = st[k]
    <2>1. StartBy(data, Len(data) + 1, start)
      BY <1>5, StartsIsThat
    <2> HIDE DEF start
    <2>2. Len(data) + 1 \in Nat /\ Len(data) + 1 <= Len(data) + 1
      BY <1>5
    <2> QED BY <1>5, <2>1, <2>2, StartsAreThose
  <1> HIDE DEF start
  <1>7. start[Len(data) + 1] = Len(m.actions)
    BY <1>5, <1>6
  <1>8. ASSUME NEW k \in DOMAIN data, data[k].signature # NoSignature
        PROVE  CoversWhatWasSigned(m, data[k], start[k])
    <2>1. k \in 1 .. Len(data) /\ start[k] = st[k] /\ st[k] \in Nat
      <3>1. k \in 1 .. Len(data) /\ k \in 1 .. Len(data) + 1
        BY <1>5
      <3>2. \A j \in 1 .. Len(data) : st[j] \in Nat
        BY <1>5 DEF StartsOf
      <3> QED BY <1>6, <3>1, <3>2
    <2>2. PICK s \in SignedOps : CoversOne(m, data[k], st[k], s)
      BY <1>4, <1>8, <2>1 DEF ReachesBy, CoversSigned
    <2>3. CoversOne(m, data[k], start[k], s) /\ start[k] \in Nat
      BY <2>1, <2>2
    <2> QED BY <1>3, <2>3, CoveredAsSigned
  <1> QED BY <1>7, <1>8 DEF data, start, CoversWhatWasSigned

(***************************************************************************)
(* The lists, at every moment, and what is sent with the authorizations    *)
(* computed for it mean what the user asked for and what was signed, for   *)
(* any requests, signed operations and calls, in any order: provided that  *)
(* callers name the accounts they need, that what they add can be read and *)
(* is what was signed, and that they pass options to commit.               *)
(***************************************************************************)
THEOREM RequestsMeanThat ==
  ASSUME OtherAccountsHaveOwners, CommitsAreInOrder
  PROVE  Spec => []RequestsMeanWhatWasAsked
  <1>1. RequestsAreOK => AuthorizationsFitActions
    BY RequestsFit
  <1>2. Spec => []ListsMeanWhatWasAsked
    BY ListsMeanThat
  <1>3. Spec => []RequestsAreOK
    BY RequestsAreInductive
  <1> QED BY <1>1, <1>2, <1>3, PTL DEF RequestsMeanWhatWasAsked

-----------------------------------------------------------------------------
(* What is executed                                                        *)

\* What the chain has executed, as the refinement has it.
ExecutedLists ==
  [i \in 1 .. Cardinality(Executed) |->
     LET m == CHOOSE m \in sent[SetToSeq(Executed)[i]] : TRUE
     IN  AllUnderstood(m.accounts, m.actions)]

LEMMA SetToSeqOfOne ==
  ASSUME NEW c
  PROVE  SetToSeq({c})[1] = c
  <1>1. Cardinality({c}) = 1
    BY FS_Singleton
  <1> DEFINE f == [i \in 1 .. 1 |-> c]
  <1>2. f \in [1 .. 1 -> {c}] /\ IsInjective(f)
    BY DEF IsInjective
  <1>3. SetToSeq({c}) \in [1 .. 1 -> {c}]
    BY <1>1, <1>2 DEF SetToSeq
  <1> QED BY <1>3

\* What was sent says what was asked for.
LEMMA SentIsAsked ==
  ASSUME Agree(op, asked), NEW m, SaysAll(m, op)
  PROVE  AllUnderstood(m.accounts, m.actions) = asked
  <1>1. /\ IsList(asked) /\ Len(asked) = Len(op.actions)
        /\ asked = [i \in 1 .. Len(asked) |-> asked[i]]
        /\ DOMAIN m.actions = 1 .. Len(asked)
    BY ListPlaces DEF Agree, SaysAll, IsList
  <1>2. ASSUME NEW i \in 1 .. Len(asked)
        PROVE  Understood(m.accounts, m.actions[i]) = asked[i]
    <2>1. /\ IsActionType(m.actions[i].actionType)
          /\ Says(m.accounts, m.actions[i]) = Says(op.accounts, op.actions[i])
      BY <1>1 DEF SaysAll
    <2> QED BY <2>1, UnderstoodIsRead DEF Agree
  <1> QED BY <1>1, <1>2 DEF AllUnderstood

(***************************************************************************)
(* Nothing was executed, or what was asked for, once.                      *)
(***************************************************************************)
ExecutedOnce ==
  /\ Executed = {} => ExecutedLists = <<>>
  /\ Executed # {} => op.committed
  /\ \A c \in Executed : Executed = {c} /\ ExecutedLists = <<asked>>

LEMMA RequestsExecuteOnce ==
  ASSUME RequestsAreOK
  PROVE  ExecutedOnce
  <1>1. ASSUME Executed = {}
        PROVE  ExecutedLists = <<>>
    <2>1. Cardinality(Executed) = 0
      BY <1>1, FS_EmptySet
    <2> QED BY <2>1 DEF ExecutedLists
  <1>2. ASSUME NEW c \in Executed
        PROVE  c \in Calls /\ Live(c) /\ web3[c] # "none"
    <2>1. c \in Calls /\ chain[c] = "mined"
      BY DEF Executed
    <2>2. CallOK(calls[c], web3[c], confirmations[c], chain[c])
      BY <2>1 DEF RequestsAreOK, CallsAreOK
    <2>3. web3[c] # "none"
      BY <2>1, <2>2 DEF CallOK
    <2> QED BY <2>1, <2>2, <2>3 DEF CallOK, Live
  <1>3. ASSUME NEW c \in Executed
        PROVE  op.committed /\ Executed = {c} /\ ExecutedLists = <<asked>>
    <2>1. op.committed
      BY <1>2 DEF RequestsAreOK, OneIsLive
    <2>2. Executed = {c}
      BY <1>2 DEF RequestsAreOK, OneIsLive
    <2>3. PICK m : sent[c] = {m} /\ SaysAll(m, op)
      BY <1>2 DEF RequestsAreOK, SentIsSame
    <2>4. AllUnderstood(m.accounts, m.actions) = asked
      BY <2>3, SentIsAsked DEF RequestsAreOK, ObjectIsOK
    <2>5. Cardinality(Executed) = 1 /\ SetToSeq(Executed)[1] = c
      BY <2>2, FS_Singleton, SetToSeqOfOne
    <2>6. (CHOOSE x \in sent[c] : TRUE) = m
      BY <2>3
    <2>7. ExecutedLists = [i \in 1 .. 1 |-> asked]
      <3>1. \A i \in 1 .. 1 : i = 1
        OBVIOUS
      <3>2. ASSUME NEW i \in 1 .. 1
            PROVE  (LET x == CHOOSE x \in sent[SetToSeq(Executed)[i]] : TRUE
                    IN  AllUnderstood(x.accounts, x.actions)) = asked
        BY <2>4, <2>5, <2>6, <3>1
      <3> QED BY <2>5, <3>2 DEF ExecutedLists
    <2> QED BY <2>1, <2>2, <2>7
  <1> QED BY <1>1, <1>3 DEF ExecutedOnce

(***************************************************************************)
(* What is asked for is one of the intents of the user.                    *)
(***************************************************************************)
AskedIsPossible == \A i \in 1 .. Len(asked) : asked[i] \in AllIntents

LEMMA GrownIsPossible ==
  ASSUME ObjectIsOK, AskedIsPossible, NEW k \in Nat, NEW said, NEW more,
         Grows(k, said, more)
  PROVE  /\ \A i \in 1 .. Len(asked') : asked'[i] \in AllIntents
         /\ Len(asked') = Len(asked) + k
         /\ SubSeq(asked', 1, Len(asked)) = asked
         /\ Len(asked) \in Nat
  <1> DEFINE all == asked \o more
             n == Len(asked)
  <1>1. /\ IsList(asked) /\ n \in Nat /\ IsList(more) /\ Len(more) = k
        /\ asked' = all
    BY ListPlaces DEF ObjectIsOK, Agree, Grows
  <1>2. /\ Len(all) = n + k
        /\ \A i \in 1 .. n : all[i] = asked[i]
        /\ \A i \in n + 1 .. n + k : all[i] = more[i - n]
    BY <1>1, JoinLists
  <1> HIDE DEF all
  <1>3. ASSUME NEW i \in 1 .. n + k
        PROVE  all[i] \in AllIntents
    <2>1. CASE i \in 1 .. n
      BY <1>2, <2>1 DEF AskedIsPossible
    <2>2. CASE i \notin 1 .. n
      <3>1. i - n \in 1 .. k /\ i \in n + 1 .. n + k
        BY <1>1, <2>2
      <3> QED BY <1>2, <3>1 DEF Grows
    <2> QED BY <2>1, <2>2
  <1>4. SubSeq(all, 1, n) = asked
    <2> DEFINE S == {asked[i] : i \in DOMAIN asked}
    <2>1. /\ asked \in Seq(S) /\ \A i \in 1 .. n : all[i] \in S
      BY <1>1, <1>2 DEF IsList
    <2> HIDE DEF S
    <2>2. /\ SubSeq(all, 1, n) \in Seq(S) /\ Len(SubSeq(all, 1, n)) = n
          /\ \A i \in 1 .. n : SubSeq(all, 1, n)[i] = asked[i]
      BY <1>1, <1>2, <2>1, SubSeqProperties
    <2> QED BY <2>1, <2>2
  <1> QED BY <1>1, <1>2, <1>3, <1>4

LEMMA AskedStaysPossible ==
  ASSUME OtherAccountsHaveOwners, ObjectIsOK, AskedIsPossible, [Next]_vars
  PROVE  AskedIsPossible'
  <1>1. ASSUME asked' = asked \/ \A i \in 1 .. Len(asked') : asked'[i] \in AllIntents
        PROVE  AskedIsPossible'
    BY <1>1 DEF AskedIsPossible
  <1>2. CASE \E r \in Requests : Add(r)
    BY <1>1, <1>2, AddGrows, GrownIsPossible
  <1>3. CASE \E s \in SignedOps : AddSigned(s)
    BY <1>1, <1>3, AddSignedGrows, GrownIsPossible
  <1>4. CASE \E c \in Calls, options \in CommitOptions : Commit(c, options)
    BY <1>1, <1>4 DEF Commit
  <1>5. CASE NetworkNext
    BY <1>1, <1>5 DEF NetworkNext, WithEncode
  <1>6. CASE UNCHANGED vars
    BY <1>1, <1>6 DEF vars
  <1> QED BY <1>2, <1>3, <1>4, <1>5, <1>6 DEF Next, UserNext

(***************************************************************************)
(* The steps of the user and of the network are steps of the intent.       *)
(***************************************************************************)
Asks ==
  /\ ~op.committed /\ op'.committed = op.committed
  /\ \E n \in 1 .. Len(asked') : SubSeq(asked', 1, Len(asked') - n) = asked
  /\ \A i \in DOMAIN asked' : asked'[i] \in AllIntents
  /\ ExecutedLists' = ExecutedLists

Seals ==
  /\ ~op.committed /\ asked # <<>>
  /\ op'.committed = TRUE
  /\ asked' = asked /\ ExecutedLists' = ExecutedLists

Executes ==
  /\ op.committed /\ op'.committed = op.committed
  /\ ExecutedLists = <<>> /\ ExecutedLists' = <<asked>>
  /\ asked' = asked

Stutters ==
  /\ op'.committed = op.committed
  /\ asked' = asked /\ ExecutedLists' = ExecutedLists

LEMMA MinedStays ==
  ASSUME CallsAreOK, NEW c \in Calls, ClientStep(c) \/ NodeStep(c),
         chain[c] = "mined"
  PROVE  chain'[c] = "mined"
  <1>1. chain' = chain
    <2>1. web3[c] # "sending"
      BY DEF CallsAreOK, CallOK
    <2>2. CASE ClientStep(c)
      BY <2>2 DEF ClientStep, SetGasLimit, EstimateGas
    <2>3. CASE NodeStep(c)
      BY <2>1, <2>3 DEF NodeStep, NodeAnswers, NodeWatches, NodeAccepts,
           NodeRefuses, SeeReceipt, SeeConfirmation, GiveUp, Mine
    <2> QED BY <2>2, <2>3
  <1> QED BY <1>1

\* When no transaction is mined, what was executed changes with the wishes at
\* most, and those of an operation that was executed do not change.
LEMMA SameExecuted ==
  ASSUME ExecutedOnce, ExecutedOnce', Executed' = Executed,
         Executed # {} => asked' = asked
  PROVE  ExecutedLists' = ExecutedLists
  <1>1. CASE Executed = {}
    BY <1>1 DEF ExecutedOnce
  <1>2. CASE Executed # {}
    <2>1. PICK c : c \in Executed
      BY <1>2
    <2> QED BY <1>2, <2>1 DEF ExecutedOnce
  <1> QED BY <1>1, <1>2

LEMMA GrowsRefines ==
  ASSUME ObjectIsOK, ObjectIsOK', AskedIsPossible, ExecutedOnce, ExecutedOnce',
         UNCHANGED clientVars, NEW k \in Nat, NEW said, NEW more,
         Grows(k, said, more)
  PROVE  Asks \/ Stutters
  <1>1. Executed' = Executed
    BY DEF Executed, clientVars
  <1>2. /\ op'.committed = op.committed /\ asked' = asked \o more
        /\ Len(more) = k /\ IsList(more) /\ IsList(asked)
        /\ op.committed => k = 0
    BY DEF Grows, AddsActions, ObjectIsOK, Agree
  <1>3. CASE k = 0
    <2>1. more = <<>>
      BY <1>2, <1>3 DEF IsList
    <2>2. asked' = asked
      BY <1>2, <2>1, JoinNothing
    <2>3. ExecutedLists' = ExecutedLists
      BY <1>1, <2>2, SameExecuted
    <2> QED BY <1>2, <2>2, <2>3 DEF Stutters
  <1>4. CASE k # 0
    <2>1. ~op.committed /\ Executed = {}
      BY <1>2, <1>4 DEF ExecutedOnce, Grows
    <2>2. ExecutedLists' = ExecutedLists
      BY <1>1, <2>1, SameExecuted
    <2>3. /\ \A i \in 1 .. Len(asked') : asked'[i] \in AllIntents
          /\ Len(asked') = Len(asked) + k
          /\ SubSeq(asked', 1, Len(asked)) = asked
          /\ Len(asked) \in Nat
      BY GrownIsPossible
    <2>4. DOMAIN asked' = 1 .. Len(asked')
      <3>1. IsList(asked')
        BY DEF ObjectIsOK, Agree, IsList
      <3> QED BY <3>1, ListPlaces
    <2>5. k \in 1 .. Len(asked') /\ Len(asked') - k = Len(asked)
      BY <1>4, <2>3
    <2> QED BY <1>2, <2>1, <2>2, <2>3, <2>4, <2>5 DEF Asks
  <1> QED BY <1>3, <1>4

LEMMA CommitRefines ==
  ASSUME RequestsAreOK, ExecutedOnce, ExecutedOnce',
         NEW c \in Calls, NEW options, Commit(c, options)
  PROVE  Seals \/ Stutters
  <1>1. ~op.committed /\ op.actions # <<>> /\ asked' = asked /\ chain' = chain
    BY DEF Commit, CallContractFunction
  <1>2. ExecutedLists' = ExecutedLists
    <2>1. Executed' = Executed
      BY <1>1 DEF Executed
    <2> QED BY <1>1, <2>1, SameExecuted
  <1>3. ObjectIsOK
    BY DEF RequestsAreOK
  <1>4. op'.committed = Commits(options)
    BY <1>3, CommitMarks
  <1>5. asked # <<>>
    <2>1. /\ IsList(asked) /\ IsList(op.actions)
          /\ Len(asked) = Len(op.actions)
      BY <1>3 DEF ObjectIsOK, Agree, IsSound, IsObject
    <2>2. Len(op.actions) # 0
      BY <1>1, <2>1 DEF IsList
    <2> QED BY <2>1, <2>2, EmptyList
  <1>6. op.committed = FALSE /\ Commits(options) \in BOOLEAN
    BY <1>1, <1>3 DEF ObjectIsOK, Commits
  <1> QED BY <1>1, <1>2, <1>4, <1>5, <1>6 DEF Seals, Stutters

LEMMA NetworkRefines ==
  ASSUME RequestsAreOK, ExecutedOnce, ExecutedOnce',
         NEW c \in Calls, ClientStep(c) \/ NodeStep(c), WithEncode(c)
  PROVE  Executes \/ Stutters
  <1>1. op' = op /\ asked' = asked
    BY DEF WithEncode
  <1>2. Executed \subseteq Executed'
    <2>1. \A d \in Calls \ {c} : chain'[d] = chain[d]
      BY NetworkCalls DEF RequestsAreOK
    <2>2. chain[c] = "mined" => chain'[c] = "mined"
      BY MinedStays DEF RequestsAreOK
    <2> QED BY <2>1, <2>2 DEF Executed
  <1>3. CASE Executed' = Executed
    BY <1>1, <1>3, SameExecuted DEF Stutters
  <1>4. CASE Executed' # Executed
    <2>1. PICK d : d \in Executed' /\ d \notin Executed
      BY <1>2, <1>4
    <2>2. Executed' = {d}
      BY <2>1 DEF ExecutedOnce
    <2>3. Executed = {}
      BY <1>2, <2>1, <2>2
    <2>4. ExecutedLists' = <<asked>> /\ op.committed
      BY <1>1, <2>1 DEF ExecutedOnce
    <2> QED BY <1>1, <2>3, <2>4 DEF Executes, ExecutedOnce
  <1> QED BY <1>3, <1>4

LEMMA StepRefines ==
  ASSUME OtherAccountsHaveOwners, RequestsAreOK, RequestsAreOK', AskedIsPossible,
         ExecutedOnce, ExecutedOnce', [Next]_vars
  PROVE  Asks \/ Seals \/ Executes \/ Stutters
  <1>1. ObjectIsOK /\ ObjectIsOK'
    BY DEF RequestsAreOK
  <1>2. CASE \E r \in Requests : Add(r)
    <2>1. UNCHANGED clientVars
      BY <1>2 DEF Add
    <2> QED BY <1>1, <1>2, <2>1, AddGrows, GrowsRefines
  <1>3. CASE \E s \in SignedOps : AddSigned(s)
    <2>1. UNCHANGED clientVars
      BY <1>3 DEF AddSigned
    <2> QED BY <1>1, <1>3, <2>1, AddSignedGrows, GrowsRefines
  <1>4. CASE \E c \in Calls, options \in CommitOptions : Commit(c, options)
    BY <1>4, CommitRefines
  <1>5. CASE NetworkNext
    BY <1>5, NetworkRefines DEF NetworkNext
  <1>6. CASE UNCHANGED vars
    <2>1. op' = op /\ asked' = asked /\ Executed' = Executed
      BY <1>6 DEF vars, clientVars, Executed
    <2> QED BY <2>1, SameExecuted DEF Stutters
  <1> QED BY <1>2, <1>3, <1>4, <1>5, <1>6 DEF Next, UserNext

(***************************************************************************)
(* An operation of the client implements the intent of its user: actions   *)
(* are asked for one after the other, the operation is committed once, and *)
(* the chain executes exactly what was asked for, at most once, for any    *)
(* requests, signed operations and calls, whatever the network does.       *)
(***************************************************************************)
THEOREM OperationImplementsIntent ==
  ASSUME OtherAccountsHaveOwners, CommitsAreInOrder
  PROVE  Spec => ImplementsIntent
  <1>1. Init => Intent!Init
    <2> SUFFICES ASSUME Init
                 PROVE  Intent!Init
      OBVIOUS
    <2>1. RequestsAreOK
      BY RequestsInitially
    <2>2. ExecutedOnce
      BY <2>1, RequestsExecuteOnce
    <2>3. Executed = {} /\ asked = <<>>
      BY DEF Init, ClientInit, Executed
    <2>4. op.committed = FALSE
      BY DEF Init, Initiate
    <2>5. ExecutedLists = <<>>
      BY <2>2, <2>3 DEF ExecutedOnce
    <2> QED BY <2>3, <2>4, <2>5 DEF Intent!Init, Intent!Nothing, ExecutedLists
  <1>2. Init => AskedIsPossible
    BY EmptyList DEF Init, AskedIsPossible
  <1>3. ObjectIsOK /\ AskedIsPossible /\ [Next]_vars => AskedIsPossible'
    BY AskedStaysPossible
  <1>4. RequestsAreOK => ObjectIsOK /\ ExecutedOnce
    BY RequestsExecuteOnce DEF RequestsAreOK
  <1>5. /\ RequestsAreOK /\ RequestsAreOK' /\ AskedIsPossible
        /\ ExecutedOnce /\ ExecutedOnce' /\ [Next]_vars
        => [Intent!Next]_(Intent!vars)
    <2> SUFFICES ASSUME RequestsAreOK, RequestsAreOK', AskedIsPossible,
                        ExecutedOnce, ExecutedOnce', [Next]_vars
                 PROVE  [Intent!Next]_(Intent!vars)
      OBVIOUS
    <2>1. CASE Asks
      BY <2>1 DEF Asks, Intent!Next, Intent!Ask, ExecutedLists, AllIntents
    <2>2. CASE Seals
      BY <2>2 DEF Seals, Intent!Next, Intent!Seal, Intent!Nothing, ExecutedLists
    <2>3. CASE Executes
      BY <2>3 DEF Executes, Intent!Next, Intent!Execute, ExecutedLists
    <2>4. CASE Stutters
      BY <2>4 DEF Stutters, Intent!vars, ExecutedLists
    <2> QED BY <2>1, <2>2, <2>3, <2>4, StepRefines
  <1>6. Spec => []RequestsAreOK
    BY RequestsAreInductive
  <1> QED BY <1>1, <1>2, <1>3, <1>4, <1>5, <1>6, PTL
          DEF Spec, ImplementsIntent, Intent!Spec
=============================================================================

--------------------------- MODULE OperationIntent ---------------------------
(***************************************************************************)
(* What an operation of the client promises its user: actions are asked    *)
(* for one after the other, the operation is sealed once, and the chain    *)
(* executes exactly what was asked for before, at most once.               *)
(***************************************************************************)
EXTENDS Naturals, Sequences

CONSTANT Intents \* what one action can be asked to do

VARIABLES
  intents,  \* what has been asked for, in order
  sealed,   \* whether the operation has been committed
  executed  \* what the chain has executed, each time: nothing, or all of it, once

Nothing == <<>>

Init ==
  /\ intents = Nothing
  /\ sealed = FALSE
  /\ executed = <<>>

\* Several intents at once come from one signed operation.
Ask ==
  /\ ~sealed
  /\ \E n \in 1 .. Len(intents') : SubSeq(intents', 1, Len(intents') - n) = intents
  /\ \A i \in DOMAIN intents' : intents'[i] \in Intents
  /\ UNCHANGED <<sealed, executed>>

Seal ==
  /\ ~sealed
  /\ intents # Nothing
  /\ sealed' = TRUE
  /\ UNCHANGED <<intents, executed>>

Execute ==
  /\ sealed
  /\ executed = <<>>
  /\ executed' = <<intents>>
  /\ UNCHANGED <<intents, sealed>>

Next == Ask \/ Seal \/ Execute

vars == <<intents, sealed, executed>>
Spec == Init /\ [][Next]_vars
=============================================================================

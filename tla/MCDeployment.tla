----------------------------- MODULE MCDeployment -----------------------------
(***************************************************************************)
(* Networks with and without markets, a sequencer feed and a multisig, and *)
(* a contract whose name is new to deployed.json.                          *)
(***************************************************************************)
EXTENDS Deployment, TLC

Undisturbed == [crashes |-> 0, copies |-> 0, reruns |-> 1]
MCBudgets ==
  {[Undisturbed EXCEPT !.crashes = 2], [Undisturbed EXCEPT !.copies = 1]}

MCNewNames == {{}, {"ExpiryProxy"}}
=============================================================================

--------------------------- MODULE AccountMarkets ---------------------------
(***************************************************************************)
(* What Storage and OperationImpl take from EnumerableSet, Cache and Bits: *)
(* a set of markets for each account, and, while an operation runs, the    *)
(* set of the markets that it names or its accounts have balances in, each *)
(* of which can be looked up, and no other.                                *)
(***************************************************************************)
EXTENDS Integers

CONSTANTS Holders, MarketIds

VARIABLES
  held,    \* per account the markets it has a balance in
  wanted,  \* the markets that the operation under way has to know
  known,   \* those that can be looked up
  answer   \* the last call and what it returned

NotFound == -1
NoAnswer == <<>>

Init ==
  /\ held = [a \in Holders |-> {}]
  /\ wanted = {} /\ known = {}
  /\ answer = NoAnswer

Add(a, m) ==
  /\ held' = [held EXCEPT ![a] = @ \cup {m}]
  /\ answer' = <<"add", a, m, m \notin held[a]>>
  /\ UNCHANGED <<wanted, known>>

Remove(a, m) ==
  /\ held' = [held EXCEPT ![a] = @ \ {m}]
  /\ answer' = <<"remove", a, m, m \in held[a]>>
  /\ UNCHANGED <<wanted, known>>

Begin(named, accounts) ==
  /\ known = {}
  /\ wanted' = named \cup UNION {held[a] : a \in accounts}
  /\ answer' = <<"operate", named, accounts>>
  /\ UNCHANGED <<held, known>>

Load ==
  /\ known = {}
  /\ known' = wanted
  /\ answer' = NoAnswer
  /\ UNCHANGED <<held, wanted>>

Get(m) ==
  /\ answer' = <<"get", m, IF m \in known THEN m ELSE NotFound>>
  /\ UNCHANGED <<held, wanted, known>>

End ==
  /\ wanted' = {} /\ known' = {}
  /\ answer' = NoAnswer
  /\ UNCHANGED held

Next ==
  \/ \E a \in Holders, m \in MarketIds : Add(a, m) \/ Remove(a, m)
  \/ \E named \in SUBSET MarketIds, accounts \in SUBSET Holders : Begin(named, accounts)
  \/ \E m \in MarketIds : Get(m)
  \/ Load \/ End

vars == <<held, wanted, known, answer>>
Spec == Init /\ [][Next]_vars
=============================================================================

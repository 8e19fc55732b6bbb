----------------------- MODULE OperationBuilderProofs -----------------------
(***************************************************************************)
(* What the methods that build an operation do to its lists: whatever is   *)
(* added, the actions that were there keep their meaning, and each new one *)
(* means what was asked for or signed.  The lemmas here serve the proofs   *)
(* about AccountOperation and about SignedOperationProxy.                  *)
(***************************************************************************)
EXTENDS OperationBuilder, WellFoundedInduction, TLAPS

-----------------------------------------------------------------------------
(* Induction                                                               *)

(***************************************************************************)
(* Every set of natural numbers that is not empty has a least element.     *)
(***************************************************************************)
LEMMA LeastCount ==
  ASSUME NEW T \in SUBSET Nat, T # {}
  PROVE  \E n \in T : \A m \in T : n <= m
  <1> DEFINE R == OpToRel(<, Nat)
  <1>1. PICK n \in T : \A m \in T : ~ (<<m, n>> \in R)
    <2>1. IsWellFoundedOn(R, Nat)
      BY NatLessThanWellFounded
    <2> HIDE DEF R
    <2> QED BY <2>1, WFMin
  <1>2. ASSUME NEW m \in T
        PROVE  n <= m
    <2>1. n \in Nat /\ m \in Nat
      OBVIOUS
    <2>2. m < n => <<m, n>> \in R
      BY <2>1 DEF OpToRel
    <2>3. ~(m < n)
      BY <1>1, <2>2
    <2> QED BY <2>1, <2>3
  <1> QED BY <1>2

(***************************************************************************)
(* A set of natural numbers with 0 and all its successors is Nat.          *)
(***************************************************************************)
LEMMA CountInduction ==
  ASSUME NEW N, 0 \in N, \A n \in Nat : n \in N => n + 1 \in N
  PROVE  \A n \in Nat : n \in N
  <1> SUFFICES ASSUME Nat \ N # {} PROVE FALSE
    OBVIOUS
  <1>1. PICK n \in Nat \ N : \A m \in Nat \ N : n <= m
    BY LeastCount
  <1>2. n # 0 /\ n - 1 \in Nat
    BY <1>1
  <1>3. n - 1 \in N
    BY <1>1, <1>2
  <1>4. n - 1 + 1 = n
    BY <1>1
  <1> QED BY <1>1, <1>2, <1>3, <1>4

-----------------------------------------------------------------------------
(* Lists                                                                   *)

(***************************************************************************)
(* A list has its length and its places.                                   *)
(***************************************************************************)
LEMMA ListPlaces ==
  ASSUME NEW s, IsList(s)
  PROVE  Len(s) \in Nat /\ DOMAIN s = 1 .. Len(s)
  BY DEF IsList

LEMMA EmptyList == IsList(<<>>) /\ Len(<<>>) = 0
  BY DEF IsList

LEMMA ListOfOne ==
  ASSUME NEW e
  PROVE  IsList(<<e>>) /\ Len(<<e>>) = 1 /\ <<e>>[1] = e
  BY DEF IsList

(***************************************************************************)
(* What is a sequence of anything is a list.                               *)
(***************************************************************************)
LEMMA SequencesAreLists ==
  ASSUME NEW S, NEW s \in Seq(S)
  PROVE  IsList(s)
  BY DEF IsList

(***************************************************************************)
(* Appending keeps what is there.                                          *)
(***************************************************************************)
LEMMA AppendToList ==
  ASSUME NEW s, IsList(s), NEW e
  PROVE  LET t == Append(s, e)
         IN  /\ IsList(t)
             /\ Len(t) = Len(s) + 1
             /\ \A i \in 1 .. Len(s) : t[i] = s[i]
             /\ t[Len(s) + 1] = e
  <1> DEFINE S == {s[i] : i \in DOMAIN s} \cup {e}
             t == Append(s, e)
  <1>1. s \in Seq(S) /\ e \in S
    BY DEF IsList
  <1> HIDE DEF S
  <1>2. /\ t \in Seq(S)
        /\ Len(t) = Len(s) + 1
        /\ \A i \in 1 .. Len(s) : t[i] = s[i]
        /\ t[Len(s) + 1] = e
    BY <1>1
  <1>3. IsList(t)
    BY <1>2, SequencesAreLists
  <1> QED BY <1>2, <1>3

(***************************************************************************)
(* Of two lists joined, the elements are those of the two.                 *)
(***************************************************************************)
LEMMA JoinLists ==
  ASSUME NEW s, IsList(s), NEW t, IsList(t)
  PROVE  LET u == s \o t
         IN  /\ IsList(u)
             /\ Len(u) = Len(s) + Len(t)
             /\ \A i \in 1 .. Len(s) : u[i] = s[i]
             /\ \A i \in Len(s) + 1 .. Len(s) + Len(t) : u[i] = t[i - Len(s)]
  <1> DEFINE S == {s[i] : i \in DOMAIN s} \cup {t[i] : i \in DOMAIN t}
             u == s \o t
  <1>1. s \in Seq(S) /\ t \in Seq(S)
    BY DEF IsList
  <1> HIDE DEF S
  <1>2. /\ u \in Seq(S)
        /\ Len(u) = Len(s) + Len(t)
        /\ \A i \in 1 .. Len(s) : u[i] = s[i]
        /\ \A i \in Len(s) + 1 .. Len(s) + Len(t) : u[i] = t[i - Len(s)]
    BY <1>1
  <1>3. IsList(u)
    BY <1>2, SequencesAreLists
  <1> QED BY <1>2, <1>3

-----------------------------------------------------------------------------
(* The object                                                              *)

IsObject(op) ==
  /\ op = [accounts |-> op.accounts, actions |-> op.actions,
           auths |-> op.auths, proxy |-> op.proxy,
           committed |-> op.committed]
  /\ IsList(op.actions)
  /\ IsList(op.auths)

\* The object new has more actions and accounts than op, no more.
OnlyAdds(new, op) == IsObject(new) /\ new.auths = op.auths

LEMMA ArgsAreAdded ==
  ASSUME NEW op, IsObject(op), NEW account, NEW args
  PROVE  OnlyAdds(AddActionArgs(op, account, args), op)
  <1> DEFINE actions == Append(op.actions, At(GetAccountId(op.accounts, account),
                                              args))
             accounts == WithAccount(op.accounts, account)
             pushed == [op EXCEPT !.accounts = accounts]
             new == [pushed EXCEPT !.actions = actions]
  <1>1. IsList(actions)
    BY AppendToList DEF IsObject
  <1>2. AddActionArgs(op, account, args) = IF op.committed THEN op ELSE new
    BY DEF AddActionArgs, IsObject
  <1> HIDE DEF actions, accounts
  <1>3. op = [accounts |-> op.accounts, actions |-> op.actions,
              auths |-> op.auths, proxy |-> op.proxy,
              committed |-> op.committed]
    BY DEF IsObject
  <1>4. pushed = [accounts |-> accounts, actions |-> op.actions,
                  auths |-> op.auths, proxy |-> op.proxy,
                  committed |-> op.committed]
    BY <1>3
  <1>5. new = [accounts |-> accounts, actions |-> actions,
               auths |-> op.auths, proxy |-> op.proxy,
               committed |-> op.committed]
    <2> HIDE DEF pushed
    <2> QED BY <1>4
  <1> HIDE DEF new
  <1>6. IsObject(new) /\ new.auths = op.auths
    BY <1>1, <1>5 DEF IsObject
  <1> QED BY <1>2, <1>6 DEF OnlyAdds

LEMMA AccountIsPushed ==
  ASSUME NEW op, IsObject(op), NEW account
  PROVE  OnlyAdds([op EXCEPT !.accounts = WithAccount(@, account)], op)
  <1> DEFINE accounts == WithAccount(op.accounts, account)
             new == [op EXCEPT !.accounts = WithAccount(@, account)]
  <1>1. op = [accounts |-> op.accounts, actions |-> op.actions,
              auths |-> op.auths, proxy |-> op.proxy,
              committed |-> op.committed]
    BY DEF IsObject
  <1>2. new = [accounts |-> accounts, actions |-> op.actions,
               auths |-> op.auths, proxy |-> op.proxy,
               committed |-> op.committed]
    BY <1>1
  <1> HIDE DEF accounts, new
  <1>3. IsObject(new) /\ new.auths = op.auths
    BY <1>2 DEF IsObject
  <1> QED BY <1>3 DEF OnlyAdds, new

LEMMA ActionIsAdded ==
  ASSUME NEW op, IsObject(op), NEW r
  PROVE  OnlyAdds(AddAction(op, r), op)
  <1>1. OnlyAdds(AddCall(op, r), op)
    BY ArgsAreAdded DEF AddCall
  <1>2. OnlyAdds(AddOneAccountAction(op, r), op)
    BY ArgsAreAdded DEF AddOneAccountAction
  <1>3. OnlyAdds(AddTwoAccountAction(op, r), op)
    <2> DEFINE pushed == [op EXCEPT !.accounts = WithAccount(@, r.otherAccount)]
               args == ArgsOf(r, GetAccountId(op.accounts, r.otherAccount))
    <2>1. OnlyAdds(pushed, op)
      BY AccountIsPushed
    <2> HIDE DEF pushed, args
    <2>2. OnlyAdds(AddActionArgs(pushed, r.account, args), pushed)
      BY <2>1, ArgsAreAdded DEF OnlyAdds
    <2>3. AddTwoAccountAction(op, r) = AddActionArgs(pushed, r.account, args)
      BY DEF AddTwoAccountAction, pushed, args
    <2> QED BY <2>1, <2>2, <2>3 DEF OnlyAdds
  <1> QED BY <1>1, <1>2, <1>3 DEF AddAction

LEMMA SignedActionIsAdded ==
  ASSUME NEW op, IsObject(op), NEW action
  PROVE  OnlyAdds(AddSignedAction(op, action), op)
  <1> DEFINE other == action.secondaryAccount
             pushed == IF other.owner = ZeroOwner THEN op
                       ELSE [op EXCEPT !.accounts = WithAccount(@, other)]
             value == Times([abs |-> action.amount.value, isNegative |-> FALSE],
                            action.amount.sign)
             args == [actionType |-> action.actionType,
                      otherAccountId |-> IF other.owner = ZeroOwner THEN 1
                                         ELSE GetAccountId(op.accounts, other),
                      markets |-> action.markets,
                      amount |-> AmountArgs([number |-> value,
                                             unit |-> action.amount.unit]),
                      otherAddress |-> action.otherAddress,
                      data |-> action.data]
  <1>1. OnlyAdds(pushed, op)
    BY AccountIsPushed DEF OnlyAdds
  <1>2. AddSignedAction(op, action)
          = AddActionArgs(pushed, action.primaryAccount, args)
    BY DEF AddSignedAction
  <1> HIDE DEF pushed, args
  <1>3. OnlyAdds(AddActionArgs(pushed, action.primaryAccount, args), pushed)
    BY <1>1, ArgsAreAdded DEF OnlyAdds
  <1> QED BY <1>1, <1>2, <1>3 DEF OnlyAdds

(***************************************************************************)
(* The loop over the actions of a signed operation.                        *)
(***************************************************************************)
AddedNext(committed, action, before) ==
  IF before.threw THEN before
  ELSE IF action.data = BadHex
       THEN [op |-> IF action.secondaryAccount.owner = ZeroOwner
                    THEN before.op
                    ELSE [before.op EXCEPT !.accounts =
                            WithAccount(@, action.secondaryAccount)],
             threw |-> TRUE]
       ELSE [op |-> AddSignedAction(before.op, action), threw |-> committed]

AddedBy(op, actions, n, f) ==
  f = [i \in 0 .. n |-> IF i = 0 THEN [op |-> op, threw |-> FALSE]
                        ELSE AddedNext(op.committed, actions[i], f[i - 1])]

LEMMA AddedExist ==
  ASSUME NEW op, NEW actions
  PROVE  \A n \in Nat : \E f : AddedBy(op, actions, n, f)
  <1> DEFINE N == {n \in Nat : \E f : AddedBy(op, actions, n, f)}
             first == [op |-> op, threw |-> FALSE]
  <1>1. 0 \in N
    <2>1. AddedBy(op, actions, 0, [i \in 0 .. 0 |-> first])
      BY DEF AddedBy
    <2> QED BY <2>1
  <1>2. ASSUME NEW n \in Nat, n \in N
        PROVE  n + 1 \in N
    <2>1. PICK f : AddedBy(op, actions, n, f)
      BY <1>2
    <2> DEFINE g == [i \in 0 .. n + 1 |->
                       IF i = 0 THEN first
                       ELSE AddedNext(op.committed, actions[i], f[i - 1])]
    <2>2. ASSUME NEW i \in 0 .. n + 1, i # 0
          PROVE  g[i - 1] = f[i - 1]
      <3>1. i - 1 \in 0 .. n /\ i - 1 \in 0 .. n + 1
        BY <2>2
      <3> HIDE DEF first
      <3> QED BY <2>1, <3>1 DEF AddedBy, first
    <2>3. g = [i \in 0 .. n + 1 |->
                 IF i = 0 THEN first
                 ELSE AddedNext(op.committed, actions[i], g[i - 1])]
      BY <2>2
    <2> HIDE DEF g
    <2>4. AddedBy(op, actions, n + 1, g)
      BY <2>3 DEF AddedBy
    <2> QED BY <2>4
  <1> HIDE DEF N
  <1>3. \A n \in Nat : n \in N
    BY <1>1, <1>2, CountInduction
  <1> QED BY <1>3 DEF N

LEMMA SignedActionsAreAdded ==
  ASSUME NEW op, IsObject(op), NEW actions, Len(actions) \in Nat
  PROVE  OnlyAdds(AddSignedActions(op, actions), op)
  <1> DEFINE n == Len(actions)
             f == CHOOSE g : AddedBy(op, actions, n, g)
             N == {i \in Nat : i <= n => OnlyAdds(f[i].op, op)}
  <1>1. AddSignedActions(op, actions) = f[n].op
    BY DEF AddSignedActions, AddedBy, AddedNext
  <1>2. AddedBy(op, actions, n, f)
    BY AddedExist
  <1> HIDE DEF f
  <1> HIDE DEF n
  <1>3. n \in Nat
    BY DEF n
  <1>4. 0 \in N
    BY <1>2, <1>3 DEF AddedBy, OnlyAdds
  <1>5. ASSUME NEW i \in Nat, i \in N
        PROVE  i + 1 \in N
    <2> SUFFICES ASSUME i + 1 <= n
                 PROVE  OnlyAdds(f[i + 1].op, op)
      OBVIOUS
    <2>1. OnlyAdds(f[i].op, op)
      BY <1>3, <1>5
    <2>2. f[i + 1] = AddedNext(op.committed, actions[i + 1], f[i])
      <3>1. i + 1 \in 0 .. n /\ i + 1 # 0 /\ (i + 1) - 1 = i
        BY <1>3
      <3> QED BY <1>2, <3>1 DEF AddedBy
    <2> DEFINE before == f[i]
               action == actions[i + 1]
               pushed == [before.op EXCEPT !.accounts =
                            WithAccount(@, action.secondaryAccount)]
               added == AddSignedAction(before.op, action)
    <2>3. OnlyAdds(pushed, before.op)
      BY <2>1, AccountIsPushed DEF OnlyAdds
    <2>4. OnlyAdds(added, before.op)
      BY <2>1, SignedActionIsAdded DEF OnlyAdds
    <2>5. f[i + 1].op \in {before.op, pushed, added}
      BY <2>2 DEF AddedNext
    <2> HIDE DEF before, pushed, added
    <2> QED BY <2>1, <2>3, <2>4, <2>5 DEF OnlyAdds, before
  <1> HIDE DEF N
  <1>6. n \in N
    BY <1>3, <1>4, <1>5, CountInduction
  <1> QED BY <1>1, <1>3, <1>6 DEF N

-----------------------------------------------------------------------------
(* The authorizations                                                      *)

Gap(from, to) == IF to > from THEN <<EmptyAuth(to - from)>> ELSE <<>>

EndOf(op, i) ==
  IF i = 0 THEN 0 ELSE op.auths[i].startIndex + op.auths[i].numActions

AuthData(op, i) ==
  [numActions |-> op.auths[i].numActions, header |-> op.auths[i].header,
   signature |-> op.auths[i].signature]

GeneratedBy(op, n, f) ==
  f = [i \in 0 .. n |->
         IF i = 0 THEN <<>>
         ELSE f[i - 1] \o Gap(EndOf(op, i - 1), op.auths[i].startIndex)
              \o <<AuthData(op, i)>>]

LEMMA GeneratedExist ==
  ASSUME NEW op
  PROVE  \A n \in Nat : \E f : GeneratedBy(op, n, f)
  <1> DEFINE N == {n \in Nat : \E f : GeneratedBy(op, n, f)}
             Body(h, i) ==
               IF i = 0 THEN <<>>
               ELSE h[i - 1] \o Gap(EndOf(op, i - 1), op.auths[i].startIndex)
                    \o <<AuthData(op, i)>>
  <1>1. 0 \in N
    <2>1. GeneratedBy(op, 0, [i \in 0 .. 0 |-> <<>>])
      BY DEF GeneratedBy
    <2> QED BY <2>1
  <1>2. ASSUME NEW n \in Nat, n \in N
        PROVE  n + 1 \in N
    <2>1. PICK f : GeneratedBy(op, n, f)
      BY <1>2
    <2> DEFINE g == [i \in 0 .. n + 1 |-> Body(f, i)]
    <2>2. ASSUME NEW i \in 0 .. n + 1, i # 0
          PROVE  g[i - 1] = f[i - 1]
      <3>1. i - 1 \in 0 .. n /\ i - 1 \in 0 .. n + 1
        BY <2>2
      <3> QED BY <2>1, <3>1 DEF GeneratedBy
    <2>3. g = [i \in 0 .. n + 1 |-> Body(g, i)]
      BY <2>2
    <2> HIDE DEF g
    <2>4. GeneratedBy(op, n + 1, g)
      BY <2>3 DEF GeneratedBy
    <2> QED BY <2>4
  <1> HIDE DEF N
  <1>3. \A n \in Nat : n \in N
    BY <1>1, <1>2, CountInduction
  <1> QED BY <1>3 DEF N

(***************************************************************************)
(* Where authorizations start.                                             *)
(***************************************************************************)
StartBy(auths, k, f) ==
  f = [j \in 1 .. k |-> IF j = 1 THEN 0 ELSE f[j - 1] + auths[j - 1].numActions]

LEMMA StartsExist ==
  ASSUME NEW auths
  PROVE  \A k \in Nat : \E f : StartBy(auths, k, f)
  <1> DEFINE N == {k \in Nat : \E f : StartBy(auths, k, f)}
             Body(h, j) == IF j = 1 THEN 0 ELSE h[j - 1] + auths[j - 1].numActions
  <1>1. 0 \in N
    <2>1. StartBy(auths, 0, [j \in 1 .. 0 |-> 0])
      BY DEF StartBy
    <2> QED BY <2>1
  <1>2. ASSUME NEW k \in Nat, k \in N
        PROVE  k + 1 \in N
    <2>1. PICK f : StartBy(auths, k, f)
      BY <1>2
    <2> DEFINE g == [j \in 1 .. k + 1 |-> Body(f, j)]
    <2>2. ASSUME NEW j \in 1 .. k + 1, j # 1
          PROVE  g[j - 1] = f[j - 1]
      <3>1. j - 1 \in 1 .. k /\ j - 1 \in 1 .. k + 1
        BY <2>2
      <3> QED BY <2>1, <3>1 DEF StartBy
    <2>3. g = [j \in 1 .. k + 1 |-> Body(g, j)]
      BY <2>2
    <2> HIDE DEF g
    <2>4. StartBy(auths, k + 1, g)
      BY <2>3 DEF StartBy
    <2> QED BY <2>4
  <1> HIDE DEF N
  <1>3. \A k \in Nat : k \in N
    BY <1>1, <1>2, CountInduction
  <1> QED BY <1>3 DEF N

LEMMA StartsAgree ==
  ASSUME NEW auths, NEW k \in Nat, NEW f, StartBy(auths, k, f),
         NEW g, StartBy(auths, k + 1, g)
  PROVE  \A j \in 1 .. k : f[j] = g[j]
  <1> DEFINE N == {j \in Nat : j \in 1 .. k => f[j] = g[j]}
  <1>1. 0 \in N
    OBVIOUS
  <1>2. ASSUME NEW j \in Nat, j \in N
        PROVE  j + 1 \in N
    <2> SUFFICES ASSUME j + 1 \in 1 .. k
                 PROVE  f[j + 1] = g[j + 1]
      OBVIOUS
    <2>1. j + 1 \in 1 .. k + 1 /\ (j + 1) - 1 = j
      OBVIOUS
    <2>2. /\ f[j + 1] = IF j + 1 = 1 THEN 0 ELSE f[j] + auths[j].numActions
          /\ g[j + 1] = IF j + 1 = 1 THEN 0 ELSE g[j] + auths[j].numActions
      BY <2>1 DEF StartBy
    <2>3. j + 1 # 1 => f[j] = g[j]
      BY <1>2
    <2> QED BY <2>2, <2>3
  <1> HIDE DEF N
  <1>3. \A j \in Nat : j \in N
    BY <1>1, <1>2, CountInduction
  <1> QED BY <1>3 DEF N


-----------------------------------------------------------------------------
(* What the lists mean                                                     *)

IsActionType(type) == type \in OneAccountTypes \cup TwoAccountTypes

LEMMA ActionTypes ==
  /\ OneAccountTypes \cap TwoAccountTypes = {}
  /\ "Call" \in OneAccountTypes /\ "Sell" \in OneAccountTypes
  BY DEF OneAccountTypes, TwoAccountTypes

(***************************************************************************)
(* What an action by places says in a list of accounts; what a request and *)
(* an action of a signed operation say by themselves.                      *)
(***************************************************************************)
Says(accounts, args) ==
  [type |-> args.actionType, account |-> AccountMeant(accounts[args.accountId]),
   other |-> IF args.actionType \in OneAccountTypes THEN <<>>
             ELSE AccountMeant(accounts[args.otherAccountId]),
   markets |-> args.markets, amount |-> args.amount,
   address |-> args.otherAddress, data |-> args.data]

SaysFor(accounts, account, args) ==
  [type |-> args.actionType, account |-> AccountMeant(account),
   other |-> IF args.actionType \in OneAccountTypes THEN <<>>
             ELSE AccountMeant(accounts[args.otherAccountId]),
   markets |-> args.markets, amount |-> args.amount,
   address |-> args.otherAddress, data |-> args.data]

SaysRequest(r) ==
  [type |-> r.kind, account |-> AccountMeant(r.account),
   other |-> IF r.kind \in OneAccountTypes THEN <<>>
             ELSE AccountMeant(r.otherAccount),
   markets |-> IF r.kind = "Call" THEN <<NoMarket, NoMarket>> ELSE MarketsOf(r),
   amount |-> IF r.kind = "Call" THEN NoAmount ELSE AmountArgs(r.amount),
   address |-> r.otherAddress, data |-> r.data]

SignedAmount(amount) ==
  AmountArgs([number |-> Times([abs |-> amount.value, isNegative |-> FALSE],
                               amount.sign),
              unit |-> amount.unit])

SaysSigned(action) ==
  [type |-> action.actionType, account |-> AccountMeant(action.primaryAccount),
   other |-> IF action.actionType \in OneAccountTypes THEN <<>>
             ELSE AccountMeant(action.secondaryAccount),
   markets |-> action.markets, amount |-> SignedAmount(action.amount),
   address |-> action.otherAddress, data |-> action.data]

(***************************************************************************)
(* No account is listed twice, and every action has its accounts.          *)
(***************************************************************************)
NoAccountTwice(accounts) ==
  \A i, j \in DOMAIN accounts : SameAccount(accounts[i], accounts[j]) => i = j

HasAccounts(accounts, args) ==
  /\ IsActionType(args.actionType)
  /\ args.accountId \in DOMAIN accounts
  /\ args.actionType \in TwoAccountTypes => args.otherAccountId \in DOMAIN accounts

IsSound(op) ==
  /\ IsObject(op)
  /\ IsList(op.accounts)
  /\ NoAccountTwice(op.accounts)
  /\ \A i \in DOMAIN op.actions : HasAccounts(op.accounts, op.actions[i])

(***************************************************************************)
(* The object new says all that op says, and then k things more, those of  *)
(* the list said.                                                          *)
(***************************************************************************)
Adds(new, op, k, said) ==
  /\ IsSound(new)
  /\ Len(new.actions) = Len(op.actions) + k
  /\ \A i \in 1 .. Len(op.actions) :
       Says(new.accounts, new.actions[i]) = Says(op.accounts, op.actions[i])
  /\ \A j \in 1 .. k :
       Says(new.accounts, new.actions[Len(op.actions) + j]) = said[j]
  /\ new.auths = op.auths
  /\ new.proxy = op.proxy
  /\ new.committed = op.committed

LEMMA AddsNothing ==
  ASSUME NEW op, IsSound(op), NEW said
  PROVE  Adds(op, op, 0, said)
  <1>1. Len(op.actions) \in Nat
    BY ListPlaces DEF IsSound, IsObject
  <1> QED BY <1>1 DEF Adds

LEMMA AddsMore ==
  ASSUME NEW op, NEW k \in Nat, NEW said, NEW mid, Adds(mid, op, k, said),
         NEW l \in Nat, NEW more, NEW new, Adds(new, mid, l, more),
         IsSound(op), \A j \in 1 .. l : more[j] = said[k + j]
  PROVE  Adds(new, op, k + l, said)
  <1> DEFINE n == Len(op.actions)
             m == Len(mid.actions)
             S(x, i) == Says(x.accounts, x.actions[i])
  <1>1. n \in Nat
    BY ListPlaces DEF IsSound, IsObject
  <1>2. m = n + k /\ Len(new.actions) = m + l
    BY DEF Adds
  <1>3. \A i \in 1 .. n : S(mid, i) = S(op, i)
    BY DEF Adds
  <1>4. \A j \in 1 .. k : S(mid, n + j) = said[j]
    BY DEF Adds
  <1>5. \A i \in 1 .. m : S(new, i) = S(mid, i)
    BY DEF Adds
  <1>6. \A j \in 1 .. l : S(new, m + j) = said[k + j]
    BY DEF Adds
  <1> HIDE DEF S, n, m
  <1>7. \A i \in 1 .. n : S(new, i) = S(op, i)
    BY <1>1, <1>2, <1>3, <1>5
  <1>8. ASSUME NEW j \in 1 .. k + l
        PROVE  S(new, n + j) = said[j]
    <2>1. CASE j \in 1 .. k
      <3>1. n + j \in 1 .. m
        BY <1>1, <1>2, <2>1
      <3> QED BY <1>4, <1>5, <2>1, <3>1
    <2>2. CASE j \notin 1 .. k
      <3> DEFINE i == j - k
      <3>1. i \in 1 .. l /\ m + i = n + j /\ k + i = j
        BY <1>1, <1>2, <2>2
      <3> HIDE DEF i
      <3>2. S(new, m + i) = said[k + i]
        BY <1>6, <3>1
      <3> QED BY <3>1, <3>2
    <2> QED BY <2>1, <2>2
  <1>9. Len(new.actions) = n + (k + l)
    BY <1>1, <1>2
  <1>10. /\ IsSound(new) /\ new.auths = op.auths /\ new.proxy = op.proxy
         /\ new.committed = op.committed
    BY DEF Adds
  <1> QED BY <1>7, <1>8, <1>9, <1>10 DEF Adds, S, n

(***************************************************************************)
(* getAccountId: a place of the account, in a list that has it once, with  *)
(* everything that was there where it was.                                 *)
(***************************************************************************)
LEMMA AccountHasPlace ==
  ASSUME NEW accounts, IsList(accounts), NoAccountTwice(accounts), NEW account
  PROVE  LET new == WithAccount(accounts, account)
             id  == GetAccountId(accounts, account)
         IN  /\ IsList(new) /\ NoAccountTwice(new)
             /\ DOMAIN accounts \subseteq DOMAIN new
             /\ \A i \in DOMAIN accounts : new[i] = accounts[i]
             /\ id \in DOMAIN new
             /\ AccountMeant(new[id]) = AccountMeant(account)
  <1> DEFINE new == WithAccount(accounts, account)
             id  == GetAccountId(accounts, account)
             P   == Places(accounts, account)
             n   == Len(accounts)
  <1>1. n \in Nat /\ DOMAIN accounts = 1 .. n
    BY ListPlaces
  <1>2. CASE P # {}
    <2>1. P \in SUBSET Nat
      BY <1>1 DEF Places
    <2>2. \E i \in P : \A j \in P : i <= j
      BY <1>2, <2>1, LeastCount
    <2>3. id \in P
      BY <1>2, <2>2 DEF GetAccountId, FirstPlace
    <2>4. new = accounts
      BY <1>2 DEF WithAccount
    <2> HIDE DEF id, new
    <2> QED BY <2>3, <2>4 DEF Places, SameAccount, id, new
  <1>3. CASE P = {}
    <2>1. new = Append(accounts, account) /\ id = n + 1
      BY <1>3 DEF WithAccount, GetAccountId
    <2>2. /\ IsList(new) /\ Len(new) = n + 1
          /\ \A i \in 1 .. n : new[i] = accounts[i]
          /\ new[n + 1] = account
      BY <2>1, AppendToList
    <2>3. DOMAIN new = 1 .. n + 1
      BY <2>2, ListPlaces
    <2>4. \A i \in 1 .. n : ~SameAccount(accounts[i], account)
      BY <1>1, <1>3 DEF Places
    <2> HIDE DEF new, id, n
    <2>5. ASSUME NEW i \in DOMAIN new, NEW j \in DOMAIN new,
                 SameAccount(new[i], new[j])
          PROVE  i = j
      <3>1. CASE i \in 1 .. n /\ j \in 1 .. n
        BY <1>1, <2>2, <2>5, <3>1 DEF NoAccountTwice
      <3>2. CASE i \in 1 .. n /\ j = n + 1
        BY <2>2, <2>4, <2>5, <3>2
      <3>3. CASE i = n + 1 /\ j \in 1 .. n
        BY <2>2, <2>4, <2>5, <3>3 DEF SameAccount
      <3>4. CASE i = n + 1 /\ j = n + 1
        BY <3>4
      <3>5. /\ i \in 1 .. n \/ i = n + 1
            /\ j \in 1 .. n \/ j = n + 1
        BY <1>1, <2>3
      <3> QED BY <3>1, <3>2, <3>3, <3>4, <3>5
    <2>6. NoAccountTwice(new)
      BY <2>5 DEF NoAccountTwice
    <2>7. id \in DOMAIN new /\ new[id] = account
      BY <1>1, <2>1, <2>2, <2>3
    <2>8. /\ DOMAIN accounts \subseteq DOMAIN new
          /\ \A i \in DOMAIN accounts : new[i] = accounts[i]
      BY <1>1, <2>2, <2>3
    <2> QED BY <2>2, <2>6, <2>7, <2>8 DEF new, id
  <1> QED BY <1>2, <1>3

LEMMA SaysStays ==
  ASSUME NEW accounts, NEW args, HasAccounts(accounts, args), NEW new,
         DOMAIN accounts \subseteq DOMAIN new,
         \A i \in DOMAIN accounts : new[i] = accounts[i]
  PROVE  HasAccounts(new, args) /\ Says(new, args) = Says(accounts, args)
  <1>1. new[args.accountId] = accounts[args.accountId]
    BY DEF HasAccounts
  <1>2. args.actionType \notin OneAccountTypes =>
          new[args.otherAccountId] = accounts[args.otherAccountId]
    BY DEF HasAccounts, IsActionType
  <1>3. HasAccounts(new, args)
    BY DEF HasAccounts
  <1> QED BY <1>1, <1>2, <1>3 DEF Says

LEMMA PushAdds ==
  ASSUME NEW op, IsSound(op), NEW account, NEW said
  PROVE  LET new == [op EXCEPT !.accounts = WithAccount(@, account)]
         IN  /\ Adds(new, op, 0, said)
             /\ new.accounts = WithAccount(op.accounts, account)
             /\ new.actions = op.actions
  <1> DEFINE accounts == WithAccount(op.accounts, account)
             new == [op EXCEPT !.accounts = WithAccount(@, account)]
  <1>1. op = [accounts |-> op.accounts, actions |-> op.actions,
              auths |-> op.auths, proxy |-> op.proxy,
              committed |-> op.committed]
    BY DEF IsSound, IsObject
  <1>2. new = [accounts |-> accounts, actions |-> op.actions,
               auths |-> op.auths, proxy |-> op.proxy,
               committed |-> op.committed]
    BY <1>1
  <1>3. /\ IsList(accounts) /\ NoAccountTwice(accounts)
        /\ DOMAIN op.accounts \subseteq DOMAIN accounts
        /\ \A i \in DOMAIN op.accounts : accounts[i] = op.accounts[i]
    BY AccountHasPlace DEF IsSound
  <1> HIDE DEF accounts, new
  <1>4. /\ new.accounts = accounts /\ new.actions = op.actions
        /\ new.auths = op.auths /\ new.proxy = op.proxy
        /\ new.committed = op.committed /\ IsObject(new)
    BY <1>2 DEF IsSound, IsObject
  <1>5. \A i \in DOMAIN op.actions :
          /\ HasAccounts(accounts, op.actions[i])
          /\ Says(accounts, op.actions[i]) = Says(op.accounts, op.actions[i])
    BY <1>3, SaysStays DEF IsSound
  <1>6. Len(op.actions) \in Nat /\ DOMAIN op.actions = 1 .. Len(op.actions)
    BY ListPlaces DEF IsSound, IsObject
  <1>7. IsSound(new)
    BY <1>3, <1>4, <1>5 DEF IsSound
  <1> QED BY <1>4, <1>5, <1>6, <1>7 DEF Adds, new, accounts

LEMMA ArgsAdd ==
  ASSUME NEW op, IsSound(op), ~op.committed, NEW account, NEW args,
         IsActionType(args.actionType),
         args.actionType \in TwoAccountTypes =>
           args.otherAccountId \in DOMAIN op.accounts,
         NEW said, said[1] = SaysFor(op.accounts, account, args)
  PROVE  Adds(AddActionArgs(op, account, args), op, 1, said)
  <1> DEFINE accounts == WithAccount(op.accounts, account)
             id == GetAccountId(op.accounts, account)
             action == At(id, args)
             actions == Append(op.actions, action)
             pushed == [op EXCEPT !.accounts = WithAccount(@, account)]
             new == [pushed EXCEPT !.actions = actions]
             n == Len(op.actions)
  <1>1. op = [accounts |-> op.accounts, actions |-> op.actions,
              auths |-> op.auths, proxy |-> op.proxy,
              committed |-> op.committed]
    BY DEF IsSound, IsObject
  <1>2. AddActionArgs(op, account, args) = new
    <2>1. AddActionArgs(op, account, args)
            = [op EXCEPT !.accounts = accounts, !.actions = actions]
      BY DEF AddActionArgs
    <2> QED BY <1>1, <2>1
  <1>3. /\ Adds(pushed, op, 0, said) /\ pushed.accounts = accounts
        /\ pushed.actions = op.actions
    BY PushAdds
  <1>4. /\ DOMAIN op.accounts \subseteq DOMAIN accounts
        /\ \A i \in DOMAIN op.accounts : accounts[i] = op.accounts[i]
        /\ id \in DOMAIN accounts
        /\ AccountMeant(accounts[id]) = AccountMeant(account)
    BY AccountHasPlace DEF IsSound
  <1>5. /\ action.actionType = args.actionType /\ action.accountId = id
        /\ action.otherAccountId = args.otherAccountId
        /\ action.markets = args.markets /\ action.amount = args.amount
        /\ action.otherAddress = args.otherAddress /\ action.data = args.data
    BY DEF At
  <1> HIDE DEF accounts, id, action
  <1>6. HasAccounts(accounts, action)
    BY <1>4, <1>5 DEF HasAccounts
  <1>7. Says(accounts, action) = said[1]
    <2>1. action.actionType \notin OneAccountTypes =>
            accounts[args.otherAccountId] = op.accounts[args.otherAccountId]
      BY <1>4, <1>5 DEF IsActionType
    <2>2. Says(accounts, action) = SaysFor(op.accounts, account, args)
      BY <1>4, <1>5, <2>1 DEF Says, SaysFor
    <2> QED BY <2>2
  <1>8. /\ IsList(actions) /\ Len(actions) = n + 1
        /\ \A i \in 1 .. n : actions[i] = op.actions[i]
        /\ actions[n + 1] = action
        /\ n \in Nat /\ DOMAIN op.actions = 1 .. n
    BY AppendToList, ListPlaces DEF IsSound, IsObject
  <1>9. DOMAIN actions = 1 .. n + 1
    BY <1>8, ListPlaces
  <1> HIDE DEF actions, pushed, n
  <1>10. /\ IsSound(pushed) /\ IsObject(pushed)
         /\ IsList(accounts) /\ NoAccountTwice(accounts)
         /\ \A i \in 1 .. n : HasAccounts(accounts, op.actions[i])
         /\ \A i \in 1 .. n :
              Says(accounts, op.actions[i]) = Says(op.accounts, op.actions[i])
    BY <1>3, <1>8 DEF Adds, IsSound, n
  <1>11. /\ new.accounts = accounts /\ new.actions = actions
         /\ new.auths = op.auths /\ new.proxy = op.proxy
         /\ new.committed = op.committed
         /\ new = [accounts |-> new.accounts, actions |-> new.actions,
                   auths |-> new.auths, proxy |-> new.proxy,
                   committed |-> new.committed]
    <2>1. pushed = [accounts |-> accounts, actions |-> op.actions,
                    auths |-> op.auths, proxy |-> op.proxy,
                    committed |-> op.committed]
      BY <1>3, <1>10 DEF IsObject, Adds
    <2>2. new = [accounts |-> accounts, actions |-> actions,
                 auths |-> op.auths, proxy |-> op.proxy,
                 committed |-> op.committed]
      BY <2>1
    <2> HIDE DEF new
    <2> QED BY <2>2
  <1> HIDE DEF new
  <1>12. \A i \in DOMAIN actions : HasAccounts(accounts, actions[i])
    <2> SUFFICES ASSUME NEW i \in DOMAIN actions
                 PROVE  HasAccounts(accounts, actions[i])
      OBVIOUS
    <2>1. i \in 1 .. n \/ i = n + 1
      BY <1>8, <1>9
    <2> QED BY <1>6, <1>8, <1>10, <2>1
  <1>13. IsSound(new)
    BY <1>8, <1>10, <1>11, <1>12 DEF IsSound, IsObject
  <1>14. \A i \in 1 .. n : Says(accounts, actions[i]) = Says(op.accounts, op.actions[i])
    BY <1>8, <1>10
  <1>15. \A j \in 1 .. 1 : Says(accounts, actions[n + j]) = said[j]
    BY <1>7, <1>8
  <1> QED BY <1>2, <1>8, <1>11, <1>13, <1>14, <1>15 DEF Adds, n

(***************************************************************************)
(* A method for a request adds one action, which says what was passed.     *)
(***************************************************************************)
LEMMA PushedThenArgs ==
  ASSUME NEW op, IsSound(op), ~op.committed, NEW other, NEW account, NEW args,
         IsActionType(args.actionType),
         args.otherAccountId = GetAccountId(op.accounts, other),
         NEW said,
         said[1] = [type |-> args.actionType, account |-> AccountMeant(account),
                    other |-> IF args.actionType \in OneAccountTypes THEN <<>>
                              ELSE AccountMeant(other),
                    markets |-> args.markets, amount |-> args.amount,
                    address |-> args.otherAddress, data |-> args.data]
  PROVE  Adds(AddActionArgs([op EXCEPT !.accounts = WithAccount(@, other)],
                            account, args), op, 1, said)
  <1> DEFINE pushed == [op EXCEPT !.accounts = WithAccount(@, other)]
  <1>1. /\ Adds(pushed, op, 0, said)
        /\ pushed.accounts = WithAccount(op.accounts, other)
    BY PushAdds
  <1>2. /\ args.otherAccountId \in DOMAIN pushed.accounts
        /\ AccountMeant(pushed.accounts[args.otherAccountId])
             = AccountMeant(other)
    BY <1>1, AccountHasPlace DEF IsSound
  <1> HIDE DEF pushed
  <1>3. IsSound(pushed) /\ ~pushed.committed
    BY <1>1 DEF Adds
  <1>4. said[1] = SaysFor(pushed.accounts, account, args)
    BY <1>2 DEF SaysFor
  <1>5. Adds(AddActionArgs(pushed, account, args), pushed, 1, said)
    BY <1>2, <1>3, <1>4, ArgsAdd
  <1>6. Adds(AddActionArgs(pushed, account, args), op, 0 + 1, said)
    BY <1>1, <1>5, AddsMore
  <1> QED BY <1>6 DEF pushed

LEMMA ActionAdds ==
  ASSUME NEW op, IsSound(op), ~op.committed, NEW r, IsActionType(r.kind),
         NEW said, said[1] = SaysRequest(r)
  PROVE  Adds(AddAction(op, r), op, 1, said)
  <1>1. CASE r.kind = "Call"
    <2> DEFINE args == [actionType |-> "Call", otherAccountId |-> 1,
                        markets |-> <<NoMarket, NoMarket>>, amount |-> NoAmount,
                        otherAddress |-> r.otherAddress, data |-> r.data]
    <2>0. r.kind \notin TwoAccountTypes
      BY <1>1 DEF TwoAccountTypes
    <2>1. AddAction(op, r) = AddActionArgs(op, r.account, args)
      BY <1>1, <2>0 DEF AddAction, AddCall
    <2>2. /\ IsActionType(args.actionType)
          /\ args.actionType \notin TwoAccountTypes
          /\ args.actionType \in OneAccountTypes
      BY ActionTypes DEF IsActionType
    <2>3. said[1] = SaysFor(op.accounts, r.account, args)
      BY <1>1, <2>2 DEF SaysFor, SaysRequest
    <2> HIDE DEF args
    <2> QED BY <2>1, <2>2, <2>3, ArgsAdd
  <1>2. CASE r.kind # "Call" /\ r.kind \in OneAccountTypes
    <2> DEFINE args == ArgsOf(r, 1)
    <2>1. r.kind \notin TwoAccountTypes
      BY <1>2, ActionTypes
    <2>2. AddAction(op, r) = AddActionArgs(op, r.account, args)
      BY <1>2, <2>1 DEF AddAction, AddOneAccountAction
    <2>3. args.actionType = r.kind
      BY DEF ArgsOf
    <2>4. said[1] = SaysFor(op.accounts, r.account, args)
      BY <1>2 DEF SaysFor, SaysRequest, ArgsOf
    <2> HIDE DEF args
    <2> QED BY <2>1, <2>2, <2>3, <2>4, ArgsAdd
  <1>3. CASE r.kind # "Call" /\ r.kind \in TwoAccountTypes
    <2> DEFINE args == ArgsOf(r, GetAccountId(op.accounts, r.otherAccount))
               pushed == [op EXCEPT !.accounts = WithAccount(@, r.otherAccount)]
    <2>1. r.kind \notin OneAccountTypes
      BY <1>3, ActionTypes
    <2>2. AddAction(op, r) = AddActionArgs(pushed, r.account, args)
      BY <1>3 DEF AddAction, AddTwoAccountAction
    <2>3. args.actionType = r.kind
          /\ args.otherAccountId = GetAccountId(op.accounts, r.otherAccount)
      BY DEF ArgsOf
    <2>4. said[1] = [type |-> args.actionType, account |-> AccountMeant(r.account),
                     other |-> IF args.actionType \in OneAccountTypes THEN <<>>
                               ELSE AccountMeant(r.otherAccount),
                     markets |-> args.markets, amount |-> args.amount,
                     address |-> args.otherAddress, data |-> args.data]
      BY <1>3, <2>1 DEF SaysRequest, ArgsOf
    <2> HIDE DEF args
    <2> QED BY <2>2, <2>3, <2>4, PushedThenArgs
  <1> QED BY <1>1, <1>2, <1>3 DEF IsActionType

(***************************************************************************)
(* An action of a signed operation comes through as it was signed; one     *)
(* that needs another account must have it.                                *)
(***************************************************************************)
HasItsAccounts(action) ==
  /\ IsActionType(action.actionType)
  /\ action.actionType \in TwoAccountTypes =>
       action.secondaryAccount.owner # ZeroOwner

LEMMA SignedActionAdds ==
  ASSUME NEW op, IsSound(op), ~op.committed, NEW action, HasItsAccounts(action),
         NEW said, said[1] = SaysSigned(action)
  PROVE  Adds(AddSignedAction(op, action), op, 1, said)
  <1> DEFINE other == action.secondaryAccount
             value == Times([abs |-> action.amount.value, isNegative |-> FALSE],
                            action.amount.sign)
             args == [actionType |-> action.actionType,
                      otherAccountId |-> IF other.owner = ZeroOwner THEN 1
                                         ELSE GetAccountId(op.accounts, other),
                      markets |-> action.markets,
                      amount |-> AmountArgs([number |-> value,
                                             unit |-> action.amount.unit]),
                      otherAddress |-> action.otherAddress,
                      data |-> action.data]
             pushed == IF other.owner = ZeroOwner THEN op
                       ELSE [op EXCEPT !.accounts = WithAccount(@, other)]
  <1>1. AddSignedAction(op, action)
          = AddActionArgs(pushed, action.primaryAccount, args)
    BY DEF AddSignedAction
  <1>2. /\ args.actionType = action.actionType
        /\ args.markets = action.markets
        /\ args.amount = SignedAmount(action.amount)
        /\ args.otherAddress = action.otherAddress /\ args.data = action.data
        /\ args.otherAccountId = IF other.owner = ZeroOwner THEN 1
                                 ELSE GetAccountId(op.accounts, other)
    BY DEF SignedAmount
  <1> HIDE DEF args
  <1>3. CASE other.owner = ZeroOwner
    <2>1. /\ IsActionType(args.actionType)
          /\ args.actionType \notin TwoAccountTypes
          /\ args.actionType \in OneAccountTypes
      BY <1>2, <1>3 DEF HasItsAccounts, IsActionType
    <2>2. said[1] = SaysFor(op.accounts, action.primaryAccount, args)
      BY <1>2, <2>1 DEF SaysFor, SaysSigned
    <2>3. Adds(AddActionArgs(op, action.primaryAccount, args), op, 1, said)
      BY <2>1, <2>2, ArgsAdd
    <2> QED BY <1>1, <1>3, <2>3
  <1>4. CASE other.owner # ZeroOwner
    <2>1. said[1] = [type |-> args.actionType,
                     account |-> AccountMeant(action.primaryAccount),
                     other |-> IF args.actionType \in OneAccountTypes THEN <<>>
                               ELSE AccountMeant(other),
                     markets |-> args.markets, amount |-> args.amount,
                     address |-> args.otherAddress, data |-> args.data]
      BY <1>2 DEF SaysSigned
    <2>2. IsActionType(args.actionType)
      BY <1>2 DEF HasItsAccounts
    <2>3. args.otherAccountId = GetAccountId(op.accounts, other)
      BY <1>2, <1>4
    <2>4. AddSignedAction(op, action)
            = AddActionArgs([op EXCEPT !.accounts = WithAccount(@, other)],
                            action.primaryAccount, args)
      BY <1>1, <1>4
    <2> HIDE DEF other, pushed
    <2>5. Adds(AddActionArgs([op EXCEPT !.accounts = WithAccount(@, other)],
                             action.primaryAccount, args), op, 1, said)
      BY <2>1, <2>2, <2>3, PushedThenArgs
    <2> QED BY <2>4, <2>5
  <1> QED BY <1>3, <1>4

\* A committed object takes accounts, but no actions.
LEMMA CommittedAddsNothing ==
  ASSUME NEW op, IsSound(op), op.committed, NEW action, NEW said
  PROVE  Adds(AddSignedAction(op, action), op, 0, said)
  <1> DEFINE other == action.secondaryAccount
             pushed == [op EXCEPT !.accounts = WithAccount(@, other)]
  <1>1. Adds(pushed, op, 0, said)
    BY PushAdds
  <1> HIDE DEF pushed
  <1>2. pushed.committed
    BY <1>1 DEF Adds
  <1>3. AddSignedAction(op, action) \in {op, pushed}
    BY <1>2 DEF AddSignedAction, AddActionArgs, pushed
  <1> QED BY <1>1, <1>3, AddsNothing

LEMMA CommittedIgnores ==
  ASSUME NEW op, IsSound(op), op.committed, NEW r, NEW said
  PROVE  Adds(AddAction(op, r), op, 0, said)
  <1> DEFINE pushed == [op EXCEPT !.accounts = WithAccount(@, r.otherAccount)]
  <1>1. Adds(pushed, op, 0, said)
    BY PushAdds
  <1> HIDE DEF pushed
  <1>2. pushed.committed
    BY <1>1 DEF Adds
  <1>3. AddAction(op, r) \in {op, pushed}
    BY <1>2 DEF AddAction, AddCall, AddOneAccountAction, AddTwoAccountAction,
                AddActionArgs, pushed
  <1> QED BY <1>1, <1>3, AddsNothing

(***************************************************************************)
(* The loop: the actions up to the first whose data cannot be read, all of *)
(* them when there is none.                                                *)
(***************************************************************************)
LEMMA SignedActionsAdd ==
  ASSUME NEW op, IsSound(op), op.committed \in BOOLEAN,
         NEW actions, IsList(actions),
         \A i \in DOMAIN actions : HasItsAccounts(actions[i]),
         NEW said, \A i \in DOMAIN actions : said[i] = SaysSigned(actions[i])
  PROVE  \E k \in 0 .. Len(actions) :
           /\ Adds(AddSignedActions(op, actions), op, k, said)
           /\ op.committed => k = 0
           /\ ~op.committed /\ (\A i \in DOMAIN actions : actions[i].data # BadHex)
                => k = Len(actions)
  <1> DEFINE n == Len(actions)
             f == CHOOSE g : AddedBy(op, actions, n, g)
             readable == \A i \in DOMAIN actions : actions[i].data # BadHex
             Done(before, i) ==
               \E k \in 0 .. i :
                 /\ Adds(before.op, op, k, said)
                 /\ op.committed => k = 0
                 /\ ~op.committed /\ ~before.threw => k = i
                 /\ ~op.committed /\ readable => ~before.threw
                 /\ before.threw \in BOOLEAN
             N == {i \in Nat : i <= n => Done(f[i], i)}
  <1>1. AddSignedActions(op, actions) = f[n].op
    BY DEF AddSignedActions, AddedBy, AddedNext
  <1>2. n \in Nat /\ DOMAIN actions = 1 .. n
    BY ListPlaces
  <1>3. AddedBy(op, actions, n, f)
    BY <1>2, AddedExist
  <1> HIDE DEF f, n, readable
  <1>4. 0 \in N
    <2>1. f[0] = [op |-> op, threw |-> FALSE]
      BY <1>2, <1>3 DEF AddedBy
    <2>2. Adds(op, op, 0, said)
      BY AddsNothing
    <2>3. Done(f[0], 0)
      BY <2>1, <2>2
    <2> QED BY <2>3
  <1>5. ASSUME NEW i \in Nat, i \in N
        PROVE  i + 1 \in N
    <2> SUFFICES ASSUME i + 1 <= n
                 PROVE  Done(f[i + 1], i + 1)
      OBVIOUS
    <2> DEFINE before == f[i]
               action == actions[i + 1]
               after == f[i + 1]
               pushed == [before.op EXCEPT !.accounts =
                            WithAccount(@, action.secondaryAccount)]
               added == AddSignedAction(before.op, action)
    <2>1. PICK k \in 0 .. i :
            /\ Adds(before.op, op, k, said)
            /\ op.committed => k = 0
            /\ ~op.committed /\ ~before.threw => k = i
            /\ ~op.committed /\ readable => ~before.threw
            /\ before.threw \in BOOLEAN
      BY <1>2, <1>5
    <2>2. after = AddedNext(op.committed, action, before)
      <3>1. i + 1 \in 0 .. n /\ i + 1 # 0 /\ (i + 1) - 1 = i
        BY <1>2
      <3> QED BY <1>3, <3>1 DEF AddedBy
    <2>3. /\ HasItsAccounts(action) /\ said[i + 1] = SaysSigned(action)
          /\ readable => action.data # BadHex
      BY <1>2 DEF readable
    <2>4. IsSound(before.op) /\ before.op.committed = op.committed
      BY <2>1 DEF Adds
    <2>5. k \in Nat /\ k <= i /\ k + 0 = k /\ 0 \in Nat /\ 1 \in Nat
          /\ k \in 0 .. i + 1
      OBVIOUS
    <2> HIDE DEF before, action, after
    <2>6. Adds(pushed, op, k, said)
      <3> DEFINE more == [j \in {1} |-> said[k + j]]
      <3>1. Adds(pushed, before.op, 0, more)
        BY <2>4, PushAdds
      <3> HIDE DEF pushed, more
      <3>2. Adds(pushed, op, k + 0, said)
        BY <2>1, <2>5, <3>1, AddsMore
      <3> QED BY <2>5, <3>2
    <2>7. CASE before.threw
      <3>1. after = before
        BY <2>2, <2>7 DEF AddedNext
      <3> QED BY <2>1, <2>5, <2>7, <3>1 DEF before, after
    <2>8. CASE ~before.threw /\ action.data = BadHex
      <3>1. after.threw = TRUE /\ after.op \in {before.op, pushed}
        BY <2>2, <2>8 DEF AddedNext
      <3> HIDE DEF pushed
      <3>2. Adds(after.op, op, k, said)
        BY <2>1, <2>6, <3>1
      <3> QED BY <2>1, <2>3, <2>5, <2>8, <3>1, <3>2 DEF after
    <2>9. CASE ~before.threw /\ action.data # BadHex
      <3>1. after.op = added /\ after.threw = op.committed
        BY <2>2, <2>9 DEF AddedNext
      <3>2. CASE op.committed
        <4> DEFINE more == [j \in {1} |-> said[k + j]]
        <4>1. Adds(added, before.op, 0, more)
          BY <2>4, <3>2, CommittedAddsNothing
        <4> HIDE DEF added, more
        <4>2. Adds(added, op, k + 0, said)
          BY <2>1, <2>5, <4>1, AddsMore
        <4>3. Adds(after.op, op, k, said)
          BY <2>5, <3>1, <4>2
        <4> QED BY <2>1, <2>5, <3>1, <3>2, <4>3 DEF after
      <3>3. CASE ~op.committed
        <4> DEFINE more == [j \in {1} |-> said[k + j]]
        <4>1. k = i
          BY <2>1, <2>9, <3>3
        <4>2. more[1] = SaysSigned(action)
          BY <2>3, <4>1
        <4>3. Adds(added, before.op, 1, more)
          BY <2>3, <2>4, <3>3, <4>2, SignedActionAdds
        <4>4. \A j \in 1 .. 1 : more[j] = said[k + j]
          OBVIOUS
        <4> HIDE DEF added, more
        <4>5. Adds(added, op, k + 1, said)
          BY <2>1, <2>5, <4>3, <4>4, AddsMore
        <4>6. i + 1 \in 0 .. i + 1 /\ Adds(after.op, op, i + 1, said)
          BY <3>1, <4>1, <4>5
        <4> QED BY <3>1, <3>3, <4>6 DEF after
      <3> QED BY <3>2, <3>3
    <2> QED BY <2>7, <2>8, <2>9
  <1> HIDE DEF N
  <1>6. n \in N
    BY <1>2, <1>4, <1>5, CountInduction
  <1>7. Done(f[n], n)
    BY <1>2, <1>6 DEF N
  <1> QED BY <1>1, <1>7 DEF n, readable

(***************************************************************************)
(* addSignedOperation: the actions of the operation, and an authorization  *)
(* that starts where they start.                                           *)
(***************************************************************************)
AuthOf(op, s) ==
  [startIndex |-> Len(op.actions), numActions |-> Len(s.actions),
   header |-> s.header, signature |-> s.signature]

AddsActions(new, op, k, said) ==
  /\ IsSound(new)
  /\ Len(new.actions) = Len(op.actions) + k
  /\ \A i \in 1 .. Len(op.actions) :
       Says(new.accounts, new.actions[i]) = Says(op.accounts, op.actions[i])
  /\ \A j \in 1 .. k :
       Says(new.accounts, new.actions[Len(op.actions) + j]) = said[j]
  /\ new.proxy = op.proxy
  /\ new.committed = op.committed

IsReadable(s) == \A i \in DOMAIN s.actions : s.actions[i].data # BadHex

LEMMA SignedOperationAdds ==
  ASSUME NEW op, IsSound(op), op.committed \in BOOLEAN,
         NEW s, IsList(s.actions),
         \A i \in DOMAIN s.actions : HasItsAccounts(s.actions[i]),
         NEW said, \A i \in DOMAIN s.actions : said[i] = SaysSigned(s.actions[i])
  PROVE  LET new == AddSignedOperation(op, s)
         IN  \E k \in 0 .. Len(s.actions) :
               /\ AddsActions(new, op, k, said)
               /\ op.committed => k = 0
               /\ ~op.committed /\ IsReadable(s) /\ op.proxy = "Signed"
                    => k = Len(s.actions)
               /\ new.auths = IF op.proxy = "Signed"
                              THEN Append(op.auths, AuthOf(op, s)) ELSE op.auths
  <1>1. CASE op.proxy # "Signed"
    <2>1. AddSignedOperation(op, s) = op
      BY <1>1 DEF AddSignedOperation
    <2>2. Adds(op, op, 0, said)
      BY AddsNothing
    <2>3. AddsActions(op, op, 0, said)
      BY <2>2 DEF Adds, AddsActions
    <2>4. 0 \in 0 .. Len(s.actions)
      BY ListPlaces
    <2> QED BY <1>1, <2>1, <2>3, <2>4
  <1>2. CASE op.proxy = "Signed"
    <2> DEFINE auths == Append(op.auths, AuthOf(op, s))
               mid == [op EXCEPT !.auths = auths]
               new == AddSignedActions(mid, s.actions)
    <2>1. AddSignedOperation(op, s) = new
      BY <1>2 DEF AddSignedOperation, AuthOf
    <2>2. op = [accounts |-> op.accounts, actions |-> op.actions,
                auths |-> op.auths, proxy |-> op.proxy,
                committed |-> op.committed]
      BY DEF IsSound, IsObject
    <2>3. mid = [accounts |-> op.accounts, actions |-> op.actions,
                 auths |-> auths, proxy |-> op.proxy,
                 committed |-> op.committed]
      BY <2>2
    <2>4. IsList(auths)
      BY AppendToList DEF IsSound, IsObject
    <2> HIDE DEF auths, mid
    <2>5. /\ IsSound(mid) /\ mid.accounts = op.accounts
          /\ mid.actions = op.actions /\ mid.auths = auths
          /\ mid.proxy = op.proxy /\ mid.committed = op.committed
      BY <2>3, <2>4 DEF IsSound, IsObject
    <2>6. PICK k \in 0 .. Len(s.actions) :
            /\ Adds(new, mid, k, said)
            /\ mid.committed => k = 0
            /\ ~mid.committed /\ (\A i \in DOMAIN s.actions :
                                    s.actions[i].data # BadHex)
                 => k = Len(s.actions)
      BY <2>5, SignedActionsAdd
    <2> HIDE DEF new
    <2>7. AddsActions(new, op, k, said) /\ new.auths = auths
      BY <2>5, <2>6 DEF Adds, AddsActions
    <2>8. /\ op.committed => k = 0
          /\ ~op.committed /\ IsReadable(s) => k = Len(s.actions)
      BY <2>5, <2>6 DEF IsReadable
    <2> QED BY <1>2, <2>1, <2>7, <2>8 DEF auths
  <1> QED BY <1>1, <1>2

-----------------------------------------------------------------------------
(* What authorizations cover                                               *)

(***************************************************************************)
(* The actions from a place on are those of a signed operation, and the    *)
(* authorization is of its signature.                                      *)
(***************************************************************************)
CoversOne(op, auth, start, s) ==
  /\ auth.header = s.header /\ auth.signature = s.signature
  /\ auth.numActions = Len(s.actions)
  /\ start + Len(s.actions) <= Len(op.actions)
  /\ \A i \in 1 .. Len(s.actions) :
       Says(op.accounts, op.actions[start + i]) = SaysSigned(s.actions[i])

AuthsFit(op, published) ==
  \A k \in DOMAIN op.auths :
    /\ op.auths[k].startIndex \in Nat /\ op.auths[k].numActions \in Nat
    /\ EndOf(op, k - 1) <= op.auths[k].startIndex
    /\ EndOf(op, k) <= Len(op.actions)
    /\ \E s \in published :
         CoversOne(op, op.auths[k], op.auths[k].startIndex, s)

\* Nothing that is added later changes what is covered.
LEMMA CoversStays ==
  ASSUME NEW op, IsSound(op), NEW k \in Nat, NEW said, NEW new,
         AddsActions(new, op, k, said), NEW auth, NEW start \in Nat,
         NEW s, IsList(s.actions), CoversOne(op, auth, start, s)
  PROVE  CoversOne(new, auth, start, s)
  <1>1. Len(op.actions) \in Nat /\ Len(s.actions) \in Nat
    BY ListPlaces DEF IsSound, IsObject
  <1>2. Len(op.actions) <= Len(new.actions) /\ Len(new.actions) \in Nat
    BY <1>1 DEF AddsActions
  <1>3. start + Len(s.actions) <= Len(new.actions)
    BY <1>1, <1>2 DEF CoversOne
  <1>4. \A i \in 1 .. Len(s.actions) : start + i \in 1 .. Len(op.actions)
    BY <1>1 DEF CoversOne
  <1>5. \A i \in 1 .. Len(s.actions) :
          Says(new.accounts, new.actions[start + i]) = SaysSigned(s.actions[i])
    BY <1>4 DEF CoversOne, AddsActions
  <1> QED BY <1>3, <1>5 DEF CoversOne

LEMMA AuthsStayFit ==
  ASSUME NEW op, IsSound(op), NEW published, AuthsFit(op, published),
         \A s \in published : IsList(s.actions),
         NEW k \in Nat, NEW said, NEW new, AddsActions(new, op, k, said),
         new.auths = op.auths
  PROVE  AuthsFit(new, published)
  <1>1. Len(op.actions) \in Nat /\ Len(op.actions) <= Len(new.actions)
        /\ Len(new.actions) \in Nat /\ DOMAIN op.auths = 1 .. Len(op.auths)
        /\ Len(op.auths) \in Nat
    BY ListPlaces DEF AddsActions, IsSound, IsObject
  <1>2. \A i : EndOf(new, i) = EndOf(op, i)
    BY DEF EndOf
  <1> SUFFICES ASSUME NEW l \in DOMAIN op.auths
               PROVE  LET auth == op.auths[l]
                      IN  /\ auth.startIndex \in Nat /\ auth.numActions \in Nat
                          /\ EndOf(new, l - 1) <= auth.startIndex
                          /\ EndOf(new, l) <= Len(new.actions)
                          /\ \E s \in published :
                               CoversOne(new, auth, auth.startIndex, s)
    BY DEF AuthsFit
  <1> DEFINE auth == op.auths[l]
  <1>3. PICK s \in published : CoversOne(op, auth, auth.startIndex, s)
    BY DEF AuthsFit
  <1>4. /\ auth.startIndex \in Nat /\ auth.numActions \in Nat
        /\ EndOf(op, l - 1) <= auth.startIndex
        /\ EndOf(op, l) <= Len(op.actions)
    BY DEF AuthsFit
  <1>5. EndOf(op, l) \in Nat
    BY <1>1, <1>4 DEF EndOf
  <1> HIDE DEF auth
  <1>6. CoversOne(new, auth, auth.startIndex, s)
    BY <1>3, <1>4, CoversStays
  <1>7. EndOf(new, l) <= Len(new.actions)
    BY <1>1, <1>2, <1>4, <1>5
  <1> QED BY <1>2, <1>4, <1>6, <1>7 DEF auth

LEMMA SignedOperationFits ==
  ASSUME NEW op, IsSound(op), op.committed = FALSE, NEW published,
         AuthsFit(op, published),
         \A x \in published : IsList(x.actions),
         NEW s \in published, IsReadable(s),
         \A i \in DOMAIN s.actions : HasItsAccounts(s.actions[i])
  PROVE  AuthsFit(AddSignedOperation(op, s), published)
  <1> DEFINE new == AddSignedOperation(op, s)
             said == [i \in DOMAIN s.actions |-> SaysSigned(s.actions[i])]
             auth == AuthOf(op, s)
             n == Len(op.actions)
             l == Len(s.actions)
             m == Len(op.auths)
  <1>1. \A i \in DOMAIN s.actions : said[i] = SaysSigned(s.actions[i])
    OBVIOUS
  <1> HIDE DEF said
  <1>2. PICK k \in 0 .. l :
          /\ AddsActions(new, op, k, said)
          /\ op.proxy = "Signed" => k = l
          /\ new.auths = IF op.proxy = "Signed" THEN Append(op.auths, auth)
                         ELSE op.auths
    BY <1>1, SignedOperationAdds
  <1>3. /\ n \in Nat /\ l \in Nat /\ DOMAIN s.actions = 1 .. l
        /\ m \in Nat /\ DOMAIN op.auths = 1 .. m /\ IsList(op.auths)
    BY ListPlaces DEF IsSound, IsObject
  <1> HIDE DEF new, n, l, m
  <1>4. k \in Nat
    BY <1>3
  <1>5. CASE op.proxy # "Signed"
    BY <1>2, <1>4, <1>5, AuthsStayFit DEF new
  <1>6. CASE op.proxy = "Signed"
    <2>1. k = l /\ new.auths = Append(op.auths, auth)
      BY <1>2, <1>6
    <2>2. /\ auth.startIndex = n /\ auth.numActions = l
          /\ auth.header = s.header /\ auth.signature = s.signature
      BY DEF AuthOf, n, l
    <2> HIDE DEF auth
    <2>3. /\ IsList(new.auths) /\ Len(new.auths) = m + 1
          /\ \A i \in 1 .. m : new.auths[i] = op.auths[i]
          /\ new.auths[m + 1] = auth
      BY <1>3, <2>1, AppendToList DEF m
    <2>4. DOMAIN new.auths = 1 .. m + 1
      BY <2>3, ListPlaces
    <2>5. Len(new.actions) = n + l
      BY <1>2, <2>1 DEF AddsActions, n
    <2>6. CoversOne(new, auth, n, s)
      BY <1>1, <1>2, <1>3, <2>1, <2>2, <2>5
         DEF CoversOne, AddsActions, n, l
    <2>7. \A i \in 0 .. m : EndOf(new, i) = EndOf(op, i)
      BY <1>3, <2>3 DEF EndOf
    <2>8. EndOf(op, m) <= n
      BY <1>3 DEF EndOf, AuthsFit, n
    <2> SUFFICES ASSUME NEW j \in DOMAIN new.auths
                 PROVE  LET a == new.auths[j]
                        IN  /\ a.startIndex \in Nat /\ a.numActions \in Nat
                            /\ EndOf(new, j - 1) <= a.startIndex
                            /\ EndOf(new, j) <= Len(new.actions)
                            /\ \E x \in published :
                                 CoversOne(new, a, a.startIndex, x)
      BY DEF AuthsFit, new
    <2>9. CASE j \in 1 .. m
      <3> DEFINE a == op.auths[j]
      <3>1. new.auths[j] = a /\ j - 1 \in 0 .. m /\ j \in 0 .. m
        BY <1>3, <2>3, <2>9
      <3>2. /\ a.startIndex \in Nat /\ a.numActions \in Nat
            /\ EndOf(op, j - 1) <= a.startIndex
            /\ EndOf(op, j) <= n
        BY <1>3, <2>9 DEF AuthsFit, n
      <3>3. PICK x \in published : CoversOne(op, a, a.startIndex, x)
        BY <1>3, <2>9 DEF AuthsFit
      <3>4. EndOf(op, j) \in Nat
        BY <3>2, <1>3, <2>9 DEF EndOf
      <3> HIDE DEF a
      <3>5. CoversOne(new, a, a.startIndex, x)
        BY <1>2, <1>4, <3>2, <3>3, CoversStays
      <3>6. EndOf(new, j) <= Len(new.actions)
        BY <1>3, <2>5, <2>7, <3>1, <3>2, <3>4
      <3> QED BY <2>7, <3>1, <3>2, <3>5, <3>6
    <2>10. CASE j = m + 1
      <3>1. new.auths[j] = auth /\ j - 1 = m /\ m \in 0 .. m /\ j # 0
        BY <1>3, <2>3, <2>10
      <3>2. EndOf(new, j - 1) <= auth.startIndex
        BY <2>2, <2>7, <2>8, <3>1
      <3>3. EndOf(new, j) = n + l
        BY <2>2, <3>1 DEF EndOf
      <3> QED BY <1>3, <2>2, <2>5, <2>6, <3>1, <3>2, <3>3
    <2> QED BY <1>3, <2>4, <2>9, <2>10
  <1> QED BY <1>5, <1>6

(***************************************************************************)
(* generateAuthData: one authorization after the other, where st says they *)
(* start, they reach to end, and each that is not empty covers a signed    *)
(* operation.                                                              *)
(***************************************************************************)
StartsOf(data, st) ==
  /\ st[1] = 0
  /\ \A k \in 1 .. Len(data) :
       /\ st[k] \in Nat /\ data[k].numActions \in Nat
       /\ st[k + 1] = st[k] + data[k].numActions

CoversSigned(op, auth, start, published) ==
  auth.signature # NoSignature =>
    \E s \in published : CoversOne(op, auth, start, s)

ReachesBy(op, data, st, end, published) ==
  /\ IsList(data)
  /\ StartsOf(data, st)
  /\ st[Len(data) + 1] = end
  /\ \A k \in 1 .. Len(data) : CoversSigned(op, data[k], st[k], published)

Reaches(op, data, end, published) ==
  \E st : ReachesBy(op, data, st, end, published)

LEMMA NothingReaches ==
  ASSUME NEW op, NEW published
  PROVE  Reaches(op, <<>>, 0, published)
  <1> DEFINE st == [k \in {1} |-> 0]
  <1>1. IsList(<<>>) /\ Len(<<>>) = 0
    BY EmptyList
  <1>2. st[1] = 0
    OBVIOUS
  <1> HIDE DEF st
  <1>3. ReachesBy(op, <<>>, st, 0, published)
    BY <1>1, <1>2 DEF ReachesBy, StartsOf
  <1> QED BY <1>3 DEF Reaches

LEMMA OneMoreReaches ==
  ASSUME NEW op, NEW published, NEW data, NEW end \in Nat,
         Reaches(op, data, end, published),
         NEW auth, auth.numActions \in Nat, CoversSigned(op, auth, end, published)
  PROVE  Reaches(op, data \o <<auth>>, end + auth.numActions, published)
  <1> DEFINE more == data \o <<auth>>
             n == Len(data)
  <1>1. PICK st : ReachesBy(op, data, st, end, published)
    BY DEF Reaches
  <1> DEFINE to == [k \in 1 .. n + 2 |-> IF k = n + 2 THEN end + auth.numActions
                                         ELSE st[k]]
  <1>2. /\ IsList(<<auth>>) /\ Len(<<auth>>) = 1 /\ <<auth>>[1] = auth
        /\ IsList(data) /\ n \in Nat
    BY <1>1, ListOfOne, ListPlaces DEF ReachesBy
  <1>3. /\ IsList(more) /\ Len(more) = n + 1
        /\ \A i \in 1 .. n : more[i] = data[i]
        /\ \A i \in n + 1 .. n + 1 : more[i] = <<auth>>[i - n]
    BY <1>2, JoinLists
  <1>4. more[n + 1] = auth
    <2>1. n + 1 \in n + 1 .. n + 1 /\ (n + 1) - n = 1
      BY <1>2
    <2> QED BY <1>2, <1>3, <2>1
  <1> HIDE DEF more
  <1>5. /\ st[1] = 0 /\ st[n + 1] = end
        /\ \A k \in 1 .. n :
             /\ st[k] \in Nat /\ data[k].numActions \in Nat
             /\ st[k + 1] = st[k] + data[k].numActions
             /\ CoversSigned(op, data[k], st[k], published)
    BY <1>1 DEF ReachesBy, StartsOf
  <1> HIDE DEF n
  <1>6. /\ \A k \in 1 .. n + 1 : to[k] = st[k]
        /\ to[n + 2] = end + auth.numActions
    BY <1>2
  <1> HIDE DEF to
  <1>7. ASSUME NEW k \in 1 .. n + 1
        PROVE  /\ to[k] \in Nat /\ more[k].numActions \in Nat
               /\ to[k + 1] = to[k] + more[k].numActions
               /\ CoversSigned(op, more[k], to[k], published)
    <2>1. CASE k \in 1 .. n
      <3>1. k + 1 \in 1 .. n + 1
        BY <1>2, <2>1
      <3> QED BY <1>3, <1>5, <1>6, <2>1, <3>1
    <2>2. CASE k = n + 1
      <3>1. k + 1 = n + 2
        BY <1>2, <2>2
      <3> QED BY <1>4, <1>5, <1>6, <2>2, <3>1
    <2> QED BY <1>2, <2>1, <2>2
  <1>8. to[1] = 0 /\ to[Len(more) + 1] = end + auth.numActions
    BY <1>2, <1>3, <1>5, <1>6
  <1>9. StartsOf(more, to)
    BY <1>3, <1>7, <1>8 DEF StartsOf
  <1>10. ReachesBy(op, more, to, end + auth.numActions, published)
    BY <1>3, <1>7, <1>8, <1>9 DEF ReachesBy
  <1> QED BY <1>10 DEF Reaches, more

LEMMA JoinNothing ==
  ASSUME NEW s, IsList(s)
  PROVE  s \o <<>> = s
  BY DEF IsList

LEMMA GapReaches ==
  ASSUME NEW op, NEW published, NEW data, NEW from \in Nat, NEW to \in Nat,
         from <= to, Reaches(op, data, from, published)
  PROVE  Reaches(op, data \o Gap(from, to), to, published)
  <1>1. CASE from = to
    <2>1. Gap(from, to) = <<>>
      BY <1>1 DEF Gap
    <2>2. IsList(data)
      BY DEF Reaches, ReachesBy
    <2> QED BY <1>1, <2>1, <2>2, JoinNothing
  <1>2. CASE from # to
    <2> DEFINE auth == EmptyAuth(to - from)
    <2>1. Gap(from, to) = <<auth>>
      BY <1>2 DEF Gap
    <2>2. auth.numActions = to - from /\ auth.signature = NoSignature
      BY DEF EmptyAuth
    <2> HIDE DEF auth
    <2>3. auth.numActions \in Nat /\ from + auth.numActions = to
      BY <2>2
    <2>4. CoversSigned(op, auth, from, published)
      BY <2>2 DEF CoversSigned
    <2> QED BY <2>1, <2>3, <2>4, OneMoreReaches
  <1> QED BY <1>1, <1>2

LEMMA GeneratedReaches ==
  ASSUME NEW op, IsSound(op), NEW published, AuthsFit(op, published)
  PROVE  Reaches(op, GenerateAuthData(op), Len(op.actions), published)
  <1> DEFINE n == Len(op.auths)
             f == CHOOSE g : GeneratedBy(op, n, g)
             N == {i \in Nat : i <= n => Reaches(op, f[i], EndOf(op, i), published)}
  <1>1. GenerateAuthData(op) = f[n] \o Gap(EndOf(op, n), Len(op.actions))
    BY DEF GenerateAuthData, GeneratedBy, Gap, EndOf, AuthData
  <1>2. /\ n \in Nat /\ DOMAIN op.auths = 1 .. n
        /\ Len(op.actions) \in Nat
    BY ListPlaces DEF IsSound, IsObject
  <1>3. GeneratedBy(op, n, f)
    BY <1>2, GeneratedExist
  <1> HIDE DEF f, n
  <1>4. \A i \in 0 .. n : EndOf(op, i) \in Nat /\ EndOf(op, i) <= Len(op.actions)
    BY <1>2 DEF EndOf, AuthsFit
  <1>5. 0 \in N
    <2>1. f[0] = <<>> /\ EndOf(op, 0) = 0
      BY <1>2, <1>3 DEF GeneratedBy, EndOf
    <2> QED BY <2>1, NothingReaches
  <1>6. ASSUME NEW i \in Nat, i \in N
        PROVE  i + 1 \in N
    <2> SUFFICES ASSUME i + 1 <= n
                 PROVE  Reaches(op, f[i + 1], EndOf(op, i + 1), published)
      OBVIOUS
    <2> DEFINE auth == op.auths[i + 1]
               data == AuthData(op, i + 1)
               gap == Gap(EndOf(op, i), auth.startIndex)
    <2>1. /\ Reaches(op, f[i], EndOf(op, i), published)
          /\ i \in 0 .. n /\ i + 1 \in 1 .. n /\ (i + 1) - 1 = i
          /\ i + 1 \in 0 .. n /\ i + 1 # 0
      BY <1>2, <1>6
    <2>2. f[i + 1] = f[i] \o gap \o <<data>>
      BY <1>3, <2>1 DEF GeneratedBy
    <2>3. /\ auth.startIndex \in Nat /\ auth.numActions \in Nat
          /\ EndOf(op, i) <= auth.startIndex
          /\ EndOf(op, i + 1) = auth.startIndex + auth.numActions
      BY <1>2, <2>1 DEF AuthsFit, EndOf
    <2>4. PICK s \in published : CoversOne(op, auth, auth.startIndex, s)
      BY <1>2, <2>1 DEF AuthsFit
    <2>5. /\ data.numActions = auth.numActions /\ data.header = auth.header
          /\ data.signature = auth.signature
      BY DEF AuthData
    <2> HIDE DEF data, auth
    <2>6. CoversOne(op, data, auth.startIndex, s)
      BY <2>4, <2>5 DEF CoversOne
    <2>7. CoversSigned(op, data, auth.startIndex, published)
      BY <2>6 DEF CoversSigned
    <2>8. Reaches(op, f[i] \o gap, auth.startIndex, published)
      BY <1>4, <2>1, <2>3, GapReaches
    <2> HIDE DEF gap
    <2> QED BY <2>2, <2>3, <2>5, <2>7, <2>8, OneMoreReaches
  <1> HIDE DEF N
  <1>7. n \in N
    BY <1>2, <1>5, <1>6, CountInduction
  <1>8. Reaches(op, f[n], EndOf(op, n), published)
    BY <1>2, <1>7 DEF N
  <1>9. EndOf(op, n) \in Nat /\ EndOf(op, n) <= Len(op.actions)
    BY <1>2, <1>4
  <1> QED BY <1>1, <1>2, <1>8, <1>9, GapReaches

(***************************************************************************)
(* The starts that the contract computes are those.                        *)
(***************************************************************************)
LEMMA StartsAreThose ==
  ASSUME NEW data, IsList(data), NEW st, StartsOf(data, st),
         NEW n \in Nat, n <= Len(data) + 1, NEW f, StartBy(data, n, f)
  PROVE  \A k \in 1 .. n : f[k] = st[k]
  <1> DEFINE N == {k \in Nat : k \in 1 .. n => f[k] = st[k]}
  <1>0. Len(data) \in Nat
    BY ListPlaces
  <1>1. 0 \in N
    OBVIOUS
  <1>2. ASSUME NEW k \in Nat, k \in N
        PROVE  k + 1 \in N
    <2> SUFFICES ASSUME k + 1 \in 1 .. n
                 PROVE  f[k + 1] = st[k + 1]
      OBVIOUS
    <2>1. f[k + 1] = IF k + 1 = 1 THEN 0 ELSE f[k] + data[k].numActions
      <3>1. (k + 1) - 1 = k
        OBVIOUS
      <3> QED BY <3>1 DEF StartBy
    <2>2. CASE k = 0
      BY <2>1, <2>2 DEF StartsOf
    <2>3. CASE k # 0
      <3>1. k \in 1 .. n /\ k \in 1 .. Len(data) /\ k + 1 # 1
        BY <1>0, <2>3
      <3>2. f[k] = st[k]
        BY <1>2, <3>1
      <3> QED BY <2>1, <3>1, <3>2 DEF StartsOf
    <2> QED BY <2>2, <2>3
  <1> HIDE DEF N
  <1>3. \A k \in Nat : k \in N
    BY <1>1, <1>2, CountInduction
  <1> QED BY <1>3 DEF N
=============================================================================

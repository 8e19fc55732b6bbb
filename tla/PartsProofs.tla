----------------------------- MODULE PartsProofs -----------------------------
(***************************************************************************)
(* Four parts that share nothing.  What the wallets that own the contracts *)
(* promise, for any owners, calls and depth of re-entry: the owners stay   *)
(* valid, and what runs is due.  What a login is worth, for any wallets,   *)
(* methods and times.  Whom a session of the client acts for, on which     *)
(* network, after any changes of both.  And that the arrays, maps, bitmaps *)
(* and searches that keep the markets of accounts and operations are sets  *)
(* of markets, for words of any width and any number of markets.           *)
(***************************************************************************)
EXTENDS MultiSig, WalletLogin, ClientSession, MarketSets, MarginMathProofs,
  SequenceTheorems

-----------------------------------------------------------------------------
(* The wallet                                                              *)

WalletFields ==
  {"owners", "isOwner", "required", "transactions", "executed", "confirmations",
   "secondsTimeLocked", "confirmationTimes", "instantData", "quorum", "runs"}

OwnersAreValid(w) ==
  /\ w.owners \in Seq(w.isOwner)
  /\ IsInjective(w.owners)
  /\ Range(w.owners) = w.isOwner
  /\ w.required \in Nat
  /\ ValidRequirement(Len(w.owners), w.required)

BooksAreKept(w) ==
  /\ w.transactions \in Seq(Calls) /\ Len(w.transactions) <= MaxTransactions
  /\ w.runs = [id \in Ids |-> IF id \in w.executed THEN 1 ELSE 0]
  /\ DOMAIN w.quorum = Ids /\ DOMAIN w.confirmationTimes = Ids

(***************************************************************************)
(* The time that a time lock counts from is that of the present quorum.    *)
(***************************************************************************)
IsTimed(w, id) ==
  IsConfirmed(w, id) =>
    \/ w.quorum[id].by = "rules"
    \/ w.quorum[id].since = w.confirmationTimes[id]

\* Which contracts have a time lock.
IsDelayed(k) == k # "MultiSig"

IsGood(w, k) ==
  /\ DOMAIN w = WalletFields
  /\ OwnersAreValid(w)
  /\ BooksAreKept(w)
  /\ IsDelayed(k) => \A id \in Ids : IsTimed(w, id)

(***************************************************************************)
(* A wallet never forgets transactions or executions, unless it reverts.   *)
(***************************************************************************)
Grows(w, v) ==
  /\ Len(w.transactions) <= Len(v.transactions)
  /\ \A id \in Ids : w.runs[id] <= v.runs[id]

LEMMA RunsAreNat ==
  ASSUME NEW w, BooksAreKept(w), NEW id \in Ids
  PROVE  w.runs[id] \in Nat
  BY DEF BooksAreKept

LEMMA TransactionPlaces ==
  ASSUME NEW w, BooksAreKept(w)
  PROVE  /\ Len(w.transactions) \in Nat
         /\ DOMAIN w.transactions = 1 .. Len(w.transactions)
         /\ DOMAIN w.transactions \subseteq Ids
         /\ \A id \in DOMAIN w.transactions : w.transactions[id] \in Calls
  BY MultiSigAssumption DEF BooksAreKept, Ids

LEMMA GrowsIsReflexive ==
  ASSUME NEW w, BooksAreKept(w)
  PROVE  Grows(w, w)
  BY RunsAreNat, TransactionPlaces DEF Grows

LEMMA GrowsIsTransitive ==
  ASSUME NEW u, BooksAreKept(u), NEW v, BooksAreKept(v), NEW w, BooksAreKept(w),
         Grows(u, v), Grows(v, w)
  PROVE  Grows(u, w)
  <1>1. Len(u.transactions) <= Len(w.transactions)
    BY TransactionPlaces DEF Grows
  <1>2. ASSUME NEW id \in Ids
        PROVE  u.runs[id] <= w.runs[id]
    <2>1. u.runs[id] \in Nat /\ v.runs[id] \in Nat /\ w.runs[id] \in Nat
      BY RunsAreNat
    <2>2. u.runs[id] <= v.runs[id] /\ v.runs[id] <= w.runs[id]
      BY DEF Grows
    <2> QED BY <2>1, <2>2
  <1> QED BY <1>1, <1>2 DEF Grows

(***************************************************************************)
(* Whether a transaction is confirmed depends on three fields.             *)
(***************************************************************************)
Confirmers(w, id) == {i \in DOMAIN w.owners : <<id, w.owners[i]>> \in w.confirmations}

LEMMA ConfirmersAreFinite ==
  ASSUME NEW w, OwnersAreValid(w), NEW id
  PROVE  /\ IsFiniteSet(Confirmers(w, id))
         /\ Cardinality(Confirmers(w, id)) \in Nat
  <1>1. Len(w.owners) \in Nat /\ DOMAIN w.owners = 1 .. Len(w.owners)
    BY DEF OwnersAreValid
  <1>2. IsFiniteSet(1 .. Len(w.owners))
    BY <1>1, FS_Interval
  <1>3. Confirmers(w, id) \in SUBSET (1 .. Len(w.owners))
    BY <1>1 DEF Confirmers
  <1>4. IsFiniteSet(Confirmers(w, id))
    BY <1>2, <1>3, FS_Subset
  <1> QED BY <1>4, FS_CardinalityType

LEMMA ConfirmedBySame ==
  ASSUME NEW w, NEW v, NEW id, v.owners = w.owners, v.required = w.required,
         Confirmers(v, id) = Confirmers(w, id)
  PROVE  IsConfirmed(v, id) <=> IsConfirmed(w, id)
  BY DEF IsConfirmed, Confirmers

LEMMA ConfirmedByMore ==
  ASSUME NEW w, OwnersAreValid(w), NEW v, NEW id,
         v.owners = w.owners, v.required = w.required,
         v.confirmations \subseteq w.confirmations, IsConfirmed(v, id)
  PROVE  IsConfirmed(w, id)
  <1> DEFINE few == Confirmers(v, id)
             many == Confirmers(w, id)
  <1>1. few \subseteq many
    BY DEF Confirmers
  <1>2. IsFiniteSet(many) /\ Cardinality(many) \in Nat
    BY ConfirmersAreFinite
  <1>3. Cardinality(few) <= Cardinality(many)
    BY <1>1, <1>2, FS_Subset
  <1>4. Cardinality(few) \in Nat
    BY <1>1, <1>2, FS_Subset, FS_CardinalityType
  <1>5. Cardinality(few) >= w.required
    BY DEF IsConfirmed, Confirmers
  <1>6. w.required \in Nat
    BY DEF OwnersAreValid
  <1>7. Cardinality(many) >= w.required
    <2> HIDE DEF few, many
    <2> QED BY <1>2, <1>3, <1>4, <1>5, <1>6
  <1> QED BY <1>7 DEF IsConfirmed, Confirmers

-----------------------------------------------------------------------------
(* What happens to a wallet                                                *)

(***************************************************************************)
(* The history that Noted keeps is that of the new wallet: where the       *)
(* confirmations that a transaction has are those it had, or came by the   *)
(* rules, or set the time.                                                 *)
(***************************************************************************)
LEMMA NotedIsGood ==
  ASSUME NEW w, NEW k, IsGood(w, k),
         NEW after, DOMAIN after = WalletFields, OwnersAreValid(after),
         BooksAreKept(after), Grows(w, after), after.runs = w.runs, NEW by,
         IsDelayed(k) => \A id \in Ids :
           IsConfirmed(after, id) =>
             IF IsConfirmed(w, id)
             THEN after.confirmationTimes[id] = w.confirmationTimes[id]
             ELSE by = "rules" \/ after.confirmationTimes[id] = walletTime
  PROVE  LET v == Noted(w, after, by)
         IN  IsGood(v, k) /\ Grows(w, v) /\ v.runs = w.runs
  <1> DEFINE quorum ==
               [id \in Ids |->
                  IF ~IsConfirmed(after, id) THEN NoQuorum
                  ELSE IF IsConfirmed(w, id) THEN w.quorum[id]
                  ELSE [since |-> walletTime, by |-> by]]
             v == [after EXCEPT !.quorum = quorum]
  <1>1. v = Noted(w, after, by)
    BY DEF Noted
  <1>2. DOMAIN quorum = Ids
    OBVIOUS
  <1>3. \A id \in Ids :
          IsConfirmed(after, id) =>
            quorum[id] = IF IsConfirmed(w, id) THEN w.quorum[id]
                         ELSE [since |-> walletTime, by |-> by]
    OBVIOUS
  <1> HIDE DEF quorum
  <1>4. /\ DOMAIN v = WalletFields /\ v.quorum = quorum
        /\ v.owners = after.owners /\ v.isOwner = after.isOwner
        /\ v.required = after.required /\ v.transactions = after.transactions
        /\ v.executed = after.executed /\ v.confirmations = after.confirmations
        /\ v.confirmationTimes = after.confirmationTimes
        /\ v.runs = after.runs
    BY DEF WalletFields
  <1> HIDE DEF v
  <1>5. OwnersAreValid(v) /\ BooksAreKept(v)
    BY <1>2, <1>4 DEF OwnersAreValid, BooksAreKept
  <1>6. ASSUME IsDelayed(k), NEW id \in Ids
        PROVE  IsTimed(v, id)
    <2> SUFFICES ASSUME IsConfirmed(v, id)
                 PROVE  \/ v.quorum[id].by = "rules"
                        \/ v.quorum[id].since = v.confirmationTimes[id]
      BY DEF IsTimed
    <2>1. IsConfirmed(after, id)
      BY <1>4 DEF IsConfirmed
    <2>2. CASE IsConfirmed(w, id)
      <3>1. IsTimed(w, id)
        BY <1>6 DEF IsGood
      <3> QED BY <1>3, <1>4, <1>6, <2>1, <2>2, <3>1 DEF IsTimed
    <2>3. CASE ~IsConfirmed(w, id)
      <3> DEFINE fresh == [since |-> walletTime, by |-> by]
      <3>1. v.quorum[id] = fresh
        BY <1>3, <1>4, <2>1, <2>3
      <3>2. fresh.since = walletTime /\ fresh.by = by
        OBVIOUS
      <3> HIDE DEF fresh
      <3> QED BY <1>4, <1>6, <2>1, <2>3, <3>1, <3>2
    <2> QED BY <2>2, <2>3
  <1>7. Grows(w, v)
    BY <1>4 DEF Grows
  <1> QED BY <1>1, <1>4, <1>5, <1>6, <1>7 DEF IsGood

(***************************************************************************)
(* A transaction that may run is marked, once.                             *)
(***************************************************************************)
MayRun(w, k, id) ==
  /\ id \in DOMAIN w.transactions
  /\ id \notin w.executed
  /\ IsConfirmed(w, id)
  /\ IsDelayed(k) => PastTimeLock(w, id)

IsDue(v, k, id) ==
  /\ v.runs[id] = 1
  /\ IsConfirmed(v, id)
  /\ \/ ~IsDelayed(k)
     \/ CanBeExecutedInstantly(v, id)
     \/ v.quorum[id].by = "rules"
     \/ walletTime >= v.quorum[id].since + v.secondsTimeLocked

LEMMA MarkedIsGood ==
  ASSUME NEW w, NEW k, IsGood(w, k), NEW id, MayRun(w, k, id)
  PROVE  LET v == Marked(w, id)
         IN  /\ IsGood(v, k) /\ Grows(w, v)
             /\ DOMAIN v.transactions = DOMAIN w.transactions
             /\ \A other \in Ids \ {id} : v.runs[other] = w.runs[other]
             /\ IsDue(v, k, id)
  <1> DEFINE executed == w.executed \cup {id}
             runs == [w.runs EXCEPT ![id] = @ + 1]
             first == [w EXCEPT !.executed = executed]
             v == [first EXCEPT !.runs = runs]
  <1>1. id \in Ids /\ BooksAreKept(w)
    BY TransactionPlaces DEF MayRun, IsGood
  <1>2. /\ runs = [i \in Ids |-> IF i \in executed THEN 1 ELSE 0]
        /\ runs[id] = 1
        /\ \A other \in Ids \ {id} : runs[other] = w.runs[other]
        /\ \A i \in Ids : w.runs[i] <= runs[i]
    BY <1>1 DEF BooksAreKept, MayRun
  <1>3. Marked(w, id) = v
    BY DEF Marked, IsGood, WalletFields
  <1> HIDE DEF executed, runs
  <1>4. /\ DOMAIN first = WalletFields /\ first.executed = executed
        /\ first.owners = w.owners /\ first.isOwner = w.isOwner
        /\ first.required = w.required /\ first.transactions = w.transactions
        /\ first.confirmations = w.confirmations /\ first.quorum = w.quorum
        /\ first.confirmationTimes = w.confirmationTimes
        /\ first.secondsTimeLocked = w.secondsTimeLocked
        /\ first.instantData = w.instantData
    BY DEF IsGood, WalletFields
  <1> HIDE DEF first
  <1>5. /\ DOMAIN v = WalletFields /\ v.executed = executed /\ v.runs = runs
        /\ v.owners = w.owners /\ v.isOwner = w.isOwner
        /\ v.required = w.required /\ v.transactions = w.transactions
        /\ v.confirmations = w.confirmations /\ v.quorum = w.quorum
        /\ v.confirmationTimes = w.confirmationTimes
        /\ v.secondsTimeLocked = w.secondsTimeLocked
        /\ v.instantData = w.instantData
    BY <1>4 DEF WalletFields
  <1> HIDE DEF v
  <1>6. \A i : IsConfirmed(v, i) <=> IsConfirmed(w, i)
    BY <1>5 DEF IsConfirmed
  <1>7. OwnersAreValid(v) /\ BooksAreKept(v)
    BY <1>2, <1>5 DEF IsGood, OwnersAreValid, BooksAreKept
  <1>8. \A i \in Ids : IsTimed(w, i) => IsTimed(v, i)
    BY <1>5, <1>6 DEF IsTimed
  <1>9. Grows(w, v)
    BY <1>2, <1>5, TransactionPlaces DEF Grows, IsGood
  <1>10. CanBeExecutedInstantly(v, id) <=> CanBeExecutedInstantly(w, id)
    BY <1>5 DEF CanBeExecutedInstantly
  <1>11. IsDelayed(k) => \/ CanBeExecutedInstantly(v, id)
                    \/ v.quorum[id].by = "rules"
                    \/ walletTime >= v.quorum[id].since + v.secondsTimeLocked
    <2> SUFFICES ASSUME IsDelayed(k), ~CanBeExecutedInstantly(w, id),
                        w.quorum[id].by # "rules"
                 PROVE  walletTime >= w.quorum[id].since + w.secondsTimeLocked
      BY <1>5, <1>10
    <2>1. walletTime >= w.confirmationTimes[id] + w.secondsTimeLocked
      BY DEF MayRun, PastTimeLock
    <2>2. w.quorum[id].since = w.confirmationTimes[id]
      BY <1>1 DEF IsGood, IsTimed, MayRun
    <2> QED BY <2>1, <2>2
  <1>12. IsDue(v, k, id)
    BY <1>2, <1>5, <1>6, <1>11 DEF IsDue, MayRun
  <1> QED BY <1>2, <1>3, <1>5, <1>7, <1>8, <1>9, <1>12 DEF IsGood

-----------------------------------------------------------------------------
(* The list of owners                                                      *)

ListsOnce(s, S) == s \in Seq(S) /\ IsInjective(s) /\ Range(s) = S

LEMMA OwnerIsAdded ==
  ASSUME NEW S, NEW s, ListsOnce(s, S), NEW o, o \notin S
  PROVE  ListsOnce(Append(s, o), S \cup {o}) /\ Len(Append(s, o)) = Len(s) + 1
  <1> DEFINE n == Len(s)
             t == Append(s, o)
  <1>1. n \in Nat /\ DOMAIN s = 1 .. n /\ \A i \in 1 .. n : s[i] \in S
    BY DEF ListsOnce
  <1>2. /\ t \in Seq(S \cup {o}) /\ Len(t) = n + 1
        /\ \A i \in 1 .. n : t[i] = s[i]
        /\ t[n + 1] = o
        /\ DOMAIN t = 1 .. n + 1
    BY DEF ListsOnce
  <1> HIDE DEF t, n
  <1>3. \A i \in 1 .. n + 1 : i \in 1 .. n \/ i = n + 1
    BY <1>1
  <1>4. IsInjective(t)
    <2> SUFFICES ASSUME NEW i \in 1 .. n + 1, NEW j \in 1 .. n + 1, t[i] = t[j]
                 PROVE  i = j
      BY <1>2 DEF IsInjective
    <2>1. CASE i \in 1 .. n /\ j \in 1 .. n
      BY <1>1, <1>2, <2>1 DEF ListsOnce, IsInjective
    <2>2. CASE i = n + 1 \/ j = n + 1
      BY <1>1, <1>2, <1>3, <2>2
    <2> QED BY <1>3, <2>1, <2>2
  <1>5. Range(t) = S \cup {o}
    <2>1. n + 1 \in 1 .. n + 1 /\ \A i \in 1 .. n : i \in 1 .. n + 1
      BY <1>1
    <2>2. \A x \in S : \E i \in 1 .. n : x = s[i]
      BY <1>1 DEF ListsOnce, Range
    <2>3. S \cup {o} \subseteq Range(t)
      BY <1>2, <2>1, <2>2 DEF Range
    <2>4. Range(t) \subseteq S \cup {o}
      BY <1>1, <1>2, <1>3 DEF Range
    <2> QED BY <2>3, <2>4
  <1> QED BY <1>2, <1>4, <1>5 DEF ListsOnce, t, n

LEMMA OwnerIsReplaced ==
  ASSUME NEW S, NEW s, ListsOnce(s, S), NEW o \in S, NEW new, new \notin S
  PROVE  LET t == [i \in DOMAIN s |-> IF s[i] = o THEN new ELSE s[i]]
         IN  ListsOnce(t, (S \ {o}) \cup {new}) /\ Len(t) = Len(s)
  <1> DEFINE n == Len(s)
             T == (S \ {o}) \cup {new}
             t == [i \in DOMAIN s |-> IF s[i] = o THEN new ELSE s[i]]
  <1>1. n \in Nat /\ DOMAIN s = 1 .. n /\ \A i \in 1 .. n : s[i] \in S
    BY DEF ListsOnce
  <1>2. t \in [1 .. n -> T]
    BY <1>1
  <1>3. t \in Seq(T) /\ Len(t) = n /\ DOMAIN t = 1 .. n
    <2> HIDE DEF t, n, T
    <2> QED BY <1>1, <1>2
  <1>4. \A i \in 1 .. n : t[i] = IF s[i] = o THEN new ELSE s[i]
    BY <1>1
  <1> HIDE DEF t, n
  <1>5. \A i, j \in 1 .. n : s[i] = s[j] => i = j
    BY <1>1 DEF ListsOnce, IsInjective
  <1>6. \A x \in S : \E i \in 1 .. n : x = s[i]
    BY <1>1 DEF ListsOnce, Range
  <1>7. IsInjective(t)
    BY <1>1, <1>3, <1>4, <1>5 DEF IsInjective
  <1>8. Range(t) = T
    <2>1. ASSUME NEW x \in T
          PROVE  x \in Range(t)
      <3>1. CASE x = new
        BY <1>3, <1>4, <1>6, <3>1 DEF Range
      <3>2. CASE x \in S \ {o}
        BY <1>3, <1>4, <1>6, <3>2 DEF Range
      <3> QED BY <3>1, <3>2
    <2>2. Range(t) \subseteq T
      BY <1>1, <1>3, <1>4 DEF Range
    <2> QED BY <2>1, <2>2
  <1> QED BY <1>3, <1>7, <1>8 DEF ListsOnce, t, n

(***************************************************************************)
(* removeOwner lists the others: the last one where the one removed was.   *)
(***************************************************************************)
LEMMA OwnerIsRemoved ==
  ASSUME NEW w, ListsOnce(w.owners, w.isOwner), NEW o \in w.isOwner
  PROVE  LET t == OwnersWithout(w, o)
         IN  ListsOnce(t, w.isOwner \ {o}) /\ Len(t) = Len(w.owners) - 1
                                           /\ Len(t) \in Nat
  <1> DEFINE s == w.owners
             S == w.isOwner
             n == Len(s)
             last == s[n]
             f == [i \in DOMAIN s |-> IF s[i] = o THEN last ELSE s[i]]
             t == OwnersWithout(w, o)
             T == S \ {o}
  <1>1. n \in Nat /\ DOMAIN s = 1 .. n /\ \A i \in 1 .. n : s[i] \in S
    BY DEF ListsOnce
  <1>2. \A i, j \in 1 .. n : s[i] = s[j] => i = j
    BY <1>1 DEF ListsOnce, IsInjective
  <1>3. \A x \in S : \E i \in 1 .. n : x = s[i]
    BY <1>1 DEF ListsOnce, Range
  <1>4. t = Front(f)
    BY DEF OwnersWithout, Last
  <1> HIDE DEF t, s, S
  <1>5. o \in S
    BY DEF S
  <1>6. n >= 1 /\ n \in 1 .. n
    BY <1>1, <1>3, <1>5
  <1>7. last \in S
    BY <1>1, <1>6
  <1>8. f \in [1 .. n -> S]
    BY <1>1, <1>7
  <1>9. \A i \in 1 .. n : f[i] = IF s[i] = o THEN last ELSE s[i]
    BY <1>1
  <1> HIDE DEF last, f
  <1>10. Len(f) = n
    <2> HIDE DEF n
    <2> QED BY <1>1, <1>8
  <1>11. t = SubSeq(f, 1, n - 1)
    BY <1>4, <1>10 DEF Front
  <1> HIDE DEF n
  <1>12. \A i \in 1 .. n - 1 : i \in 1 .. n /\ i # n
    BY <1>1
  <1>13. \A i \in 1 .. n - 1 : f[i] \in T
    <2> SUFFICES ASSUME NEW i \in 1 .. n - 1
                 PROVE  f[i] \in T
      OBVIOUS
    <2>1. i \in 1 .. n /\ i # n
      BY <1>12
    <2>2. CASE s[i] = o
      <3>1. last # o
        BY <1>2, <1>6, <2>1, <2>2 DEF last
      <3> QED BY <1>7, <1>9, <2>1, <2>2, <3>1
    <2>3. CASE s[i] # o
      BY <1>1, <1>9, <2>1, <2>3
    <2> QED BY <2>2, <2>3
  <1>14. /\ t \in Seq(T)
         /\ Len(t) = n - 1
         /\ \A i \in 1 .. n - 1 : t[i] = f[i]
    <2>1. 1 \in Int /\ n - 1 \in Int /\ (n - 1) - 1 + 1 = n - 1
      BY <1>1
    <2>2. /\ SubSeq(f, 1, n - 1) \in Seq(T)
          /\ Len(SubSeq(f, 1, n - 1)) = IF 1 <= n - 1 THEN (n - 1) - 1 + 1 ELSE 0
          /\ \A i \in 1 .. (n - 1) - 1 + 1 :
               SubSeq(f, 1, n - 1)[i] = f[1 + i - 1]
      <3> HIDE DEF T
      <3> QED BY <1>13, <2>1, SubSeqProperties
    <2>3. \A i \in 1 .. n - 1 : 1 + i - 1 = i
      BY <1>1
    <2>4. ~(1 <= n - 1) => n - 1 = 0
      BY <1>1, <1>6
    <2> QED BY <1>11, <2>1, <2>2, <2>3, <2>4
  <1>15. n - 1 \in Nat /\ DOMAIN t = 1 .. n - 1
    BY <1>1, <1>6, <1>14
  <1> HIDE DEF T
  <1>16. IsInjective(t)
    <2> SUFFICES ASSUME NEW i \in 1 .. n - 1, NEW j \in 1 .. n - 1, t[i] = t[j]
                 PROVE  i = j
      BY <1>15 DEF IsInjective
    <2>1. i \in 1 .. n /\ i # n /\ j \in 1 .. n /\ j # n
      BY <1>12
    <2>2. (IF s[i] = o THEN last ELSE s[i]) = (IF s[j] = o THEN last ELSE s[j])
      BY <1>9, <1>14, <2>1
    <2>3. s[i] # last /\ s[j] # last
      BY <1>2, <1>6, <2>1 DEF last
    <2> QED BY <1>2, <2>1, <2>2, <2>3
  <1>17. Range(t) = T
    <2>1. Range(t) \subseteq T
      BY <1>13, <1>14, <1>15 DEF Range
    <2>2. ASSUME NEW x \in T
          PROVE  \E i \in 1 .. n - 1 : x = t[i]
      <3>1. x \in S /\ x # o
        BY DEF T
      <3>2. PICK k \in 1 .. n : x = s[k]
        BY <1>3, <3>1
      <3>3. CASE k \in 1 .. n - 1
        <4>1. t[k] = x
          BY <1>9, <1>14, <3>1, <3>2, <3>3
        <4> QED BY <3>3, <4>1
      <3>4. CASE k = n
        <4>1. PICK p \in 1 .. n : o = s[p]
          BY <1>3, <1>5
        <4>2. p # n
          BY <3>1, <3>2, <3>4, <4>1
        <4>3. p \in 1 .. n - 1
          BY <1>1, <4>1, <4>2
        <4>4. t[p] = x
          BY <1>9, <1>14, <3>2, <3>4, <4>1, <4>3 DEF last
        <4> QED BY <4>3, <4>4
      <3> QED BY <1>1, <3>3, <3>4
    <2>3. T \subseteq Range(t)
      BY <1>15, <2>2 DEF Range
    <2> QED BY <2>1, <2>3
  <1> QED BY <1>14, <1>15, <1>16, <1>17 DEF ListsOnce, T, t, s, S, n

-----------------------------------------------------------------------------
(* The functions of the wallet                                             *)

LEMMA SubmittedIsGood ==
  ASSUME NEW w, NEW k, IsGood(w, k), NEW call \in Calls,
         Len(w.transactions) < MaxTransactions
  PROVE  LET v == [w EXCEPT !.transactions = Append(@, call)]
         IN  /\ IsGood(v, k) /\ Grows(w, v) /\ v.runs = w.runs
             /\ Len(w.transactions) + 1 \in DOMAIN v.transactions
  <1> DEFINE longer == Append(w.transactions, call)
             v == [w EXCEPT !.transactions = longer]
  <1>1. /\ longer \in Seq(Calls)
        /\ Len(longer) = Len(w.transactions) + 1
        /\ Len(w.transactions) \in Nat
        /\ Len(longer) \in DOMAIN longer
    BY DEF IsGood, BooksAreKept
  <1> HIDE DEF longer
  <1>2. /\ DOMAIN v = WalletFields /\ v.transactions = longer
        /\ v.owners = w.owners /\ v.isOwner = w.isOwner
        /\ v.required = w.required /\ v.executed = w.executed
        /\ v.confirmations = w.confirmations /\ v.quorum = w.quorum
        /\ v.confirmationTimes = w.confirmationTimes /\ v.runs = w.runs
    BY DEF IsGood, WalletFields
  <1> HIDE DEF v
  <1>3. OwnersAreValid(v)
    BY <1>2 DEF IsGood, OwnersAreValid
  <1>4. Len(longer) <= MaxTransactions
    BY <1>1, MultiSigAssumption
  <1>5. BooksAreKept(v)
    BY <1>1, <1>2, <1>4 DEF IsGood, BooksAreKept
  <1>6. \A id : IsTimed(w, id) => IsTimed(v, id)
    BY <1>2 DEF IsTimed, IsConfirmed
  <1>7. \A id \in Ids : w.runs[id] \in Nat
    BY RunsAreNat DEF IsGood
  <1>8. Grows(w, v)
    BY <1>1, <1>2, <1>7 DEF Grows
  <1> QED BY <1>1, <1>2, <1>3, <1>5, <1>6, <1>8 DEF IsGood, v, longer

LEMMA ConfirmedIsGood ==
  ASSUME NEW w, IsGood(w, kind), NEW sender, NEW id \in Ids,
         Delayed => ~IsConfirmed(w, id)
  PROVE  LET v == Confirmed(w, sender, id)
         IN  IsGood(v, kind) /\ Grows(w, v) /\ v.runs = w.runs
  <1> DEFINE more == w.confirmations \cup {<<id, sender>>}
             first == [w EXCEPT !.confirmations = more]
             times == [w.confirmationTimes EXCEPT ![id] = walletTime]
             sets == Delayed /\ IsConfirmed(first, id)
             after == IF sets THEN [first EXCEPT !.confirmationTimes = times]
                      ELSE first
  <1>1. /\ first.confirmationTimes = w.confirmationTimes
        /\ DOMAIN first = WalletFields
        /\ first.owners = w.owners /\ first.required = w.required
        /\ first.confirmations = more
        /\ first.isOwner = w.isOwner /\ first.transactions = w.transactions
        /\ first.executed = w.executed /\ first.quorum = w.quorum
        /\ first.runs = w.runs
    BY DEF IsGood, WalletFields
  <1>2. Confirmed(w, sender, id) = Noted(w, after, "confirmation")
    BY <1>1 DEF Confirmed, SetConfirmationTime
  <1>3. /\ DOMAIN times = Ids /\ times[id] = walletTime
        /\ \A i \in Ids \ {id} : times[i] = w.confirmationTimes[i]
    BY DEF IsGood, BooksAreKept
  <1>4. \A i \in Ids \ {id} : \A x :
          <<i, x>> \in more <=> <<i, x>> \in w.confirmations
    OBVIOUS
  <1> HIDE DEF more, first, times
  <1>5. /\ DOMAIN after = WalletFields
        /\ after.owners = w.owners /\ after.required = w.required
        /\ after.confirmations = more
        /\ after.isOwner = w.isOwner /\ after.transactions = w.transactions
        /\ after.executed = w.executed /\ after.quorum = w.quorum
        /\ after.runs = w.runs
        /\ after.confirmationTimes = IF sets THEN times ELSE w.confirmationTimes
    <2>1. CASE sets
      BY <1>1, <2>1 DEF WalletFields
    <2>2. CASE ~sets
      BY <1>1, <2>2
    <2> QED BY <2>1, <2>2
  <1>6. IsConfirmed(after, id) <=> IsConfirmed(first, id)
    BY <1>1, <1>5 DEF IsConfirmed
  <1> HIDE DEF after
  <1>7. OwnersAreValid(after)
    BY <1>5 DEF IsGood, OwnersAreValid
  <1>8. DOMAIN after.confirmationTimes = Ids
    BY <1>3, <1>5 DEF IsGood, BooksAreKept
  <1>9. BooksAreKept(after)
    BY <1>5, <1>8 DEF IsGood, BooksAreKept
  <1>10. \A i \in Ids : w.runs[i] \in Nat
    BY RunsAreNat DEF IsGood
  <1>11. Len(w.transactions) \in Nat
    BY TransactionPlaces DEF IsGood
  <1>12. Grows(w, after)
    BY <1>5, <1>10, <1>11 DEF Grows
  <1>13. ASSUME Delayed, NEW i \in Ids, IsConfirmed(after, i)
         PROVE  IF IsConfirmed(w, i)
                THEN after.confirmationTimes[i] = w.confirmationTimes[i]
                ELSE after.confirmationTimes[i] = walletTime
    <2>1. CASE i = id
      BY <1>3, <1>5, <1>6, <1>13, <2>1
    <2>2. CASE i # id
      <3>1. Confirmers(after, i) = Confirmers(w, i)
        BY <1>4, <1>5, <2>2 DEF Confirmers
      <3>2. IsConfirmed(w, i)
        BY <1>5, <1>13, <3>1, ConfirmedBySame
      <3>3. after.confirmationTimes[i] = w.confirmationTimes[i]
        BY <1>3, <1>5, <2>2
      <3> QED BY <3>2, <3>3
    <2> QED BY <2>1, <2>2
  <1>14. IsDelayed(kind) <=> Delayed
    BY DEF IsDelayed, Delayed
  <1> HIDE DEF sets
  <1> QED BY <1>2, <1>5, <1>7, <1>9, <1>12, <1>13, <1>14, NotedIsGood

LEMMA RevokedIsGood ==
  ASSUME NEW w, NEW k, IsGood(w, k), NEW confirmation
  PROVE  LET v == Noted(w, [w EXCEPT !.confirmations = @ \ {confirmation}], "nobody")
         IN  IsGood(v, k) /\ Grows(w, v) /\ v.runs = w.runs
  <1> DEFINE fewer == w.confirmations \ {confirmation}
             after == [w EXCEPT !.confirmations = fewer]
  <1>1. fewer \subseteq w.confirmations
    OBVIOUS
  <1> HIDE DEF fewer
  <1>2. /\ DOMAIN after = WalletFields /\ after.confirmations = fewer
        /\ after.owners = w.owners /\ after.required = w.required
        /\ after.isOwner = w.isOwner /\ after.transactions = w.transactions
        /\ after.executed = w.executed /\ after.quorum = w.quorum
        /\ after.runs = w.runs /\ after.confirmationTimes = w.confirmationTimes
    BY DEF IsGood, WalletFields
  <1> HIDE DEF after
  <1>3. OwnersAreValid(after) /\ BooksAreKept(after)
    BY <1>2 DEF IsGood, OwnersAreValid, BooksAreKept
  <1>4. /\ \A i \in Ids : w.runs[i] \in Nat
        /\ Len(w.transactions) \in Nat
    BY RunsAreNat, TransactionPlaces DEF IsGood
  <1>5. Grows(w, after)
    BY <1>2, <1>4 DEF Grows
  <1>6. OwnersAreValid(w)
    BY DEF IsGood
  <1>7. \A id \in Ids : IsConfirmed(after, id) => IsConfirmed(w, id)
    BY <1>1, <1>2, <1>6, ConfirmedByMore
  <1>8. LET v == Noted(w, after, "nobody")
        IN  IsGood(v, k) /\ Grows(w, v) /\ v.runs = w.runs
    BY <1>2, <1>3, <1>5, <1>7, NotedIsGood
  <1> QED BY <1>8 DEF after, fewer

(***************************************************************************)
(* A function of the wallet that accepts its arguments changes the owners, *)
(* the requirement, or what the invariant says nothing about.              *)
(***************************************************************************)
LEMMA RulesAreGood ==
  ASSUME NEW w, NEW k, IsGood(w, k),
         NEW after, DOMAIN after = WalletFields, OwnersAreValid(after),
         after.transactions = w.transactions, after.executed = w.executed,
         after.quorum = w.quorum, after.runs = w.runs,
         after.confirmationTimes = w.confirmationTimes
  PROVE  LET v == Noted(w, after, "rules")
         IN  IsGood(v, k) /\ Grows(w, v) /\ v.runs = w.runs
  <1>1. BooksAreKept(after)
    BY DEF IsGood, BooksAreKept
  <1>2. /\ \A i \in Ids : w.runs[i] \in Nat
        /\ Len(w.transactions) \in Nat
    BY RunsAreNat, TransactionPlaces DEF IsGood
  <1>3. Grows(w, after)
    BY <1>2 DEF Grows
  <1> QED BY <1>1, <1>3, NotedIsGood

LEMMA OwnersFrom ==
  ASSUME NEW w, NEW o, NEW S, NEW n, w.owners = o, w.isOwner = S, w.required = n,
         ListsOnce(o, S), n \in Nat, ValidRequirement(Len(o), n)
  PROVE  OwnersAreValid(w)
  BY DEF OwnersAreValid, ListsOnce

LEMMA WithOwners ==
  ASSUME NEW w, DOMAIN w = WalletFields, NEW o, NEW S
  PROVE  LET v == [w EXCEPT !.owners = o, !.isOwner = S]
         IN  /\ DOMAIN v = WalletFields
             /\ v.owners = o /\ v.isOwner = S /\ v.required = w.required
             /\ v.transactions = w.transactions /\ v.executed = w.executed
             /\ v.quorum = w.quorum /\ v.runs = w.runs
             /\ v.confirmationTimes = w.confirmationTimes
  <1> DEFINE first == [w EXCEPT !.owners = o]
  <1>1. /\ DOMAIN first = WalletFields
        /\ first.owners = o /\ first.required = w.required
        /\ first.transactions = w.transactions /\ first.executed = w.executed
        /\ first.quorum = w.quorum /\ first.runs = w.runs
        /\ first.confirmationTimes = w.confirmationTimes
    BY DEF WalletFields
  <1>2. [w EXCEPT !.owners = o, !.isOwner = S] = [first EXCEPT !.isOwner = S]
    BY DEF WalletFields
  <1> HIDE DEF first
  <1> QED BY <1>1, <1>2 DEF WalletFields

LEMMA ChangedIsGood ==
  ASSUME NEW w, NEW k, IsGood(w, k), NEW call \in Calls,
         call.selector \in WalletFunctions, Accepts(w, call)
  PROVE  LET v == Noted(w, Changed(w, call), "rules")
         IN  IsGood(v, k) /\ Grows(w, v) /\ v.runs = w.runs
  <1> DEFINE Keeps(v) ==
               /\ DOMAIN v = WalletFields
               /\ v.transactions = w.transactions /\ v.executed = w.executed
               /\ v.quorum = w.quorum /\ v.runs = w.runs
               /\ v.confirmationTimes = w.confirmationTimes
             Fits(v) == Keeps(v) /\ OwnersAreValid(v)
             n == Len(w.owners)
  <1>1. DOMAIN w = WalletFields /\ OwnersAreValid(w)
    BY DEF IsGood
  <1>2. ListsOnce(w.owners, w.isOwner) /\ w.required \in Nat /\ n \in Nat
        /\ ValidRequirement(n, w.required)
    BY <1>1 DEF OwnersAreValid, ListsOnce
  <1>3. CASE call.selector = "addOwner"
    <2> DEFINE o == Append(w.owners, call.owner)
               S == w.isOwner \cup {call.owner}
               v == [w EXCEPT !.owners = o, !.isOwner = S]
    <2>1. Changed(w, call) = v
      BY <1>1, <1>3 DEF Changed, WalletFields
    <2>2. /\ call.owner \notin w.isOwner
          /\ ValidRequirement(n + 1, w.required)
      BY <1>3 DEF Accepts
    <2>3. ListsOnce(o, S) /\ Len(o) = n + 1
      BY <1>2, <2>2, OwnerIsAdded
    <2> HIDE DEF o, S
    <2>4. Keeps(v) /\ v.owners = o /\ v.isOwner = S /\ v.required = w.required
      BY <1>1, WithOwners
    <2> HIDE DEF v, Keeps
    <2>5. OwnersAreValid(v)
      BY <1>2, <2>2, <2>3, <2>4, OwnersFrom
    <2> QED BY <2>1, <2>4, <2>5, RulesAreGood DEF Keeps
  <1>4. CASE call.selector = "removeOwner"
    <2> DEFINE o == OwnersWithout(w, call.owner)
               S == w.isOwner \ {call.owner}
               r == IF w.required > n - 1 THEN n - 1 ELSE w.required
               first == [w EXCEPT !.owners = o, !.isOwner = S]
               v == [first EXCEPT !.required = r]
    <2>1. Changed(w, call) = v
      BY <1>1, <1>4 DEF Changed, RemoveOwner, WalletFields
    <2>2. /\ call.owner \in w.isOwner
          /\ w.required >= n => ValidRequirement(n - 1, n - 1)
      BY <1>4 DEF Accepts
    <2>3. ListsOnce(o, S) /\ Len(o) = n - 1 /\ Len(o) \in Nat
      BY <1>2, <2>2, OwnerIsRemoved
    <2>4. r \in Nat /\ ValidRequirement(n - 1, r)
      <3>1. n - 1 \in Nat
        BY <2>3
      <3>2. n \in Nat /\ w.required \in Nat /\ MaxOwnerCount \in Nat
        BY <1>2, MultiSigAssumption
      <3> HIDE DEF n, o, S
      <3> QED BY <1>2, <2>2, <3>1, <3>2 DEF ValidRequirement
    <2> HIDE DEF o, S, r
    <2>5. /\ Keeps(first) /\ first.owners = o /\ first.isOwner = S
      BY <1>1, WithOwners
    <2> HIDE DEF first
    <2>6. Keeps(v) /\ v.owners = o /\ v.isOwner = S /\ v.required = r
      BY <2>5 DEF WalletFields
    <2> HIDE DEF v, Keeps
    <2>7. OwnersAreValid(v)
      BY <2>3, <2>4, <2>6, OwnersFrom
    <2> QED BY <2>1, <2>6, <2>7, RulesAreGood DEF Keeps
  <1>5. CASE call.selector = "replaceOwner"
    <2> DEFINE o == [i \in DOMAIN w.owners |->
                       IF w.owners[i] = call.owner THEN call.newOwner
                       ELSE w.owners[i]]
               S == (w.isOwner \ {call.owner}) \cup {call.newOwner}
               v == [w EXCEPT !.owners = o, !.isOwner = S]
    <2>1. Changed(w, call) = v
      BY <1>1, <1>5 DEF Changed, WalletFields
    <2>2. call.owner \in w.isOwner /\ call.newOwner \notin w.isOwner
      BY <1>5 DEF Accepts
    <2>3. ListsOnce(o, S) /\ Len(o) = n
      BY <1>2, <2>2, OwnerIsReplaced
    <2> HIDE DEF o, S
    <2>4. Keeps(v) /\ v.owners = o /\ v.isOwner = S /\ v.required = w.required
      BY <1>1, WithOwners
    <2> HIDE DEF v, Keeps
    <2>5. OwnersAreValid(v)
      BY <1>2, <2>3, <2>4, OwnersFrom
    <2> QED BY <2>1, <2>4, <2>5, RulesAreGood DEF Keeps
  <1>6. CASE call.selector = "changeRequirement"
    <2> DEFINE v == [w EXCEPT !.required = call.required]
    <2>1. Changed(w, call) = v
      BY <1>6 DEF Changed
    <2>2. call.required \in Nat /\ ValidRequirement(n, call.required)
      BY <1>6, MultiSigAssumption DEF Accepts
    <2>3. /\ Keeps(v) /\ v.owners = w.owners /\ v.isOwner = w.isOwner
          /\ v.required = call.required
      BY <1>1 DEF WalletFields
    <2> HIDE DEF v, Keeps
    <2>4. OwnersAreValid(v)
      BY <1>2, <2>2, <2>3, OwnersFrom
    <2> QED BY <2>1, <2>3, <2>4, RulesAreGood DEF Keeps
  <1>7. CASE call.selector = "changeTimeLock"
    <2> DEFINE v == [w EXCEPT !.secondsTimeLocked = call.seconds]
    <2>1. Changed(w, call) = v
      BY <1>7 DEF Changed
    <2>2. /\ Keeps(v) /\ v.owners = w.owners /\ v.isOwner = w.isOwner
          /\ v.required = w.required
      BY <1>1 DEF WalletFields
    <2> HIDE DEF v, Keeps
    <2>3. OwnersAreValid(v)
      BY <1>2, <2>2, OwnersFrom
    <2> QED BY <2>1, <2>2, <2>3, RulesAreGood DEF Keeps
  <1>8. CASE call.selector = "setSelector"
    <2> DEFINE entry == <<call.of, call.named>>
               data == IF call.approved THEN w.instantData \cup {entry}
                       ELSE w.instantData \ {entry}
               v == [w EXCEPT !.instantData = data]
    <2>1. Changed(w, call) = v
      BY <1>8 DEF Changed
    <2> HIDE DEF data
    <2>2. /\ Keeps(v) /\ v.owners = w.owners /\ v.isOwner = w.isOwner
          /\ v.required = w.required
      BY <1>1 DEF WalletFields
    <2> HIDE DEF v, Keeps
    <2>3. OwnersAreValid(v)
      BY <1>2, <2>2, OwnersFrom
    <2> QED BY <2>1, <2>2, <2>3, RulesAreGood DEF Keeps
  <1> QED BY <1>3, <1>4, <1>5, <1>6, <1>7, <1>8 DEF WalletFunctions

-----------------------------------------------------------------------------
(* The executions under way                                                *)

IsFrame(x, k) ==
  /\ DOMAIN x = {"sender", "ids", "before"}
  /\ x.ids \in Seq(Ids) /\ x.ids # <<>>
  /\ IsGood(x.before, k)

Holds(x, w) == Head(x.ids) \in DOMAIN w.transactions /\ Grows(x.before, w)

(***************************************************************************)
(* What an execution would bring back is no more than the wallet now has,  *)
(* and what the executions within it would bring back is no less.          *)
(***************************************************************************)
FramesAreKept(r, w, k) ==
  /\ \E S : r \in Seq(S)
  /\ \A f \in DOMAIN r : IsFrame(r[f], k) /\ Holds(r[f], w)
  /\ \A f, g \in DOMAIN r : f < g => Holds(r[f], r[g].before)

MultiSigInv == IsGood(wallet, kind) /\ FramesAreKept(running, wallet, kind)

LEMMA HoldsLonger ==
  ASSUME NEW k, NEW x, IsFrame(x, k), NEW w, IsGood(w, k), NEW v, IsGood(v, k),
         Holds(x, w), Grows(w, v)
  PROVE  Holds(x, v)
  <1>1. BooksAreKept(x.before) /\ BooksAreKept(w) /\ BooksAreKept(v)
    BY DEF IsFrame, IsGood
  <1>2. Grows(x.before, v)
    BY <1>1, GrowsIsTransitive DEF Holds
  <1>3. /\ DOMAIN w.transactions = 1 .. Len(w.transactions)
        /\ DOMAIN v.transactions = 1 .. Len(v.transactions)
        /\ Len(w.transactions) \in Nat /\ Len(v.transactions) \in Nat
    BY <1>1, TransactionPlaces
  <1>4. Head(x.ids) \in DOMAIN v.transactions
    BY <1>3 DEF Holds, Grows
  <1> QED BY <1>2, <1>4 DEF Holds

LEMMA FramesGrow ==
  ASSUME NEW k, NEW r, NEW w, FramesAreKept(r, w, k), IsGood(w, k),
         NEW v, IsGood(v, k), Grows(w, v)
  PROVE  FramesAreKept(r, v, k)
  BY HoldsLonger DEF FramesAreKept

LEMMA FramePushed ==
  ASSUME NEW k, NEW r, NEW w, FramesAreKept(r, w, k), IsGood(w, k),
         NEW v, IsGood(v, k), Grows(w, v),
         NEW x, IsFrame(x, k), x.before = w, Holds(x, v)
  PROVE  FramesAreKept(Append(r, x), v, k)
  <1> DEFINE n == Len(r)
             t == Append(r, x)
  <1>1. PICK S : r \in Seq(S)
    BY DEF FramesAreKept
  <1>2. n \in Nat /\ DOMAIN r = 1 .. n
    BY <1>1
  <1>3. /\ t \in Seq(S \cup {x})
        /\ DOMAIN t = 1 .. n + 1
        /\ \A i \in 1 .. n : t[i] = r[i]
        /\ t[n + 1] = x
    BY <1>1
  <1>4. \A i \in 1 .. n + 1 : i \in 1 .. n \/ i = n + 1
    BY <1>2
  <1>5. FramesAreKept(r, v, k)
    BY FramesGrow
  <1> HIDE DEF t, n
  <1>6. ASSUME NEW f \in DOMAIN t
        PROVE  IsFrame(t[f], k) /\ Holds(t[f], v)
    BY <1>2, <1>3, <1>4, <1>5 DEF FramesAreKept
  <1>7. ASSUME NEW f \in DOMAIN t, NEW g \in DOMAIN t, f < g
        PROVE  Holds(t[f], t[g].before)
    <2>1. f \in 1 .. n
      BY <1>2, <1>3, <1>7
    <2>2. CASE g \in 1 .. n
      BY <1>2, <1>3, <1>5, <1>7, <2>1, <2>2 DEF FramesAreKept
    <2>3. CASE g = n + 1
      BY <1>2, <1>3, <2>1, <2>3 DEF FramesAreKept
    <2> QED BY <1>3, <1>4, <2>2, <2>3
  <1> QED BY <1>3, <1>6, <1>7 DEF FramesAreKept, t

LEMMA FramePopped ==
  ASSUME NEW k, NEW r, r # <<>>, NEW w, FramesAreKept(r, w, k)
  PROVE  LET top == Last(r)
         IN  /\ IsFrame(top, k) /\ Holds(top, w)
             /\ FramesAreKept(Front(r), w, k)
             /\ FramesAreKept(Front(r), top.before, k)
  <1> DEFINE n == Len(r)
             t == SubSeq(r, 1, n - 1)
  <1>1. PICK S : r \in Seq(S)
    BY DEF FramesAreKept
  <1>2. n \in Nat \ {0} /\ DOMAIN r = 1 .. n
    BY <1>1
  <1>3. n - 1 \in Nat
    BY <1>2
  <1>4. n \in DOMAIN r /\ \A i \in 1 .. n - 1 : i \in DOMAIN r /\ i < n
    BY <1>2
  <1>5. t \in Seq(S) /\ DOMAIN t = 1 .. n - 1 /\ \A i \in 1 .. n - 1 : t[i] = r[i]
    <2>1. \A i \in 1 .. n - 1 : r[i] \in S
      BY <1>1, <1>4
    <2>2. 1 \in Int /\ n - 1 \in Int /\ (n - 1) - 1 + 1 = n - 1
      BY <1>3
    <2>3. /\ SubSeq(r, 1, n - 1) \in Seq(S)
          /\ Len(SubSeq(r, 1, n - 1)) = IF 1 <= n - 1 THEN (n - 1) - 1 + 1 ELSE 0
          /\ \A i \in 1 .. (n - 1) - 1 + 1 :
               SubSeq(r, 1, n - 1)[i] = r[1 + i - 1]
      <3> HIDE DEF n
      <3> QED BY <2>1, <2>2, SubSeqProperties
    <2>4. \A i \in 1 .. n - 1 : 1 + i - 1 = i
      BY <1>3
    <2>5. Len(t) = n - 1
      BY <1>3, <2>2, <2>3
    <2> HIDE DEF n
    <2> QED BY <2>2, <2>3, <2>4, <2>5
  <1>6. Front(r) = t /\ Last(r) = r[n]
    BY DEF Front, Last
  <1> HIDE DEF n, t
  <1>7. IsFrame(r[n], k) /\ Holds(r[n], w)
    BY <1>4 DEF FramesAreKept
  <1>8. \A i \in DOMAIN t : /\ t[i] = r[i] /\ i \in DOMAIN r
                            /\ Holds(r[i], r[n].before)
    BY <1>4, <1>5 DEF FramesAreKept
  <1>9. FramesAreKept(t, w, k)
    BY <1>5, <1>8 DEF FramesAreKept
  <1>10. FramesAreKept(t, r[n].before, k)
    BY <1>5, <1>8 DEF FramesAreKept
  <1> QED BY <1>6, <1>7, <1>9, <1>10

LEMMA FrameGoesOn ==
  ASSUME NEW k, NEW r, r # <<>>, NEW w, FramesAreKept(r, w, k),
         Len(Last(r).ids) # 1, Last(r).ids[2] \in DOMAIN w.transactions
  PROVE  FramesAreKept([r EXCEPT ![Len(r)].ids = Tail(Last(r).ids)], w, k)
  <1> DEFINE n == Len(r)
             x == Last(r)
             ids == Tail(x.ids)
             y == [x EXCEPT !.ids = ids]
             t == [r EXCEPT ![n] = y]
  <1>1. PICK S : r \in Seq(S)
    BY DEF FramesAreKept
  <1>2. n \in Nat \ {0} /\ DOMAIN r = 1 .. n /\ n \in DOMAIN r /\ x = r[n]
    BY <1>1 DEF Last
  <1>3. IsFrame(x, k) /\ Holds(x, w)
    BY <1>2 DEF FramesAreKept
  <1>4. ids \in Seq(Ids) /\ ids # <<>> /\ Head(ids) = x.ids[2]
    <2>1. x.ids \in Seq(Ids) /\ x.ids # <<>> /\ Len(x.ids) # 1
      BY <1>3 DEF IsFrame
    <2>2. Len(x.ids) \in Nat /\ Len(x.ids) >= 2
      <3>1. Len(x.ids) \in Nat /\ Len(x.ids) # 0
        BY <2>1, EmptySeq
      <3>2. Len(x.ids) # 1
        BY <2>1
      <3> DEFINE m == Len(x.ids)
      <3>3. m \in Nat /\ m # 0 /\ m # 1
        BY <3>1, <3>2
      <3> HIDE DEF m
      <3>4. m >= 2
        BY <3>3
      <3> QED BY <3>1, <3>4 DEF m
    <2> HIDE DEF x
    <2>3. ids \in Seq(Ids) /\ Len(ids) = Len(x.ids) - 1
          /\ \A i \in 1 .. Len(ids) : ids[i] = x.ids[i + 1]
      BY <2>1
    <2> HIDE DEF ids
    <2>4. Len(ids) >= 1 /\ 1 \in 1 .. Len(ids)
      BY <2>2, <2>3
    <2>5. Head(ids) = ids[1] /\ ids # <<>>
      BY <2>3, <2>4
    <2> QED BY <2>3, <2>4, <2>5
  <1>5. t = [r EXCEPT ![Len(r)].ids = Tail(Last(r).ids)]
    BY <1>2
  <1> HIDE DEF ids, x
  <1>6. /\ DOMAIN y = {"sender", "ids", "before"}
        /\ y.ids = ids /\ y.before = x.before
    BY <1>3 DEF IsFrame
  <1> HIDE DEF y, n
  <1>7. IsFrame(y, k) /\ Holds(y, w)
    BY <1>3, <1>4, <1>6 DEF IsFrame, Holds, x
  <1>8. t \in Seq(S \cup {y})
    BY <1>1, <1>2
  <1>9. /\ DOMAIN t = DOMAIN r /\ t[n] = y
        /\ \A i \in DOMAIN r \ {n} : t[i] = r[i]
    BY <1>1, <1>2
  <1> HIDE DEF t
  <1>10. \A f \in DOMAIN t : IsFrame(t[f], k) /\ Holds(t[f], w)
    BY <1>7, <1>9 DEF FramesAreKept
  <1>11. ASSUME NEW f \in DOMAIN t, NEW g \in DOMAIN t, f < g
         PROVE  Holds(t[f], t[g].before)
    <2>1. f # n /\ t[f] = r[f]
      BY <1>2, <1>9, <1>11
    <2>2. t[g].before = r[g].before
      BY <1>2, <1>6, <1>9
    <2> QED BY <1>9, <1>11, <2>1, <2>2 DEF FramesAreKept
  <1> QED BY <1>5, <1>8, <1>10, <1>11 DEF FramesAreKept

-----------------------------------------------------------------------------
(* The steps                                                               *)

(***************************************************************************)
(* What a step of the wallet from w to v has to show.                      *)
(***************************************************************************)
Due(w, v, k) == \A id \in Ids : v.runs[id] > w.runs[id] => IsDue(v, k, id)

Good(w, v, r, k) == IsGood(v, k) /\ FramesAreKept(r, v, k) /\ Due(w, v, k)

LEMMA NothingRunsTwice ==
  ASSUME NEW w, BooksAreKept(w), NEW v, BooksAreKept(v), NEW k,
         \A id \in Ids : v.runs[id] <= w.runs[id]
  PROVE  Due(w, v, k)
  <1>1. ASSUME NEW id \in Ids
        PROVE  ~(v.runs[id] > w.runs[id])
    <2>1. v.runs[id] \in Nat /\ w.runs[id] \in Nat /\ v.runs[id] <= w.runs[id]
      BY RunsAreNat
    <2> QED BY <2>1
  <1> QED BY <1>1 DEF Due

LEMMA MayRunFrom ==
  ASSUME NEW w, NEW sender, NEW id, MayExecute(w, sender, id)
  PROVE  MayRun(w, kind, id)
  BY DEF MayExecute, MayRun, IsDelayed, Delayed

\* The wallet changes, and no execution starts or ends.
LEMMA StaysGood ==
  ASSUME MultiSigInv, NEW v, IsGood(v, kind), Grows(wallet, v), v.runs = wallet.runs
  PROVE  Good(wallet, v, running, kind)
  <1>1. FramesAreKept(running, v, kind)
    BY FramesGrow DEF MultiSigInv
  <1>2. BooksAreKept(wallet) /\ BooksAreKept(v)
    BY DEF MultiSigInv, IsGood
  <1>3. \A id \in Ids : v.runs[id] <= wallet.runs[id]
    <2>1. \A id \in Ids : wallet.runs[id] \in Nat
      BY <1>2, RunsAreNat
    <2> QED BY <2>1
  <1>4. Due(wallet, v, kind)
    BY <1>2, <1>3, NothingRunsTwice
  <1> QED BY <1>1, <1>4 DEF Good

LEMMA StartIsGood ==
  ASSUME MultiSigInv, NEW w, IsGood(w, kind), Grows(wallet, w),
         w.runs = wallet.runs, NEW sender, NEW ids \in Seq(Ids), ids # <<>>,
         MayRun(w, kind, Head(ids)), Start(w, sender, ids)
  PROVE  Good(wallet, wallet', running', kind)
  <1> DEFINE x == [sender |-> sender, ids |-> ids, before |-> w]
             id == Head(ids)
             v == Marked(w, id)
  <1>1. wallet' = v /\ running' = Append(running, x)
    BY DEF Start
  <1>2. /\ IsGood(v, kind) /\ Grows(w, v)
        /\ DOMAIN v.transactions = DOMAIN w.transactions
        /\ \A other \in Ids \ {id} : v.runs[other] = w.runs[other]
        /\ IsDue(v, kind, id)
    BY MarkedIsGood
  <1>3. /\ DOMAIN x = {"sender", "ids", "before"}
        /\ x.ids = ids /\ x.before = w
    OBVIOUS
  <1> HIDE DEF x, v
  <1>4. IsFrame(x, kind)
    BY <1>3 DEF IsFrame
  <1>5. Holds(x, v)
    BY <1>2, <1>3 DEF Holds, MayRun
  <1>6. FramesAreKept(running, w, kind)
    BY FramesGrow DEF MultiSigInv
  <1>7. FramesAreKept(Append(running, x), v, kind)
    BY <1>2, <1>3, <1>4, <1>5, <1>6, FramePushed
  <1>8. \A i \in Ids : wallet.runs[i] \in Nat
    BY RunsAreNat DEF MultiSigInv, IsGood
  <1>9. Due(wallet, v, kind)
    <2> HIDE DEF id
    <2> QED BY <1>2, <1>8 DEF Due
  <1> QED BY <1>1, <1>2, <1>7, <1>9 DEF Good

LEMMA RevertIsGood ==
  ASSUME MultiSigInv, running # <<>>, Reverts
  PROVE  Good(wallet, wallet', running', kind)
  <1> DEFINE top == Last(running)
             v == top.before
  <1>1. wallet' = v /\ running' = Front(running)
    BY DEF Reverts, Execution
  <1>2. /\ IsFrame(top, kind) /\ Holds(top, wallet)
        /\ FramesAreKept(Front(running), v, kind)
    BY FramePopped DEF MultiSigInv
  <1> HIDE DEF top
  <1>3. IsGood(v, kind) /\ Grows(v, wallet)
    BY <1>2 DEF IsFrame, Holds
  <1>4. BooksAreKept(v) /\ BooksAreKept(wallet)
    BY <1>3 DEF IsGood, MultiSigInv
  <1> HIDE DEF v
  <1>5. Due(wallet, v, kind)
    BY <1>3, <1>4, NothingRunsTwice DEF Grows
  <1> QED BY <1>1, <1>2, <1>3, <1>5 DEF Good

LEMMA ReturnIsGood ==
  ASSUME MultiSigInv, running # <<>>, NEW w, IsGood(w, kind), Grows(wallet, w),
         w.runs = wallet.runs, ReturnsWith(w)
  PROVE  Good(wallet, wallet', running', kind)
  <1> DEFINE top == Last(running)
             next == top.ids[2]
             v == Marked(w, next)
             r == [running EXCEPT ![Len(running)].ids = Tail(top.ids)]
  <1>1. Good(wallet, w, running, kind)
    BY StaysGood
  <1>2. CASE Len(top.ids) = 1
    <2>1. wallet' = w /\ running' = Front(running)
      BY <1>2 DEF ReturnsWith, Execution
    <2>2. FramesAreKept(Front(running), w, kind)
      BY <1>1, FramePopped DEF Good
    <2> QED BY <1>1, <2>1, <2>2 DEF Good
  <1>3. CASE Len(top.ids) # 1 /\ MayExecute(w, top.sender, next)
    <2>1. wallet' = v /\ running' = r
      BY <1>3 DEF ReturnsWith, Execution
    <2>2. MayRun(w, kind, next)
      BY <1>3, MayRunFrom
    <2>3. /\ IsGood(v, kind) /\ Grows(w, v)
          /\ DOMAIN v.transactions = DOMAIN w.transactions
          /\ \A other \in Ids \ {next} : v.runs[other] = w.runs[other]
          /\ IsDue(v, kind, next)
      BY <2>2, MarkedIsGood
    <2>4. next \in DOMAIN v.transactions
      BY <2>2, <2>3 DEF MayRun
    <2> HIDE DEF v
    <2>5. FramesAreKept(running, v, kind)
      BY <1>1, <2>3, FramesGrow DEF Good
    <2>6. FramesAreKept(r, v, kind)
      BY <1>3, <2>4, <2>5, FrameGoesOn
    <2>7. \A i \in Ids : wallet.runs[i] \in Nat
      BY RunsAreNat DEF MultiSigInv, IsGood
    <2>8. Due(wallet, v, kind)
      <3> HIDE DEF next
      <3> QED BY <2>3, <2>7 DEF Due
    <2> QED BY <2>1, <2>3, <2>6, <2>8 DEF Good
  <1>4. CASE Len(top.ids) # 1 /\ ~MayExecute(w, top.sender, next)
    <2>1. Reverts
      BY <1>4 DEF ReturnsWith, Execution
    <2> QED BY <2>1, RevertIsGood
  <1> QED BY <1>2, <1>3, <1>4

LEMMA ConfirmIsGood ==
  ASSUME MultiSigInv, NEW w, IsGood(w, kind), Grows(wallet, w),
         w.runs = wallet.runs, NEW sender, NEW id \in DOMAIN w.transactions,
         Confirm(w, sender, id)
  PROVE  Good(wallet, wallet', running', kind)
  <1> DEFINE after == Confirmed(w, sender, id)
  <1>1. id \in Ids /\ BooksAreKept(w) /\ BooksAreKept(wallet)
    BY TransactionPlaces DEF IsGood, MultiSigInv
  <1>2. Delayed => ~IsConfirmed(w, id)
    BY DEF Confirm
  <1>3. IsGood(after, kind) /\ Grows(w, after) /\ after.runs = w.runs
    BY <1>1, <1>2, ConfirmedIsGood
  <1>4. IF ~Delayed /\ IsConfirmed(after, id) THEN Start(after, sender, <<id>>)
        ELSE wallet' = after /\ UNCHANGED running
    BY DEF Confirm
  <1>5. ~Delayed => id \notin w.executed
    BY DEF Confirm
  <1> HIDE DEF after
  <1>6. BooksAreKept(after)
    BY <1>3 DEF IsGood
  <1>7. Grows(wallet, after)
    BY <1>1, <1>3, <1>6, GrowsIsTransitive
  <1>8. CASE ~Delayed /\ IsConfirmed(after, id)
    <2>1. id \notin after.executed
      BY <1>1, <1>3, <1>5, <1>6, <1>8 DEF BooksAreKept
    <2>2. id \in DOMAIN after.transactions
      <3>1. /\ DOMAIN w.transactions = 1 .. Len(w.transactions)
            /\ DOMAIN after.transactions = 1 .. Len(after.transactions)
            /\ Len(w.transactions) \in Nat /\ Len(after.transactions) \in Nat
        BY <1>1, <1>6, TransactionPlaces
      <3> QED BY <1>3, <3>1 DEF Grows
    <2>3. ~IsDelayed(kind)
      BY <1>8 DEF IsDelayed, Delayed
    <2>4. MayRun(after, kind, id)
      BY <1>8, <2>1, <2>2, <2>3 DEF MayRun
    <2>5. <<id>> \in Seq(Ids) /\ <<id>> # <<>> /\ Head(<<id>>) = id
      BY <1>1
    <2>6. Start(after, sender, <<id>>)
      BY <1>4, <1>8
    <2> QED BY <1>3, <1>7, <2>4, <2>5, <2>6, StartIsGood
  <1>9. CASE ~(~Delayed /\ IsConfirmed(after, id))
    <2>1. wallet' = after /\ running' = running
      BY <1>4, <1>9
    <2> QED BY <1>3, <1>7, <2>1, StaysGood
  <1> QED BY <1>8, <1>9

-----------------------------------------------------------------------------
(* The invariant                                                           *)

LEMMA FirstWalletIsGood ==
  ASSUME MultiSigInit
  PROVE  MultiSigInv
  <1> DEFINE w == wallet
  <1>1. /\ DOMAIN w = WalletFields /\ running = <<>>
        /\ w.owners = FirstOwners /\ w.isOwner = Range(FirstOwners)
        /\ w.required = FirstRequired /\ w.transactions = <<>>
        /\ w.executed = {} /\ w.confirmations = {}
        /\ w.confirmationTimes = [id \in Ids |-> 0]
        /\ w.quorum = [id \in Ids |-> NoQuorum]
        /\ w.runs = [id \in Ids |-> 0]
    BY DEF MultiSigInit, WalletFields
  <1> HIDE DEF w
  <1>2. OwnersAreValid(w)
    <2>1. Len(FirstOwners) \in Nat
      BY MultiSigAssumption
    <2>2. ValidRequirement(Len(FirstOwners), FirstRequired) /\ FirstRequired \in Nat
      BY <2>1, MultiSigAssumption DEF ValidRequirement
    <2> QED BY <1>1, <2>2, MultiSigAssumption DEF OwnersAreValid
  <1>3. BooksAreKept(w)
    <2>1. Len(w.transactions) = 0 /\ w.transactions \in Seq(Calls)
      BY <1>1
    <2>2. Len(w.transactions) <= MaxTransactions
      BY <2>1, MultiSigAssumption
    <2> QED BY <1>1, <2>1, <2>2 DEF BooksAreKept
  <1>4. ASSUME NEW id \in Ids
        PROVE  ~IsConfirmed(w, id)
    <2>1. Confirmers(w, id) = {}
      BY <1>1 DEF Confirmers
    <2>2. Cardinality(Confirmers(w, id)) = 0
      BY <2>1, FS_EmptySet
    <2>3. w.required \in Nat /\ w.required # 0
      BY <1>2 DEF OwnersAreValid, ValidRequirement
    <2>4. ~(Cardinality(Confirmers(w, id)) >= w.required)
      BY <2>2, <2>3
    <2> QED BY <2>4 DEF IsConfirmed, Confirmers
  <1>5. IsGood(w, kind)
    BY <1>1, <1>2, <1>3, <1>4 DEF IsGood, IsTimed
  <1>6. FramesAreKept(running, w, kind)
    <2>1. running \in Seq({}) /\ DOMAIN running = {}
      BY <1>1
    <2> QED BY <2>1 DEF FramesAreKept
  <1> QED BY <1>5, <1>6 DEF MultiSigInv, w

(***************************************************************************)
(* Every step keeps the wallet good, and runs what is due.                 *)
(***************************************************************************)
LEMMA StepIsGood ==
  ASSUME MultiSigInv, [MultiSigNext]_multiSigVars
  PROVE  kind' = kind /\ Good(wallet, wallet', running', kind)
  <1>0. /\ IsGood(wallet, kind) /\ BooksAreKept(wallet)
        /\ Grows(wallet, wallet)
    BY GrowsIsReflexive DEF MultiSigInv, IsGood
  <1>1. CASE RunWalletFunction
    <2>1. running # <<>> /\ kind' = kind
      BY <1>1 DEF RunWalletFunction
    <2>2. CASE CurrentCall.selector \in WalletFunctions
               /\ Accepts(wallet, CurrentCall)
      <3> DEFINE call == CurrentCall
                 v == Noted(wallet, Changed(wallet, call), "rules")
      <3>1. Holds(Last(running), wallet)
        BY <2>1, FramePopped DEF MultiSigInv
      <3>2. call \in Calls
        BY <1>0, <3>1, TransactionPlaces DEF Holds, CurrentCall, Execution
      <3>3. ReturnsWith(v)
        BY <1>1, <2>2 DEF RunWalletFunction
      <3>4. call.selector \in WalletFunctions /\ Accepts(wallet, call)
        BY <2>2
      <3> HIDE DEF call
      <3>5. IsGood(v, kind) /\ Grows(wallet, v) /\ v.runs = wallet.runs
        BY <1>0, <3>2, <3>4, ChangedIsGood
      <3> HIDE DEF v
      <3> QED BY <2>1, <3>3, <3>5, ReturnIsGood
    <2>3. CASE ~(CurrentCall.selector \in WalletFunctions
                 /\ Accepts(wallet, CurrentCall))
      <3>1. Reverts
        BY <1>1, <2>3 DEF RunWalletFunction
      <3> QED BY <2>1, <3>1, RevertIsGood
    <2> QED BY <2>2, <2>3
  <1>2. CASE ExternalCallReturns
    <2>1. running # <<>> /\ kind' = kind /\ ReturnsWith(wallet)
      BY <1>2 DEF ExternalCallReturns
    <2> QED BY <1>0, <2>1, ReturnIsGood
  <1>3. CASE ExternalCallFails
    <2>1. running # <<>> /\ kind' = kind /\ Reverts
      BY <1>3 DEF ExternalCallFails
    <2> QED BY <2>1, RevertIsGood
  <1>4. ASSUME NEW sender, NEW call \in Calls, SubmitTransaction(sender, call)
        PROVE  kind' = kind /\ Good(wallet, wallet', running', kind)
    <2> DEFINE w == [wallet EXCEPT !.transactions = Append(@, call)]
               id == Len(wallet.transactions) + 1
    <2>1. /\ kind' = kind /\ Confirm(w, sender, id)
          /\ Len(wallet.transactions) < MaxTransactions
      BY <1>4 DEF SubmitTransaction
    <2>2. /\ IsGood(w, kind) /\ Grows(wallet, w) /\ w.runs = wallet.runs
          /\ id \in DOMAIN w.transactions
      BY <1>0, <2>1, SubmittedIsGood
    <2> HIDE DEF w, id
    <2> QED BY <2>1, <2>2, ConfirmIsGood
  <1>5. ASSUME NEW sender, NEW id \in DOMAIN wallet.transactions,
               ConfirmTransaction(sender, id)
        PROVE  kind' = kind /\ Good(wallet, wallet', running', kind)
    <2>1. kind' = kind /\ Confirm(wallet, sender, id)
      BY <1>5 DEF ConfirmTransaction
    <2> QED BY <1>0, <2>1, ConfirmIsGood
  <1>6. ASSUME NEW sender, NEW id, RevokeConfirmation(sender, id)
        PROVE  kind' = kind /\ Good(wallet, wallet', running', kind)
    <2> DEFINE v == Noted(wallet,
                          [wallet EXCEPT !.confirmations = @ \ {<<id, sender>>}],
                          "nobody")
    <2>1. kind' = kind /\ running' = running /\ wallet' = v
      BY <1>6 DEF RevokeConfirmation
    <2>2. IsGood(v, kind) /\ Grows(wallet, v) /\ v.runs = wallet.runs
      BY <1>0, RevokedIsGood
    <2> HIDE DEF v
    <2> QED BY <2>1, <2>2, StaysGood
  <1>7. ASSUME NEW sender, NEW ids \in {<<id>> : id \in Ids} \cup (Ids \X Ids),
               ExecuteTransactions(sender, ids)
        PROVE  kind' = kind /\ Good(wallet, wallet', running', kind)
    <2>1. /\ kind' = kind /\ MayExecute(wallet, sender, Head(ids))
          /\ Start(wallet, sender, ids)
      BY <1>7 DEF ExecuteTransactions
    <2>2. ids \in Seq(Ids) /\ ids # <<>>
      <3>1. CASE ids \in {<<id>> : id \in Ids}
        <4>1. PICK id \in Ids : ids = <<id>>
          BY <3>1
        <4> QED BY <4>1
      <3>2. CASE ids \in Ids \X Ids
        <4>1. PICK id \in Ids, other \in Ids : ids = <<id, other>>
          BY <3>2
        <4> QED BY <4>1
      <3> QED BY <1>7, <3>1, <3>2
    <2>3. MayRun(wallet, kind, Head(ids))
      BY <2>1, MayRunFrom
    <2> QED BY <1>0, <2>1, <2>2, <2>3, StartIsGood
  <1>8. CASE WalletTimePasses \/ UNCHANGED multiSigVars
    <2>1. kind' = kind /\ wallet' = wallet /\ running' = running
      BY <1>8 DEF WalletTimePasses, multiSigVars
    <2> QED BY <1>0, <2>1, StaysGood
  <1> QED BY <1>1, <1>2, <1>3, <1>4, <1>5, <1>6, <1>7, <1>8 DEF MultiSigNext

(***************************************************************************)
(* Through every submission, confirmation, revocation, execution and       *)
(* re-entry the wallet's books agree with each other: the owners, what ran *)
(* and was executed, and the time that the lock counts from.               *)
(***************************************************************************)
THEOREM MultiSigIsInductive == MultiSigSpec => []MultiSigInv
  <1>1. MultiSigInit => MultiSigInv
    BY FirstWalletIsGood
  <1>2. MultiSigInv /\ [MultiSigNext]_multiSigVars => MultiSigInv'
    <2> SUFFICES ASSUME MultiSigInv, [MultiSigNext]_multiSigVars
                 PROVE  MultiSigInv'
      OBVIOUS
    <2>1. kind' = kind /\ Good(wallet, wallet', running', kind)
      BY StepIsGood
    <2>2. IsGood(wallet', kind') /\ FramesAreKept(running', wallet', kind')
      BY <2>1 DEF Good
    <2> QED BY <2>2 DEF MultiSigInv
  <1> QED BY <1>1, <1>2, PTL DEF MultiSigSpec

(***************************************************************************)
(* The list and the map of owners agree, without repetition, and the       *)
(* requirement can be met, however addOwner, removeOwner, replaceOwner and *)
(* changeRequirement follow each other, fail, or are rolled back.          *)
(***************************************************************************)
THEOREM OwnersAreNeverLost == MultiSigSpec => []OwnersStayValid
  <1>1. MultiSigInv => OwnersStayValid
    BY DEF MultiSigInv, IsGood, OwnersAreValid, OwnersStayValid
  <1> QED BY <1>1, MultiSigIsInductive, PTL

(***************************************************************************)
(* What executeTransaction and executeMultipleTransactions run has not run *)
(* before, has its quorum, and has waited for the time lock since that     *)
(* quorum was completed, unless it is exempt or a change of rules          *)
(* completed it.                                                           *)
(***************************************************************************)
THEOREM OnlyDueTransactionsRun == MultiSigSpec => ExecutionsAreDue
  <1> DEFINE IsFine ==
        \A id \in Ids :
          wallet'.runs[id] > wallet.runs[id] =>
            LET quorum == wallet'.quorum[id]
            IN  /\ wallet'.runs[id] = 1
                /\ IsConfirmed(wallet', id)
                /\ \/ ~Delayed
                   \/ CanBeExecutedInstantly(wallet', id)
                   \/ quorum.by = "rules"
                   \/ walletTime >= quorum.since + wallet'.secondsTimeLocked
  <1>1. ASSUME MultiSigInv, [MultiSigNext]_multiSigVars
        PROVE  IsFine
    <2>1. Due(wallet, wallet', kind)
      BY <1>1, StepIsGood DEF Good
    <2> QED BY <2>1 DEF Due, IsDue, IsDelayed, Delayed
  <1> QED BY <1>1, MultiSigIsInductive, PTL DEF MultiSigSpec, ExecutionsAreDue

-----------------------------------------------------------------------------
(* Logins                                                                  *)

(***************************************************************************)
(* What a wallet signs is of one hash, whatever it prepends.               *)
(***************************************************************************)
LEMMA PrependedIsOfOne ==
  ASSUME NEW p, NEW hash, NEW q, NEW other,
         Prepended(p, hash) = Prepended(q, other)
  PROVE  hash = other
  <1>1. <<hash>> # <<q, other>> /\ <<p, hash>> # <<other>>
    <2>1. /\ Len(<<hash>>) = 1 /\ Len(<<q, other>>) = 2
          /\ Len(<<p, hash>>) = 2 /\ Len(<<other>>) = 1
      OBVIOUS
    <2> QED BY <2>1
  <1>2. <<hash>> = <<other>> => hash = other
    OBVIOUS
  <1>3. <<p, hash>> = <<q, other>> => hash = other
    OBVIOUS
  <1> QED BY <1>1, <1>2, <1>3 DEF Prepended

SignedBy(signature, signer, hash) ==
  /\ signature.raw.signer = signer
  /\ \E prefix : signature.raw.over = Prepended(prefix, hash)

LEMMA SignatureIsOf ==
  ASSUME NEW hash, NEW signer, NEW method \in HashMethods
  PROVE  SignedBy(Sign(hash, signer, method), signer, hash)
  <1> DEFINE raw == EthSign(hash, signer)
             hashSig == CreateTypedSignature(raw, "Decimal")
             unsafeHashSig == CreateTypedSignature(raw, "None")
  <1>1. Sign(hash, signer, method) \in {hashSig, unsafeHashSig}
    BY DEF Sign, HashMethods, TypedDataMethods
  <1>2. raw.over = Prepended(Wallets[signer].prefix, hash) /\ raw.signer = signer
    BY DEF EthSign
  <1>3. FixRawSignature(raw).over = raw.over /\ FixRawSignature(raw).signer = raw.signer
    BY DEF FixRawSignature, EthSign
  <1>4. /\ hashSig.raw = FixRawSignature(raw)
        /\ unsafeHashSig.raw = FixRawSignature(raw)
    BY DEF CreateTypedSignature
  <1> HIDE DEF raw, hashSig, unsafeHashSig
  <1> QED BY <1>1, <1>2, <1>3, <1>4 DEF SignedBy

LEMMA TypedSignatureIsOf ==
  ASSUME NEW hash, NEW signer
  PROVE  SignedBy(EthSignTypedDataInternal(hash, signer), signer, hash)
  <1>1. /\ EthSignTypedDataInternal(hash, signer).raw.signer = signer
        /\ EthSignTypedDataInternal(hash, signer).raw.over = Prepended("None", hash)
    BY DEF EthSignTypedDataInternal, EthSignTypedData, Prepended
  <1> QED BY <1>1 DEF SignedBy

\* An address with a wallet is recovered only from what it has signed.
LEMMA ValidMeansSigned ==
  ASSUME NEW signature, NEW signer, NEW hash, SignedBy(signature, signer, hash),
         NEW other, NEW claimed \in DOMAIN Wallets,
         HasValidSignature(other, signature, claimed)
  PROVE  claimed = signer /\ other = hash
  <1>1. claimed # Stranger
    BY SignaturesAssumption
  <1>2. /\ signature.raw.over = SignedHash(other, signature.type)
        /\ signature.raw.signer = claimed
    BY <1>1 DEF HasValidSignature, EcRecoverTypedSignature
  <1>3. PICK prefix : signature.raw.over = Prepended(prefix, hash)
    BY DEF SignedBy
  <1>4. Prepended(signature.type, other) = Prepended(prefix, hash)
    BY <1>2, <1>3 DEF SignedHash
  <1>5. other = hash
    BY <1>4, PrependedIsOfOne
  <1> QED BY <1>2, <1>5 DEF SignedBy

LEMMA HashTellsTime ==
  ASSUME NEW until, NEW other,
         GetWalletLoginHash(until) \in {GetWalletLoginHash(other), TypedDataHash(other)}
  PROVE  ToUTCString(until) = ToUTCString(other)
  <1>1. /\ GetWalletLoginHash(until).expiration = ToUTCString(until)
        /\ GetWalletLoginHash(other).expiration = ToUTCString(other)
        /\ TypedDataHash(other).expiration = ToUTCString(other)
    BY DEF GetWalletLoginHash, TypedDataHash
  <1> QED BY <1>1

\* Times of one second are less than a second apart.
LEMMA OneSecondIsShort ==
  ASSUME NEW x \in Nat, NEW y \in Nat, x \div Second = y \div Second
  PROVE  x <= y + Second - 1
  <1>1. Second \in Nat \ {0}
    BY LoginAssumption
  <1> DEFINE start == (x \div Second) * Second
  <1>2. /\ x = start + (x % Second) /\ x % Second \in 0 .. (Second - 1)
        /\ x \div Second \in Nat
    BY <1>1, DivMod
  <1>3. y = start + (y % Second) /\ y % Second \in 0 .. (Second - 1)
    BY <1>1, DivMod
  <1>4. start \in Nat
    BY <1>1, <1>2
  <1> HIDE DEF start
  <1> QED BY <1>1, <1>2, <1>3, <1>4

(***************************************************************************)
(* A login is of the hash that is checked, or of the typed data, and of    *)
(* its own signer and time.                                                *)
(***************************************************************************)
IsLogin(login) ==
  /\ login.signer \in DOMAIN Wallets
  /\ login.expiration \in Nat
  /\ \E hash \in {GetWalletLoginHash(login.expiration), TypedDataHash(login.expiration)} :
       SignedBy(login.signature, login.signer, hash)

LEMMA LoginIsSigned ==
  ASSUME NEW until \in Nat, NEW signer \in DOMAIN Wallets,
         NEW method \in HashMethods \cup TypedDataMethods
  PROVE  \E hash \in {GetWalletLoginHash(until), TypedDataHash(until)} :
           SignedBy(LoginSignature(until, signer, method), signer, hash)
  <1> DEFINE hash == GetWalletLoginHash(until)
  <1>1. LoginSignature(until, signer, method)
          \in {EthSignTypedDataInternal(TypedDataHash(until), signer),
               Sign(hash, signer, "Hash"), Sign(hash, signer, "UnsafeHash")}
    BY DEF LoginSignature, HashMethods, TypedDataMethods
  <1>2. "Hash" \in HashMethods /\ "UnsafeHash" \in HashMethods
    BY DEF HashMethods
  <1> HIDE DEF hash
  <1>3. /\ SignedBy(Sign(hash, signer, "Hash"), signer, hash)
        /\ SignedBy(Sign(hash, signer, "UnsafeHash"), signer, hash)
        /\ SignedBy(EthSignTypedDataInternal(TypedDataHash(until), signer), signer,
                    TypedDataHash(until))
    BY <1>2, SignatureIsOf, TypedSignatureIsOf
  <1> QED BY <1>1, <1>3 DEF hash

(***************************************************************************)
(* A method that suits the wallet makes a signature that is valid now.     *)
(***************************************************************************)
LEMMA SuitableIsValid ==
  ASSUME DomainIsDefault, NEW until \in Nat, NEW signer \in DOMAIN Wallets,
         NEW method \in HashMethods \cup TypedDataMethods,
         Suits(method, Wallets[signer]), now < until
  PROVE  HasValidSignature(GetWalletLoginHash(until),
                           LoginSignature(until, signer, method), signer)
  <1> DEFINE hash == GetWalletLoginHash(until)
             prefix == Wallets[signer].prefix
             raw == EthSign(hash, signer)
             typed == EthSignTypedDataInternal(hash, signer)
             hashSig == CreateTypedSignature(raw, "Decimal")
             unsafeHashSig == CreateTypedSignature(raw, "None")
             Valid(signature) == HasValidSignature(hash, signature, signer)
  <1>1. TypedDataHash(until) = hash
    BY DEF DomainIsDefault, TypedDataHash, GetWalletLoginHash
  <1>2. Sign(hash, signer, "Hash") = hashSig /\ Sign(hash, signer, "UnsafeHash") = unsafeHashSig
    BY DEF Sign, TypedDataMethods
  <1>3. /\ raw.over = Prepended(prefix, hash) /\ raw.signer = signer
        /\ FixRawSignature(raw).over = raw.over /\ FixRawSignature(raw).signer = raw.signer
    BY DEF FixRawSignature, EthSign
  <1>4. /\ hashSig.raw = FixRawSignature(raw) /\ hashSig.type = "Decimal"
        /\ unsafeHashSig.raw = FixRawSignature(raw) /\ unsafeHashSig.type = "None"
    BY DEF CreateTypedSignature
  <1>5. typed.raw.over = Prepended("None", hash) /\ typed.type = "None" /\ typed.raw.signer = signer
    BY DEF EthSignTypedDataInternal, EthSignTypedData, Prepended
  <1>6. WalletLoginIsValid(until, unsafeHashSig, signer) <=> Valid(unsafeHashSig)
    BY DEF WalletLoginIsValid
  <1>7. /\ method \in TypedDataMethods => LoginSignature(until, signer, method) = typed
        /\ method = "Hash" => LoginSignature(until, signer, method) = hashSig
        /\ method = "UnsafeHash" => LoginSignature(until, signer, method) = unsafeHashSig
        /\ method = "Compatibility" =>
             LoginSignature(until, signer, method)
               = IF Valid(unsafeHashSig) THEN unsafeHashSig ELSE hashSig
    BY <1>1, <1>2, <1>6 DEF LoginSignature, TypedDataMethods
  <1> HIDE DEF raw, typed, hashSig, unsafeHashSig, hash
  <1>8. Valid(typed)
    BY <1>5 DEF HasValidSignature, EcRecoverTypedSignature, SignedHash
  <1>9. prefix = "Decimal" => Valid(hashSig)
    BY <1>3, <1>4 DEF HasValidSignature, EcRecoverTypedSignature, SignedHash
  <1>10. prefix = "None" => Valid(unsafeHashSig)
    BY <1>3, <1>4 DEF HasValidSignature, EcRecoverTypedSignature, SignedHash
  <1>11. /\ method = "Hash" => prefix = "Decimal"
         /\ method = "UnsafeHash" => prefix = "None"
         /\ method = "Compatibility" => prefix \in {"None", "Decimal"}
    BY DEF Suits
  <1> HIDE DEF Valid, prefix
  <1>12. Valid(LoginSignature(until, signer, method))
    BY <1>7, <1>8, <1>9, <1>10, <1>11 DEF HashMethods
  <1> QED BY <1>12 DEF Valid, hash

LoginInv ==
  /\ now \in Nat
  /\ \A login \in logins : IsLogin(login)
  /\ LoginsAreExactToTheSecond

LEMMA LoginInvInitially ==
  ASSUME LoginInit
  PROVE  LoginInv
  BY DEF LoginInit, LoginInv, LoginsAreExactToTheSecond, AdmitsOnlyLogins, LoginsAreValid

LEMMA SignLoginKeeps ==
  ASSUME DomainIsDefault, LoginInv, NEW until \in Expirations,
         NEW signer \in DOMAIN Wallets, NEW method \in Methods,
         SignLogin(until, signer, method)
  PROVE  LoginInv'
  <1> DEFINE new == [expiration |-> until, signer |-> signer, method |-> method,
                     signature |-> LoginSignature(until, signer, method)]
  <1>1. logins' = logins \cup {new} /\ now' = now /\ admitted' = admitted
    BY DEF SignLogin
  <1>2. /\ new.expiration = until /\ new.signer = signer /\ new.method = method
        /\ new.signature = LoginSignature(until, signer, method)
    OBVIOUS
  <1> HIDE DEF new
  <1>3. until \in Nat /\ method \in HashMethods \cup TypedDataMethods
    BY LoginAssumption
  <1>4. IsLogin(new)
    BY <1>2, <1>3, LoginIsSigned DEF IsLogin
  <1>5. Suits(method, Wallets[signer]) /\ now < until =>
          WalletLoginIsValid(until, new.signature, signer)
    BY <1>2, <1>3, SuitableIsValid DEF WalletLoginIsValid, LoginInv
  <1>6. LoginsAreValid'
    <2> SUFFICES ASSUME NEW login \in logins',
                        Suits(login.method, Wallets[login.signer]), now < login.expiration
                 PROVE  WalletLoginIsValid(login.expiration, login.signature, login.signer)
      BY <1>1 DEF LoginsAreValid, WalletLoginIsValid
    <2>1. CASE login \in logins
      BY <2>1 DEF LoginInv, LoginsAreExactToTheSecond, LoginsAreValid
    <2>2. CASE login = new
      BY <1>2, <1>5, <2>2
    <2> QED BY <1>1, <2>1, <2>2
  <1>7. AdmitsOnlyLogins'
    BY <1>1 DEF LoginInv, LoginsAreExactToTheSecond, AdmitsOnlyLogins
  <1>8. \A login \in logins' : IsLogin(login)
    BY <1>1, <1>4 DEF LoginInv
  <1> QED BY <1>1, <1>6, <1>7, <1>8 DEF LoginInv, LoginsAreExactToTheSecond, IsLogin

LEMMA ShowKeeps ==
  ASSUME LoginInv, NEW login \in logins, NEW until \in Expirations,
         NEW signer \in DOMAIN Wallets, Show(login.signature, until, signer)
  PROVE  LoginInv'
  <1> DEFINE new == [expiration |-> until, signer |-> signer, at |-> now]
  <1>1. /\ WalletLoginIsValid(until, login.signature, signer)
        /\ admitted' = admitted \cup {new} /\ now' = now /\ logins' = logins
    BY DEF Show
  <1>2. until \in Nat /\ now \in Nat /\ until > now
    BY <1>1, LoginAssumption DEF LoginInv, WalletLoginIsValid
  <1>3. PICK hash \in {GetWalletLoginHash(login.expiration), TypedDataHash(login.expiration)} :
          SignedBy(login.signature, login.signer, hash)
    BY DEF LoginInv, IsLogin
  <1>4. signer = login.signer /\ GetWalletLoginHash(until) = hash
    BY <1>1, <1>3, ValidMeansSigned DEF WalletLoginIsValid
  <1>5. ToUTCString(until) = ToUTCString(login.expiration)
    BY <1>3, <1>4, HashTellsTime
  <1>6. login.expiration \in Nat /\ Second \in Nat
    BY LoginAssumption DEF LoginInv, IsLogin
  <1>7. /\ login.expiration \div Second = until \div Second
        /\ until <= login.expiration + Second - 1
    BY <1>2, <1>5, <1>6, OneSecondIsShort DEF ToUTCString
  <1>8. /\ new.at < new.expiration
        /\ login.signer = new.signer
        /\ login.expiration \div Second = new.expiration \div Second
        /\ new.at < login.expiration + Second - 1
    BY <1>2, <1>4, <1>6, <1>7
  <1> HIDE DEF new
  <1>9. AdmitsOnlyLogins'
    BY <1>1, <1>8 DEF LoginInv, LoginsAreExactToTheSecond, AdmitsOnlyLogins
  <1>10. LoginsAreValid'
    BY <1>1 DEF LoginInv, LoginsAreExactToTheSecond, LoginsAreValid, WalletLoginIsValid
  <1> QED BY <1>1, <1>9, <1>10 DEF LoginInv, LoginsAreExactToTheSecond, IsLogin

LEMMA LoginTickKeeps ==
  ASSUME LoginInv, now' = now + 1, UNCHANGED <<logins, admitted>>
  PROVE  LoginInv'
  <1>1. LoginsAreValid'
    BY DEF LoginInv, LoginsAreExactToTheSecond, LoginsAreValid, WalletLoginIsValid, IsLogin
  <1> QED BY <1>1 DEF LoginInv, LoginsAreExactToTheSecond, AdmitsOnlyLogins, IsLogin

(***************************************************************************)
(* Whatever a server is shown, in whoever's name, again and again, it      *)
(* admits those who have signed, until the time they signed or less than a *)
(* second later; and it refuses nobody who did, with a method that suits   *)
(* his wallet.                                                             *)
(***************************************************************************)
THEOREM LoginsAreAsSigned ==
  ASSUME DomainIsDefault
  PROVE  LoginSpec => []LoginsAreExactToTheSecond
  <1>1. LoginInit => LoginInv
    BY LoginInvInitially
  <1>2. LoginInv /\ [LoginNext]_loginVars => LoginInv'
    <2> SUFFICES ASSUME LoginInv, [LoginNext]_loginVars
                 PROVE  LoginInv'
      OBVIOUS
    <2>1. CASE Tick
      <3>1. now' = now + 1 /\ UNCHANGED <<logins, admitted>>
        BY <2>1 DEF Tick
      <3> QED BY <3>1, LoginTickKeeps
    <2>2. CASE UNCHANGED loginVars
      BY <2>2 DEF loginVars, LoginInv, LoginsAreExactToTheSecond, AdmitsOnlyLogins, LoginsAreValid,
                  WalletLoginIsValid, IsLogin
    <2> QED BY <2>1, <2>2, SignLoginKeeps, ShowKeeps DEF LoginNext
  <1>3. LoginInv => LoginsAreExactToTheSecond
    BY DEF LoginInv
  <1> QED BY <1>1, <1>2, <1>3, PTL DEF LoginSpec

-----------------------------------------------------------------------------
(* Sessions                                                                *)

IsContract(c) ==
  c = [provider |-> c.provider, address |-> c.address, from |-> c.from]

\* A contract speaks to the provider of a network, at its address there.
Speaks(c, name, network) ==
  /\ c.provider = network
  /\ IsDeployed(name, network) => c.address = AddressOf(name, network)

MadeForItsSession(m) == m # None => m.provider = m.session /\ m.from = m.account

SentInOrder(s) ==
  s # None =>
    /\ ~s.reused => s.from = s.due /\ s.value = s.amount
    /\ s.contract # None /\ IsDeployed(s.contract, s.network) =>
         s.to = AddressOf(s.contract, s.network)

AllContracts(cs, network, account) ==
  network # None =>
    \A name \in ContractNames : Speaks(cs[name], name, network) /\ cs[name].from = account

AreContracts(cs) ==
  /\ DOMAIN cs = ContractNames
  /\ \A name \in ContractNames : IsContract(cs[name])

\* An option object that no action has filled in holds what its caller gave it.
UntouchedStay(os, filled) ==
  /\ DOMAIN os = DOMAIN OptionObjects
  /\ \A o \in DOMAIN OptionObjects \ filled : os[o] = [from |-> OptionObjects[o], value |-> 0]

SessionInv ==
  /\ AreContracts(contracts)
  /\ AllContracts(contracts, session, defaultAccount)
  /\ MadeForItsSession(made)
  /\ UntouchedStay(options, touched)
  /\ SentInOrder(sent)

(***************************************************************************)
(* setProvider reaches every contract, and so does setDefaultAccount.      *)
(***************************************************************************)
LEMMA ProvidedSpeak ==
  ASSUME NEW cs, AreContracts(cs), NEW network
  PROVE  LET new == Provided(cs, network)
         IN  /\ AreContracts(new)
             /\ \A name \in ContractNames :
                  Speaks(new[name], name, network) /\ new[name].from = cs[name].from
  <1> DEFINE new == Provided(cs, network)
  <1>1. \A name \in ContractNames :
          new[name] = [cs[name] EXCEPT
                         !.provider = network,
                         !.address = IF IsDeployed(name, network)
                                     THEN AddressOf(name, network) ELSE @]
    BY SessionAssumption DEF Provided
  <1>2. DOMAIN new = ContractNames
    BY DEF Provided
  <1> HIDE DEF new
  <1>3. ASSUME NEW name \in ContractNames
        PROVE  /\ IsContract(new[name]) /\ Speaks(new[name], name, network)
               /\ new[name].from = cs[name].from
    <2>1. cs[name] = [provider |-> cs[name].provider, address |-> cs[name].address,
                      from |-> cs[name].from]
      BY DEF AreContracts, IsContract
    <2>2. new[name] = [provider |-> network,
                       address |-> IF IsDeployed(name, network)
                                   THEN AddressOf(name, network) ELSE cs[name].address,
                       from |-> cs[name].from]
      BY <1>1, <2>1
    <2> QED BY <2>2 DEF IsContract, Speaks
  <1>4. AreContracts(new)
    BY <1>2, <1>3 DEF AreContracts
  <1> QED BY <1>3, <1>4 DEF new

LEMMA AccountedSend ==
  ASSUME NEW cs, AreContracts(cs), NEW account
  PROVE  LET new == Accounted(cs, account)
         IN  /\ AreContracts(new)
             /\ \A name \in ContractNames :
                  /\ new[name].from = account
                  /\ \A network : Speaks(cs[name], name, network)
                                    => Speaks(new[name], name, network)
  <1> DEFINE new == Accounted(cs, account)
  <1>1. ContractNames \subseteq AccountedContracts
    BY SessionAssumption DEF ProvidedContracts, AccountedContracts
  <1>2. \A name \in ContractNames : new[name] = [cs[name] EXCEPT !.from = account]
    BY <1>1 DEF Accounted
  <1>3. DOMAIN new = ContractNames
    BY DEF Accounted
  <1> HIDE DEF new
  <1>4. ASSUME NEW name \in ContractNames
        PROVE  /\ IsContract(new[name]) /\ new[name].from = account
               /\ new[name].provider = cs[name].provider
               /\ new[name].address = cs[name].address
    <2>1. cs[name] = [provider |-> cs[name].provider, address |-> cs[name].address,
                      from |-> cs[name].from]
      BY DEF AreContracts, IsContract
    <2>2. new[name] = [provider |-> cs[name].provider, address |-> cs[name].address,
                       from |-> account]
      BY <1>2, <2>1
    <2> QED BY <2>2 DEF IsContract
  <1>5. AreContracts(new)
    BY <1>3, <1>4 DEF AreContracts
  <1> QED BY <1>4, <1>5 DEF new, Speaks

LEMMA NamedContracts == {"dolomiteMargin", "payableProxy", "erc20"} \subseteq ContractNames
  BY SessionAssumption DEF ProvidedContracts

LEMMA SessionInitially ==
  ASSUME SessionInit
  PROVE  SessionInv
  <1>1. AreContracts(contracts)
    BY DEF SessionInit, AreContracts, IsContract
  <1>2. UntouchedStay(options, touched)
    BY DEF SessionInit, UntouchedStay
  <1> QED BY <1>1, <1>2
       DEF SessionInit, SessionInv, AllContracts, MadeForItsSession, SentInOrder

LEMMA OpenKeeps ==
  ASSUME SessionInv, NEW network, NEW account, Open(network, account)
  PROVE  SessionInv'
  <1> DEFINE mid == Provided(contracts, network)
  <1>1. /\ session' = network /\ defaultAccount' = account
        /\ contracts' = Accounted(mid, account)
        /\ UNCHANGED <<options, touched, made, sent>>
    BY DEF Open
  <1>2. /\ AreContracts(mid)
        /\ \A name \in ContractNames : Speaks(mid[name], name, network)
    BY ProvidedSpeak DEF SessionInv
  <1> HIDE DEF mid
  <1>3. /\ AreContracts(contracts')
        /\ AllContracts(contracts', network, account)
    BY <1>1, <1>2, AccountedSend DEF AllContracts
  <1> QED BY <1>1, <1>3 DEF SessionInv

LEMMA SetProviderKeeps ==
  ASSUME SessionInv, NEW network, SetProvider(network)
  PROVE  SessionInv'
  <1>1. /\ session # None /\ session' = network /\ contracts' = Provided(contracts, network)
        /\ UNCHANGED <<defaultAccount, options, touched, made, sent>>
    BY DEF SetProvider
  <1>2. /\ AreContracts(contracts')
        /\ AllContracts(contracts', network, defaultAccount)
    BY <1>1, ProvidedSpeak DEF SessionInv, AllContracts
  <1> QED BY <1>1, <1>2 DEF SessionInv

LEMMA SetDefaultAccountKeeps ==
  ASSUME SessionInv, NEW account, SetDefaultAccount(account)
  PROVE  SessionInv'
  <1>1. /\ session # None /\ defaultAccount' = account
        /\ contracts' = Accounted(contracts, account)
        /\ UNCHANGED <<session, options, touched, made, sent>>
    BY DEF SetDefaultAccount
  <1>2. /\ AreContracts(contracts')
        /\ AllContracts(contracts', session, account)
    BY <1>1, AccountedSend DEF SessionInv, AllContracts
  <1> QED BY <1>1, <1>2 DEF SessionInv

LEMMA MakeContractKeeps ==
  ASSUME SessionInv, NEW address, MakeContract(address)
  PROVE  SessionInv'
  <1>1. /\ session # None
        /\ made' = [address |-> address, provider |-> session,
                    from |-> contracts["dolomiteMargin"].from,
                    session |-> session, account |-> defaultAccount]
        /\ UNCHANGED <<session, defaultAccount, contracts, options, touched, sent>>
    BY DEF MakeContract
  <1>2. contracts["dolomiteMargin"].from = defaultAccount
    BY <1>1, NamedContracts DEF SessionInv, AllContracts
  <1>3. MadeForItsSession(made')
    BY <1>1, <1>2 DEF MadeForItsSession
  <1> QED BY <1>1, <1>3 DEF SessionInv

LEMMA SendTokenKeeps ==
  ASSUME SessionInv, NEW token, NEW sender, NEW o, NEW contract, NEW to,
         SendToken(token, sender, o, contract, to),
         contract # None => contract \in ContractNames /\ to = contracts[contract].address
  PROVE  SessionInv'
  <1>1. /\ session # None
        /\ sent' = [from |-> sender, value |-> options[o].value, due |-> sender,
                    amount |-> options[o].value, reused |-> FALSE,
                    contract |-> contract, to |-> to, network |-> session]
        /\ UNCHANGED <<session, defaultAccount, contracts, options, touched, made>>
    BY DEF SendToken
  <1>2. contract # None /\ IsDeployed(contract, session) => to = AddressOf(contract, session)
    BY <1>1 DEF SessionInv, AllContracts, Speaks
  <1>3. SentInOrder(sent')
    BY <1>1, <1>2 DEF SentInOrder
  <1> QED BY <1>1, <1>3 DEF SessionInv

LEMMA SendActionKeeps ==
  ASSUME SessionInv, NEW owner, NEW isEth \in BOOLEAN, NEW amount,
         NEW o \in DOMAIN OptionObjects, SendAction(owner, isEth, amount, o)
  PROVE  SessionInv'
  <1> DEFINE contract == IF isEth THEN "payableProxy" ELSE "dolomiteMargin"
             filled == FilledIn(options[o], owner, isEth, amount)
             due == IF OptionObjects[o] = None THEN owner ELSE OptionObjects[o]
             eth == IF isEth THEN amount ELSE 0
  <1>1. /\ session # None
        /\ options' = [options EXCEPT ![o] = filled]
        /\ touched' = touched \cup {o}
        /\ UNCHANGED <<session, defaultAccount, contracts, made>>
    BY DEF SendAction
  <1>2. sent' = [from |-> filled.from, value |-> filled.value, due |-> due,
                 amount |-> eth, reused |-> o \in touched, contract |-> contract,
                 to |-> contracts[contract].address, network |-> session]
    BY DEF SendAction
  <1>3. o \notin touched => filled.from = due /\ filled.value = eth
    <2> SUFFICES ASSUME o \notin touched
                 PROVE  filled.from = due /\ filled.value = eth
      OBVIOUS
    <2>1. options[o].from = OptionObjects[o] /\ options[o].value = 0
      BY DEF SessionInv, UntouchedStay
    <2> QED BY <2>1 DEF FilledIn
  <1> HIDE DEF filled, due, eth
  <1>4. contract \in ContractNames
    BY NamedContracts
  <1> HIDE DEF contract
  <1>5. IsDeployed(contract, session) =>
          contracts[contract].address = AddressOf(contract, session)
    BY <1>1, <1>4 DEF SessionInv, AllContracts, Speaks
  <1>6. SentInOrder(sent')
    BY <1>2, <1>3, <1>5 DEF SentInOrder
  <1>7. UntouchedStay(options', touched')
    BY <1>1 DEF SessionInv, UntouchedStay
  <1> QED BY <1>1, <1>6, <1>7 DEF SessionInv

LEMMA ReadTokenKeeps ==
  ASSUME SessionInv, NEW token, ReadToken(token)
  PROVE  SessionInv'
  <1>1. UNCHANGED <<session, defaultAccount, contracts, options, touched, made, sent>>
    BY DEF ReadToken
  <1> QED BY <1>1 DEF SessionInv

LEMMA TokenActionsKeep ==
  ASSUME SessionInv, NEW token, NEW owner, NEW other, NEW o,
         \/ SetDolomiteMarginAllowance(token, owner, o)
         \/ SetAllowance(token, owner, other, o)
         \/ Transfer(token, owner, other, o)
         \/ TransferFrom(token, other, owner, o)
  PROVE  SessionInv'
  BY SendTokenKeeps, NamedContracts
     DEF SetDolomiteMarginAllowance, SetAllowance, Transfer, TransferFrom

LEMMA SessionIsKept ==
  ASSUME SessionInv, [SessionNext]_sessionVars
  PROVE  SessionInv'
  <1>1. CASE \E network \in Networks, account \in Accounts : Open(network, account)
    BY <1>1, OpenKeeps
  <1>2. CASE \E network \in Networks : SetProvider(network)
    BY <1>2, SetProviderKeeps
  <1>3. CASE \E account \in Accounts : SetDefaultAccount(account)
    BY <1>3, SetDefaultAccountKeeps
  <1>4. CASE \E token \in Tokens : MakeContract(token) \/ ReadToken(token)
    BY <1>4, MakeContractKeeps, ReadTokenKeeps
  <1>5. ASSUME NEW o \in DOMAIN OptionObjects, NEW owner \in Accounts,
               NEW token \in Tokens,
               \/ SetDolomiteMarginAllowance(token, owner, o)
               \/ \E other \in Accounts :
                    \/ SetAllowance(token, owner, other, o)
                    \/ Transfer(token, owner, other, o)
                    \/ TransferFrom(token, other, owner, o)
        PROVE  SessionInv'
    BY <1>5, TokenActionsKeep
  <1>6. ASSUME NEW o \in DOMAIN OptionObjects, NEW owner \in Accounts,
               NEW isEth \in BOOLEAN,
               \/ \E amount \in Amounts : Deposit(owner, isEth, amount, o)
               \/ Withdraw(owner, isEth, o)
        PROVE  SessionInv'
    BY <1>6, SendActionKeeps DEF Deposit, Withdraw
  <1>7. CASE UNCHANGED sessionVars
    BY <1>7 DEF sessionVars, SessionInv
  <1> QED BY <1>1, <1>2, <1>3, <1>4, <1>5, <1>6, <1>7 DEF SessionNext

(***************************************************************************)
(* After any changes of provider and account, with any cached tokens and   *)
(* option objects: every contract speaks to the provider of the session    *)
(* for its account at its address there, and a transaction is sent by      *)
(* whom, with the ETH and to the address that its action asks for.         *)
(***************************************************************************)
THEOREM SessionStaysConsistent == SessionSpec => []SessionIsConsistent
  <1>1. SessionInit => SessionInv
    BY SessionInitially
  <1>2. SessionInv /\ [SessionNext]_sessionVars => SessionInv'
    BY SessionIsKept
  <1>3. SessionInv => SessionIsConsistent
    BY DEF SessionInv, SessionIsConsistent, ContractsFollowTheSession, OwnersSend,
           AllContracts, Speaks, MadeForItsSession, SentInOrder
  <1> QED BY <1>1, <1>2, <1>3, PTL DEF SessionSpec

-----------------------------------------------------------------------------
(* Recursion over the subsets of a finite set                              *)

(***************************************************************************)
(* The fold of the library over a set, one element picked at a time.  A    *)
(* function that satisfies the equation exists, whatever is picked and     *)
(* done; the step is a function, as no operator can be a parameter.        *)
(***************************************************************************)
FoldsBy(S, pick, base, step, g) ==
  g = [s \in SUBSET S |->
         IF s = {} THEN base ELSE step[<<pick[s], g[s \ {pick[s]}]>>]]

LEMMA FoldsExist ==
  ASSUME NEW S, IsFiniteSet(S), NEW V, NEW base \in V, NEW step \in [S \X V -> V],
         NEW pick, \A s \in SUBSET S : s # {} => pick[s] \in s
  PROVE  \E g \in [SUBSET S -> V] : FoldsBy(S, pick, base, step, g)
  <1> DEFINE D(n) == {s \in SUBSET S : Cardinality(s) <= n}
             Body(g, s) == IF s = {} THEN base ELSE step[<<pick[s], g[s \ {pick[s]}]>>]
             N == {n \in Nat : \E g \in [D(n) -> V] : g = [s \in D(n) |-> Body(g, s)]}
  <1>1. \A s \in SUBSET S : IsFiniteSet(s) /\ Cardinality(s) \in Nat
    BY FS_Subset, FS_CardinalityType
  <1>2. 0 \in N
    <2> DEFINE g == [s \in D(0) |-> base]
    <2>1. \A s \in D(0) : s = {}
      BY <1>1, FS_EmptySet
    <2>2. g = [s \in D(0) |-> Body(g, s)]
      BY <2>1
    <2>3. g \in [D(0) -> V]
      OBVIOUS
    <2> HIDE DEF g
    <2>4. \E h \in [D(0) -> V] : h = [s \in D(0) |-> Body(h, s)]
      BY <2>2, <2>3
    <2> HIDE DEF D, Body
    <2> QED BY <2>4
  <1>3. ASSUME NEW n \in Nat, n \in N
        PROVE  n + 1 \in N
    <2>1. PICK g \in [D(n) -> V] : g = [s \in D(n) |-> Body(g, s)]
      BY <1>3
    <2> DEFINE h == [s \in D(n + 1) |-> Body(g, s)]
    <2>2. ASSUME NEW s \in D(n + 1), s # {}
          PROVE  /\ s \ {pick[s]} \in D(n) /\ pick[s] \in S
                 /\ h[s \ {pick[s]}] = g[s \ {pick[s]}]
      <3> DEFINE t == s \ {pick[s]}
      <3>0. pick[s] \in s
        BY <2>2
      <3>1. Cardinality(t) = Cardinality(s) - 1
        BY <1>1, <3>0, FS_RemoveElement
      <3>2. t \in D(n) /\ t \in D(n + 1)
        BY <1>1, <3>1
      <3> HIDE DEF t
      <3>3. h[t] = Body(g, t) /\ g[t] = Body(g, t)
        BY <2>1, <3>2
      <3> QED BY <3>0, <3>2, <3>3 DEF t
    <2>3. \A s \in D(n + 1) : Body(g, s) = Body(h, s)
      BY <2>2
    <2>4. h = [s \in D(n + 1) |-> Body(h, s)]
      BY <2>3
    <2>5. ASSUME NEW s \in D(n + 1)
          PROVE  h[s] \in V
      <3>1. CASE s = {}
        BY <3>1
      <3>2. CASE s # {}
        <4>1. g[s \ {pick[s]}] \in V
          BY <2>1, <2>2, <3>2
        <4>2. <<pick[s], g[s \ {pick[s]}]>> \in S \X V
          BY <2>2, <3>2, <4>1
        <4> QED BY <3>2, <4>2
      <3> QED BY <3>1, <3>2
    <2>6. h \in [D(n + 1) -> V]
      BY <2>5
    <2> HIDE DEF h
    <2>7. \E k \in [D(n + 1) -> V] : k = [s \in D(n + 1) |-> Body(k, s)]
      BY <2>4, <2>6
    <2>8. n + 1 \in Nat
      OBVIOUS
    <2> HIDE DEF D, Body
    <2> QED BY <2>7, <2>8
  <1>4. Cardinality(S) \in N
    <2> HIDE DEF N
    <2>1. \A n \in Nat : n \in N
      BY <1>2, <1>3, NaturalInduction
    <2> QED BY <1>1, <2>1
  <1>5. D(Cardinality(S)) = SUBSET S
    BY <1>1, FS_Subset
  <1>6. PICK g \in [D(Cardinality(S)) -> V] : g = [s \in D(Cardinality(S)) |-> Body(g, s)]
    BY <1>4
  <1>7. g \in [SUBSET S -> V] /\ g = [s \in SUBSET S |-> Body(g, s)]
    BY <1>5, <1>6
  <1> QED BY <1>7 DEF FoldsBy

LEMMA MaxOfInterval ==
  ASSUME NEW n \in Nat \ {0}
  PROVE  Max(1 .. n) = n /\ (1 .. n) \ {n} = 1 .. n - 1
  <1>1. n \in 1 .. n /\ \A y \in 1 .. n : n >= y
    OBVIOUS
  <1>2. \A x \in 1 .. n : (\A y \in 1 .. n : x >= y) => x = n
    OBVIOUS
  <1>3. Max(1 .. n) = n
    BY <1>1, <1>2 DEF Max
  <1> QED BY <1>3

LEMMA MaxIsIn ==
  ASSUME NEW n \in Nat, NEW s \in SUBSET (1 .. n), s # {}
  PROVE  Max(s) \in s
  <1> DEFINE T == {n - x : x \in s}
  <1>1. \A x \in s : x \in Int /\ n - x \in Nat
    OBVIOUS
  <1>2. T \in SUBSET Nat /\ T # {}
    BY <1>1
  <1>3. PICK t \in T : \A u \in T : t <= u
    BY <1>2, LeastNatural
  <1>4. PICK x \in s : t = n - x
    BY <1>3
  <1>5. \A y \in s : n - x <= n - y
    BY <1>3, <1>4
  <1>6. \A y \in s : x >= y
    BY <1>1, <1>5
  <1> QED BY <1>6 DEF Max

-----------------------------------------------------------------------------
(* The least significant bit                                               *)

LsbStep(s, half) ==
  IF \E bit \in s.x : bit < half THEN [s EXCEPT !.lsb = @ - half]
  ELSE [s EXCEPT !.x = {bit - half : bit \in s.x}]

LsbFirst(bitmap) == [x |-> bitmap, lsb |-> WordBits - 1]

LsbBy(bitmap, g) ==
  g = [s \in SUBSET DOMAIN Halves |->
         IF s = {} THEN LsbFirst(bitmap)
         ELSE LsbStep(g[s \ {Max(s)}], Halves[Max(s)])]

LsbStates == [x : SUBSET Int, lsb : Int]

LEMMA HalvesAreNat ==
  /\ Len(Halves) \in Nat \ {0} /\ DOMAIN Halves = 1 .. Len(Halves)
  /\ \A i \in 1 .. Len(Halves) : Halves[i] \in Nat
  /\ WordBits \in Nat \ {0, 1} /\ Halves[Len(Halves)] = 1
  /\ Halves[1] * 2 = WordBits
  /\ \A i \in 1 .. Len(Halves) - 1 : Halves[i + 1] * 2 = Halves[i]
  <1>1. Halves \in Seq(Nat) /\ Halves # <<>>
    BY MarketSetsAssumption
  <1>2. Len(Halves) \in Nat \ {0} /\ DOMAIN Halves = 1 .. Len(Halves)
    BY <1>1, EmptySeq, LenProperties
  <1>3. 1 \in 1 .. Len(Halves)
    BY <1>2
  <1>4. \A i \in 1 .. Len(Halves) - 1 : i + 1 \in 1 .. Len(Halves) /\ i + 1 # 1 /\ i + 1 - 1 = i
    BY <1>2
  <1>5. Halves[1] * 2 = WordBits
    BY <1>2, <1>3, MarketSetsAssumption
  <1>6. \A i \in 1 .. Len(Halves) - 1 : Halves[i + 1] * 2 = Halves[i]
    <2> SUFFICES ASSUME NEW i \in 1 .. Len(Halves) - 1
                 PROVE  Halves[i + 1] * 2 = Halves[i]
      OBVIOUS
    <2>1. i + 1 \in DOMAIN Halves /\ i + 1 # 1 /\ i + 1 - 1 = i
      BY <1>2, <1>4
    <2>2. \A j \in DOMAIN Halves : j # 1 => Halves[j] * 2 = Halves[j - 1]
      BY ONLY MarketSetsAssumption
    <2> QED BY <2>1, <2>2
  <1>7. Halves[Len(Halves)] = 1
    BY MarketSetsAssumption DEF Last
  <1> QED BY <1>1, <1>2, <1>5, <1>6, <1>7, ElementOfSeq, MarketSetsAssumption

LEMMA StepsAreStates ==
  ASSUME NEW s \in LsbStates, NEW half \in Nat
  PROVE  /\ LsbStep(s, half) \in LsbStates
         /\ LsbStep(s, half).x = IF \E bit \in s.x : bit < half THEN s.x
                                 ELSE {bit - half : bit \in s.x}
         /\ LsbStep(s, half).lsb = IF \E bit \in s.x : bit < half THEN s.lsb - half
                                   ELSE s.lsb
  <1>1. s.x \in SUBSET Int /\ s.lsb \in Int
    BY DEF LsbStates
  <1>2. \A bit \in s.x : bit - half \in Int
    BY <1>1
  <1>3. {bit - half : bit \in s.x} \in SUBSET Int /\ s.lsb - half \in Int
    BY <1>1, <1>2
  <1>4. CASE \E bit \in s.x : bit < half
    BY <1>1, <1>3, <1>4 DEF LsbStep, LsbStates
  <1>5. CASE ~ \E bit \in s.x : bit < half
    BY <1>1, <1>3, <1>5 DEF LsbStep, LsbStates
  <1> QED BY <1>4, <1>5

LEMMA LsbExists ==
  ASSUME NEW bitmap \in SUBSET Int
  PROVE  \E g : LsbBy(bitmap, g)
  <1> DEFINE S == DOMAIN Halves
             step == [p \in S \X LsbStates |-> LsbStep(p[2], Halves[p[1]])]
             pick == [s \in SUBSET S |-> Max(s)]
  <1>1. IsFiniteSet(S) /\ S = 1 .. Len(Halves) /\ Len(Halves) \in Nat
    BY HalvesAreNat, FS_Interval
  <1>2. LsbFirst(bitmap) \in LsbStates
    BY HalvesAreNat DEF LsbFirst, LsbStates
  <1>3. \A i \in S, v \in LsbStates :
          step[<<i, v>>] = LsbStep(v, Halves[i]) /\ LsbStep(v, Halves[i]) \in LsbStates
    BY HalvesAreNat, StepsAreStates
  <1>4. step \in [S \X LsbStates -> LsbStates]
    BY HalvesAreNat, StepsAreStates
  <1>5. \A s \in SUBSET S : s # {} => pick[s] \in s /\ pick[s] = Max(s)
    BY <1>1, MaxIsIn
  <1> HIDE DEF step, pick
  <1>6. PICK g \in [SUBSET S -> LsbStates] : FoldsBy(S, pick, LsbFirst(bitmap), step, g)
    BY <1>1, <1>2, <1>4, <1>5, FoldsExist
  <1>7. ASSUME NEW s \in SUBSET S, s # {}
        PROVE  step[<<pick[s], g[s \ {pick[s]}]>>] = LsbStep(g[s \ {Max(s)}], Halves[Max(s)])
    <2>1. pick[s] \in S /\ pick[s] = Max(s) /\ s \ {pick[s]} \in SUBSET S
      BY <1>5, <1>7
    <2>2. g[s \ {pick[s]}] \in LsbStates
      BY <1>6, <2>1
    <2> QED BY <1>3, <2>1, <2>2
  <1>8. g = [s \in SUBSET S |-> IF s = {} THEN LsbFirst(bitmap)
                                ELSE LsbStep(g[s \ {Max(s)}], Halves[Max(s)])]
    BY <1>6, <1>7 DEF FoldsBy
  <1> QED BY <1>8 DEF LsbBy

LEMMA LsbIsByHalves ==
  ASSUME NEW bitmap \in SUBSET Int
  PROVE  \E g : LsbBy(bitmap, g) /\ LeastSignificantBit(bitmap) = g[DOMAIN Halves].lsb
  <1> DEFINE g == CHOOSE h : h = [s \in SUBSET DOMAIN Halves |->
                                    IF s = {} THEN LsbFirst(bitmap)
                                    ELSE LsbStep(h[s \ {Max(s)}], Halves[Max(s)])]
  <1>1. LeastSignificantBit(bitmap) = g[DOMAIN Halves].lsb
    BY DEF LeastSignificantBit, FoldLeft, MapThenFoldSet, LsbStep, LsbFirst
  <1>2. PICK h : LsbBy(bitmap, h)
    BY LsbExists
  <1>3. LsbBy(bitmap, g)
    BY <1>2 DEF LsbBy
  <1> QED BY <1>1, <1>3

IsLeastOf(n, S) == n \in S /\ \A m \in S : n <= m

(***************************************************************************)
(* Halving the word: the bits left, shifted by what lies below them, have  *)
(* their least one in the part of the word left, and the answer, but for   *)
(* what is left, is how far it has been shifted.                           *)
(***************************************************************************)
LsbHolds(bitmap, s, width) ==
  /\ s.x \in SUBSET Nat /\ s.lsb \in Int
  /\ \E m \in Nat : /\ IsLeastOf(m, s.x) /\ m < width
                    /\ IsLeastOf(s.lsb + m + 1 - width, bitmap)

LEMMA LsbHoldsByHalves ==
  ASSUME NEW bitmap, NEW s \in LsbStates, NEW half \in Nat,
         LsbHolds(bitmap, s, half * 2)
  PROVE  LsbHolds(bitmap, LsbStep(s, half), half)
  <1> DEFINE t == LsbStep(s, half)
  <1>1. PICK m \in Nat : /\ IsLeastOf(m, s.x) /\ m < half * 2
                         /\ IsLeastOf(s.lsb + m + 1 - half * 2, bitmap)
    BY DEF LsbHolds
  <1>2. s.x \in SUBSET Nat /\ s.lsb \in Int
    BY DEF LsbHolds
  <1>3. CASE m < half
    <2>1. t.x = s.x /\ t.lsb = s.lsb - half
      BY <1>1, <1>3, StepsAreStates DEF IsLeastOf
    <2>2. t.lsb + m + 1 - half = s.lsb + m + 1 - half * 2 /\ t.lsb \in Int
      BY <1>2, <2>1
    <2> QED BY <1>1, <1>2, <1>3, <2>1, <2>2 DEF LsbHolds
  <1>4. CASE m >= half
    <2>1. \A bit \in s.x : bit \in Nat /\ bit >= m /\ bit - half \in Nat /\ ~(bit < half)
      BY <1>1, <1>2, <1>4 DEF IsLeastOf
    <2>2. t.x = {bit - half : bit \in s.x} /\ t.lsb = s.lsb
      BY <2>1, StepsAreStates
    <2>3. t.x \in SUBSET Nat /\ m \in s.x
      BY <1>1, <2>1, <2>2 DEF IsLeastOf
    <2>4. m - half \in t.x /\ \A bit \in t.x : m - half <= bit
      <3>1. \A bit \in s.x : m - half <= bit - half
        BY <1>1, <2>1
      <3> QED BY <2>2, <2>3, <3>1
    <2>5. m - half \in Nat /\ m - half < half
      BY <1>1, <1>4
    <2>6. t.lsb + (m - half) + 1 - half = s.lsb + m + 1 - half * 2
      BY <1>2, <2>2
    <2> HIDE DEF t
    <2>7. IsLeastOf(m - half, t.x) /\ IsLeastOf(t.lsb + (m - half) + 1 - half, bitmap)
      BY <1>1, <2>4, <2>6 DEF IsLeastOf
    <2>8. \E k \in Nat : /\ IsLeastOf(k, t.x) /\ k < half
                         /\ IsLeastOf(t.lsb + k + 1 - half, bitmap)
      BY <2>5, <2>7
    <2>9. t.lsb \in Int
      BY <1>2, <2>2
    <2> QED BY <2>3, <2>8, <2>9 DEF LsbHolds, t
  <1> QED BY <1>1, <1>3, <1>4

BitsOfWord == 0 .. WordBits - 1

LEMMA LsbIsLeast ==
  ASSUME NEW bitmap \in SUBSET BitsOfWord, bitmap # {}
  PROVE  IsLeastOf(LeastSignificantBit(bitmap), bitmap)
  <1>0. bitmap \in SUBSET Int /\ bitmap \in SUBSET Nat
    BY HalvesAreNat DEF BitsOfWord
  <1>1. PICK g : LsbBy(bitmap, g) /\ LeastSignificantBit(bitmap) = g[DOMAIN Halves].lsb
    BY <1>0, LsbIsByHalves
  <1> DEFINE width(k) == IF k = 0 THEN WordBits ELSE Halves[k]
             len == Len(Halves)
             N == {k \in Nat : k <= len =>
                     g[1 .. k] \in LsbStates /\ LsbHolds(bitmap, g[1 .. k], width(k))}
  <1>2. 0 \in N
    <2>1. 1 .. 0 = {} /\ {} \in SUBSET DOMAIN Halves
      OBVIOUS
    <2>2. g[1 .. 0] = LsbFirst(bitmap)
      BY <1>1, <2>1 DEF LsbBy
    <2>3. LsbFirst(bitmap) \in LsbStates
      BY <1>0, HalvesAreNat DEF LsbFirst, LsbStates
    <2>4. PICK m \in bitmap : \A n \in bitmap : m <= n
      BY <1>0, LeastNatural
    <2>5. m \in Nat /\ m < WordBits
      BY HalvesAreNat DEF BitsOfWord
    <2>6. (WordBits - 1) + m + 1 - WordBits = m
      BY <2>5, HalvesAreNat
    <2>7. LsbFirst(bitmap).x = bitmap /\ LsbFirst(bitmap).lsb = WordBits - 1
      BY DEF LsbFirst
    <2>8. LsbHolds(bitmap, LsbFirst(bitmap), WordBits)
      <3> DEFINE s == LsbFirst(bitmap)
      <3>1. IsLeastOf(m, s.x) /\ IsLeastOf(s.lsb + m + 1 - WordBits, bitmap)
        BY <2>4, <2>6, <2>7 DEF IsLeastOf
      <3>2. s.x \in SUBSET Nat /\ s.lsb \in Int
        BY <1>0, <2>7, HalvesAreNat
      <3> HIDE DEF s
      <3>3. LsbHolds(bitmap, s, WordBits)
        BY <2>5, <3>1, <3>2 DEF LsbHolds
      <3> QED BY <3>3 DEF s
    <2> QED BY <2>2, <2>3, <2>8
  <1>3. ASSUME NEW k \in Nat, k \in N
        PROVE  k + 1 \in N
    <2> SUFFICES ASSUME k + 1 <= len
                 PROVE  /\ g[1 .. k + 1] \in LsbStates
                        /\ LsbHolds(bitmap, g[1 .. k + 1], width(k + 1))
      OBVIOUS
    <2>1. k <= len /\ k + 1 \in 1 .. len /\ len \in Nat
      BY HalvesAreNat
    <2>2. g[1 .. k] \in LsbStates /\ LsbHolds(bitmap, g[1 .. k], width(k))
      BY <1>3, <2>1
    <2>3. 1 .. k + 1 \in SUBSET DOMAIN Halves /\ 1 .. k + 1 # {}
      BY <2>1, HalvesAreNat
    <2>4. Max(1 .. k + 1) = k + 1 /\ (1 .. k + 1) \ {k + 1} = 1 .. k
      BY MaxOfInterval
    <2>5. g[1 .. k + 1] = LsbStep(g[1 .. k], Halves[k + 1])
      BY <1>1, <2>3, <2>4 DEF LsbBy
    <2>6. width(k) = Halves[k + 1] * 2 /\ Halves[k + 1] \in Nat /\ width(k + 1) = Halves[k + 1]
      BY <2>1, HalvesAreNat
    <2>7. LsbHolds(bitmap, g[1 .. k], Halves[k + 1] * 2)
      BY <2>2, <2>6
    <2>8. /\ g[1 .. k + 1] \in LsbStates
          /\ LsbHolds(bitmap, g[1 .. k + 1], Halves[k + 1])
      <3> DEFINE s == g[1 .. k]
                 half == Halves[k + 1]
      <3>1. s \in LsbStates /\ half \in Nat /\ LsbHolds(bitmap, s, half * 2)
        BY <2>2, <2>6, <2>7
      <3> HIDE DEF s, half
      <3>2. LsbStep(s, half) \in LsbStates /\ LsbHolds(bitmap, LsbStep(s, half), half)
        BY <3>1, StepsAreStates, LsbHoldsByHalves
      <3> QED BY <2>5, <3>2 DEF s, half
    <2> HIDE DEF width
    <2> QED BY <2>6, <2>8
  <1>4. len \in Nat /\ len # 0 /\ width(len) = 1 /\ DOMAIN Halves = 1 .. len
    BY HalvesAreNat
  <1>5. g[DOMAIN Halves] \in LsbStates /\ LsbHolds(bitmap, g[DOMAIN Halves], 1)
    <2> HIDE DEF N
    <2>1. len \in N
      BY <1>2, <1>3, <1>4, NaturalInduction
    <2> QED BY <1>4, <2>1 DEF N
  <1>6. PICK m \in Nat : m < 1 /\ IsLeastOf(g[DOMAIN Halves].lsb + m + 1 - 1, bitmap)
    BY <1>5 DEF LsbHolds
  <1>7. g[DOMAIN Halves].lsb + m + 1 - 1 = g[DOMAIN Halves].lsb
    BY <1>5, <1>6 DEF LsbStates
  <1> QED BY <1>1, <1>6, <1>7

-----------------------------------------------------------------------------
(* Words of bits                                                           *)

LEMMA DivModOf ==
  ASSUME NEW q \in Nat, NEW d \in Nat \ {0}, NEW r \in 0 .. d - 1
  PROVE  /\ d * q + r \in Nat
         /\ (d * q + r) \div d = q /\ (d * q + r) % d = r
  <1> DEFINE m == d * q + r
             p == m \div d
             s == m % d
  <1>0. d * q \in Nat
    BY ProductIsNat
  <1>1. m \in Nat
    BY <1>0
  <1>2. p \in Nat /\ s \in 0 .. d - 1 /\ m = d * p + s
    <2> HIDE DEF m
    <2>1. p \in Nat /\ s \in 0 .. d - 1 /\ m = p * d + s
      BY <1>1, DivMod
    <2> HIDE DEF p, s
    <2>2. p * d = d * p
      BY <2>1
    <2> QED BY <2>1, <2>2
  <1> HIDE DEF p, s
  <1>3. ~(p < q)
    <2> SUFFICES ASSUME p < q PROVE FALSE
      OBVIOUS
    <2>1. PICK k \in Nat : q = p + 1 + k
      <3>1. q - p - 1 \in Nat /\ q = p + 1 + (q - p - 1)
        BY <1>2
      <3> QED BY <3>1
    <2>2. d * q = d * p + d + d * k
      BY <1>2, <2>1
    <2>3. d * k \in Nat /\ d * p \in Nat
      BY <1>2, <2>1, ProductIsNat
    <2> QED BY <1>0, <1>2, <2>2, <2>3
  <1>4. ~(q < p)
    <2> SUFFICES ASSUME q < p PROVE FALSE
      OBVIOUS
    <2>1. PICK k \in Nat : p = q + 1 + k
      <3>1. p - q - 1 \in Nat /\ p = q + 1 + (p - q - 1)
        BY <1>2
      <3> QED BY <3>1
    <2>2. d * p = d * q + d + d * k
      BY <1>2, <2>1
    <2>3. d * k \in Nat /\ d * q \in Nat
      BY <1>2, <2>1, ProductIsNat
    <2> QED BY <1>0, <1>2, <2>2, <2>3
  <1>5. p = q
    BY <1>2, <1>3, <1>4
  <1>6. s = r
    BY <1>0, <1>2, <1>5
  <1> QED BY <1>1, <1>5, <1>6 DEF p, s

LEMMA DivIsMonotonic ==
  ASSUME NEW m \in Nat, NEW n \in Nat, m <= n, NEW d \in Nat \ {0}
  PROVE  m \div d <= n \div d
  BY SMT

Increasing(s) == \A j, k \in DOMAIN s : j < k => s[j] < s[k]

LEMMA JoinIsIncreasing ==
  ASSUME NEW s \in Seq(Int), NEW t \in Seq(Int), Increasing(s), Increasing(t),
         \A x \in Range(s), y \in Range(t) : x < y
  PROVE  /\ s \o t \in Seq(Int)
         /\ Increasing(s \o t)
         /\ Range(s \o t) = Range(s) \cup Range(t)
  <1> DEFINE u == s \o t
             n == Len(s)
             l == Len(t)
  <1>1. /\ n \in Nat /\ l \in Nat /\ DOMAIN s = 1 .. n /\ DOMAIN t = 1 .. l
        /\ \A i \in 1 .. n : s[i] \in Range(s)
        /\ \A i \in 1 .. l : t[i] \in Range(t)
    BY LenProperties DEF Range
  <1>2. /\ u \in Seq(Int) /\ Len(u) = n + l
        /\ \A i \in 1 .. n + l : u[i] = IF i <= n THEN s[i] ELSE t[i - n]
    BY ConcatProperties
  <1>3. DOMAIN u = 1 .. n + l
    BY <1>2, LenProperties
  <1>4. Range(u) = Range(s) \cup Range(t)
    BY RangeConcatenation
  <1> HIDE DEF u, n, l
  <1>5. Increasing(u)
    <2> SUFFICES ASSUME NEW j \in 1 .. n + l, NEW k \in 1 .. n + l, j < k
                 PROVE  u[j] < u[k]
      BY <1>3 DEF Increasing
    <2>1. CASE k <= n
      <3>1. j \in 1 .. n /\ k \in 1 .. n
        BY <1>1, <2>1
      <3>2. u[j] = s[j] /\ u[k] = s[k]
        BY <1>1, <1>2, <2>1
      <3> QED BY <1>1, <3>1, <3>2 DEF Increasing
    <2>2. CASE j > n
      <3>1. j - n \in 1 .. l /\ k - n \in 1 .. l /\ j - n < k - n
        BY <1>1, <2>2
      <3>2. u[j] = t[j - n] /\ u[k] = t[k - n]
        BY <1>1, <1>2, <2>2
      <3> QED BY <1>1, <3>1, <3>2 DEF Increasing
    <2>3. CASE j <= n /\ k > n
      <3>1. j \in 1 .. n /\ k - n \in 1 .. l
        BY <1>1, <2>3
      <3>2. u[j] = s[j] /\ u[k] = t[k - n]
        BY <1>1, <1>2, <2>3
      <3> QED BY <1>1, <3>1, <3>2
    <2> QED BY <1>1, <2>1, <2>2, <2>3
  <1> QED BY <1>2, <1>4, <1>5 DEF u

LEMMA OneIsIncreasing ==
  ASSUME NEW x \in Int
  PROVE  <<x>> \in Seq(Int) /\ Increasing(<<x>>) /\ Range(<<x>>) = {x}
  <1>1. DOMAIN <<x>> = {1} /\ <<x>>[1] = x /\ <<x>> \in Seq(Int)
    OBVIOUS
  <1> QED BY <1>1 DEF Increasing, Range

LEMMA NothingIsIncreasing ==
  <<>> \in Seq(Int) /\ Increasing(<<>>) /\ Range(<<>>) = {}
  <1>1. DOMAIN <<>> = {} /\ <<>> \in Seq(Int)
    OBVIOUS
  <1> QED BY <1>1 DEF Increasing, Range

(***************************************************************************)
(* The loop over one bitmap lists its markets from the least up.           *)
(***************************************************************************)
WordBy(i, rest) ==
  rest = [bitmap \in SUBSET BitsOfWord |->
            IF bitmap = {} THEN <<>>
            ELSE <<MarketIdFromBit(i, LeastSignificantBit(bitmap))>>
                   \o rest[bitmap \ {LeastSignificantBit(bitmap)}]]

MarketsOfWord(i, bitmap) == {MarketIdFromBit(i, bit) : bit \in bitmap}

LEMMA BitsAreFinite ==
  /\ IsFiniteSet(BitsOfWord) /\ BitsOfWord \subseteq Nat
  /\ \A s \in SUBSET BitsOfWord : IsFiniteSet(s) /\ Cardinality(s) \in Nat
  <1>1. WordBits - 1 \in Nat
    BY HalvesAreNat
  <1>2. BitsOfWord \subseteq Nat
    BY <1>1 DEF BitsOfWord
  <1>3. IsFiniteSet(BitsOfWord)
    BY <1>1, FS_Interval DEF BitsOfWord
  <1> QED BY <1>2, <1>3, FS_Subset, FS_CardinalityType

LEMMA MarketIdsAreNat ==
  ASSUME NEW i \in Nat \ {0}, NEW bit \in BitsOfWord
  PROVE  /\ MarketIdFromBit(i, bit) \in Nat
         /\ MarketIdFromBit(i, bit) \div WordBits = i - 1
         /\ MarketIdFromBit(i, bit) % WordBits = bit
  <1>1. i - 1 \in Nat /\ WordBits \in Nat \ {0} /\ bit \in 0 .. WordBits - 1
    BY HalvesAreNat DEF BitsOfWord
  <1> QED BY <1>1, DivModOf DEF MarketIdFromBit

LEMMA WordsExist ==
  ASSUME NEW i \in Nat \ {0}
  PROVE  \E rest : WordBy(i, rest)
  <1> DEFINE S == BitsOfWord
             V == Seq(Int)
             step == [p \in S \X V |-> <<MarketIdFromBit(i, p[1])>> \o p[2]]
             pick == [s \in SUBSET S |-> LeastSignificantBit(s)]
  <1>1. \A b \in S, v \in V :
          step[<<b, v>>] = <<MarketIdFromBit(i, b)>> \o v
    OBVIOUS
  <1>2. \A p \in S \X V : step[p] \in V
    <2> SUFFICES ASSUME NEW b \in S, NEW v \in V
                 PROVE  <<MarketIdFromBit(i, b)>> \o v \in V
      OBVIOUS
    <2>1. MarketIdFromBit(i, b) \in Int
      BY MarketIdsAreNat
    <2> DEFINE x == MarketIdFromBit(i, b)
    <2> HIDE DEF x
    <2>2. <<x>> \in Seq(Int)
      BY <2>1 DEF x
    <2> QED BY <2>2, ConcatProperties DEF x
  <1>3. step \in [S \X V -> V]
    BY <1>2
  <1>4. \A s \in SUBSET S : s # {} => pick[s] \in s /\ pick[s] = LeastSignificantBit(s)
    BY LsbIsLeast DEF IsLeastOf
  <1>5. <<>> \in V
    OBVIOUS
  <1> HIDE DEF step, pick, V
  <1>6. PICK g \in [SUBSET S -> V] : FoldsBy(S, pick, <<>>, step, g)
    BY <1>3, <1>4, <1>5, BitsAreFinite, FoldsExist
  <1>7. ASSUME NEW s \in SUBSET S, s # {}
        PROVE  step[<<pick[s], g[s \ {pick[s]}]>>]
                 = <<MarketIdFromBit(i, LeastSignificantBit(s))>>
                     \o g[s \ {LeastSignificantBit(s)}]
    <2>1. pick[s] \in S /\ pick[s] = LeastSignificantBit(s) /\ s \ {pick[s]} \in SUBSET S
      BY <1>4, <1>7
    <2>2. g[s \ {pick[s]}] \in V
      BY <1>6, <2>1
    <2> QED BY <1>1, <2>1, <2>2
  <1>8. g = [s \in SUBSET S |-> IF s = {} THEN <<>>
                                ELSE <<MarketIdFromBit(i, LeastSignificantBit(s))>>
                                       \o g[s \ {LeastSignificantBit(s)}]]
    BY <1>6, <1>7 DEF FoldsBy
  <1> QED BY <1>8 DEF WordBy

LEMMA WordIsListed ==
  ASSUME NEW i \in Nat \ {0}, NEW bitmaps, bitmaps[i] \in SUBSET BitsOfWord
  PROVE  LET s == MarketsInWord(bitmaps, i)
         IN  s \in Seq(Int) /\ Increasing(s) /\ Range(s) = MarketsOfWord(i, bitmaps[i])
  <1> DEFINE rest == CHOOSE r : r = [bitmap \in SUBSET BitsOfWord |->
                                       IF bitmap = {} THEN <<>>
                                       ELSE <<MarketIdFromBit(i, LeastSignificantBit(bitmap))>>
                                              \o r[bitmap \ {LeastSignificantBit(bitmap)}]]
  <1>1. MarketsInWord(bitmaps, i) = rest[bitmaps[i]]
    BY DEF MarketsInWord, BitsOfWord
  <1>2. WordBy(i, rest)
    BY WordsExist DEF WordBy
  <1> HIDE DEF rest
  <1> DEFINE Fine(s) == /\ rest[s] \in Seq(Int) /\ Increasing(rest[s])
                        /\ Range(rest[s]) = MarketsOfWord(i, s)
             N == {n \in Nat : \A s \in SUBSET BitsOfWord : Cardinality(s) = n => Fine(s)}
  <1>3. 0 \in N
    <2> SUFFICES ASSUME NEW s \in SUBSET BitsOfWord, Cardinality(s) = 0
                 PROVE  Fine(s)
      OBVIOUS
    <2>1. s = {}
      BY BitsAreFinite, FS_EmptySet
    <2>2. rest[s] = <<>>
      BY <1>2, <2>1 DEF WordBy
    <2> QED BY <2>1, <2>2, NothingIsIncreasing DEF MarketsOfWord
  <1>4. ASSUME NEW n \in Nat, n \in N
        PROVE  n + 1 \in N
    <2> SUFFICES ASSUME NEW s \in SUBSET BitsOfWord, Cardinality(s) = n + 1
                 PROVE  Fine(s)
      OBVIOUS
    <2> DEFINE b == LeastSignificantBit(s)
               t == s \ {b}
               x == MarketIdFromBit(i, b)
    <2>1. s # {} /\ Cardinality(t) = n
      <3>1. s # {}
        BY BitsAreFinite, OneLess
      <3>2. b \in s
        BY <3>1, LsbIsLeast DEF IsLeastOf
      <3> QED BY <3>1, <3>2, BitsAreFinite, OneLess
    <2>2. b \in s /\ \A y \in s : b <= y
      BY <2>1, LsbIsLeast DEF IsLeastOf
    <2>3. rest[s] = <<x>> \o rest[t]
      BY <1>2, <2>1 DEF WordBy
    <2> HIDE DEF b
    <2>4. t \in SUBSET BitsOfWord /\ Fine(t)
      BY <1>4, <2>1
    <2>5. x \in Int /\ \A y \in t : x < MarketIdFromBit(i, y)
      <3>1. b \in Nat /\ \A y \in t : y \in Nat /\ b < y
        <4>1. s \subseteq Nat
          BY BitsAreFinite
        <4>2. b \in Nat /\ \A y \in t : y \in Nat /\ y # b /\ b <= y
          BY <2>2, <4>1
        <4> QED BY <4>2
      <3>2. WordBits * (i - 1) \in Nat
        BY HalvesAreNat, ProductIsNat
      <3> QED BY <3>1, <3>2 DEF MarketIdFromBit
    <2> HIDE DEF t, x
    <2>6. \A y \in Range(rest[t]) : x < y
      BY <2>4, <2>5 DEF MarketsOfWord
    <2>7. <<x>> \in Seq(Int) /\ Increasing(<<x>>) /\ Range(<<x>>) = {x}
      BY <2>5, OneIsIncreasing
    <2>8. \A z \in Range(<<x>>), y \in Range(rest[t]) : z < y
      BY <2>6, <2>7
    <2>9. /\ rest[s] \in Seq(Int) /\ Increasing(rest[s])
          /\ Range(rest[s]) = {x} \cup Range(rest[t])
      BY <2>3, <2>4, <2>7, <2>8, JoinIsIncreasing
    <2>10. {x} \cup MarketsOfWord(i, t) = MarketsOfWord(i, s)
      BY <2>2 DEF MarketsOfWord, x, t
    <2> QED BY <2>4, <2>9, <2>10
  <1>5. Cardinality(bitmaps[i]) \in N
    <2> HIDE DEF N
    <2> QED BY <1>3, <1>4, NaturalInduction, BitsAreFinite
  <1> QED BY <1>1, <1>5

(***************************************************************************)
(* And of all bitmaps, one after the other.                                *)
(***************************************************************************)
FlatBy(seqs, f) ==
  f = [i \in 1 .. Len(seqs) |-> IF i = 1 THEN seqs[i] ELSE f[i - 1] \o seqs[i]]

LEMMA FlatsExist ==
  ASSUME NEW seqs \in Seq(Seq(Int))
  PROVE  \E f : FlatBy(seqs, f)
  <1> DEFINE n == Len(seqs)
             S == 1 .. n
             V == Seq(Int)
             step == [p \in S \X V |-> p[2] \o seqs[p[1]]]
             pick == [s \in SUBSET S |-> Max(s)]
  <1>1. n \in Nat /\ IsFiniteSet(S) /\ \A i \in S : seqs[i] \in V
    BY LenProperties, FS_Interval, ElementOfSeq
  <1>2. \A i \in S, v \in V : step[<<i, v>>] = v \o seqs[i]
    OBVIOUS
  <1>3. step \in [S \X V -> V]
    <2> SUFFICES ASSUME NEW i \in S, NEW v \in V
                 PROVE  v \o seqs[i] \in V
      OBVIOUS
    <2> QED BY <1>1, ConcatProperties
  <1>4. \A s \in SUBSET S : s # {} => pick[s] \in s /\ pick[s] = Max(s)
    BY <1>1, MaxIsIn
  <1>5. <<>> \in V
    OBVIOUS
  <1> HIDE DEF step, pick, V
  <1>6. PICK g \in [SUBSET S -> V] : FoldsBy(S, pick, <<>>, step, g)
    BY <1>1, <1>3, <1>4, <1>5, FoldsExist
  <1> DEFINE f == [i \in S |-> g[1 .. i]]
  <1>7. ASSUME NEW i \in S
        PROVE  /\ g[1 .. i - 1] \in V
               /\ g[1 .. i] = g[1 .. i - 1] \o seqs[i]
    <2>1. i \in Nat \ {0} /\ 1 .. i \in SUBSET S /\ 1 .. i # {} /\ 1 .. i - 1 \in SUBSET S
      <3>1. i \in Nat \ {0} /\ i <= n
        BY <1>1
      <3>2. i \in 1 .. i
        BY <3>1
      <3>3. \A j \in 1 .. i : j \in 1 .. n
        BY <1>1, <3>1
      <3>4. \A j \in 1 .. i - 1 : j \in 1 .. n
        BY <1>1, <3>1
      <3> QED BY <3>1, <3>2, <3>3, <3>4
    <2>2. pick[1 .. i] = i /\ (1 .. i) \ {i} = 1 .. i - 1
      BY <1>4, <2>1, MaxOfInterval
    <2>3. g[1 .. i] = step[<<i, g[1 .. i - 1]>>]
      BY <1>6, <2>1, <2>2 DEF FoldsBy
    <2>4. g[1 .. i - 1] \in V
      BY <1>6, <2>1
    <2> QED BY <1>2, <2>3, <2>4
  <1>8. ASSUME NEW i \in S
        PROVE  f[i] = IF i = 1 THEN seqs[i] ELSE f[i - 1] \o seqs[i]
    <2>1. CASE i = 1
      <3>1. 1 .. i - 1 = {} /\ {} \in SUBSET S
        BY <2>1
      <3>2. g[1 .. i - 1] = <<>>
        BY <1>6, <3>1 DEF FoldsBy
      <3>3. <<>> \o seqs[i] = seqs[i]
        BY <1>1, ConcatEmptySeq DEF V
      <3> QED BY <1>7, <2>1, <3>2, <3>3
    <2>2. CASE i # 1
      <3>1. i - 1 \in S
        BY <1>1, <2>2
      <3> QED BY <1>7, <2>2, <3>1
    <2> QED BY <2>1, <2>2
  <1>9. f = [i \in S |-> IF i = 1 THEN seqs[i] ELSE f[i - 1] \o seqs[i]]
    BY <1>8
  <1> HIDE DEF f
  <1>10. FlatBy(seqs, f)
    BY <1>9 DEF FlatBy
  <1> QED BY <1>10

LEMMA WordsAreListed ==
  ASSUME NEW n \in Nat \ {0}, NEW bitmaps \in [1 .. n -> SUBSET BitsOfWord]
  PROVE  LET found == FlattenSeq([i \in DOMAIN bitmaps |-> MarketsInWord(bitmaps, i)])
         IN  /\ found \in Seq(Int) /\ Increasing(found)
             /\ Range(found) = {MarketIdFromBit(p[1], p[2]) :
                                  p \in {q \in (1 .. n) \X BitsOfWord : q[2] \in bitmaps[q[1]]}}
  <1> DEFINE seqs == [i \in 1 .. n |-> MarketsInWord(bitmaps, i)]
             f == CHOOSE h : h = [i \in 1 .. Len(seqs) |->
                                    IF i = 1 THEN seqs[i] ELSE h[i - 1] \o seqs[i]]
  <1>1. DOMAIN bitmaps = 1 .. n
    OBVIOUS
  <1>2. \A i \in 1 .. n : /\ seqs[i] \in Seq(Int) /\ Increasing(seqs[i])
                          /\ Range(seqs[i]) = MarketsOfWord(i, bitmaps[i])
    <2> SUFFICES ASSUME NEW i \in 1 .. n
                 PROVE  /\ seqs[i] \in Seq(Int) /\ Increasing(seqs[i])
                        /\ Range(seqs[i]) = MarketsOfWord(i, bitmaps[i])
      OBVIOUS
    <2>1. seqs[i] = MarketsInWord(bitmaps, i)
      OBVIOUS
    <2> HIDE DEF seqs
    <2>2. /\ MarketsInWord(bitmaps, i) \in Seq(Int) /\ Increasing(MarketsInWord(bitmaps, i))
          /\ Range(MarketsInWord(bitmaps, i)) = MarketsOfWord(i, bitmaps[i])
      BY WordIsListed
    <2> QED BY <2>1, <2>2
  <1>3. seqs \in [1 .. n -> Seq(Int)] /\ seqs \in Seq(Seq(Int)) /\ Len(seqs) = n
    <2>1. DOMAIN seqs = 1 .. n /\ \A i \in 1 .. n : seqs[i] \in Seq(Int)
      BY <1>2
    <2>2. seqs = [i \in 1 .. n |-> seqs[i]]
      OBVIOUS
    <2> HIDE DEF seqs
    <2>3. seqs \in [1 .. n -> Seq(Int)]
      BY <2>1, <2>2
    <2> QED BY <2>3
  <1> HIDE DEF seqs
  <1>4. FlattenSeq(seqs) = f[n]
    BY <1>3 DEF FlattenSeq
  <1>5. FlatBy(seqs, f)
    BY <1>3, FlatsExist DEF FlatBy
  <1> HIDE DEF f
  <1> DEFINE Pairs(k) == {q \in (1 .. k) \X BitsOfWord : q[2] \in bitmaps[q[1]]}
             Named(k) == {MarketIdFromBit(p[1], p[2]) : p \in Pairs(k)}
             Fine(k) == f[k] \in Seq(Int) /\ Increasing(f[k]) /\ Range(f[k]) = Named(k)
             N == {k \in Nat : k + 1 <= n => Fine(k + 1)}
  <1>6. \A k \in 0 .. n - 1 : Named(k + 1) = Named(k) \cup MarketsOfWord(k + 1, bitmaps[k + 1])
    <2> SUFFICES ASSUME NEW k \in 0 .. n - 1
                 PROVE  Named(k + 1) = Named(k) \cup MarketsOfWord(k + 1, bitmaps[k + 1])
      OBVIOUS
    <2>1. ASSUME NEW x \in Named(k + 1)
          PROVE  x \in Named(k) \cup MarketsOfWord(k + 1, bitmaps[k + 1])
      <3>1. PICK i \in 1 .. k + 1, b \in BitsOfWord :
              b \in bitmaps[i] /\ x = MarketIdFromBit(i, b)
        BY <2>1
      <3>2. CASE i = k + 1
        BY <3>1, <3>2 DEF MarketsOfWord
      <3>3. CASE i # k + 1
        <4>1. i \in 1 .. k
          BY <3>3
        <4>2. <<i, b>> \in Pairs(k)
          BY <3>1, <4>1
        <4> QED BY <3>1, <4>2
      <3> QED BY <3>2, <3>3
    <2>2. ASSUME NEW x \in Named(k)
          PROVE  x \in Named(k + 1)
      <3>1. PICK i \in 1 .. k, b \in BitsOfWord :
              b \in bitmaps[i] /\ x = MarketIdFromBit(i, b)
        BY <2>2
      <3>2. <<i, b>> \in Pairs(k + 1)
        BY <3>1
      <3> QED BY <3>1, <3>2
    <2>3. ASSUME NEW x \in MarketsOfWord(k + 1, bitmaps[k + 1])
          PROVE  x \in Named(k + 1)
      <3>1. PICK b \in bitmaps[k + 1] : x = MarketIdFromBit(k + 1, b)
        BY <2>3 DEF MarketsOfWord
      <3>2. k + 1 \in 1 .. n /\ b \in BitsOfWord
        OBVIOUS
      <3>3. <<k + 1, b>> \in Pairs(k + 1)
        BY <3>1, <3>2
      <3> QED BY <3>1, <3>3
    <2> QED BY <2>1, <2>2, <2>3
  <1>7. 0 \in N
    <2> SUFFICES Fine(1)
      OBVIOUS
    <2>1. f[1] = seqs[1] /\ 1 \in 1 .. n
      BY <1>3, <1>5 DEF FlatBy
    <2>2. Named(0) = {}
      OBVIOUS
    <2>3. Named(1) = MarketsOfWord(1, bitmaps[1])
      <3>1. 0 \in 0 .. n - 1 /\ 0 + 1 = 1
        OBVIOUS
      <3> HIDE DEF Named
      <3> QED BY <1>6, <2>2, <3>1
    <2> HIDE DEF Named
    <2> QED BY <1>2, <2>1, <2>3
  <1>8. ASSUME NEW k \in Nat, k \in N
        PROVE  k + 1 \in N
    <2> SUFFICES ASSUME k + 2 <= n
                 PROVE  Fine(k + 2)
      OBVIOUS
    <2>1. Fine(k + 1) /\ k + 2 \in 1 .. n /\ k + 2 # 1 /\ k + 2 - 1 = k + 1
      BY <1>8
    <2>2. f[k + 2] = f[k + 1] \o seqs[k + 2]
      <3>1. \A i \in 1 .. n : i # 1 => f[i] = f[i - 1] \o seqs[i]
        BY <1>3, <1>5 DEF FlatBy
      <3> DEFINE i == k + 2
                 before == k + 1
      <3>2. i \in 1 .. n /\ i # 1 /\ i - 1 = before
        BY <2>1
      <3> HIDE DEF i, before
      <3>3. f[i] = f[i - 1] \o seqs[i]
        BY <3>1, <3>2
      <3>4. f[i] = f[before] \o seqs[i]
        BY <3>2, <3>3
      <3> QED BY <3>4 DEF i, before
    <2>3. Named(k + 2) = Named(k + 1) \cup MarketsOfWord(k + 2, bitmaps[k + 2])
      <3>1. k + 1 \in 0 .. n - 1 /\ k + 1 + 1 = k + 2
        BY <2>1
      <3> HIDE DEF Named
      <3> QED BY <1>6, <3>1
    <2>4. \A x \in Named(k + 1), y \in MarketsOfWord(k + 2, bitmaps[k + 2]) : x < y
      <3> SUFFICES ASSUME NEW x \in Named(k + 1), NEW b \in bitmaps[k + 2]
                   PROVE  x < MarketIdFromBit(k + 2, b)
        BY DEF MarketsOfWord
      <3>1. PICK i \in 1 .. k + 1, a \in BitsOfWord : x = MarketIdFromBit(i, a)
        OBVIOUS
      <3>2. b \in Nat /\ a \in 0 .. WordBits - 1 /\ WordBits \in Nat
        BY <2>1, BitsAreFinite, HalvesAreNat DEF BitsOfWord
      <3>3. (i - 1) * WordBits <= k * WordBits
        <4>1. i - 1 \in Nat /\ i - 1 <= k
          OBVIOUS
        <4> QED BY <3>2, <4>1, ScaleUp
      <3>4. (k + 1) * WordBits = k * WordBits + WordBits /\ k * WordBits \in Nat
        BY <3>2, ProductIsNat
      <3>5. /\ WordBits * (i - 1) = (i - 1) * WordBits
            /\ WordBits * (k + 2 - 1) = (k + 1) * WordBits
            /\ (i - 1) * WordBits \in Nat
        BY <3>2, ProductIsNat
      <3>6. x = (i - 1) * WordBits + a
        BY <3>1, <3>5 DEF MarketIdFromBit
      <3>7. MarketIdFromBit(k + 2, b) = (k + 1) * WordBits + b
        BY <3>5 DEF MarketIdFromBit
      <3> DEFINE low == (i - 1) * WordBits
                 high == k * WordBits
      <3>8. low \in Nat /\ high \in Nat /\ low <= high /\ (k + 1) * WordBits = high + WordBits
        BY <3>3, <3>4, <3>5
      <3> HIDE DEF low, high
      <3>9. low + a < high + WordBits + b
        BY <3>2, <3>8
      <3> QED BY <3>6, <3>7, <3>8, <3>9 DEF low
    <2> HIDE DEF Named
    <2>5. /\ f[k + 1] \in Seq(Int) /\ Increasing(f[k + 1]) /\ Range(f[k + 1]) = Named(k + 1)
          /\ seqs[k + 2] \in Seq(Int) /\ Increasing(seqs[k + 2])
          /\ Range(seqs[k + 2]) = MarketsOfWord(k + 2, bitmaps[k + 2])
      BY <1>2, <2>1
    <2> DEFINE s == f[k + 1]
               t == seqs[k + 2]
    <2>6. /\ s \in Seq(Int) /\ Increasing(s) /\ t \in Seq(Int) /\ Increasing(t)
          /\ Range(s) = Named(k + 1) /\ Range(t) = MarketsOfWord(k + 2, bitmaps[k + 2])
      BY <2>5
    <2>7. \A x \in Range(s), y \in Range(t) : x < y
      BY <2>4, <2>6
    <2>8. f[k + 2] = s \o t
      BY <2>2
    <2> HIDE DEF s, t
    <2>9. /\ s \o t \in Seq(Int) /\ Increasing(s \o t)
          /\ Range(s \o t) = Range(s) \cup Range(t)
      BY <2>6, <2>7, JoinIsIncreasing
    <2>10. Range(s \o t) = Named(k + 2)
      BY <2>3, <2>6, <2>9
    <2> QED BY <2>8, <2>9, <2>10
  <1>9. Fine(n)
    <2> HIDE DEF N, Fine
    <2>1. n - 1 \in N
      BY <1>7, <1>8, NaturalInduction
    <2> QED BY <2>1 DEF N
  <1> QED BY <1>1, <1>4, <1>9 DEF seqs

-----------------------------------------------------------------------------
(* The search by halves                                                    *)

Middle(part) == Len(part) \div 2 + 1
LowHalf(part) == SubSeq(part, 1, Middle(part) - 1)
HighHalf(part) == SubSeq(part, Middle(part) + 1, Len(part))

(***************************************************************************)
(* What a search answers, from the answers `low` and `high` of the halves. *)
(***************************************************************************)
Answered(part, m, low, high) ==
  IF part = <<>> \/ (Len(part) = 1 /\ part[1] # m) THEN NotFound
  ELSE IF m < part[Middle(part)] THEN low
  ELSE IF m > part[Middle(part)] THEN high
  ELSE part[Middle(part)]

SearchBy(n, m, f) ==
  f = [part \in BoundedSeq(AllMarkets, n) |->
         Answered(part, m, f[LowHalf(part)], f[HighHalf(part)])]

LEMMA BoundedAreSequences ==
  ASSUME NEW n \in Nat
  PROVE  \A part : part \in BoundedSeq(AllMarkets, n)
                     <=> part \in Seq(AllMarkets) /\ Len(part) <= n
  <1> SUFFICES ASSUME NEW part
               PROVE  part \in BoundedSeq(AllMarkets, n)
                        <=> part \in Seq(AllMarkets) /\ Len(part) <= n
    OBVIOUS
  <1>1. ASSUME part \in BoundedSeq(AllMarkets, n)
        PROVE  part \in Seq(AllMarkets) /\ Len(part) <= n
    <2>1. PICK k \in 0 .. n : part \in [1 .. k -> AllMarkets]
      BY <1>1 DEF BoundedSeq, SeqOf
    <2>2. part \in Seq(AllMarkets) /\ Len(part) = k
      BY <2>1
    <2> QED BY <2>2
  <1>2. ASSUME part \in Seq(AllMarkets), Len(part) <= n
        PROVE  part \in BoundedSeq(AllMarkets, n)
    <2>1. Len(part) \in 0 .. n /\ part \in [1 .. Len(part) -> AllMarkets]
      BY <1>2, LenProperties
    <2> QED BY <2>1 DEF BoundedSeq, SeqOf
  <1> QED BY <1>1, <1>2

(***************************************************************************)
(* The halves leave out the middle, and hold what is before and after it.  *)
(***************************************************************************)
LEMMA HalvesAreShorter ==
  ASSUME NEW part \in Seq(AllMarkets), part # <<>>
  PROVE  /\ Len(part) \in Nat \ {0} /\ Middle(part) \in 1 .. Len(part)
         /\ LowHalf(part) \in Seq(AllMarkets) /\ HighHalf(part) \in Seq(AllMarkets)
         /\ Len(LowHalf(part)) = Middle(part) - 1
         /\ Len(HighHalf(part)) = Len(part) - Middle(part)
         /\ \A i \in 1 .. Middle(part) - 1 : LowHalf(part)[i] = part[i]
         /\ \A i \in 1 .. Len(part) - Middle(part) :
              HighHalf(part)[i] = part[Middle(part) + i]
  <1> DEFINE n == Len(part)
             mid == n \div 2 + 1
  <1>1. n \in Nat \ {0} /\ \A i \in 1 .. n : part[i] \in AllMarkets
    BY LenProperties, ElementOfSeq, EmptySeq
  <1> HIDE DEF n
  <1>2. mid \in 1 .. n
    BY <1>1
  <1> HIDE DEF mid
  <1>3. 1 \in Int /\ mid - 1 \in Int /\ \A i \in 1 .. mid - 1 : part[i] \in AllMarkets
    BY <1>1, <1>2
  <1>4. mid + 1 \in Int /\ n \in Int /\ \A i \in mid + 1 .. n : part[i] \in AllMarkets
    BY <1>1, <1>2
  <1> DEFINE low == SubSeq(part, 1, mid - 1)
             high == SubSeq(part, mid + 1, n)
  <1>5. /\ low \in Seq(AllMarkets)
        /\ Len(low) = IF 1 <= mid - 1 THEN mid - 1 - 1 + 1 ELSE 0
        /\ \A i \in 1 .. mid - 1 - 1 + 1 : low[i] = part[1 + i - 1]
    BY <1>3, SubSeqProperties
  <1>6. /\ high \in Seq(AllMarkets)
        /\ Len(high) = IF mid + 1 <= n THEN n - (mid + 1) + 1 ELSE 0
        /\ \A i \in 1 .. n - (mid + 1) + 1 : high[i] = part[mid + 1 + i - 1]
    BY <1>4, SubSeqProperties
  <1> HIDE DEF low, high
  <1>7. /\ Len(low) = mid - 1 /\ Len(high) = n - mid
    BY <1>1, <1>2, <1>5, <1>6
  <1>8. /\ mid - 1 - 1 + 1 = mid - 1
        /\ n - (mid + 1) + 1 = n - mid
        /\ \A i \in 1 .. mid - 1 : 1 + i - 1 = i
        /\ \A i \in 1 .. n - mid : mid + 1 + i - 1 = mid + i
    BY <1>1, <1>2
  <1>9. /\ \A i \in 1 .. mid - 1 : low[i] = part[i]
        /\ \A i \in 1 .. n - mid : high[i] = part[mid + i]
    BY <1>5, <1>6, <1>8
  <1>10. /\ Middle(part) = mid /\ LowHalf(part) = low /\ HighHalf(part) = high
    BY DEF Middle, LowHalf, HighHalf, low, high, mid, n
  <1> QED BY <1>1, <1>2, <1>5, <1>6, <1>7, <1>9, <1>10 DEF n

LEMMA SearchesExist ==
  ASSUME NEW m
  PROVE  \A n \in Nat : \E f : SearchBy(n, m, f)
  <1> DEFINE D(n) == BoundedSeq(AllMarkets, n)
             Body(g, part) == Answered(part, m, g[LowHalf(part)], g[HighHalf(part)])
             N == {n \in Nat : \E g : g = [part \in D(n) |-> Body(g, part)]}
  <1>1. \A n \in Nat : \A part : part \in D(n) <=> part \in Seq(AllMarkets) /\ Len(part) <= n
    BY BoundedAreSequences
  <1>2. \A g, h : Body(g, <<>>) = Body(h, <<>>)
    BY DEF Answered
  <1>3. 0 \in N
    <2> DEFINE g == [part \in D(0) |-> NotFound]
    <2>1. \A part \in D(0) : part = <<>>
      <3> HIDE DEF D
      <3>1. \A part \in D(0) : part \in Seq(AllMarkets) /\ Len(part) <= 0
        BY <1>1
      <3> QED BY <3>1, LenProperties, EmptySeq
    <2> HIDE DEF D
    <2>2. g = [part \in D(0) |-> Body(g, part)]
      BY <2>1 DEF Answered
    <2> HIDE DEF g, Body
    <2> QED BY <2>2
  <1> HIDE DEF D
  <1>4. ASSUME NEW n \in Nat, n \in N
        PROVE  n + 1 \in N
    <2>1. PICK g : g = [part \in D(n) |-> Body(g, part)]
      BY <1>4
    <2> DEFINE h == [part \in D(n + 1) |-> Body(g, part)]
    <2>0. n + 1 \in Nat
      OBVIOUS
    <2>2. ASSUME NEW part \in D(n + 1), part # <<>>
          PROVE  /\ h[LowHalf(part)] = g[LowHalf(part)]
                 /\ h[HighHalf(part)] = g[HighHalf(part)]
      <3>1. part \in Seq(AllMarkets) /\ Len(part) <= n + 1
        BY <1>1, <2>0
      <3>2. /\ LowHalf(part) \in Seq(AllMarkets) /\ Len(LowHalf(part)) <= n
            /\ HighHalf(part) \in Seq(AllMarkets) /\ Len(HighHalf(part)) <= n
        BY <2>2, <3>1, HalvesAreShorter
      <3>3. \A s \in {LowHalf(part), HighHalf(part)} : s \in D(n) /\ s \in D(n + 1)
        <4>1. \A s \in {LowHalf(part), HighHalf(part)} :
                s \in Seq(AllMarkets) /\ Len(s) <= n /\ Len(s) <= n + 1
          BY <3>2, LenProperties
        <4> QED BY <1>1, <2>0, <4>1
      <3> HIDE DEF Body
      <3>4. \A s \in {LowHalf(part), HighHalf(part)} : h[s] = g[s]
        BY <2>1, <3>3
      <3> QED BY <3>4
    <2>3. \A part \in D(n + 1) : Body(g, part) = Body(h, part)
      <3> SUFFICES ASSUME NEW part \in D(n + 1)
                   PROVE  Body(g, part) = Body(h, part)
        OBVIOUS
      <3> HIDE DEF h
      <3>1. CASE part = <<>>
        BY <1>2, <3>1
      <3>2. CASE part # <<>>
        BY <2>2, <3>2
      <3> QED BY <3>1, <3>2
    <2> HIDE DEF Body
    <2>4. h = [part \in D(n + 1) |-> Body(h, part)]
      BY <2>3
    <2> HIDE DEF h
    <2> QED BY <2>0, <2>4
  <1> HIDE DEF N, Body
  <1>5. \A n \in Nat : n \in N
    BY <1>3, <1>4, NaturalInduction
  <1> QED BY <1>5 DEF N, D, Body, SearchBy

(***************************************************************************)
(* In an array that goes up, a market is below the middle exactly when it  *)
(* is less than the market there.                                          *)
(***************************************************************************)
LEMMA HalvesAreApart ==
  ASSUME NEW part \in Seq(AllMarkets), part # <<>>, Increasing(part), NEW m \in AllMarkets
  PROVE  /\ Increasing(LowHalf(part)) /\ Increasing(HighHalf(part))
         /\ part[Middle(part)] \in Range(part)
         /\ m < part[Middle(part)] => (m \in Range(part) <=> m \in Range(LowHalf(part)))
         /\ m > part[Middle(part)] => (m \in Range(part) <=> m \in Range(HighHalf(part)))
  <1> DEFINE n == Len(part)
             mid == Middle(part)
             low == LowHalf(part)
             high == HighHalf(part)
  <1>1. /\ n \in Nat \ {0} /\ mid \in 1 .. n
        /\ low \in Seq(AllMarkets) /\ high \in Seq(AllMarkets)
        /\ Len(low) = mid - 1 /\ Len(high) = n - mid
        /\ \A i \in 1 .. mid - 1 : low[i] = part[i]
        /\ \A i \in 1 .. n - mid : high[i] = part[mid + i]
    BY HalvesAreShorter
  <1>2. DOMAIN part = 1 .. n
    BY LenProperties
  <1>3. \A i \in 1 .. n : part[i] \in AllMarkets
    BY ElementOfSeq
  <1> HIDE DEF low, high
  <1>4. DOMAIN low = 1 .. mid - 1 /\ DOMAIN high = 1 .. n - mid
    BY <1>1, LenProperties
  <1> HIDE DEF n, mid
  <1>5. \A j, k \in 1 .. n : j < k => part[j] < part[k]
    BY <1>2 DEF Increasing
  <1>6. /\ Range(part) = {part[i] : i \in 1 .. n}
        /\ Range(low) = {low[i] : i \in 1 .. mid - 1}
        /\ Range(high) = {high[i] : i \in 1 .. n - mid}
    BY <1>2, <1>4 DEF Range
  <1>7. Increasing(low)
    <2> SUFFICES ASSUME NEW j \in 1 .. mid - 1, NEW k \in 1 .. mid - 1, j < k
                 PROVE  low[j] < low[k]
      BY <1>4 DEF Increasing
    <2>1. j \in 1 .. n /\ k \in 1 .. n
      BY <1>1
    <2>2. part[j] < part[k]
      BY <1>5, <2>1
    <2> QED BY <1>1, <2>2
  <1>8. Increasing(high)
    <2> SUFFICES ASSUME NEW j \in 1 .. n - mid, NEW k \in 1 .. n - mid, j < k
                 PROVE  high[j] < high[k]
      BY <1>4 DEF Increasing
    <2>1. mid + j \in 1 .. n /\ mid + k \in 1 .. n /\ mid + j < mid + k
      BY <1>1
    <2>2. part[mid + j] < part[mid + k]
      BY <1>5, <2>1
    <2> QED BY <1>1, <2>2
  <1>9. part[mid] \in Range(part) /\ part[mid] \in Int
    BY <1>1, <1>3, <1>6 DEF AllMarkets
  <1>10. Range(low) \subseteq Range(part)
    <2> SUFFICES ASSUME NEW i \in 1 .. mid - 1
                 PROVE  low[i] \in Range(part)
      BY <1>6
    <2>1. i \in 1 .. n /\ low[i] = part[i]
      BY <1>1
    <2> QED BY <1>6, <2>1
  <1>11. Range(high) \subseteq Range(part)
    <2> SUFFICES ASSUME NEW i \in 1 .. n - mid
                 PROVE  high[i] \in Range(part)
      BY <1>6
    <2>1. mid + i \in 1 .. n /\ high[i] = part[mid + i]
      BY <1>1
    <2> QED BY <1>6, <2>1
  <1>12. ASSUME m \in Range(part), m < part[mid]
         PROVE  m \in Range(low)
    <2>1. PICK i \in 1 .. n : m = part[i]
      BY <1>6, <1>12
    <2>2. ~(mid < i) /\ i # mid
      <3>1. mid < i => part[mid] < part[i]
        BY <1>1, <1>5
      <3> QED BY <1>9, <1>12, <2>1, <3>1 DEF AllMarkets
    <2>3. i \in 1 .. mid - 1
      BY <1>1, <2>2
    <2>4. low[i] = part[i]
      BY <1>1, <2>3
    <2> QED BY <1>6, <2>1, <2>3, <2>4
  <1>13. ASSUME m \in Range(part), m > part[mid]
         PROVE  m \in Range(high)
    <2>1. PICK i \in 1 .. n : m = part[i]
      BY <1>6, <1>13
    <2>2. ~(i < mid) /\ i # mid
      <3>1. i < mid => part[i] < part[mid]
        BY <1>1, <1>5
      <3> QED BY <1>9, <1>13, <2>1, <3>1 DEF AllMarkets
    <2> DEFINE k == i - mid
    <2>3. k \in 1 .. n - mid /\ mid + k = i
      BY <1>1, <2>2
    <2> HIDE DEF k
    <2>4. high[k] = part[mid + k]
      BY <1>1, <2>3
    <2>5. m = high[k]
      BY <2>1, <2>3, <2>4
    <2> QED BY <1>6, <2>3, <2>5
  <1> QED BY <1>7, <1>8, <1>9, <1>10, <1>11, <1>12, <1>13 DEF low, high, mid

(***************************************************************************)
(* So the search finds a market exactly when the array has it.             *)
(***************************************************************************)
LEMMA SearchIsExact ==
  ASSUME NEW markets \in Seq(AllMarkets), Increasing(markets), NEW m \in AllMarkets
  PROVE  Search(markets, m) = IF m \in Range(markets) THEN m ELSE NotFound
  <1> DEFINE n == Len(markets)
             f == CHOOSE g : SearchBy(n, m, g)
             Truth(part) == IF m \in Range(part) THEN m ELSE NotFound
             N == {k \in Nat : \A part \in Seq(AllMarkets) :
                     Len(part) <= k /\ Len(part) <= n /\ Increasing(part) => f[part] = Truth(part)}
  <1>1. n \in Nat
    BY LenProperties
  <1>2. Search(markets, m) = f[markets]
    BY DEF Search, SearchBy, Answered, LowHalf, HighHalf, Middle
  <1>3. SearchBy(n, m, f)
    BY <1>1, SearchesExist
  <1> HIDE DEF n, f
  <1>4. \A part \in Seq(AllMarkets) : Len(part) <= n =>
          f[part] = Answered(part, m, f[LowHalf(part)], f[HighHalf(part)])
    BY <1>1, <1>3, BoundedAreSequences DEF SearchBy
  <1>5. ASSUME NEW part \in Seq(AllMarkets), part = <<>>, Len(part) <= n
        PROVE  f[part] = Truth(part)
    <2>1. f[part] = Answered(part, m, f[LowHalf(part)], f[HighHalf(part)])
      BY <1>4, <1>5
    <2>2. f[part] = NotFound
      BY <1>5, <2>1 DEF Answered
    <2>3. Range(part) = {}
      BY <1>5, NothingIsIncreasing
    <2> QED BY <2>2, <2>3
  <1>6. 0 \in N
    <2> SUFFICES ASSUME NEW part \in Seq(AllMarkets), Len(part) <= 0, Len(part) <= n
                 PROVE  f[part] = Truth(part)
      OBVIOUS
    <2>1. part = <<>>
      BY LenProperties, EmptySeq
    <2> QED BY <1>5, <2>1
  <1>7. ASSUME NEW k \in Nat, k \in N
        PROVE  k + 1 \in N
    <2> SUFFICES ASSUME NEW part \in Seq(AllMarkets), Len(part) <= k + 1, Len(part) <= n,
                        Increasing(part)
                 PROVE  f[part] = Truth(part)
      OBVIOUS
    <2>1. CASE part = <<>>
      BY <1>5, <2>1
    <2>2. CASE part # <<>>
      <3> DEFINE x == part[Middle(part)]
                 low == LowHalf(part)
                 high == HighHalf(part)
      <3>1. /\ Len(part) \in Nat \ {0} /\ Middle(part) \in 1 .. Len(part)
            /\ low \in Seq(AllMarkets) /\ high \in Seq(AllMarkets)
            /\ Len(low) = Middle(part) - 1 /\ Len(high) = Len(part) - Middle(part)
        BY <2>2, HalvesAreShorter
      <3>2. x \in AllMarkets
        BY <3>1, ElementOfSeq
      <3>3. /\ Increasing(low) /\ Increasing(high) /\ x \in Range(part)
            /\ m < x => (m \in Range(part) <=> m \in Range(low))
            /\ m > x => (m \in Range(part) <=> m \in Range(high))
        BY <2>2, HalvesAreApart
      <3> HIDE DEF low, high
      <3>4. Len(low) <= k /\ Len(low) <= n /\ Len(high) <= k /\ Len(high) <= n
        BY <1>1, <3>1
      <3>5. f[low] = Truth(low) /\ f[high] = Truth(high)
        BY <1>7, <3>1, <3>3, <3>4
      <3>6. f[part] = Answered(part, m, f[low], f[high])
        BY <1>4 DEF low, high
      <3>7. CASE Len(part) = 1 /\ part[1] # m
        <4>1. Range(part) = {part[1]}
          <5>1. DOMAIN part = {1}
            BY <3>7, LenProperties
          <5> QED BY <5>1 DEF Range
        <4> QED BY <3>6, <3>7, <4>1 DEF Answered
      <3>8. CASE ~(Len(part) = 1 /\ part[1] # m)
        <4> HIDE DEF x
        <4>1. f[part] = IF m < x THEN f[low] ELSE IF m > x THEN f[high] ELSE x
          BY <2>2, <3>6, <3>8 DEF Answered, x
        <4>2. CASE m < x
          BY <3>3, <3>5, <4>1, <4>2
        <4>3. CASE m > x
          BY <3>2, <3>3, <3>5, <4>1, <4>3 DEF AllMarkets
        <4>4. CASE ~(m < x) /\ ~(m > x)
          <5>1. m = x
            BY <3>2, <4>4 DEF AllMarkets
          <5> QED BY <3>3, <4>1, <4>4, <5>1
        <4> QED BY <4>2, <4>3, <4>4
      <3> QED BY <3>7, <3>8
    <2> QED BY <2>1, <2>2
  <1> HIDE DEF N
  <1>8. \A k \in Nat : k \in N
    BY <1>6, <1>7, NaturalInduction
  <1>9. f[markets] = Truth(markets)
    BY <1>1, <1>8 DEF N, n
  <1> QED BY <1>2, <1>9

-----------------------------------------------------------------------------
(* The array and the map of a set                                          *)

Listed(size) == 0 .. size - 1

SetIsKept(size, s, index) ==
  /\ s \in Seq(Listed(size))
  /\ \A j \in DOMAIN s : index[s[j]] = j
  /\ \A m \in AllMarkets : index[m] # 0 => index[m] \in DOMAIN s /\ s[index[m]] = m

LEMMA IndexIsMembership ==
  ASSUME NEW size \in 1 .. MaxMarkets, NEW s, NEW index, SetIsKept(size, s, index)
  PROVE  /\ Range(s) \subseteq Listed(size) /\ Listed(size) \subseteq AllMarkets
         /\ \A m \in AllMarkets : m \in Range(s) <=> index[m] # 0
         /\ Len(s) \in Nat /\ DOMAIN s = 1 .. Len(s)
         /\ \A j \in 1 .. Len(s) : s[j] \in AllMarkets /\ s[j] \in Range(s)
  <1>1. s \in Seq(Listed(size))
    BY DEF SetIsKept
  <1>2. Len(s) \in Nat /\ DOMAIN s = 1 .. Len(s) /\ \A j \in 1 .. Len(s) : s[j] \in Listed(size)
    BY <1>1, LenProperties, ElementOfSeq
  <1>3. Listed(size) \subseteq AllMarkets
    BY MarketSetsAssumption DEF Listed, AllMarkets
  <1>4. Range(s) = {s[j] : j \in 1 .. Len(s)}
    BY <1>2 DEF Range
  <1>5. ASSUME NEW m \in AllMarkets, m \in Range(s)
        PROVE  index[m] # 0
    <2>1. PICK j \in 1 .. Len(s) : m = s[j]
      BY <1>4, <1>5
    <2>2. index[m] = j
      BY <1>2, <2>1 DEF SetIsKept
    <2> QED BY <2>2
  <1>6. ASSUME NEW m \in AllMarkets, index[m] # 0
        PROVE  m \in Range(s)
    <2>1. index[m] \in 1 .. Len(s) /\ s[index[m]] = m
      BY <1>2, <1>6 DEF SetIsKept
    <2> QED BY <1>4, <2>1
  <1> QED BY <1>2, <1>3, <1>4, <1>5, <1>6

LEMMA AddingKeepsSet ==
  ASSUME NEW size \in 1 .. MaxMarkets,
         NEW s, NEW index \in [AllMarkets -> Nat], SetIsKept(size, s, index),
         NEW m \in Listed(size), index[m] = 0
  PROVE  /\ SetIsKept(size, Append(s, m), [index EXCEPT ![m] = Len(s) + 1])
         /\ Range(Append(s, m)) = Range(s) \cup {m}
  <1> DEFINE n == Len(s)
             t == Append(s, m)
             after == [index EXCEPT ![m] = n + 1]
  <1>1. /\ n \in Nat /\ DOMAIN s = 1 .. n /\ m \in AllMarkets
        /\ \A x \in AllMarkets : x \in Range(s) <=> index[x] # 0
        /\ \A j \in 1 .. n : s[j] \in AllMarkets
    BY IndexIsMembership
  <1>2. s \in Seq(Listed(size))
    BY DEF SetIsKept
  <1>3. /\ t \in Seq(Listed(size)) /\ Len(t) = n + 1
        /\ \A i \in 1 .. n : t[i] = s[i]
        /\ t[n + 1] = m
    BY <1>2, AppendProperties
  <1>4. DOMAIN t = 1 .. n + 1
    BY <1>3, LenProperties
  <1> HIDE DEF n, t
  <1>5. ASSUME NEW j \in 1 .. n + 1
        PROVE  after[t[j]] = j
    <2>1. CASE j = n + 1
      BY <1>1, <1>3, <2>1
    <2>2. CASE j # n + 1
      <3>1. j \in 1 .. n /\ t[j] = s[j] /\ s[j] \in AllMarkets
        BY <1>1, <1>3, <2>2
      <3>2. index[s[j]] = j
        BY <1>1, <3>1 DEF SetIsKept
      <3>3. s[j] # m
        BY <3>1, <3>2
      <3> QED BY <3>1, <3>2, <3>3
    <2> QED BY <2>1, <2>2
  <1>6. ASSUME NEW x \in AllMarkets, after[x] # 0
        PROVE  after[x] \in 1 .. n + 1 /\ t[after[x]] = x
    <2>1. CASE x = m
      BY <1>1, <1>3, <2>1
    <2>2. CASE x # m
      <3>1. after[x] = index[x]
        BY <2>2
      <3>2. index[x] \in 1 .. n /\ s[index[x]] = x
        BY <1>1, <1>6, <3>1 DEF SetIsKept
      <3> QED BY <1>1, <1>3, <3>1, <3>2
    <2> QED BY <2>1, <2>2
  <1>7. SetIsKept(size, t, after)
    <2> HIDE DEF after
    <2> QED BY <1>3, <1>4, <1>5, <1>6 DEF SetIsKept
  <1>8. Range(t) = Range(s) \cup {m}
    <2>1. Range(t) = {t[j] : j \in 1 .. n + 1} /\ Range(s) = {s[j] : j \in 1 .. n}
      BY <1>1, <1>4 DEF Range
    <2>2. \A j \in 1 .. n + 1 : j = n + 1 \/ j \in 1 .. n
      BY <1>1
    <2>3. \A j \in 1 .. n : j \in 1 .. n + 1
      BY <1>1
    <2>4. n + 1 \in 1 .. n + 1
      BY <1>1
    <2> QED BY <1>3, <2>1, <2>2, <2>3, <2>4
  <1> QED BY <1>7, <1>8 DEF t, n

(***************************************************************************)
(* The last value fills the hole, and takes its index with it.             *)
(***************************************************************************)
FilledWithLast(s, index, m) == Front([s EXCEPT ![index[m]] = Last(s)])
IndexOfLastMoved(s, index, m) == [index EXCEPT ![Last(s)] = index[m], ![m] = 0]

LEMMA RemovingKeepsSet ==
  ASSUME NEW size \in 1 .. MaxMarkets,
         NEW s, NEW index \in [AllMarkets -> Nat], SetIsKept(size, s, index),
         NEW m \in Listed(size), index[m] # 0
  PROVE  /\ SetIsKept(size, FilledWithLast(s, index, m), IndexOfLastMoved(s, index, m))
         /\ IndexOfLastMoved(s, index, m) \in [AllMarkets -> Nat]
         /\ Range(FilledWithLast(s, index, m)) = Range(s) \ {m}
  <1> DEFINE t == FilledWithLast(s, index, m)
             after == IndexOfLastMoved(s, index, m)
             n == Len(s)
             k == index[m]
             last == s[n]
             filled == [s EXCEPT ![k] = last]
  <1>1. /\ n \in Nat /\ DOMAIN s = 1 .. n /\ m \in AllMarkets
        /\ \A x \in AllMarkets : x \in Range(s) <=> index[x] # 0
        /\ \A j \in 1 .. n : s[j] \in AllMarkets /\ s[j] \in Range(s)
        /\ Range(s) \subseteq Listed(size)
    BY IndexIsMembership
  <1>2. s \in Seq(Listed(size)) /\ (\A j \in 1 .. n : index[s[j]] = j)
    BY <1>1 DEF SetIsKept
  <1>3. k \in 1 .. n /\ s[k] = m
    BY <1>1 DEF SetIsKept
  <1>4. n \in 1 .. n /\ last \in AllMarkets /\ last \in Listed(size) /\ index[last] = n
    <2>1. n \in 1 .. n
      BY <1>1, <1>3
    <2> QED BY <1>1, <1>2, <2>1
  <1>5. /\ filled \in Seq(Listed(size)) /\ Len(filled) = n
        /\ \A j \in 1 .. n : filled[j] = IF j = k THEN last ELSE s[j]
    <2>1. filled \in Seq(Listed(size)) /\ Len(filled) = n
      BY <1>2, <1>3, <1>4, ExceptSeq
    <2> QED BY <1>1, <2>1
  <1>6. after = [index EXCEPT ![last] = k, ![m] = 0]
    BY DEF Last, IndexOfLastMoved
  <1>7. t = SubSeq(filled, 1, Len(filled) - 1)
    BY DEF Last, Front, FilledWithLast
  <1> HIDE DEF filled, n, k, last, t, after
  <1>8. t = SubSeq(filled, 1, n - 1)
    BY <1>5, <1>7
  <1>9. 1 \in Int /\ n - 1 \in Int /\ \A i \in 1 .. n - 1 : filled[i] \in Listed(size)
    <2>1. \A i \in 1 .. n - 1 : i \in 1 .. n
      BY <1>1
    <2>2. \A i \in 1 .. n : filled[i] \in Listed(size)
      BY <1>5, ElementOfSeq
    <2> QED BY <1>1, <2>1, <2>2
  <1>10. /\ t \in Seq(Listed(size)) /\ Len(t) = n - 1
         /\ \A j \in 1 .. n - 1 : t[j] = IF j = k THEN last ELSE s[j]
    <2>1. /\ t \in Seq(Listed(size))
          /\ Len(t) = IF 1 <= n - 1 THEN n - 1 - 1 + 1 ELSE 0
          /\ \A i \in 1 .. n - 1 - 1 + 1 : t[i] = filled[1 + i - 1]
      <3> DEFINE end == n - 1
                 u == SubSeq(filled, 1, end)
      <3>1. 1 \in Int /\ end \in Int /\ \A i \in 1 .. end : filled[i] \in Listed(size)
        BY <1>9
      <3> HIDE DEF end
      <3>2. /\ u \in Seq(Listed(size))
            /\ Len(u) = IF 1 <= end THEN end - 1 + 1 ELSE 0
            /\ \A i \in 1 .. end - 1 + 1 : u[i] = filled[1 + i - 1]
        BY <3>1, SubSeqProperties
      <3>3. t = u
        BY <1>8 DEF end
      <3> HIDE DEF u
      <3> QED BY <3>2, <3>3 DEF end
    <2>2. Len(t) = n - 1
      BY <1>1, <1>4, <2>1
    <2>3. ASSUME NEW j \in 1 .. n - 1
          PROVE  t[j] = IF j = k THEN last ELSE s[j]
      <3>1. j \in 1 .. n - 1 - 1 + 1 /\ 1 + j - 1 = j /\ j \in 1 .. n
        BY <1>1
      <3>2. t[j] = filled[j]
        BY <2>1, <3>1
      <3> QED BY <1>5, <3>1, <3>2
    <2> QED BY <2>1, <2>2, <2>3
  <1>11. DOMAIN t = 1 .. n - 1
    BY <1>10, LenProperties
  <1>12. after \in [AllMarkets -> Nat]
    BY <1>1, <1>3, <1>6
  <1>13. \A x \in AllMarkets : after[x] = IF x = m THEN 0 ELSE IF x = last THEN k ELSE index[x]
    BY <1>6
  <1>14. m # last => k # n
    BY <1>3 DEF last
  <1>15. m = last => k = n
    BY <1>4 DEF k
  <1>16. ASSUME NEW j \in 1 .. n - 1
         PROVE  after[t[j]] = j
    <2>0. j \in 1 .. n /\ j # n
      BY <1>1
    <2>1. CASE j = k
      <3>1. t[j] = last /\ m # last
        BY <1>10, <1>15, <2>0, <2>1
      <3> QED BY <1>4, <1>13, <2>1, <3>1
    <2>2. CASE j # k
      <3>1. t[j] = s[j] /\ s[j] \in AllMarkets /\ index[s[j]] = j
        BY <1>1, <1>2, <1>10, <2>0, <2>2
      <3>2. s[j] # m /\ s[j] # last
        BY <1>4, <2>0, <2>2, <3>1 DEF k
      <3> QED BY <1>13, <3>1, <3>2
    <2> QED BY <2>1, <2>2
  <1>17. ASSUME NEW x \in AllMarkets, after[x] # 0
         PROVE  after[x] \in 1 .. n - 1 /\ t[after[x]] = x
    <2>0. x # m
      BY <1>13, <1>17
    <2>1. CASE x = last
      <3>1. after[x] = k /\ k # n
        BY <1>13, <1>14, <2>0, <2>1
      <3>2. k \in 1 .. n - 1
        BY <1>1, <1>3, <3>1
      <3> QED BY <1>10, <2>1, <3>1, <3>2
    <2>2. CASE x # last
      <3>1. after[x] = index[x]
        BY <1>13, <2>0, <2>2
      <3> DEFINE j == index[x]
      <3>2. j \in 1 .. n /\ s[j] = x
        BY <1>1, <1>17, <3>1 DEF SetIsKept
      <3>3. j # n /\ j # k
        BY <1>3, <2>0, <2>2, <3>2 DEF last
      <3> HIDE DEF j
      <3>4. j \in 1 .. n - 1
        BY <1>1, <3>2, <3>3
      <3>5. t[j] = x
        BY <1>10, <3>2, <3>3, <3>4
      <3> QED BY <3>1, <3>4, <3>5 DEF j
    <2> QED BY <2>1, <2>2
  <1>18. SetIsKept(size, t, after)
    BY <1>10, <1>11, <1>16, <1>17 DEF SetIsKept
  <1>19. Range(t) = Range(s) \ {m}
    <2>1. /\ Range(t) \subseteq AllMarkets
          /\ \A x \in AllMarkets : x \in Range(t) <=> after[x] # 0
      BY <1>18, IndexIsMembership
    <2>2. Range(s) \subseteq AllMarkets
      BY IndexIsMembership
    <2>3. ASSUME NEW x \in AllMarkets
          PROVE  after[x] # 0 <=> x # m /\ index[x] # 0
      <3>1. CASE x = m
        BY <1>13, <3>1
      <3>2. CASE x # m /\ x = last
        BY <1>3, <1>4, <1>13, <3>2
      <3>3. CASE x # m /\ x # last
        BY <1>13, <3>3
      <3> QED BY <3>1, <3>2, <3>3
    <2> QED BY <1>1, <2>1, <2>2, <2>3
  <1> QED BY <1>12, <1>18, <1>19 DEF t, after

-----------------------------------------------------------------------------
(* The bitmaps of an operation                                             *)

WordsFor(size) == size \div WordBits + 1

BitmapsAreKept(size, bitmaps) ==
  /\ bitmaps \in [1 .. WordsFor(size) -> SUBSET BitsOfWord]
  /\ \A i \in 1 .. WordsFor(size) : \A bit \in bitmaps[i] :
       MarketIdFromBit(i, bit) \in Listed(size)

(***************************************************************************)
(* A market has one word and one bit.                                      *)
(***************************************************************************)
LEMMA MarketsHaveBits ==
  ASSUME NEW size \in 1 .. MaxMarkets, NEW m \in Listed(size)
  PROVE  /\ m \div WordBits + 1 \in 1 .. WordsFor(size) /\ m % WordBits \in BitsOfWord
         /\ MarketIdFromBit(m \div WordBits + 1, m % WordBits) = m
         /\ WordsFor(size) \in Nat \ {0}
  <1> DEFINE q == m \div WordBits
             r == m % WordBits
             w == size \div WordBits
  <1>1. m \in Nat /\ size \in Nat /\ m <= size /\ WordBits \in Nat \ {0}
    BY HalvesAreNat, MarketSetsAssumption DEF Listed
  <1>2. q \in Nat /\ r \in 0 .. WordBits - 1 /\ m = q * WordBits + r
    BY <1>1, DivMod
  <1>3. w \in Nat
    BY <1>1, DivMod
  <1>4. q <= w
    BY <1>1, DivIsMonotonic
  <1> HIDE DEF q, r, w
  <1>5. q + 1 \in 1 .. w + 1 /\ q + 1 - 1 = q
    BY <1>2, <1>3, <1>4
  <1>6. WordBits * q = q * WordBits
    BY <1>1, <1>2
  <1>7. MarketIdFromBit(q + 1, r) = m
    BY <1>2, <1>5, <1>6 DEF MarketIdFromBit
  <1> QED BY <1>2, <1>3, <1>5, <1>7 DEF q, r, w, WordsFor, BitsOfWord

LEMMA NewBitmapsAreEmpty ==
  ASSUME NEW size \in 1 .. MaxMarkets
  PROVE  /\ BitmapsAreKept(size, CreateBitmaps(size))
         /\ \A m \in Listed(size) : ~HasBit(CreateBitmaps(size), m)
         /\ CreateBitmaps(size) # <<>>
  <1> DEFINE new == CreateBitmaps(size)
  <1>1. new = [i \in 1 .. WordsFor(size) |-> {}]
    BY DEF CreateBitmaps, WordsFor
  <1> HIDE DEF new
  <1>2. BitmapsAreKept(size, new)
    BY <1>1 DEF BitmapsAreKept
  <1>3. \A m \in Listed(size) : ~HasBit(new, m)
    BY <1>1, MarketsHaveBits DEF HasBit
  <1>4. 0 \in Listed(size)
    BY DEF Listed
  <1>5. 1 \in 1 .. WordsFor(size)
    BY <1>4, MarketsHaveBits
  <1>6. new # <<>>
    BY <1>1, <1>5
  <1> QED BY <1>2, <1>3, <1>6 DEF new

LEMMA SettingABit ==
  ASSUME NEW size \in 1 .. MaxMarkets, NEW bitmaps, BitmapsAreKept(size, bitmaps),
         NEW m \in Listed(size)
  PROVE  /\ BitmapsAreKept(size, SetBit(bitmaps, m))
         /\ \A x \in Listed(size) :
              HasBit(SetBit(bitmaps, m), x) <=> HasBit(bitmaps, x) \/ x = m
  <1> DEFINE w == m \div WordBits + 1
             b == m % WordBits
             after == SetBit(bitmaps, m)
  <1>1. /\ w \in 1 .. WordsFor(size) /\ b \in BitsOfWord /\ MarketIdFromBit(w, b) = m
    BY MarketsHaveBits
  <1>2. after = [bitmaps EXCEPT ![w] = @ \cup {b}]
    BY DEF SetBit
  <1>3. /\ bitmaps \in [1 .. WordsFor(size) -> SUBSET BitsOfWord]
        /\ \A i \in 1 .. WordsFor(size) : \A bit \in bitmaps[i] :
             MarketIdFromBit(i, bit) \in Listed(size)
    BY DEF BitmapsAreKept
  <1> HIDE DEF w, b, after
  <1>4. /\ after \in [1 .. WordsFor(size) -> SUBSET BitsOfWord]
        /\ \A i \in 1 .. WordsFor(size) :
             after[i] = IF i = w THEN bitmaps[i] \cup {b} ELSE bitmaps[i]
    BY <1>1, <1>2, <1>3
  <1>5. BitmapsAreKept(size, after)
    BY <1>1, <1>3, <1>4 DEF BitmapsAreKept
  <1>6. ASSUME NEW x \in Listed(size)
        PROVE  HasBit(after, x) <=> HasBit(bitmaps, x) \/ x = m
    <2> DEFINE v == x \div WordBits + 1
               a == x % WordBits
    <2>1. v \in 1 .. WordsFor(size) /\ a \in BitsOfWord /\ MarketIdFromBit(v, a) = x
      BY MarketsHaveBits
    <2>2. x = m => v = w /\ a = b
      BY DEF w, b
    <2> HIDE DEF v, a
    <2>3. v = w /\ a = b => x = m
      BY <1>1, <2>1
    <2>4. a \in after[v] <=> a \in bitmaps[v] \/ x = m
      BY <1>4, <2>1, <2>2, <2>3
    <2> QED BY <2>4 DEF HasBit, v, a
  <1> QED BY <1>5, <1>6 DEF after

LEMMA BitmapsAreNotEmpty ==
  ASSUME NEW size \in 1 .. MaxMarkets,
         NEW bitmaps \in [1 .. WordsFor(size) -> SUBSET BitsOfWord]
  PROVE  bitmaps # <<>>
  <1>1. 0 \in Listed(size)
    BY DEF Listed
  <1>2. 1 \in 1 .. WordsFor(size)
    BY <1>1, MarketsHaveBits
  <1>3. 1 \in DOMAIN bitmaps /\ DOMAIN <<>> = {}
    BY <1>2
  <1> QED BY <1>3

(***************************************************************************)
(* What initializeCache finds is what the bits say.                        *)
(***************************************************************************)
LEMMA BitsAreFound ==
  ASSUME NEW size \in 1 .. MaxMarkets, NEW bitmaps, BitmapsAreKept(size, bitmaps)
  PROVE  LET found == FlattenSeq([i \in DOMAIN bitmaps |-> MarketsInWord(bitmaps, i)])
         IN  /\ found \in Seq(AllMarkets) /\ Increasing(found)
             /\ Range(found) = {m \in Listed(size) : HasBit(bitmaps, m)}
  <1> DEFINE found == FlattenSeq([i \in DOMAIN bitmaps |-> MarketsInWord(bitmaps, i)])
             n == WordsFor(size)
             Pairs == {q \in (1 .. n) \X BitsOfWord : q[2] \in bitmaps[q[1]]}
             Named == {MarketIdFromBit(p[1], p[2]) : p \in Pairs}
  <1>1. /\ bitmaps \in [1 .. n -> SUBSET BitsOfWord]
        /\ \A i \in 1 .. n : \A bit \in bitmaps[i] :
             MarketIdFromBit(i, bit) \in Listed(size)
    BY DEF BitmapsAreKept
  <1>2. n \in Nat \ {0}
    <2>1. 0 \in Listed(size)
      BY DEF Listed
    <2> QED BY <2>1, MarketsHaveBits
  <1> HIDE DEF n
  <1>3. found \in Seq(Int) /\ Increasing(found) /\ Range(found) = Named
    BY <1>1, <1>2, WordsAreListed
  <1> HIDE DEF found
  <1>4. ASSUME NEW x \in Named
        PROVE  x \in Listed(size) /\ HasBit(bitmaps, x)
    <2>1. PICK i \in 1 .. n, bit \in BitsOfWord :
            bit \in bitmaps[i] /\ x = MarketIdFromBit(i, bit)
      OBVIOUS
    <2>2. x \div WordBits = i - 1 /\ x % WordBits = bit
      BY <1>2, <2>1, MarketIdsAreNat
    <2>3. x \div WordBits + 1 = i
      BY <1>2, <2>2
    <2> QED BY <1>1, <2>1, <2>2, <2>3 DEF HasBit
  <1>5. ASSUME NEW x \in Listed(size), HasBit(bitmaps, x)
        PROVE  x \in Named
    <2> DEFINE v == x \div WordBits + 1
               a == x % WordBits
    <2>1. v \in 1 .. n /\ a \in BitsOfWord /\ MarketIdFromBit(v, a) = x
      BY MarketsHaveBits DEF n
    <2>2. a \in bitmaps[v]
      BY <1>5 DEF HasBit
    <2> HIDE DEF v, a
    <2>3. <<v, a>> \in Pairs
      BY <2>1, <2>2
    <2> QED BY <2>1, <2>3
  <1>6. Range(found) = {m \in Listed(size) : HasBit(bitmaps, m)}
    BY <1>3, <1>4, <1>5
  <1>7. Listed(size) \subseteq AllMarkets
    BY MarketSetsAssumption DEF Listed, AllMarkets
  <1>8. found \in Seq(AllMarkets)
    <2>1. \A j \in 1 .. Len(found) : found[j] \in AllMarkets
      <3>1. DOMAIN found = 1 .. Len(found)
        BY <1>3, LenProperties
      <3>2. \A j \in 1 .. Len(found) : found[j] \in Range(found)
        BY <3>1 DEF Range
      <3> QED BY <1>6, <1>7, <3>2
    <2>2. Len(found) \in Nat /\ found = [j \in 1 .. Len(found) |-> found[j]]
      BY <1>3, LenProperties
    <2>3. found \in [1 .. Len(found) -> AllMarkets]
      BY <2>1, <2>2
    <2> QED BY <2>2, <2>3
  <1> QED BY <1>3, <1>6, <1>8 DEF found

(***************************************************************************)
(* The markets of the accounts follow those that are named.                *)
(***************************************************************************)
LoadedFrom(sets, named, accounts) ==
  FoldLeft(LAMBDA s, a : s \o sets[a], named, accounts)

AccountLists == {<<>>} \cup {<<a>> : a \in Holders}
MarketsOf(sets, accounts) == UNION {Range(sets[a]) : a \in Range(accounts)}

LEMMA AccountsAreLoaded ==
  ASSUME NEW S, NEW named \in Seq(S), NEW sets \in [Holders -> Seq(S)],
         NEW accounts \in AccountLists
  PROVE  /\ LoadedFrom(sets, named, accounts) \in Seq(S)
         /\ Range(LoadedFrom(sets, named, accounts))
              = Range(named) \cup MarketsOf(sets, accounts)
  <1> DEFINE D == DOMAIN accounts
             V == Seq(S)
             step == [p \in D \X V |-> p[2] \o sets[accounts[p[1]]]]
             pick == [s \in SUBSET D |-> Max(s)]
             g == CHOOSE h : h = [s \in SUBSET D |->
                                    IF s = {} THEN named
                                    ELSE h[s \ {Max(s)}] \o sets[accounts[Max(s)]]]
             load == LoadedFrom(sets, named, accounts)
  <1>1. load = g[D]
    BY DEF FoldLeft, MapThenFoldSet, LoadedFrom
  <1>2. \/ accounts = <<>> /\ D = {}
        \/ \E a \in Holders : accounts = <<a>> /\ D = {1} /\ accounts[1] = a
    BY DEF AccountLists
  <1>3. IsFiniteSet(D) /\ \A s \in SUBSET D : s = {} \/ (s = {1} /\ D = {1})
    <2>1. D = {} \/ D = {1}
      BY <1>2
    <2> HIDE DEF D
    <2>2. IsFiniteSet(D)
      <3>1. IsFiniteSet({})
        BY FS_EmptySet
      <3>2. IsFiniteSet({1})
        BY FS_Singleton
      <3> QED BY <2>1, <3>1, <3>2
    <2>3. \A s \in SUBSET D : s = {} \/ (s = {1} /\ D = {1})
      BY <2>1
    <2> QED BY <2>2, <2>3
  <1>4. Max({1}) = 1
    BY DEF Max
  <1>5. \A s \in SUBSET D : s # {} => pick[s] \in s /\ pick[s] = Max(s)
    <2> HIDE DEF D
    <2> SUFFICES ASSUME NEW s \in SUBSET D, s # {}
                 PROVE  Max(s) \in s
      OBVIOUS
    <2>1. s = {1}
      BY <1>3
    <2> QED BY <1>4, <2>1
  <1>6. \A i \in D : sets[accounts[i]] \in V
    BY <1>2
  <1>7. step \in [D \X V -> V]
    <2> SUFFICES ASSUME NEW i \in D, NEW v \in V
                 PROVE  v \o sets[accounts[i]] \in V
      OBVIOUS
    <2> QED BY <1>6, ConcatProperties
  <1>8. \A i \in D, v \in V : step[<<i, v>>] = v \o sets[accounts[i]]
    OBVIOUS
  <1> HIDE DEF step, pick, load
  <1>9. named \in V
    OBVIOUS
  <1> HIDE DEF V, D, g
  <1>10. PICK h \in [SUBSET D -> V] : FoldsBy(D, pick, named, step, h)
    <2>1. IsFiniteSet(D)
      BY <1>3
    <2>2. \A s \in SUBSET D : s # {} => pick[s] \in s
      BY <1>5
    <2> QED BY <1>7, <1>9, <2>1, <2>2, FoldsExist
  <1>11. ASSUME NEW s \in SUBSET D
         PROVE  h[s] = IF s = {} THEN named ELSE h[s \ {Max(s)}] \o sets[accounts[Max(s)]]
    <2>1. CASE s = {}
      BY <1>10, <2>1 DEF FoldsBy
    <2>2. CASE s # {}
      <3>1. h[s] = step[<<pick[s], h[s \ {pick[s]}]>>]
        BY <1>10, <2>2 DEF FoldsBy
      <3>2. pick[s] \in D /\ pick[s] = Max(s) /\ s \ {pick[s]} \in SUBSET D
        BY <1>5, <2>2
      <3>3. h[s \ {pick[s]}] \in V
        BY <1>10, <3>2
      <3> QED BY <1>8, <2>2, <3>1, <3>2, <3>3
    <2> QED BY <2>1, <2>2
  <1>12. h = [s \in SUBSET D |-> IF s = {} THEN named
                                 ELSE h[s \ {Max(s)}] \o sets[accounts[Max(s)]]]
    BY <1>10, <1>11
  <1>13. g = [s \in SUBSET D |-> IF s = {} THEN named
                                 ELSE g[s \ {Max(s)}] \o sets[accounts[Max(s)]]]
    BY <1>12 DEF g
  <1>14. CASE accounts = <<>> /\ D = {}
    <2>1. load = named
      BY <1>1, <1>13, <1>14
    <2>2. Range(accounts) = {}
      BY <1>14 DEF Range
    <2> QED BY <1>9, <2>1, <2>2 DEF V, load, MarketsOf
  <1>15. CASE \E a \in Holders : accounts = <<a>> /\ D = {1} /\ accounts[1] = a
    <2>1. PICK a \in Holders : accounts = <<a>> /\ D = {1} /\ accounts[1] = a
      BY <1>15
    <2>2. g[{}] = named
      BY <1>13
    <2>3. {1} \ {1} = {}
      OBVIOUS
    <2>4. g[{1}] = named \o sets[a]
      BY <1>4, <1>13, <2>1, <2>2, <2>3
    <2>5. load = named \o sets[a]
      BY <1>1, <2>1, <2>4
    <2>6. Range(accounts) = {a}
      <3>1. DOMAIN accounts = {1} /\ accounts[1] = a
        BY <2>1
      <3> QED BY <3>1 DEF Range
    <2>7. sets[a] \in Seq(S)
      OBVIOUS
    <2>8. load \in Seq(S) /\ Range(load) = Range(named) \cup Range(sets[a])
      BY <2>5, <2>7, ConcatProperties, RangeConcatenation
    <2> QED BY <2>6, <2>8 DEF load, MarketsOf
  <1> QED BY <1>2, <1>14, <1>15

-----------------------------------------------------------------------------
(* The inductive invariant, and the refinement                             *)

MarketsIn(size, bitmaps) == {m \in Listed(size) : HasBit(bitmaps, m)}

CacheIsKept ==
  /\ cache \in [markets : Seq(AllMarkets),
                marketBitmaps : [1 .. WordsFor(numMarkets) -> SUBSET BitsOfWord],
                marketsLength : Nat]
  /\ BitmapsAreKept(numMarkets, cache.marketBitmaps)
  /\ cache.marketsLength = Cardinality(MarketsIn(numMarkets, cache.marketBitmaps))
  /\ cache.markets # <<>> =>
       /\ loading = <<>>
       /\ Increasing(cache.markets)
       /\ Range(cache.markets) = {m \in Listed(numMarkets) : HasMarket(m)}

SetsInv ==
  /\ numMarkets \in 1 .. MaxMarkets
  /\ values \in [Holders -> Seq(AllMarkets)]
  /\ indexOf \in [Holders -> [AllMarkets -> Nat]]
  /\ \A a \in Holders : SetIsKept(numMarkets, values[a], indexOf[a])
  /\ loading \in Seq(Listed(numMarkets))
  /\ ~Running => loading = <<>>
  /\ Running => CacheIsKept

LEMMA ListedAreMarkets ==
  ASSUME NEW size \in 1 .. MaxMarkets
  PROVE  /\ Listed(size) \subseteq AllMarkets
         /\ \A m \in AllMarkets : m < size <=> m \in Listed(size)
         /\ \A m : <<m>> # NoAnswer
  BY MarketSetsAssumption DEF Listed, AllMarkets, NoAnswer

LEMMA MarketsInAreFinite ==
  ASSUME NEW size \in 1 .. MaxMarkets, NEW bitmaps
  PROVE  IsFiniteSet(MarketsIn(size, bitmaps)) /\ Cardinality(MarketsIn(size, bitmaps)) \in Nat
  <1>1. IsFiniteSet(Listed(size))
    <2>1. 0 \in Int /\ size - 1 \in Int
      BY MarketSetsAssumption
    <2> QED BY <2>1, FS_Interval DEF Listed
  <1>2. MarketsIn(size, bitmaps) \subseteq Listed(size)
    BY DEF MarketsIn
  <1> QED BY <1>1, <1>2, FS_Subset, FS_CardinalityType

(***************************************************************************)
(* An array that goes up is as long as the set of what it holds is large.  *)
(***************************************************************************)
LEMMA IncreasingAreSets ==
  ASSUME NEW s \in Seq(Int), Increasing(s)
  PROVE  Cardinality(Range(s)) = Len(s)
  <1> DEFINE n == Len(s)
             D == 1 .. n
             R == Range(s)
  <1>1. n \in Nat /\ DOMAIN s = D /\ s \in [D -> Int]
    BY LenProperties
  <1>2. R = {s[i] : i \in D}
    BY <1>1 DEF Range
  <1>3. \A i \in D, j \in D : s[i] = s[j] => i = j
    <2> SUFFICES ASSUME NEW i \in D, NEW j \in D, s[i] = s[j]
                 PROVE  i = j
      OBVIOUS
    <2>1. ~(i < j) /\ ~(j < i)
      <3>1. s[i] \in Int /\ s[j] \in Int
        BY <1>1
      <3>2. i < j => s[i] < s[j]
        BY <1>1 DEF Increasing
      <3>3. j < i => s[j] < s[i]
        BY <1>1 DEF Increasing
      <3> QED BY <3>1, <3>2, <3>3
    <2> QED BY <1>1, <2>1
  <1> HIDE DEF n, D, R
  <1>4. s \in [D -> R]
    BY <1>1, <1>2
  <1>5. s \in Injection(D, R)
    BY <1>1, <1>3, <1>4 DEF Injection, IsInjective
  <1>6. s \in Surjection(D, R)
    BY <1>2, <1>4 DEF Surjection
  <1>7. ExistsBijection(D, R)
    BY <1>5, <1>6 DEF ExistsBijection, Bijection
  <1>8. Cardinality(R) = n
    BY <1>1, <1>7, FS_CountingElements DEF D
  <1> QED BY <1>8 DEF R, n

LEMMA NothingRuns ==
  /\ NoCache.markets = <<>> /\ NoCache.marketBitmaps = <<>> /\ NoCache.marketsLength = 0
  /\ Range(NoCache.markets) = {}
  BY NothingIsIncreasing DEF NoCache

(***************************************************************************)
(* What the abstract specification calls `wanted`, while an operation runs.*)
(***************************************************************************)
LEMMA WantedWhileRunning ==
  ASSUME SetsInv
  PROVE  {m \in AllMarkets : m < numMarkets /\ HasMarket(m)}
           = {m \in Listed(numMarkets) : HasMarket(m)}
  BY ListedAreMarkets DEF SetsInv

LEMMA SetsInitHolds == MarketSetsInit => SetsInv /\ AM!Init
  <1> SUFFICES ASSUME MarketSetsInit
               PROVE  SetsInv /\ AM!Init
    OBVIOUS
  <1>1. numMarkets \in 1 .. MaxMarkets
    BY MarketSetsAssumption DEF MarketSetsInit
  <1>2. values \in [Holders -> Seq(AllMarkets)] /\ indexOf \in [Holders -> [AllMarkets -> Nat]]
    BY DEF MarketSetsInit
  <1>3. \A a \in Holders : SetIsKept(numMarkets, values[a], indexOf[a])
    BY DEF MarketSetsInit, SetIsKept
  <1>4. ~Running /\ loading = <<>> /\ loading \in Seq(Listed(numMarkets))
    BY DEF MarketSetsInit, Running
  <1>5. SetsInv
    BY <1>1, <1>2, <1>3, <1>4 DEF SetsInv
  <1>6. \A a \in Holders : Range(values[a]) = {}
    BY NothingIsIncreasing DEF MarketSetsInit
  <1>7. Range(cache.markets) = {}
    BY NothingRuns DEF MarketSetsInit
  <1>8. AM!Init
    BY <1>4, <1>6, <1>7 DEF AM!Init, AM!NoAnswer, MarketSetsInit, NoAnswer
  <1> QED BY <1>5, <1>8

LEMMA AddRefines ==
  ASSUME SetsInv, ~Running, NEW a \in Holders, NEW m \in 0 .. numMarkets - 1,
         AddMarketTo(a, m)
  PROVE  SetsInv' /\ AM!Add(a, m)
  <1> DEFINE s == values[a]
             index == indexOf[a]
  <1>1. /\ numMarkets \in 1 .. MaxMarkets /\ m \in Listed(numMarkets) /\ m \in AllMarkets
        /\ s \in Seq(AllMarkets) /\ index \in [AllMarkets -> Nat]
        /\ SetIsKept(numMarkets, s, index)
    BY ListedAreMarkets DEF SetsInv, Listed
  <1>2. m \in Range(s) <=> HasValue(a, m)
    BY <1>1, IndexIsMembership DEF HasValue
  <1>3. UNCHANGED <<numMarkets, cache, loading>> /\ ~Running'
    BY DEF AddMarketTo, Running
  <1>4. CASE HasValue(a, m)
    <2>1. UNCHANGED <<values, indexOf>>
      BY <1>4 DEF AddMarketTo
    <2>2. SetsInv'
      BY <1>3, <2>1 DEF SetsInv, Running, CacheIsKept, HasMarket
    <2>3. AM!Add(a, m)
      BY <1>2, <1>3, <1>4, <2>1 DEF AM!Add, AddMarketTo, Running
    <2> QED BY <2>2, <2>3
  <1>5. CASE ~HasValue(a, m)
    <2> DEFINE t == Append(s, m)
               after == [index EXCEPT ![m] = Len(s) + 1]
    <2>1. SetIsKept(numMarkets, t, after) /\ Range(t) = Range(s) \cup {m}
      BY <1>1, <1>5, AddingKeepsSet DEF HasValue
    <2>2. values' = [values EXCEPT ![a] = t] /\ indexOf' = [indexOf EXCEPT ![a] = after]
      BY <1>5 DEF AddMarketTo
    <2>3. t \in Seq(AllMarkets) /\ after \in [AllMarkets -> Nat]
      BY <1>1, AppendProperties, LenProperties
    <2> HIDE DEF t, after, s, index
    <2>4. /\ values' \in [Holders -> Seq(AllMarkets)]
          /\ indexOf' \in [Holders -> [AllMarkets -> Nat]]
          /\ \A b \in Holders : /\ values'[b] = IF b = a THEN t ELSE values[b]
                                /\ indexOf'[b] = IF b = a THEN after ELSE indexOf[b]
      BY <2>2, <2>3 DEF SetsInv
    <2>5. \A b \in Holders : SetIsKept(numMarkets', values'[b], indexOf'[b])
      BY <1>3, <2>1, <2>4 DEF SetsInv
    <2>6. SetsInv'
      BY <1>3, <2>4, <2>5 DEF SetsInv
    <2>7. [b \in Holders |-> Range(values'[b])]
            = [[b \in Holders |-> Range(values[b])] EXCEPT ![a] = @ \cup {m}]
      BY <2>1, <2>4 DEF s
    <2>8. AM!Add(a, m)
      BY <1>2, <1>3, <1>5, <2>7 DEF AM!Add, AddMarketTo, Running, s
    <2> QED BY <2>6, <2>8
  <1> QED BY <1>4, <1>5

LEMMA RemoveRefines ==
  ASSUME SetsInv, ~Running, NEW a \in Holders, NEW m \in 0 .. numMarkets - 1,
         RemoveMarketFrom(a, m)
  PROVE  SetsInv' /\ AM!Remove(a, m)
  <1> DEFINE s == values[a]
             index == indexOf[a]
  <1>1. /\ numMarkets \in 1 .. MaxMarkets /\ m \in Listed(numMarkets) /\ m \in AllMarkets
        /\ s \in Seq(AllMarkets) /\ index \in [AllMarkets -> Nat]
        /\ SetIsKept(numMarkets, s, index)
    BY ListedAreMarkets DEF SetsInv, Listed
  <1>2. m \in Range(s) <=> HasValue(a, m)
    BY <1>1, IndexIsMembership DEF HasValue
  <1>3. UNCHANGED <<numMarkets, cache, loading>> /\ ~Running'
    BY DEF RemoveMarketFrom, Running
  <1>4. CASE ~HasValue(a, m)
    <2>1. UNCHANGED <<values, indexOf>>
      BY <1>4 DEF RemoveMarketFrom
    <2>2. SetsInv'
      BY <1>3, <2>1 DEF SetsInv, Running, CacheIsKept, HasMarket
    <2>3. AM!Remove(a, m)
      <3>1. Range(values[a]) \ {m} = Range(values[a])
        BY <1>2, <1>4
      <3>2. [b \in Holders |-> Range(values[b])]
              = [[b \in Holders |-> Range(values[b])] EXCEPT ![a] = @ \ {m}]
        BY <3>1
      <3>3. m \notin [b \in Holders |-> Range(values[b])][a]
        BY <1>2, <1>4
      <3>4. answer' = <<"remove", a, m, m \in [b \in Holders |-> Range(values[b])][a]>>
        <4>1. answer' = <<"remove", a, m, HasValue(a, m)>>
          BY DEF RemoveMarketFrom
        <4>2. HasValue(a, m) = FALSE
          BY <1>4 DEF HasValue
        <4>3. (m \in [b \in Holders |-> Range(values[b])][a]) = FALSE
          BY <3>3
        <4> HIDE DEF s, index
        <4> QED BY <4>1, <4>2, <4>3
      <3> QED BY <1>3, <2>1, <3>2, <3>4 DEF AM!Remove, Running
    <2> QED BY <2>2, <2>3
  <1>5. CASE HasValue(a, m)
    <2> DEFINE t == FilledWithLast(s, index, m)
               after == IndexOfLastMoved(s, index, m)
    <2>1. /\ SetIsKept(numMarkets, t, after) /\ after \in [AllMarkets -> Nat]
          /\ Range(t) = Range(s) \ {m}
      <3>1. index[m] # 0
        BY <1>5 DEF HasValue
      <3> HIDE DEF s, index
      <3> QED BY <1>1, <3>1, RemovingKeepsSet
    <2>2. values' = [values EXCEPT ![a] = t] /\ indexOf' = [indexOf EXCEPT ![a] = after]
      BY <1>5 DEF RemoveMarketFrom, MapWithout, FilledWithLast, IndexOfLastMoved
    <2>3. t \in Seq(AllMarkets)
      <3>1. t \in Seq(Listed(numMarkets))
        BY <2>1 DEF SetIsKept
      <3> HIDE DEF t
      <3> QED BY <1>1, <3>1, ListedAreMarkets, SeqMonotonic
    <2> HIDE DEF t, after, s, index
    <2>4. /\ values' \in [Holders -> Seq(AllMarkets)]
          /\ indexOf' \in [Holders -> [AllMarkets -> Nat]]
          /\ \A b \in Holders : /\ values'[b] = IF b = a THEN t ELSE values[b]
                                /\ indexOf'[b] = IF b = a THEN after ELSE indexOf[b]
      BY <2>1, <2>2, <2>3 DEF SetsInv
    <2>5. \A b \in Holders : SetIsKept(numMarkets', values'[b], indexOf'[b])
      BY <1>3, <2>1, <2>4 DEF SetsInv
    <2>6. SetsInv'
      BY <1>3, <2>4, <2>5 DEF SetsInv
    <2>7. [b \in Holders |-> Range(values'[b])]
            = [[b \in Holders |-> Range(values[b])] EXCEPT ![a] = @ \ {m}]
      BY <2>1, <2>4 DEF s
    <2>8. AM!Remove(a, m)
      BY <1>2, <1>3, <1>5, <2>7 DEF AM!Remove, RemoveMarketFrom, Running, s
    <2> QED BY <2>6, <2>8
  <1> QED BY <1>4, <1>5

LEMMA BeginRefines ==
  ASSUME SetsInv, NEW named \in SeqOf(0 .. numMarkets - 1, MaxNamed),
         NEW accounts \in {<<>>} \cup {<<a>> : a \in Holders},
         RunPreprocessing(named, accounts)
  PROVE  /\ SetsInv' /\ AM!Begin(Range(named), Range(accounts))
         /\ Range(named) \in SUBSET AllMarkets /\ Range(accounts) \in SUBSET Holders
  <1> DEFINE S == Listed(numMarkets)
             load == LoadedFrom(values, named, accounts)
             new == CreateBitmaps(numMarkets)
  <1>1. numMarkets \in 1 .. MaxMarkets /\ S \subseteq AllMarkets
    BY ListedAreMarkets DEF SetsInv
  <1>2. named \in Seq(S)
    <2>1. PICK k \in 0 .. MaxNamed : named \in [1 .. k -> S]
      BY DEF SeqOf, Listed
    <2> HIDE DEF S
    <2> QED BY <2>1
  <1>3. values \in [Holders -> Seq(S)]
    <2>1. \A a \in Holders : values[a] \in Seq(S)
      BY DEF SetsInv, SetIsKept
    <2>2. values = [a \in Holders |-> values[a]]
      BY DEF SetsInv
    <2> HIDE DEF S
    <2> QED BY <2>1, <2>2
  <1>4. /\ load \in Seq(S)
        /\ Range(load) = Range(named) \cup UNION {Range(values[a]) : a \in Range(accounts)}
    <2> DEFINE sets == values
    <2>1. named \in Seq(S) /\ sets \in [Holders -> Seq(S)] /\ accounts \in AccountLists
      BY <1>2, <1>3 DEF AccountLists
    <2> HIDE DEF S, sets
    <2>2. /\ LoadedFrom(sets, named, accounts) \in Seq(S)
          /\ Range(LoadedFrom(sets, named, accounts))
               = Range(named) \cup MarketsOf(sets, accounts)
      BY <2>1, AccountsAreLoaded
    <2> QED BY <2>2 DEF sets, MarketsOf
  <1>5. Range(named) \in SUBSET AllMarkets
    <2>1. DOMAIN named = 1 .. Len(named) /\ \A i \in 1 .. Len(named) : named[i] \in S
      <3> HIDE DEF S
      <3> QED BY <1>2, LenProperties, ElementOfSeq
    <2> QED BY <1>1, <2>1 DEF Range
  <1>6. Range(accounts) \in SUBSET Holders
    <2>1. \A i \in DOMAIN accounts : accounts[i] \in Holders
      OBVIOUS
    <2> QED BY <2>1 DEF Range
  <1> HIDE DEF load
  <1>7. /\ BitmapsAreKept(numMarkets, new) /\ new # <<>>
        /\ \A m \in S : ~HasBit(new, m)
    BY <1>1, NewBitmapsAreEmpty
  <1>8. cache' = [markets |-> <<>>, marketBitmaps |-> new, marketsLength |-> 0]
    BY DEF RunPreprocessing, Create, NoCache
  <1>9. /\ ~Running /\ loading' = load /\ UNCHANGED <<values, indexOf, numMarkets>>
        /\ answer' = <<"operate", Range(named), Range(accounts)>>
    BY DEF RunPreprocessing, load, LoadedFrom
  <1> HIDE DEF new
  <1>10. Running' /\ cache'.markets = <<>> /\ cache'.marketBitmaps = new
    BY <1>7, <1>8 DEF Running, NoCache
  <1>11. CacheIsKept'
    <2>1. cache' \in [markets : Seq(AllMarkets),
                      marketBitmaps : [1 .. WordsFor(numMarkets) -> SUBSET BitsOfWord],
                      marketsLength : Nat]
      BY <1>7, <1>8 DEF BitmapsAreKept
    <2>2. Cardinality(MarketsIn(numMarkets, new)) = 0
      BY <1>7, FS_EmptySet DEF MarketsIn
    <2>3. cache'.marketsLength = 0
      BY <1>8
    <2> QED BY <1>7, <1>9, <1>10, <2>1, <2>2, <2>3 DEF CacheIsKept
  <1>12. SetsInv'
    <2>1. loading' \in Seq(Listed(numMarkets'))
      BY <1>4, <1>9
    <2>2. \A a \in Holders : SetIsKept(numMarkets', values'[a], indexOf'[a])
      BY <1>9 DEF SetsInv
    <2> QED BY <1>9, <1>10, <1>11, <2>1, <2>2 DEF SetsInv
  <1>13. {m \in AllMarkets : m < numMarkets' /\ HasBit(cache'.marketBitmaps, m)} = {}
    BY <1>1, <1>7, <1>9, <1>10, ListedAreMarkets
  <1>14. cache.markets = <<>> /\ Range(cache.markets) = {} /\ Range(cache'.markets) = {}
    BY <1>9, <1>10, NothingRuns DEF Running
  <1>15. {Range(values[a]) : a \in Range(accounts)}
           = {[b \in Holders |-> Range(values[b])][a] : a \in Range(accounts)}
    BY <1>6
  <1>16. AM!Begin(Range(named), Range(accounts))
    BY <1>4, <1>9, <1>10, <1>13, <1>14, <1>15 DEF AM!Begin, HasMarket
  <1> QED BY <1>5, <1>6, <1>12, <1>16

LEMMA UpdateStutters ==
  ASSUME SetsInv, UpdateMarket
  PROVE  SetsInv' /\ UNCHANGED AM!vars
  <1> DEFINE S == Listed(numMarkets)
             m == Head(loading)
             old == cache.marketBitmaps
             new == cache'.marketBitmaps
  <1>1. numMarkets \in 1 .. MaxMarkets /\ S \subseteq AllMarkets
    BY ListedAreMarkets DEF SetsInv
  <1>2. /\ loading # <<>> /\ loading' = Tail(loading)
        /\ UNCHANGED <<values, indexOf, numMarkets, answer>>
        /\ cache' = IF HasMarket(m) THEN cache ELSE CacheSet(cache, m)
    BY DEF UpdateMarket
  <1>3. Running /\ CacheIsKept /\ cache.markets = <<>> /\ loading \in Seq(S)
    BY <1>2 DEF SetsInv, CacheIsKept
  <1>4. m \in S /\ loading' \in Seq(S) /\ Range(loading) = {m} \cup Range(loading')
    <2> HIDE DEF S
    <2>1. m \in S /\ loading' \in Seq(S)
      BY <1>2, <1>3, HeadTailProperties
    <2>2. loading = <<m>> \o loading'
      BY <1>2, <1>3, ConcatProperties
    <2>3. <<m>> \in Seq(S)
      BY <2>1
    <2>4. Range(<<m>>) = {m}
      <3>1. DOMAIN <<m>> = {1} /\ <<m>>[1] = m
        OBVIOUS
      <3> QED BY <3>1 DEF Range
    <2> DEFINE first == <<m>>
               rest == loading'
    <2>5. first \in Seq(S) /\ rest \in Seq(S) /\ loading = first \o rest /\ Range(first) = {m}
      BY <2>1, <2>2, <2>3, <2>4
    <2> HIDE DEF first, rest, m
    <2>6. Range(first \o rest) = Range(first) \cup Range(rest)
      BY <2>5, RangeConcatenation
    <2> QED BY <2>1, <2>5, <2>6 DEF rest
  <1> HIDE DEF m
  <1>5. /\ BitmapsAreKept(numMarkets, new)
        /\ \A x \in S : HasBit(new, x) <=> HasBit(old, x) \/ x = m
        /\ cache' \in [markets : Seq(AllMarkets),
                       marketBitmaps : [1 .. WordsFor(numMarkets) -> SUBSET BitsOfWord],
                       marketsLength : Nat]
        /\ cache'.markets = <<>>
        /\ cache'.marketsLength = Cardinality(MarketsIn(numMarkets, new))
    <2>1. CASE HasMarket(m)
      <3>1. cache' = cache
        BY <1>2, <2>1
      <3>2. HasBit(old, m)
        BY <2>1 DEF HasMarket
      <3> QED BY <1>3, <3>1, <3>2 DEF CacheIsKept
    <2>2. CASE ~HasMarket(m)
      <3> DEFINE after == SetBit(old, m)
      <3>1. BitmapsAreKept(numMarkets, after)
            /\ \A x \in S : HasBit(after, x) <=> HasBit(old, x) \/ x = m
        BY <1>1, <1>3, <1>4, SettingABit DEF CacheIsKept
      <3>2. cache' = [cache EXCEPT !.marketBitmaps = after, !.marketsLength = @ + 1]
        BY <1>2, <2>2 DEF CacheSet
      <3> HIDE DEF after
      <3>3. after \in [1 .. WordsFor(numMarkets) -> SUBSET BitsOfWord]
        BY <3>1 DEF BitmapsAreKept
      <3>4. /\ cache' = [markets |-> cache.markets, marketBitmaps |-> after,
                         marketsLength |-> cache.marketsLength + 1]
            /\ cache.markets \in Seq(AllMarkets) /\ cache.marketsLength \in Nat
        BY <1>3, <3>2 DEF CacheIsKept
      <3>5. new = after /\ cache'.markets = <<>>
        BY <1>3, <3>4
      <3>6. cache' \in [markets : Seq(AllMarkets),
                        marketBitmaps : [1 .. WordsFor(numMarkets) -> SUBSET BitsOfWord],
                        marketsLength : Nat]
        BY <3>3, <3>4
      <3>7. MarketsIn(numMarkets, after) = MarketsIn(numMarkets, old) \cup {m}
        BY <1>4, <3>1 DEF MarketsIn
      <3>8. m \notin MarketsIn(numMarkets, old)
        BY <2>2 DEF MarketsIn, HasMarket
      <3>9. Cardinality(MarketsIn(numMarkets, old) \cup {m})
              = Cardinality(MarketsIn(numMarkets, old)) + 1
        BY <1>1, <3>8, MarketsInAreFinite, FS_AddElement
      <3>10. cache'.marketsLength = Cardinality(MarketsIn(numMarkets, new))
        BY <1>3, <3>4, <3>5, <3>7, <3>9 DEF CacheIsKept
      <3> QED BY <3>1, <3>5, <3>6, <3>10
    <2> QED BY <2>1, <2>2
  <1>6. Running'
    <2>1. new # <<>>
      BY <1>1, <1>5, BitmapsAreNotEmpty
    <2> QED BY <2>1, NothingRuns DEF Running
  <1>7. CacheIsKept'
    BY <1>2, <1>5 DEF CacheIsKept
  <1>8. SetsInv'
    <2>1. \A a \in Holders : SetIsKept(numMarkets', values'[a], indexOf'[a])
      BY <1>2 DEF SetsInv
    <2> QED BY <1>2, <1>4, <1>6, <1>7, <2>1 DEF SetsInv
  <1> DEFINE before == {x \in AllMarkets : x < numMarkets /\ HasBit(old, x)}
             after == {x \in AllMarkets : x < numMarkets' /\ HasBit(new, x)}
  <1>9. before \cup Range(loading) = after \cup Range(loading')
    <2>1. \A x \in AllMarkets : x < numMarkets <=> x \in S
      BY <1>1, ListedAreMarkets
    <2>2. \A x : x \in after <=> x \in before \/ x = m
      BY <1>1, <1>2, <1>4, <1>5, <2>1
    <2> HIDE DEF before, after
    <2> QED BY <1>4, <2>2
  <1>10. UNCHANGED AM!vars
    BY <1>2, <1>3, <1>5, <1>6, <1>9 DEF AM!vars, HasMarket
  <1> QED BY <1>8, <1>10

LEMMA InitializeRefines ==
  ASSUME SetsInv, InitializeCache
  PROVE  SetsInv' /\ AM!Load
  <1> DEFINE words == cache.marketBitmaps
             found == FlattenSeq([i \in DOMAIN words |-> MarketsInWord(words, i)])
  <1>1. numMarkets \in 1 .. MaxMarkets
    BY DEF SetsInv
  <1>2. /\ Running /\ CacheIsKept /\ loading = <<>> /\ cache.markets = <<>>
        /\ BitmapsAreKept(numMarkets, words)
    BY DEF InitializeCache, SetsInv, CacheIsKept
  <1>3. /\ cache' = [cache EXCEPT !.markets = found]
        /\ answer' = NoAnswer
        /\ UNCHANGED <<values, indexOf, numMarkets, loading>>
    BY DEF InitializeCache
  <1>4. /\ found \in Seq(AllMarkets) /\ Increasing(found)
        /\ Range(found) = {m \in Listed(numMarkets) : HasBit(words, m)}
    BY <1>1, <1>2, BitsAreFound
  <1> HIDE DEF found
  <1>5. /\ cache' \in [markets : Seq(AllMarkets),
                       marketBitmaps : [1 .. WordsFor(numMarkets) -> SUBSET BitsOfWord],
                       marketsLength : Nat]
        /\ cache'.markets = found /\ cache'.marketBitmaps = words
        /\ cache'.marketsLength = cache.marketsLength
    BY <1>2, <1>3, <1>4 DEF CacheIsKept
  <1>6. CacheIsKept'
    BY <1>2, <1>3, <1>4, <1>5 DEF CacheIsKept, HasMarket
  <1>7. Running'
    <2>1. cache'.marketBitmaps # <<>>
      BY <1>1, <1>5, BitmapsAreNotEmpty
    <2> QED BY <2>1, NothingRuns DEF Running
  <1>8. SetsInv'
    <2>1. \A a \in Holders : SetIsKept(numMarkets', values'[a], indexOf'[a])
      BY <1>3 DEF SetsInv
    <2> QED BY <1>2, <1>3, <1>6, <1>7, <2>1 DEF SetsInv
  <1>9. Range(loading) = {} /\ Range(cache.markets) = {}
    BY <1>2, NothingIsIncreasing
  <1>10. {m \in AllMarkets : m < numMarkets /\ HasMarket(m)} = Range(found)
    BY <1>4, WantedWhileRunning DEF HasMarket
  <1>11. AM!Load
    BY <1>2, <1>3, <1>5, <1>7, <1>9, <1>10 DEF AM!Load, AM!NoAnswer, NoAnswer, HasMarket
  <1> QED BY <1>8, <1>11

LEMMA GetRefines ==
  ASSUME SetsInv, NEW m \in AllMarkets, GetMarketInfo(m)
  PROVE  SetsInv' /\ AM!Get(m)
  <1>1. /\ cache.markets # <<>> /\ answer' = <<"get", m, Search(cache.markets, m)>>
        /\ UNCHANGED <<values, indexOf, numMarkets, cache, loading>>
    BY DEF GetMarketInfo
  <1>2. Running
    BY <1>1, NothingRuns DEF Running
  <1>3. cache.markets \in Seq(AllMarkets) /\ Increasing(cache.markets)
    BY <1>1, <1>2 DEF SetsInv, CacheIsKept
  <1>4. Search(cache.markets, m) = IF m \in Range(cache.markets) THEN m ELSE NotFound
    BY <1>3, SearchIsExact
  <1>5. SetsInv'
    BY <1>1 DEF SetsInv, Running, CacheIsKept, HasMarket
  <1>6. AM!Get(m)
    BY <1>1, <1>4 DEF AM!Get, AM!NotFound, NotFound, Running, HasMarket
  <1> QED BY <1>5, <1>6

LEMMA ReturnRefines ==
  ASSUME SetsInv, OperationReturns
  PROVE  SetsInv' /\ AM!End
  <1>1. /\ loading = <<>> /\ cache' = NoCache /\ answer' = NoAnswer
        /\ UNCHANGED <<values, indexOf, numMarkets, loading>>
    BY DEF OperationReturns
  <1>2. ~Running' /\ Range(cache'.markets) = {}
    BY <1>1, NothingRuns DEF Running
  <1>3. SetsInv'
    BY <1>1, <1>2 DEF SetsInv
  <1>4. AM!End
    BY <1>1, <1>2 DEF AM!End, AM!NoAnswer, NoAnswer
  <1> QED BY <1>3, <1>4

LEMMA ListStutters ==
  ASSUME SetsInv, ListMarket
  PROVE  SetsInv' /\ UNCHANGED AM!vars
  <1>1. /\ ~Running /\ numMarkets < MaxMarkets /\ numMarkets' = numMarkets + 1
        /\ UNCHANGED <<values, indexOf, cache, loading, answer>>
    BY DEF ListMarket
  <1>2. numMarkets \in 1 .. MaxMarkets /\ numMarkets' \in 1 .. MaxMarkets
    BY <1>1, MarketSetsAssumption DEF SetsInv
  <1>3. Listed(numMarkets) \subseteq Listed(numMarkets')
    BY <1>1, <1>2 DEF Listed
  <1>4. \A a \in Holders : SetIsKept(numMarkets', values'[a], indexOf'[a])
    <2> SUFFICES ASSUME NEW a \in Holders
                 PROVE  SetIsKept(numMarkets', values[a], indexOf[a])
      BY <1>1
    <2>1. SetIsKept(numMarkets, values[a], indexOf[a])
      BY DEF SetsInv
    <2>2. values[a] \in Seq(Listed(numMarkets'))
      BY <1>3, <2>1, SeqMonotonic DEF SetIsKept
    <2> QED BY <2>1, <2>2 DEF SetIsKept
  <1>5. ~Running' /\ loading' = <<>> /\ loading' \in Seq(Listed(numMarkets'))
    BY <1>1 DEF Running, SetsInv
  <1>6. SetsInv'
    BY <1>1, <1>2, <1>4, <1>5 DEF SetsInv
  <1>7. UNCHANGED AM!vars
    BY <1>1, <1>5 DEF AM!vars
  <1> QED BY <1>6, <1>7

(***************************************************************************)
(* Every step of the arrays, maps, bitmaps and searches is one of the sets *)
(* of markets, or none.                                                    *)
(***************************************************************************)
LEMMA StepsRefine ==
  SetsInv /\ [MarketSetsNext]_marketSetsVars => SetsInv' /\ [AM!Next]_(AM!vars)
  <1> SUFFICES ASSUME SetsInv, [MarketSetsNext]_marketSetsVars
               PROVE  SetsInv' /\ [AM!Next]_(AM!vars)
    OBVIOUS
  <1>0. 0 .. numMarkets - 1 \subseteq AllMarkets
    BY ListedAreMarkets DEF SetsInv, Listed
  <1>1. CASE UNCHANGED marketSetsVars
    <2>1. SetsInv'
      BY <1>1 DEF marketSetsVars, SetsInv, Running, CacheIsKept, HasMarket
    <2>2. UNCHANGED AM!vars
      BY <1>1 DEF marketSetsVars, AM!vars, Running, HasMarket
    <2> QED BY <2>1, <2>2
  <1>2. CASE ~Running /\ \E a \in Holders, m \in 0 .. numMarkets - 1 :
                           AddMarketTo(a, m) \/ RemoveMarketFrom(a, m)
    <2>1. PICK a \in Holders, m \in 0 .. numMarkets - 1 :
            AddMarketTo(a, m) \/ RemoveMarketFrom(a, m)
      BY <1>2
    <2>2. SetsInv' /\ (AM!Add(a, m) \/ AM!Remove(a, m))
      BY <1>2, <2>1, AddRefines, RemoveRefines
    <2>3. m \in AllMarkets
      BY <1>0
    <2> QED BY <2>2, <2>3 DEF AM!Next
  <1>3. CASE \E named \in SeqOf(0 .. numMarkets - 1, MaxNamed),
               accounts \in {<<>>} \cup {<<a>> : a \in Holders} :
               RunPreprocessing(named, accounts)
    BY <1>3, BeginRefines DEF AM!Next
  <1>4. CASE \E m \in AllMarkets : GetMarketInfo(m)
    BY <1>4, GetRefines DEF AM!Next
  <1>5. CASE UpdateMarket
    BY <1>5, UpdateStutters
  <1>6. CASE InitializeCache
    BY <1>6, InitializeRefines DEF AM!Next
  <1>7. CASE OperationReturns
    BY <1>7, ReturnRefines DEF AM!Next
  <1>8. CASE ListMarket
    BY <1>8, ListStutters
  <1> QED BY <1>1, <1>2, <1>3, <1>4, <1>5, <1>6, <1>7, <1>8 DEF MarketSetsNext

(***************************************************************************)
(* So accounts and operations have the sets of markets that they should,   *)
(* and a search finds a market exactly when the operation has to know it.  *)
(***************************************************************************)
THEOREM SetsOfMarketsAreKept == MarketSetsSpec => ImplementsAccountMarkets
  <1>1. MarketSetsInit => SetsInv /\ AM!Init
    BY SetsInitHolds
  <1>2. SetsInv /\ [MarketSetsNext]_marketSetsVars => SetsInv' /\ [AM!Next]_(AM!vars)
    BY StepsRefine
  <1> QED BY <1>1, <1>2, PTL DEF MarketSetsSpec, ImplementsAccountMarkets, AM!Spec

(***************************************************************************)
(* The assertion of initializeCache never fails, and its array is never    *)
(* too short: as many markets were counted as the bitmaps hold.            *)
(***************************************************************************)
CountIsExact ==
  LET words == cache.marketBitmaps
      found == FlattenSeq([i \in DOMAIN words |-> MarketsInWord(words, i)])
  IN  Running => Len(found) = cache.marketsLength

THEOREM CountsStayExact == MarketSetsSpec => []CountIsExact
  <1>1. MarketSetsInit => SetsInv
    BY SetsInitHolds
  <1>2. SetsInv /\ [MarketSetsNext]_marketSetsVars => SetsInv'
    BY StepsRefine
  <1>3. SetsInv => CountIsExact
    <2> SUFFICES ASSUME SetsInv, Running
                 PROVE  CountIsExact
      BY DEF CountIsExact
    <2> DEFINE words == cache.marketBitmaps
               found == FlattenSeq([i \in DOMAIN words |-> MarketsInWord(words, i)])
    <2>1. /\ numMarkets \in 1 .. MaxMarkets /\ BitmapsAreKept(numMarkets, words)
          /\ cache.marketsLength = Cardinality(MarketsIn(numMarkets, words))
      BY DEF SetsInv, CacheIsKept
    <2>2. /\ found \in Seq(AllMarkets) /\ Increasing(found)
          /\ Range(found) = MarketsIn(numMarkets, words)
      BY <2>1, BitsAreFound DEF MarketsIn
    <2> HIDE DEF found
    <2>3. found \in Seq(Int)
      <3>1. AllMarkets \subseteq Int
        BY DEF AllMarkets
      <3> QED BY <2>2, <3>1, SeqMonotonic
    <2>4. Len(found) = cache.marketsLength
      BY <2>1, <2>2, <2>3, IncreasingAreSets
    <2> QED BY <2>4 DEF CountIsExact, found
  <1> QED BY <1>1, <1>2, <1>3, PTL DEF MarketSetsSpec

=============================================================================

---------------------------- MODULE ProxiesProofs ----------------------------
(***************************************************************************)
(* Proofs about what others may do to an account.  SignedOperationProxy:   *)
(* what is executed was signed, once, and never after a cancellation, and  *)
(* what is sent is read back.                                              *)
(* Expiry: expiries are set with consent, trades that follow are fair, and *)
(* the client's late plans come true.  LiquidatorProxies: what the proxies *)
(* work out is what happens, and the liquidator keeps his ratio.           *)
(***************************************************************************)
EXTENDS SignedOperationProxy, LiquidatorProxies, OperationBuilderProofs,
        MarginMathProofs, SequenceTheorems

-----------------------------------------------------------------------------
(* What is known of the transactions                                       *)

(***************************************************************************)
(* Of a transaction that operates: its authorizations are of published     *)
(* signatures, or empty.                                                   *)
(***************************************************************************)
IsPublished(auth, published) ==
  /\ auth.numActions \in Nat
  /\ auth.signature # NoSignature =>
       \E s \in published :
         auth.header = s.header /\ auth.signature = s.signature

Operates(tx, published) ==
  /\ tx.method = "operate"
  /\ IsList(tx.actions) /\ IsList(tx.auths)
  /\ \A k \in DOMAIN tx.auths : IsPublished(tx.auths[k], published)

(***************************************************************************)
(* Of one that cancels: it names an operation that someone may sign.       *)
(***************************************************************************)
CancelsOne(tx) ==
  /\ tx.method = "cancel"
  /\ \E s \in Signables :
       LET args == CancelArgs(s.operation)
       IN  /\ tx.operation = s.operation
           /\ tx.accounts = args.accounts /\ tx.actions = args.actions
           /\ tx.auths = <<args.auth>>

TxsAreKnown ==
  /\ signed \subseteq {SignedBy[s] : s \in Signables}
  /\ IsList(txs)
  /\ \A t \in DOMAIN txs : Operates(txs[t], signed) \/ CancelsOne(txs[t])

(***************************************************************************)
(* Of what was mined: it passed the checks of the contract, and left its   *)
(* hashes behind.                                                          *)
(***************************************************************************)
HeaderAcceptedAt(tx, k, at) ==
  LET header == tx.auths[k].header
  IN  /\ header.expiration = 0 \/ header.expiration >= at
      /\ header.sender = ZeroOwner \/ AddressOf[header.sender] = AddressOf[tx.sender]

WasAccepted(tx, at) ==
  /\ AllActionsCovered(tx)
  /\ \A k \in DOMAIN tx.auths :
       /\ SignatureIsValid(tx, k)
       /\ HeaderAcceptedAt(tx, k, at)
       /\ ActionsAccepted(tx, k)
  /\ \A k, l \in DOMAIN tx.auths :
       IsSigned(tx, k) /\ IsSigned(tx, l) /\ HashOf(tx, k) = HashOf(tx, l)
         => k = l

CancelledHash(tx) == GetOperationHashOf(tx.accounts, tx.actions, tx.auths[1], 0)

HistoryIsKnown ==
  /\ IsList(history)
  /\ \A h \in DOMAIN history : history[h].tx \in DOMAIN txs
  /\ \A h \in Executed : WasAccepted(ExecutedTx(h), history[h].at)

HashesAreSpent ==
  /\ \A h \in Executed : Hashes(ExecutedTx(h)) \subseteq invalidated
  /\ \A h \in DOMAIN history \ Executed :
       CancelledHash(ExecutedTx(h)) \in invalidated

(***************************************************************************)
(* NeverAfterCancel for the hash that the contract computes.               *)
(***************************************************************************)
CancelledIsNotExecuted ==
  \A i \in DOMAIN history \ Executed, j \in Executed :
    i < j => CancelledHash(ExecutedTx(i)) \notin Hashes(ExecutedTx(j))

HistoryIsSound ==
  /\ HistoryIsKnown
  /\ HashesAreSpent
  /\ ExecutesOncePerSignature
  /\ CancelledIsNotExecuted

-----------------------------------------------------------------------------
(* The history                                                             *)

(***************************************************************************)
(* What was mined stays as it is, whatever is sent.                        *)
(***************************************************************************)
LEMMA HistoryStays ==
  ASSUME HistoryIsSound, UNCHANGED <<history, invalidated>>,
         DOMAIN txs \subseteq DOMAIN txs',
         \A t \in DOMAIN txs : txs'[t] = txs[t]
  PROVE  HistoryIsSound'
  <1>1. \A h \in DOMAIN history : history[h].tx \in DOMAIN txs
    BY DEF HistoryIsSound, HistoryIsKnown
  <1>2. \A h \in DOMAIN history : ExecutedTx(h)' = ExecutedTx(h)
    BY <1>1 DEF ExecutedTx
  <1>3. Executed' = Executed
    BY <1>1 DEF Executed
  <1>4. Executed \subseteq DOMAIN history
    BY DEF Executed
  <1>5. HistoryIsKnown'
    BY <1>1, <1>2, <1>3, <1>4 DEF HistoryIsSound, HistoryIsKnown
  <1>6. HashesAreSpent'
    BY <1>2, <1>3, <1>4 DEF HistoryIsSound, HashesAreSpent
  <1>7. ExecutesOncePerSignature'
    BY <1>2, <1>3, <1>4 DEF HistoryIsSound, ExecutesOncePerSignature
  <1>8. CancelledIsNotExecuted'
    BY <1>2, <1>3, <1>4 DEF HistoryIsSound, CancelledIsNotExecuted
  <1> QED BY <1>5, <1>6, <1>7, <1>8 DEF HistoryIsSound

(***************************************************************************)
(* What is mined comes last.                                               *)
(***************************************************************************)
Mines(t) == history' = Append(history, [tx |-> t, at |-> blockTime])

LEMMA HistoryGrows ==
  ASSUME HistoryIsKnown, NEW t \in DOMAIN txs, Mines(t), UNCHANGED txs,
         NEW n, n = Len(history) + 1
  PROVE  /\ IsList(history')
         /\ DOMAIN history = 1 .. Len(history)
         /\ n \in Nat /\ n \notin DOMAIN history
         /\ DOMAIN history' = DOMAIN history \cup {n}
         /\ \A h \in DOMAIN history :
              history'[h] = history[h] /\ ExecutedTx(h)' = ExecutedTx(h)
         /\ history'[n] = [tx |-> t, at |-> blockTime]
         /\ ExecutedTx(n)' = txs[t]
         /\ Executed' = Executed \cup (IF txs[t].method = "operate"
                                       THEN {n} ELSE {})
  <1> DEFINE r == [tx |-> t, at |-> blockTime]
  <1>1. /\ IsList(history') /\ Len(history') = n
        /\ \A h \in 1 .. Len(history) : history'[h] = history[h]
        /\ history'[n] = r
    BY AppendToList DEF HistoryIsKnown, Mines
  <1>2. /\ Len(history) \in Nat /\ DOMAIN history = 1 .. Len(history)
        /\ DOMAIN history' = 1 .. Len(history')
    BY <1>1, ListPlaces DEF HistoryIsKnown
  <1>3. n \in Nat /\ n \notin DOMAIN history
    BY <1>2
  <1>4. DOMAIN history' = DOMAIN history \cup {n}
    BY <1>1, <1>2
  <1>5. r.tx = t
    OBVIOUS
  <1> HIDE DEF r
  <1>6. \A h \in DOMAIN history : ExecutedTx(h)' = ExecutedTx(h)
    BY <1>1, <1>2 DEF ExecutedTx
  <1>7. ExecutedTx(n)' = txs[t]
    BY <1>1, <1>5 DEF ExecutedTx
  <1>8. Executed' = Executed \cup (IF txs[t].method = "operate"
                                   THEN {n} ELSE {})
    BY <1>4, <1>6, <1>7 DEF Executed, ExecutedTx
  <1> QED BY <1>1, <1>2, <1>3, <1>4, <1>6, <1>7, <1>8 DEF r

LEMMA HashesAreOfSignatures ==
  ASSUME NEW tx, NEW k \in DOMAIN tx.auths, IsSigned(tx, k)
  PROVE  HashOf(tx, k) \in Hashes(tx)
  BY DEF Hashes

LEMMA CancelKeepsHistory ==
  ASSUME HistoryIsSound, NEW t \in DOMAIN txs, Cancel(t)
  PROVE  HistoryIsSound'
  <1> DEFINE tx == txs[t]
  <1> PICK n : n = Len(history) + 1
    OBVIOUS
  <1>1. CASE UNCHANGED <<history, invalidated>>
    <2>1. txs' = txs
      BY DEF Cancel
    <2> QED BY <1>1, <2>1, HistoryStays
  <1>2. CASE ~UNCHANGED <<history, invalidated>>
    <2>1. /\ tx.method = "cancel" /\ txs' = txs
          /\ Mines(t)
          /\ invalidated' = invalidated \cup {CancelledHash(tx)}
      BY <1>2 DEF Cancel, Accept, Refuse, Mines, CancelledHash
    <2>2. HistoryIsKnown
      BY DEF HistoryIsSound
    <2>3. /\ IsList(history')
          /\ DOMAIN history = 1 .. Len(history)
          /\ n \in Nat /\ n \notin DOMAIN history
          /\ DOMAIN history' = DOMAIN history \cup {n}
          /\ \A h \in DOMAIN history :
               history'[h] = history[h] /\ ExecutedTx(h)' = ExecutedTx(h)
          /\ history'[n] = [tx |-> t, at |-> blockTime]
          /\ ExecutedTx(n)' = tx
          /\ Executed' = Executed \cup (IF tx.method = "operate"
                                        THEN {n} ELSE {})
      BY <2>1, <2>2, HistoryGrows
    <2> HIDE DEF tx
    <2>4. history'[n].tx = t /\ Executed' = Executed
      BY <2>1, <2>3
    <2>5. Executed \subseteq DOMAIN history
      BY DEF Executed
    <2>6. \A h \in DOMAIN history, e \in Executed : ~(n < e)
      BY <2>3, <2>5
    <2>7. HistoryIsKnown'
      BY <2>1, <2>2, <2>3, <2>5, <2>4 DEF HistoryIsKnown
    <2>8. HashesAreSpent'
      BY <2>1, <2>3, <2>5, <2>4 DEF HistoryIsSound, HashesAreSpent
    <2>9. ExecutesOncePerSignature'
      BY <2>3, <2>5, <2>4 DEF HistoryIsSound, ExecutesOncePerSignature
    <2>10. CancelledIsNotExecuted'
      BY <2>3, <2>5, <2>6, <2>4 DEF HistoryIsSound, CancelledIsNotExecuted
    <2> QED BY <2>7, <2>8, <2>9, <2>10 DEF HistoryIsSound
  <1> QED BY <1>1, <1>2

(***************************************************************************)
(* What the contract accepts has new hashes only, each once.               *)
(***************************************************************************)
LEMMA OperateAccepts ==
  ASSUME NEW t \in DOMAIN txs, Operate(t), ~UNCHANGED <<history, invalidated>>,
         IsList(txs[t].auths)
  PROVE  LET tx == txs[t]
         IN  /\ tx.method = "operate" /\ txs' = txs
             /\ Mines(t)
             /\ invalidated' = invalidated \cup Hashes(tx)
             /\ Hashes(tx) \cap invalidated = {}
             /\ WasAccepted(tx, blockTime)
  <1> DEFINE tx == txs[t]
  <1>1. /\ tx.method = "operate" /\ txs' = txs
        /\ AllActionsCovered(tx)
        /\ \A k \in DOMAIN tx.auths :
             /\ SignatureIsValid(tx, k) /\ HeaderAccepts(tx, k)
             /\ NotUsed(tx, k) /\ ActionsAccepted(tx, k)
        /\ Accept(t, Hashes(tx))
    BY DEF Operate, Refuse
  <1> HIDE DEF tx
  <1>2. Mines(t) /\ invalidated' = invalidated \cup Hashes(tx)
    BY <1>1 DEF Accept, Mines
  <1>3. Hashes(tx) \cap invalidated = {}
    BY <1>1 DEF Hashes, NotUsed
  <1>4. ASSUME NEW k \in DOMAIN tx.auths, NEW l \in DOMAIN tx.auths,
               IsSigned(tx, k), IsSigned(tx, l), HashOf(tx, k) = HashOf(tx, l)
        PROVE  k = l
    <2>1. k \in Nat /\ l \in Nat /\ k >= 1 /\ l >= 1
      BY ListPlaces DEF tx
    <2>2. /\ \A j \in 1 .. k - 1 : IsSigned(tx, j) => HashOf(tx, j) # HashOf(tx, k)
          /\ \A j \in 1 .. l - 1 : IsSigned(tx, j) => HashOf(tx, j) # HashOf(tx, l)
      BY <1>1, <1>4 DEF NotUsed
    <2>3. ~(l < k) /\ ~(k < l)
      BY <1>4, <2>1, <2>2
    <2> QED BY <2>1, <2>3
  <1>5. WasAccepted(tx, blockTime)
    BY <1>1, <1>4 DEF WasAccepted, HeaderAccepts, HeaderAcceptedAt
  <1> QED BY <1>1, <1>2, <1>3, <1>5 DEF tx

LEMMA OperateKeepsHistory ==
  ASSUME HistoryIsSound, NEW t \in DOMAIN txs, Operate(t),
         txs[t].method = "operate" => IsList(txs[t].auths)
  PROVE  HistoryIsSound'
  <1> DEFINE tx == txs[t]
  <1> PICK n : n = Len(history) + 1
    OBVIOUS
  <1>1. CASE UNCHANGED <<history, invalidated>>
    <2>1. txs' = txs
      BY DEF Operate
    <2> QED BY <1>1, <2>1, HistoryStays
  <1>2. CASE ~UNCHANGED <<history, invalidated>>
    <2>0. IsList(tx.auths)
      BY DEF Operate
    <2>1. /\ tx.method = "operate" /\ txs' = txs
          /\ Mines(t)
          /\ invalidated' = invalidated \cup Hashes(tx)
          /\ Hashes(tx) \cap invalidated = {}
          /\ WasAccepted(tx, blockTime)
      BY <1>2, <2>0, OperateAccepts
    <2>2. HistoryIsKnown
      BY DEF HistoryIsSound
    <2>3. /\ IsList(history')
          /\ DOMAIN history = 1 .. Len(history)
          /\ n \in Nat /\ n \notin DOMAIN history
          /\ DOMAIN history' = DOMAIN history \cup {n}
          /\ \A h \in DOMAIN history :
               history'[h] = history[h] /\ ExecutedTx(h)' = ExecutedTx(h)
          /\ history'[n] = [tx |-> t, at |-> blockTime]
          /\ ExecutedTx(n)' = tx
          /\ Executed' = Executed \cup {n}
      BY <2>1, <2>2, HistoryGrows
    <2>4. Executed \subseteq DOMAIN history /\ n \notin Executed
      BY <2>3 DEF Executed
    <2>5. history'[n].tx = t /\ history'[n].at = blockTime
      BY <2>3
    <2>6. \A h \in Executed : Hashes(ExecutedTx(h)) \cap Hashes(tx) = {}
      BY <2>1 DEF HistoryIsSound, HashesAreSpent
    <2>7. \A h \in DOMAIN history \ Executed :
            CancelledHash(ExecutedTx(h)) \notin Hashes(tx)
      BY <2>1 DEF HistoryIsSound, HashesAreSpent
    <2> HIDE DEF tx
    <2>8. HistoryIsKnown'
      BY <2>1, <2>2, <2>3, <2>4, <2>5 DEF HistoryIsKnown, tx
    <2>9. HashesAreSpent'
      BY <2>1, <2>3, <2>4 DEF HistoryIsSound, HashesAreSpent
    <2>10. ExecutesOncePerSignature'
      <3> SUFFICES ASSUME NEW i \in Executed', NEW j \in Executed',
                          NEW k \in DOMAIN (ExecutedTx(i)').auths,
                          NEW l \in DOMAIN (ExecutedTx(j)').auths,
                          IsSigned(ExecutedTx(i)', k),
                          IsSigned(ExecutedTx(j)', l),
                          HashOf(ExecutedTx(i)', k) = HashOf(ExecutedTx(j)', l)
                   PROVE  i = j /\ k = l
        BY DEF ExecutesOncePerSignature
      <3>1. /\ HashOf(ExecutedTx(i)', k) \in Hashes(ExecutedTx(i)')
            /\ HashOf(ExecutedTx(j)', l) \in Hashes(ExecutedTx(j)')
        BY HashesAreOfSignatures
      <3>2. CASE i \in Executed /\ j \in Executed
        BY <2>3, <2>4, <3>2 DEF HistoryIsSound, ExecutesOncePerSignature
      <3>3. CASE i = n /\ j = n
        BY <2>1, <2>3, <3>3 DEF WasAccepted
      <3>4. CASE i \in Executed /\ j = n
        BY <2>3, <2>4, <2>6, <3>1, <3>4
      <3>5. CASE i = n /\ j \in Executed
        BY <2>3, <2>4, <2>6, <3>1, <3>5
      <3> QED BY <2>3, <3>2, <3>3, <3>4, <3>5
    <2>11. CancelledIsNotExecuted'
      BY <2>3, <2>4, <2>7 DEF HistoryIsSound, CancelledIsNotExecuted
    <2> QED BY <2>8, <2>9, <2>10, <2>11 DEF HistoryIsSound
  <1> QED BY <1>1, <1>2

-----------------------------------------------------------------------------
(* What the client builds                                                  *)

(***************************************************************************)
(* The object refers to published operations only.                         *)
(***************************************************************************)
IsAuthOf(auth, published) ==
  /\ auth.startIndex \in Nat /\ auth.numActions \in Nat
  /\ \E s \in published :
       auth.header = s.header /\ auth.signature = s.signature

RefersTo(op, published) ==
  /\ IsObject(op)
  /\ \A k \in DOMAIN op.auths : IsAuthOf(op.auths[k], published)

LEMMA SignedOperationIsAdded ==
  ASSUME NEW published, NEW op, RefersTo(op, published),
         NEW s \in published, IsList(s.actions)
  PROVE  RefersTo(AddSignedOperation(op, s), published)
  <1> DEFINE auth == [startIndex |-> Len(op.actions),
                      numActions |-> Len(s.actions),
                      header |-> s.header, signature |-> s.signature]
             auths == Append(op.auths, auth)
             new == [op EXCEPT !.auths = Append(@, auth)]
  <1>1. /\ IsObject(op) /\ IsList(op.actions) /\ IsList(op.auths)
        /\ Len(op.actions) \in Nat /\ Len(s.actions) \in Nat
        /\ Len(op.auths) \in Nat /\ DOMAIN op.auths = 1 .. Len(op.auths)
    BY ListPlaces DEF RefersTo, IsObject
  <1>2. IsAuthOf(auth, published)
    BY <1>1 DEF IsAuthOf
  <1>3. AddSignedOperation(op, s) = IF op.proxy # "Signed" THEN op
                                    ELSE AddSignedActions(new, s.actions)
    BY DEF AddSignedOperation
  <1> HIDE DEF auth
  <1>4. new = [accounts |-> op.accounts, actions |-> op.actions,
               auths |-> auths, proxy |-> op.proxy,
               committed |-> op.committed]
    BY <1>1 DEF IsObject
  <1>5. /\ IsList(auths) /\ Len(auths) = Len(op.auths) + 1
        /\ \A i \in 1 .. Len(op.auths) : auths[i] = op.auths[i]
        /\ auths[Len(op.auths) + 1] = auth
        /\ DOMAIN auths = 1 .. Len(auths)
    BY <1>1, AppendToList, ListPlaces
  <1> HIDE DEF auths, new
  <1>6. \A k \in DOMAIN auths : IsAuthOf(auths[k], published)
    <2> SUFFICES ASSUME NEW k \in DOMAIN auths
                 PROVE  IsAuthOf(auths[k], published)
      OBVIOUS
    <2>1. k \in 1 .. Len(op.auths) \/ k = Len(op.auths) + 1
      BY <1>1, <1>5
    <2> QED BY <1>1, <1>2, <1>5, <2>1 DEF RefersTo
  <1>7. IsObject(new) /\ new.auths = auths
    BY <1>1, <1>4, <1>5 DEF IsObject
  <1>8. OnlyAdds(AddSignedActions(new, s.actions), new)
    BY <1>1, <1>7, SignedActionsAreAdded
  <1>9. RefersTo(AddSignedActions(new, s.actions), published)
    BY <1>6, <1>7, <1>8 DEF OnlyAdds, RefersTo
  <1> QED BY <1>3, <1>9

(***************************************************************************)
(* The loop over a plan.                                                   *)
(***************************************************************************)
BuiltNext(step, op) ==
  IF step.kind = "Signable"
  THEN AddSignedOperation(op, SignedBy[step.signable])
  ELSE AddAction(op, step)

BuiltBy(steps, n, f) ==
  f = [i \in 0 .. n |-> IF i = 0 THEN Initiate("Signed")
                        ELSE BuiltNext(steps[i], f[i - 1])]

LEMMA BuiltExist ==
  ASSUME NEW steps
  PROVE  \A n \in Nat : \E f : BuiltBy(steps, n, f)
  <1> DEFINE N == {n \in Nat : \E f : BuiltBy(steps, n, f)}
             first == Initiate("Signed")
  <1>1. 0 \in N
    <2>1. BuiltBy(steps, 0, [i \in 0 .. 0 |-> first])
      BY DEF BuiltBy
    <2> QED BY <2>1
  <1>2. ASSUME NEW n \in Nat, n \in N
        PROVE  n + 1 \in N
    <2>1. PICK f : BuiltBy(steps, n, f)
      BY <1>2
    <2> DEFINE g == [i \in 0 .. n + 1 |-> IF i = 0 THEN first
                                          ELSE BuiltNext(steps[i], f[i - 1])]
    <2>2. ASSUME NEW i \in 0 .. n + 1, i # 0
          PROVE  g[i - 1] = f[i - 1]
      <3>1. i - 1 \in 0 .. n /\ i - 1 \in 0 .. n + 1
        BY <2>2
      <3> HIDE DEF first
      <3> QED BY <2>1, <3>1 DEF BuiltBy, first
    <2>3. g = [i \in 0 .. n + 1 |-> IF i = 0 THEN first
                                    ELSE BuiltNext(steps[i], g[i - 1])]
      BY <2>2
    <2> HIDE DEF g
    <2>4. BuiltBy(steps, n + 1, g)
      BY <2>3 DEF BuiltBy
    <2> QED BY <2>4
  <1> HIDE DEF N
  <1>3. \A n \in Nat : n \in N
    BY <1>1, <1>2, CountInduction
  <1> QED BY <1>3 DEF N

LEMMA BuiltRefersTo ==
  ASSUME NEW published, published \subseteq {SignedBy[s] : s \in Signables},
         NEW steps, IsList(steps),
         \A i \in DOMAIN steps :
           steps[i].kind = "Signable" => SignedBy[steps[i].signable] \in published
  PROVE  RefersTo(Built(steps), published)
  <1> DEFINE n == Len(steps)
             f == CHOOSE g : BuiltBy(steps, n, g)
             N == {i \in Nat : i <= n => RefersTo(f[i], published)}
  <1>1. Built(steps) = f[n]
    BY DEF Built, BuiltBy, BuiltNext
  <1>2. n \in Nat /\ DOMAIN steps = 1 .. n
    BY ListPlaces
  <1>3. BuiltBy(steps, n, f)
    BY <1>2, BuiltExist
  <1> HIDE DEF f, n
  <1>4. 0 \in N
    <2>1. f[0] = Initiate("Signed")
      BY <1>2, <1>3 DEF BuiltBy
    <2>2. RefersTo(Initiate("Signed"), published)
      BY EmptyList DEF RefersTo, Initiate, IsObject
    <2> QED BY <2>1, <2>2
  <1>5. ASSUME NEW i \in Nat, i \in N
        PROVE  i + 1 \in N
    <2> SUFFICES ASSUME i + 1 <= n
                 PROVE  RefersTo(f[i + 1], published)
      OBVIOUS
    <2> DEFINE step == steps[i + 1]
    <2>1. RefersTo(f[i], published) /\ i + 1 \in DOMAIN steps
      BY <1>2, <1>5
    <2>2. f[i + 1] = BuiltNext(step, f[i])
      <3>1. i + 1 \in 0 .. n /\ i + 1 # 0 /\ (i + 1) - 1 = i
        BY <1>2
      <3> QED BY <1>3, <3>1 DEF BuiltBy
    <2>3. CASE step.kind = "Signable"
      <3>1. SignedBy[step.signable] \in published
        BY <2>1, <2>3
      <3> HIDE DEF step
      <3>2. \A s \in published : IsList(s.actions)
        BY SignedAssumption DEF SignedBy
      <3> QED BY <2>1, <2>2, <2>3, <3>1, <3>2, SignedOperationIsAdded
              DEF BuiltNext
    <2>4. CASE step.kind # "Signable"
      <3> HIDE DEF step
      <3>1. OnlyAdds(AddAction(f[i], step), f[i])
        BY <2>1, ActionIsAdded DEF RefersTo
      <3> QED BY <2>1, <2>2, <2>4, <3>1 DEF BuiltNext, OnlyAdds, RefersTo
    <2> QED BY <2>3, <2>4
  <1> HIDE DEF N
  <1>6. n \in N
    BY <1>2, <1>4, <1>5, CountInduction
  <1> QED BY <1>1, <1>2, <1>6 DEF N

(***************************************************************************)
(* The authorizations that are sent.                                       *)
(***************************************************************************)
AllPublished(auths, published) ==
  /\ IsList(auths)
  /\ \A k \in DOMAIN auths : IsPublished(auths[k], published)

LEMMA JoinPublished ==
  ASSUME NEW published, NEW s, AllPublished(s, published),
         NEW t, AllPublished(t, published)
  PROVE  AllPublished(s \o t, published)
  <1> DEFINE u == s \o t
  <1>1. /\ IsList(u) /\ Len(u) = Len(s) + Len(t)
        /\ \A i \in 1 .. Len(s) : u[i] = s[i]
        /\ \A i \in Len(s) + 1 .. Len(s) + Len(t) : u[i] = t[i - Len(s)]
        /\ DOMAIN u = 1 .. Len(u)
        /\ Len(s) \in Nat /\ DOMAIN s = 1 .. Len(s)
        /\ Len(t) \in Nat /\ DOMAIN t = 1 .. Len(t)
    BY JoinLists, ListPlaces DEF AllPublished
  <1> HIDE DEF u
  <1>2. ASSUME NEW k \in DOMAIN u
        PROVE  IsPublished(u[k], published)
    <2>1. CASE k \in 1 .. Len(s)
      BY <1>1, <2>1 DEF AllPublished
    <2>2. CASE k \in Len(s) + 1 .. Len(s) + Len(t)
      <3>1. k - Len(s) \in DOMAIN t
        BY <1>1, <2>2
      <3> QED BY <1>1, <2>2, <3>1 DEF AllPublished
    <2> QED BY <1>1, <2>1, <2>2
  <1> QED BY <1>1, <1>2 DEF AllPublished, u

LEMMA OnePublished ==
  ASSUME NEW published, NEW auth, IsPublished(auth, published)
  PROVE  AllPublished(<<auth>>, published)
  <1>1. IsList(<<auth>>) /\ Len(<<auth>>) = 1 /\ <<auth>>[1] = auth
    BY ListOfOne
  <1>2. \A k \in DOMAIN <<auth>> : k = 1
    BY <1>1, ListPlaces
  <1> QED BY <1>1, <1>2 DEF AllPublished

LEMMA GapIsPublished ==
  ASSUME NEW published, NEW from \in Nat, NEW to \in Nat
  PROVE  AllPublished(Gap(from, to), published)
  <1>1. AllPublished(<<>>, published)
    BY EmptyList DEF AllPublished
  <1>2. ASSUME to > from
        PROVE  AllPublished(<<EmptyAuth(to - from)>>, published)
    <2>1. to - from \in Nat
      BY <1>2
    <2>2. IsPublished(EmptyAuth(to - from), published)
      BY <2>1 DEF IsPublished, EmptyAuth
    <2> QED BY <2>2, OnePublished
  <1> QED BY <1>1, <1>2 DEF Gap

LEMMA GeneratedIsPublished ==
  ASSUME NEW published, NEW op, RefersTo(op, published)
  PROVE  AllPublished(GenerateAuthData(op), published)
  <1> DEFINE n == Len(op.auths)
             f == CHOOSE g : GeneratedBy(op, n, g)
             N == {i \in Nat : i <= n => AllPublished(f[i], published)}
  <1>1. GenerateAuthData(op) = f[n] \o Gap(EndOf(op, n), Len(op.actions))
    BY DEF GenerateAuthData, GeneratedBy, Gap, EndOf, AuthData
  <1>2. /\ n \in Nat /\ DOMAIN op.auths = 1 .. n
        /\ Len(op.actions) \in Nat
    BY ListPlaces DEF RefersTo, IsObject
  <1>3. GeneratedBy(op, n, f)
    BY <1>2, GeneratedExist
  <1> HIDE DEF f, n
  <1>4. \A i \in 0 .. n : EndOf(op, i) \in Nat
    BY <1>2 DEF EndOf, RefersTo, IsAuthOf
  <1>5. \A i \in 1 .. n : /\ op.auths[i].startIndex \in Nat
                          /\ IsPublished(AuthData(op, i), published)
    BY <1>2 DEF RefersTo, IsAuthOf, IsPublished, AuthData
  <1>6. 0 \in N
    <2>1. f[0] = <<>>
      BY <1>2, <1>3 DEF GeneratedBy
    <2> QED BY <2>1, EmptyList DEF AllPublished
  <1>7. ASSUME NEW i \in Nat, i \in N
        PROVE  i + 1 \in N
    <2> SUFFICES ASSUME i + 1 <= n
                 PROVE  AllPublished(f[i + 1], published)
      OBVIOUS
    <2> DEFINE gap == Gap(EndOf(op, i), op.auths[i + 1].startIndex)
    <2>1. AllPublished(f[i], published) /\ i \in 0 .. n /\ i + 1 \in 1 .. n
      BY <1>2, <1>7
    <2>2. f[i + 1] = f[i] \o gap \o <<AuthData(op, i + 1)>>
      <3>1. i + 1 \in 0 .. n /\ i + 1 # 0 /\ (i + 1) - 1 = i
        BY <1>2
      <3> QED BY <1>3, <3>1 DEF GeneratedBy
    <2>3. AllPublished(gap, published)
      BY <1>4, <1>5, <2>1, GapIsPublished
    <2>4. AllPublished(<<AuthData(op, i + 1)>>, published)
      BY <1>5, <2>1, OnePublished
    <2> HIDE DEF gap
    <2>5. AllPublished(f[i] \o gap, published)
      BY <2>1, <2>3, JoinPublished
    <2> QED BY <2>2, <2>4, <2>5, JoinPublished
  <1> HIDE DEF N
  <1>8. n \in N
    BY <1>2, <1>6, <1>7, CountInduction
  <1>9. AllPublished(f[n], published)
    BY <1>2, <1>8 DEF N
  <1>10. AllPublished(Gap(EndOf(op, n), Len(op.actions)), published)
    BY <1>2, <1>4, GapIsPublished
  <1> QED BY <1>1, <1>9, <1>10, JoinPublished

-----------------------------------------------------------------------------
(* The transactions                                                        *)

(***************************************************************************)
(* What is known of a transaction stays known while operations are         *)
(* published.                                                              *)
(***************************************************************************)
LEMMA MorePublished ==
  ASSUME NEW few, NEW many, few \subseteq many, NEW tx, Operates(tx, few)
  PROVE  Operates(tx, many)
  BY DEF Operates, IsPublished

LEMMA PublishKeepsTxs ==
  ASSUME TxsAreKnown, NEW s \in Signables, PublishOperation(s)
  PROVE  TxsAreKnown'
  <1>1. signed \subseteq signed' /\ txs' = txs
    BY DEF PublishOperation
  <1>2. signed' \subseteq {SignedBy[x] : x \in Signables}
    BY DEF PublishOperation, TxsAreKnown
  <1>3. \A t \in DOMAIN txs : Operates(txs[t], signed') \/ CancelsOne(txs[t])
    BY <1>1, MorePublished DEF TxsAreKnown
  <1> QED BY <1>1, <1>2, <1>3 DEF TxsAreKnown

LEMMA PoolKeepsTxs ==
  ASSUME TxsAreKnown, NEW tx, Pool(tx), Operates(tx, signed) \/ CancelsOne(tx)
  PROVE  /\ TxsAreKnown'
         /\ DOMAIN txs \subseteq DOMAIN txs'
         /\ \A t \in DOMAIN txs : txs'[t] = txs[t]
  <1>1. /\ IsList(txs') /\ Len(txs') = Len(txs) + 1
        /\ \A i \in 1 .. Len(txs) : txs'[i] = txs[i]
        /\ txs'[Len(txs) + 1] = tx
        /\ Len(txs) \in Nat /\ DOMAIN txs = 1 .. Len(txs)
    BY AppendToList, ListPlaces DEF Pool, TxsAreKnown
  <1>2. DOMAIN txs' = 1 .. Len(txs')
    BY <1>1, ListPlaces
  <1>3. DOMAIN txs' = DOMAIN txs \cup {Len(txs) + 1}
    BY <1>1, <1>2
  <1>4. signed' = signed
    BY DEF Pool
  <1>5. \A t \in DOMAIN txs' : Operates(txs'[t], signed) \/ CancelsOne(txs'[t])
    BY <1>1, <1>3 DEF TxsAreKnown
  <1> QED BY <1>1, <1>3, <1>4, <1>5 DEF TxsAreKnown

LEMMA SubmitPools ==
  ASSUME TxsAreKnown, NEW sender, NEW steps \in Plans, Submit(sender, steps)
  PROVE  \E tx : Pool(tx) /\ Operates(tx, signed)
  <1> DEFINE op == Built(steps)
             tx == [method |-> "operate", sender |-> sender,
                    accounts |-> op.accounts, actions |-> op.actions,
                    auths |-> GenerateAuthData(op)]
  <1>1. /\ Pool(tx)
        /\ \A i \in DOMAIN steps :
             steps[i].kind = "Signable" => SignedBy[steps[i].signable] \in signed
    BY DEF Submit
  <1>2. RefersTo(op, signed)
    BY <1>1, BuiltRefersTo, SignedAssumption DEF TxsAreKnown
  <1> HIDE DEF op
  <1>3. AllPublished(GenerateAuthData(op), signed)
    BY <1>2, GeneratedIsPublished
  <1>4. Operates(tx, signed)
    BY <1>2, <1>3 DEF Operates, AllPublished, RefersTo, IsObject
  <1> QED BY <1>1, <1>4

LEMMA CancelOperationPools ==
  ASSUME NEW s \in Signables, NEW hasOptions,
         CancelOperation(s.operation, hasOptions)
  PROVE  \E tx : Pool(tx) /\ CancelsOne(tx)
  <1> DEFINE operation == s.operation
             args == CancelArgs(operation)
             sender == IF hasOptions THEN DefaultAccount
                       ELSE operation.header.signer
             tx == [method |-> "cancel", sender |-> sender,
                    accounts |-> args.accounts, actions |-> args.actions,
                    auths |-> <<args.auth>>, operation |-> operation]
  <1>1. Pool(tx)
    BY DEF CancelOperation
  <1>2. CancelsOne(tx)
    BY DEF CancelsOne
  <1> QED BY <1>1, <1>2

-----------------------------------------------------------------------------
(* The invariant                                                           *)

SignedInductive == TxsAreKnown /\ HistoryIsSound

LEMMA SignedInitially ==
  ASSUME SignedInit
  PROVE  SignedInductive
  <1>1. DOMAIN history = {} /\ DOMAIN txs = {}
    BY DEF SignedInit
  <1>2. Executed = {}
    BY <1>1 DEF Executed
  <1>3. TxsAreKnown
    BY <1>1, EmptyList DEF SignedInit, TxsAreKnown
  <1>4. HistoryIsKnown
    BY <1>1, <1>2, EmptyList DEF SignedInit, HistoryIsKnown
  <1>5. HashesAreSpent /\ ExecutesOncePerSignature /\ CancelledIsNotExecuted
    BY <1>1, <1>2
       DEF HashesAreSpent, ExecutesOncePerSignature, CancelledIsNotExecuted
  <1> QED BY <1>3, <1>4, <1>5 DEF SignedInductive, HistoryIsSound

LEMMA SignedStep ==
  ASSUME SignedInductive, [SignedNext]_signedVars
  PROVE  SignedInductive'
  <1> USE DEF SignedInductive
  <1>1. ASSUME NEW s \in Signables, PublishOperation(s)
        PROVE  SignedInductive'
    <2>1. UNCHANGED <<history, invalidated, txs>>
      BY <1>1 DEF PublishOperation
    <2> QED BY <1>1, <2>1, PublishKeepsTxs, HistoryStays
  <1>2. ASSUME NEW tx, Pool(tx), Operates(tx, signed) \/ CancelsOne(tx)
        PROVE  SignedInductive'
    <2>1. UNCHANGED <<history, invalidated>>
      BY <1>2 DEF Pool
    <2>2. /\ TxsAreKnown'
          /\ DOMAIN txs \subseteq DOMAIN txs'
          /\ \A t \in DOMAIN txs : txs'[t] = txs[t]
      BY <1>2, PoolKeepsTxs
    <2> QED BY <2>1, <2>2, HistoryStays
  <1>3. ASSUME NEW sender, NEW steps \in Plans, Submit(sender, steps)
        PROVE  SignedInductive'
    BY <1>2, <1>3, SubmitPools
  <1>4. ASSUME NEW s \in Signables, NEW hasOptions,
               CancelOperation(s.operation, hasOptions)
        PROVE  SignedInductive'
    BY <1>2, <1>4, CancelOperationPools
  <1>5. ASSUME NEW t \in DOMAIN txs, Operate(t)
        PROVE  SignedInductive'
    <2>1. UNCHANGED <<txs, signed>>
      BY <1>5 DEF Operate
    <2>2. TxsAreKnown'
      BY <2>1 DEF TxsAreKnown
    <2>3. txs[t].method = "operate" => IsList(txs[t].auths)
      BY DEF TxsAreKnown, Operates, CancelsOne
    <2> QED BY <1>5, <2>2, <2>3, OperateKeepsHistory
  <1>6. ASSUME NEW t \in DOMAIN txs, Cancel(t)
        PROVE  SignedInductive'
    <2>1. UNCHANGED <<txs, signed>>
      BY <1>6 DEF Cancel
    <2>2. TxsAreKnown'
      BY <2>1 DEF TxsAreKnown
    <2> QED BY <1>6, <2>2, CancelKeepsHistory
  <1>7. ASSUME UNCHANGED <<invalidated, signed, txs, history>>
        PROVE  SignedInductive'
    <2>1. TxsAreKnown'
      BY <1>7 DEF TxsAreKnown
    <2> QED BY <1>7, <2>1, HistoryStays
  <1>8. CASE ShutDown
    BY <1>7, <1>8 DEF ShutDown
  <1>9. CASE StartUp
    BY <1>7, <1>9 DEF StartUp
  <1>10. CASE BlockTick
    BY <1>7, <1>10 DEF BlockTick
  <1>11. CASE UNCHANGED signedVars
    BY <1>7, <1>11 DEF signedVars
  <1> QED BY <1>1, <1>3, <1>4, <1>5, <1>6, <1>8, <1>9, <1>10, <1>11
          DEF SignedNext

(***************************************************************************)
(* What the contract relies on: every transaction is made by the client    *)
(* from published operations or from one to cancel, and everything mined   *)
(* has passed the checks and left its hashes behind.                       *)
(***************************************************************************)
THEOREM SignedIsInductive == SignedSpec => []SignedInductive
  BY SignedInitially, SignedStep, PTL DEF SignedSpec

(***************************************************************************)
(* The hashes of what was executed are spent, and operate (the proxy's)    *)
(* checks each of its hashes against those and against the earlier ones of *)
(* its own: a signed operation is executed at most once.                   *)
(***************************************************************************)
THEOREM SignedOnce == SignedSpec => []ExecutesOncePerSignature
  <1>1. SignedInductive => ExecutesOncePerSignature
    BY DEF SignedInductive, HistoryIsSound
  <1> QED BY <1>1, SignedIsInductive, PTL

-----------------------------------------------------------------------------
(* Cancellations                                                           *)

(***************************************************************************)
(* The loop of cancelOperation.                                            *)
(***************************************************************************)
ListsBy(actions, n, f) ==
  f = [i \in 0 .. n |-> IF i = 0 THEN [accounts |-> <<>>, actions |-> <<>>]
                        ELSE CancelAction(f[i - 1], actions[i])]

LEMMA ListsExist ==
  ASSUME NEW actions
  PROVE  \A n \in Nat : \E f : ListsBy(actions, n, f)
  <1> DEFINE N == {n \in Nat : \E f : ListsBy(actions, n, f)}
             first == [accounts |-> <<>>, actions |-> <<>>]
  <1>1. 0 \in N
    <2>1. ListsBy(actions, 0, [i \in 0 .. 0 |-> first])
      BY DEF ListsBy
    <2> QED BY <2>1
  <1>2. ASSUME NEW n \in Nat, n \in N
        PROVE  n + 1 \in N
    <2>1. PICK f : ListsBy(actions, n, f)
      BY <1>2
    <2> DEFINE g == [i \in 0 .. n + 1 |-> IF i = 0 THEN first
                                          ELSE CancelAction(f[i - 1], actions[i])]
    <2>2. ASSUME NEW i \in 0 .. n + 1, i # 0
          PROVE  g[i - 1] = f[i - 1]
      <3>1. i - 1 \in 0 .. n /\ i - 1 \in 0 .. n + 1
        BY <2>2
      <3> HIDE DEF first
      <3> QED BY <2>1, <3>1 DEF ListsBy, first
    <2>3. g = [i \in 0 .. n + 1 |-> IF i = 0 THEN first
                                    ELSE CancelAction(g[i - 1], actions[i])]
      BY <2>2
    <2> HIDE DEF g
    <2>4. ListsBy(actions, n + 1, g)
      BY <2>3 DEF ListsBy
    <2> QED BY <2>4
  <1> HIDE DEF N
  <1>3. \A n \in Nat : n \in N
    BY <1>1, <1>2, CountInduction
  <1> QED BY <1>3 DEF N

(***************************************************************************)
(* What an action by places means in a list of accounts.                   *)
(***************************************************************************)
RefersAs(arg, accounts, action) ==
  /\ arg.actionType = action.actionType /\ arg.markets = action.markets
  /\ arg.amount = action.amount /\ arg.otherAddress = action.otherAddress
  /\ arg.data = action.data
  /\ arg.accountId \in DOMAIN accounts
  /\ accounts[arg.accountId] = action.primaryAccount
  /\ action.actionType \notin OneAccountTypes =>
       /\ arg.otherAccountId \in DOMAIN accounts
       /\ accounts[arg.otherAccountId] = action.secondaryAccount

HasOwners(action) ==
  /\ action.primaryAccount.owner # ZeroOwner
  /\ action.actionType \in OneAccountTypes => action.secondaryAccount = ZeroAccountInfo
  /\ action.actionType \notin OneAccountTypes => action.secondaryAccount.owner # ZeroOwner

ListsMean(lists, actions, n) ==
  /\ IsList(lists.accounts) /\ IsList(lists.actions)
  /\ Len(lists.actions) = n
  /\ \A i \in 1 .. n : RefersAs(lists.actions[i], lists.accounts, actions[i])

Extends(more, accounts) ==
  /\ IsList(more) /\ DOMAIN accounts \subseteq DOMAIN more
  /\ \A i \in DOMAIN accounts : more[i] = accounts[i]

LEMMA AccountsArePushed ==
  ASSUME NEW accounts, IsList(accounts), NEW account
  PROVE  LET more == PushAccount(accounts, account)
             place == PushedPlace(accounts, account)
         IN  /\ Extends(more, accounts)
             /\ account.owner # ZeroOwner =>
                  place \in DOMAIN more /\ more[place] = account
  <1> DEFINE longer == Append(accounts, account)
             more == PushAccount(accounts, account)
             place == PushedPlace(accounts, account)
  <1>1. /\ IsList(longer) /\ Len(longer) = Len(accounts) + 1
        /\ \A i \in 1 .. Len(accounts) : longer[i] = accounts[i]
        /\ longer[Len(accounts) + 1] = account
        /\ Len(accounts) \in Nat /\ DOMAIN accounts = 1 .. Len(accounts)
    BY AppendToList, ListPlaces
  <1>2. DOMAIN longer = 1 .. Len(longer)
    BY <1>1, ListPlaces
  <1>3. /\ more = IF account.owner = ZeroOwner THEN accounts ELSE longer
        /\ account.owner # ZeroOwner => place = Len(accounts) + 1
    BY DEF PushAccount, PushedPlace
  <1> HIDE DEF longer, more, place
  <1>4. Extends(longer, accounts) /\ Extends(accounts, accounts)
    BY <1>1, <1>2 DEF Extends
  <1>5. Len(accounts) + 1 \in DOMAIN longer
    BY <1>1, <1>2
  <1> QED BY <1>1, <1>3, <1>4, <1>5 DEF more, place

LEMMA ActionIsCancelled ==
  ASSUME NEW lists, NEW actions, NEW n \in Nat, ListsMean(lists, actions, n),
         HasOwners(actions[n + 1])
  PROVE  ListsMean(CancelAction(lists, actions[n + 1]), actions, n + 1)
  <1> DEFINE action == actions[n + 1]
             pushed == PushAccount(lists.accounts, action.primaryAccount)
             accounts == PushAccount(pushed, action.secondaryAccount)
             place == PushedPlace(lists.accounts, action.primaryAccount)
             other == PushedPlace(pushed, action.secondaryAccount)
             arg == [actionType |-> action.actionType,
                     accountId |-> place, otherAccountId |-> other,
                     markets |-> action.markets, amount |-> action.amount,
                     otherAddress |-> action.otherAddress,
                     data |-> action.data]
             args == Append(lists.actions, arg)
             new == [accounts |-> accounts, actions |-> args]
  <1>1. CancelAction(lists, action) = new
    BY DEF CancelAction
  <1>2. /\ Extends(pushed, lists.accounts)
        /\ action.primaryAccount.owner # ZeroOwner =>
             place \in DOMAIN pushed /\ pushed[place] = action.primaryAccount
    BY AccountsArePushed DEF ListsMean
  <1>3. /\ Extends(accounts, pushed)
        /\ action.secondaryAccount.owner # ZeroOwner =>
             other \in DOMAIN accounts /\ accounts[other] = action.secondaryAccount
    <2>1. IsList(pushed)
      BY <1>2 DEF Extends
    <2> DEFINE second == action.secondaryAccount
    <2> HIDE DEF pushed, second
    <2>2. /\ Extends(PushAccount(pushed, second), pushed)
          /\ second.owner # ZeroOwner =>
               /\ PushedPlace(pushed, second) \in DOMAIN PushAccount(pushed, second)
               /\ PushAccount(pushed, second)[PushedPlace(pushed, second)] = second
      BY <2>1, AccountsArePushed
    <2> QED BY <2>2 DEF second
  <1>4. HasOwners(action)
    OBVIOUS
  <1> HIDE DEF action, pushed, accounts, place, other
  <1>5. RefersAs(arg, accounts, action)
    BY <1>2, <1>3, <1>4 DEF RefersAs, HasOwners, Extends
  <1> HIDE DEF arg
  <1>6. /\ IsList(args) /\ Len(args) = n + 1
        /\ \A i \in 1 .. n : args[i] = lists.actions[i]
        /\ args[n + 1] = arg
    BY AppendToList DEF ListsMean
  <1> HIDE DEF args
  <1>7. Extends(accounts, lists.accounts)
    BY <1>2, <1>3 DEF Extends
  <1>8. \A i \in 1 .. n : RefersAs(args[i], accounts, actions[i])
    BY <1>6, <1>7 DEF ListsMean, RefersAs, Extends
  <1>9. \A i \in 1 .. n + 1 : RefersAs(args[i], accounts, actions[i])
    <2>1. \A i \in 1 .. n + 1 : i \in 1 .. n \/ i = n + 1
      OBVIOUS
    <2> QED BY <1>5, <1>6, <1>8, <2>1 DEF action
  <1>10. ListsMean(new, actions, n + 1)
    BY <1>3, <1>6, <1>9 DEF ListsMean, Extends
  <1> QED BY <1>1, <1>10 DEF action

LEMMA CancelArgsMean ==
  ASSUME NEW operation, IsList(operation.actions), AccountsHaveOwners(operation)
  PROVE  /\ ListsMean([accounts |-> CancelArgs(operation).accounts,
                       actions |-> CancelArgs(operation).actions],
                      operation.actions, Len(operation.actions))
         /\ CancelArgs(operation).auth
              = [numActions |-> Len(operation.actions),
                 header |-> operation.header, signature |-> NoSignature]
  <1> DEFINE actions == operation.actions
             n == Len(actions)
             f == CHOOSE g : ListsBy(actions, n, g)
             N == {i \in Nat : i <= n => ListsMean(f[i], actions, i)}
  <1>1. /\ CancelArgs(operation).accounts = f[n].accounts
        /\ CancelArgs(operation).actions = f[n].actions
        /\ CancelArgs(operation).auth
              = [numActions |-> n,
                 header |-> operation.header, signature |-> NoSignature]
    BY DEF CancelArgs, ListsBy
  <1>2. n \in Nat /\ DOMAIN actions = 1 .. n
    BY ListPlaces
  <1>3. ListsBy(actions, n, f)
    BY <1>2, ListsExist
  <1>4. \A i \in 1 .. n : HasOwners(actions[i])
    BY <1>2 DEF AccountsHaveOwners, HasOwners
  <1> HIDE DEF f, n, actions
  <1>5. 0 \in N
    <2>1. f[0] = [accounts |-> <<>>, actions |-> <<>>]
      BY <1>2, <1>3 DEF ListsBy
    <2> QED BY <2>1, EmptyList DEF ListsMean
  <1>6. ASSUME NEW i \in Nat, i \in N
        PROVE  i + 1 \in N
    <2> SUFFICES ASSUME i + 1 <= n
                 PROVE  ListsMean(f[i + 1], actions, i + 1)
      OBVIOUS
    <2>1. ListsMean(f[i], actions, i) /\ HasOwners(actions[i + 1])
      BY <1>2, <1>4, <1>6
    <2>2. f[i + 1] = CancelAction(f[i], actions[i + 1])
      <3>1. i + 1 \in 0 .. n /\ i + 1 # 0 /\ (i + 1) - 1 = i
        BY <1>2
      <3> QED BY <1>3, <3>1 DEF ListsBy
    <2> QED BY <2>1, <2>2, ActionIsCancelled
  <1> HIDE DEF N
  <1>7. n \in N
    BY <1>2, <1>5, <1>6, CountInduction
  <1>8. ListsMean(f[n], actions, n)
    BY <1>2, <1>7 DEF N
  <1>9. ListsMean([accounts |-> f[n].accounts, actions |-> f[n].actions], actions, n)
    BY <1>8 DEF ListsMean
  <1> QED BY <1>1, <1>9 DEF n, actions

(***************************************************************************)
(* What an action by places hashes to.                                     *)
(***************************************************************************)
LEMMA SameActionHash ==
  ASSUME NEW arg, NEW accounts, NEW action, RefersAs(arg, accounts, action),
         HasOwners(action)
  PROVE  ActionHash(arg, accounts[arg.accountId],
                    IF arg.actionType \in OneAccountTypes THEN ZeroAccountInfo
                    ELSE accounts[arg.otherAccountId])
           = ActionHash(action, action.primaryAccount, action.secondaryAccount)
  BY DEF ActionHash, RefersAs, HasOwners

(***************************************************************************)
(* The contract cancels the hash the signer has computed.                  *)
(***************************************************************************)
LEMMA CancelsTheHash ==
  ASSUME ClientFitsProxy, NEW tx, CancelsOne(tx)
  PROVE  CancelledHash(tx) = GetOperationHash(tx.operation)
  <1>1. PICK s \in Signables :
          LET args == CancelArgs(s.operation)
          IN  /\ tx.operation = s.operation
              /\ tx.accounts = args.accounts /\ tx.actions = args.actions
              /\ tx.auths = <<args.auth>>
    BY DEF CancelsOne
  <1> DEFINE operation == tx.operation
             actions == operation.actions
             n == Len(actions)
             auth == CancelArgs(operation).auth
  <1>2. IsList(actions) /\ AccountsHaveOwners(operation)
    BY <1>1, SignedAssumption DEF ClientFitsProxy
  <1>3. n \in Nat /\ DOMAIN actions = 1 .. n
    BY <1>2, ListPlaces
  <1>4. ListsMean([accounts |-> tx.accounts, actions |-> tx.actions], actions, n)
    BY <1>1, <1>2, CancelArgsMean
  <1>5. tx.auths[1] = auth
    BY <1>1
  <1>6. auth = [numActions |-> n, header |-> operation.header, signature |-> NoSignature]
    BY <1>2, CancelArgsMean
  <1>7. auth.numActions = n /\ auth.header = operation.header
    BY <1>6
  <1> DEFINE Given(i) ==
               LET arg == tx.actions[0 + i]
               IN  ActionHash(arg, tx.accounts[arg.accountId],
                     IF arg.actionType \in OneAccountTypes THEN ZeroAccountInfo
                     ELSE tx.accounts[arg.otherAccountId])
             Signed(i) == ActionHash(actions[i], actions[i].primaryAccount,
                                     actions[i].secondaryAccount)
  <1>8. \A i \in 1 .. n : Given(i) = Signed(i)
    <2> SUFFICES ASSUME NEW i \in 1 .. n
                 PROVE  Given(i) = Signed(i)
      OBVIOUS
    <2>1. RefersAs(tx.actions[i], tx.accounts, actions[i]) /\ 0 + i = i
      BY <1>3, <1>4 DEF ListsMean
    <2>2. HasOwners(actions[i])
      BY <1>2, <1>3 DEF AccountsHaveOwners, HasOwners
    <2> HIDE DEF actions
    <2> QED BY <2>1, <2>2, SameActionHash
  <1>9. CancelledHash(tx) = [domain |-> ChainDomain,
                             actions |-> [i \in 1 .. auth.numActions |-> Given(i)],
                             header |-> HeaderHash(auth.header)]
    BY <1>5 DEF CancelledHash, GetOperationHashOf
  <1>10. GetOperationHash(operation)
           = [domain |-> ClientDomain,
              actions |-> [i \in DOMAIN actions |-> Signed(i)],
              header |-> HeaderHash(operation.header)]
    BY DEF GetOperationHash
  <1>11. ClientDomain = ChainDomain
    BY DEF ClientFitsProxy
  <1> HIDE DEF Given, Signed, actions, operation, auth, n
  <1>12. [i \in 1 .. auth.numActions |-> Given(i)] = [i \in DOMAIN actions |-> Signed(i)]
    BY <1>3, <1>7, <1>8
  <1> QED BY <1>7, <1>9, <1>10, <1>11, <1>12 DEF operation

(***************************************************************************)
(* Where the client is configured for the proxy and signs operations on    *)
(* accounts with owners: cancelOperation's lists hash to what was signed,  *)
(* so that what it puts into g_invalidated keeps the operation from being  *)
(* executed later.                                                         *)
(***************************************************************************)
THEOREM CancelledIsNever ==
  ASSUME ClientFitsProxy
  PROVE  SignedSpec => []NeverAfterCancel
  <1>1. ASSUME SignedInductive
        PROVE  NeverAfterCancel
    <2> SUFFICES ASSUME NEW i \in DOMAIN history \ Executed, NEW j \in Executed, i < j
                 PROVE  GetOperationHash(ExecutedTx(i).operation)
                          \notin Hashes(ExecutedTx(j))
      BY DEF NeverAfterCancel
    <2>1. history[i].tx \in DOMAIN txs /\ ExecutedTx(i).method # "operate"
      BY <1>1 DEF SignedInductive, HistoryIsSound, HistoryIsKnown,
                  Executed, ExecutedTx
    <2>2. CancelsOne(ExecutedTx(i))
      BY <1>1, <2>1 DEF SignedInductive, TxsAreKnown, Operates, ExecutedTx
    <2>3. CancelledHash(ExecutedTx(i)) = GetOperationHash(ExecutedTx(i).operation)
      BY <2>2, CancelsTheHash
    <2> QED BY <1>1, <2>3
            DEF SignedInductive, HistoryIsSound, CancelledIsNotExecuted
  <1> QED BY <1>1, SignedIsInductive, PTL

-----------------------------------------------------------------------------
(* Signatures                                                              *)

LEMMA PrependedIsOfOne ==
  ASSUME NEW p, NEW hash, NEW q, NEW other,
         Prepended(p, hash) = Prepended(q, other)
  PROVE  hash = other
  <1>1. <<hash>> # <<q, other>> /\ <<p, hash>> # <<other>>
    <2>1. /\ Len(<<hash>>) = 1 /\ Len(<<q, other>>) = 2
          /\ Len(<<p, hash>>) = 2 /\ Len(<<other>>) = 1
      OBVIOUS
    <2> QED BY <2>1
  <1>2. <<hash>> = <<other>> => hash = other
    OBVIOUS
  <1>3. <<p, hash>> = <<q, other>> => hash = other
    OBVIOUS
  <1> QED BY <1>1, <1>2, <1>3 DEF Prepended

(***************************************************************************)
(* Whatever the wallet prepends and the client says of it, a signature is  *)
(* over one hash.                                                          *)
(***************************************************************************)
LEMMA SignatureIsOverHash ==
  ASSUME NEW hash, NEW signer, NEW method \in HashMethods \cup TypedDataMethods
  PROVE  \E prefix : Sign(hash, signer, method).raw.over = Prepended(prefix, hash)
  <1> DEFINE raw == EthSign(hash, signer)
             hashSig == CreateTypedSignature(raw, "Decimal")
             unsafeHashSig == CreateTypedSignature(raw, "None")
             typed == EthSignTypedDataInternal(hash, signer)
  <1>1. Sign(hash, signer, method) \in {hashSig, unsafeHashSig, typed}
    BY DEF Sign, HashMethods, TypedDataMethods
  <1>2. raw.over = Prepended(Wallets[signer].prefix, hash)
    BY DEF EthSign
  <1>3. FixRawSignature(raw).over = raw.over
    BY DEF FixRawSignature, EthSign
  <1>4. hashSig.raw.over = raw.over /\ unsafeHashSig.raw.over = raw.over
    <2> HIDE DEF raw
    <2> QED BY <1>3 DEF CreateTypedSignature
  <1>5. typed.raw.over = Prepended("None", hash)
    BY DEF EthSignTypedDataInternal, EthSignTypedData, Prepended
  <1> HIDE DEF raw, hashSig, unsafeHashSig, typed
  <1> QED BY <1>1, <1>2, <1>4, <1>5

(***************************************************************************)
(* What recovers to an address with a wallet was signed by it.             *)
(***************************************************************************)
LEMMA RecoversWhatWasSigned ==
  ASSUME NEW hash, NEW signer \in DOMAIN Wallets,
         NEW method \in HashMethods \cup TypedDataMethods, NEW other,
         Recover(other, Sign(hash, signer, method)) \in DOMAIN Wallets
  PROVE  other = hash
  <1> DEFINE signature == Sign(hash, signer, method)
  <1>1. PICK prefix : signature.raw.over = Prepended(prefix, hash)
    BY SignatureIsOverHash
  <1> HIDE DEF signature
  <1>2. Recover(other, signature) \notin {Stranger, NoOne}
    BY SignaturesAssumption DEF signature
  <1>3. signature.raw.over = SignedHash(other, signature.type)
    BY <1>2 DEF Recover
  <1> QED BY <1>1, <1>3, PrependedIsOfOne DEF SignedHash

-----------------------------------------------------------------------------
(* Where authorizations start                                              *)

LEMMA FirstStart ==
  ASSUME NEW auths
  PROVE  Start(auths, 1) = 0
  <1> DEFINE f == CHOOSE g : StartBy(auths, 1, g)
  <1>1. Start(auths, 1) = f[1]
    BY DEF Start, StartBy
  <1>2. StartBy(auths, 1, f)
    BY StartsExist
  <1> HIDE DEF f
  <1> QED BY <1>1, <1>2 DEF StartBy

LEMMA NextStart ==
  ASSUME NEW auths, NEW k \in Nat, k >= 1
  PROVE  Start(auths, k + 1) = Start(auths, k) + auths[k].numActions
  <1> DEFINE f == CHOOSE g : StartBy(auths, k, g)
             h == CHOOSE g : StartBy(auths, k + 1, g)
  <1>1. Start(auths, k) = f[k] /\ Start(auths, k + 1) = h[k + 1]
    BY DEF Start, StartBy
  <1>2. StartBy(auths, k, f) /\ StartBy(auths, k + 1, h)
    BY StartsExist
  <1> HIDE DEF f, h
  <1>3. f[k] = h[k]
    BY <1>2, StartsAgree
  <1>4. h[k + 1] = h[k] + auths[k].numActions
    <2>1. k + 1 \in 1 .. k + 1 /\ k + 1 # 1 /\ (k + 1) - 1 = k
      OBVIOUS
    <2> QED BY <1>2, <2>1 DEF StartBy
  <1> QED BY <1>1, <1>3, <1>4

(***************************************************************************)
(* Authorizations follow each other without a gap.                         *)
(***************************************************************************)
EndAt(auths, k) == Start(auths, k) + auths[k].numActions

CoveredTo(auths, n) ==
  /\ EndAt(auths, n) \in Nat
  /\ \A k \in 1 .. n : Start(auths, k) \in Nat /\ EndAt(auths, k) <= EndAt(auths, n)
  /\ \A i \in 1 .. EndAt(auths, n) :
       \E k \in 1 .. n : Start(auths, k) < i /\ i <= EndAt(auths, k)

LEMMA Covering ==
  ASSUME NEW auths, NEW m \in Nat, m >= 1,
         \A k \in 1 .. m : auths[k].numActions \in Nat
  PROVE  CoveredTo(auths, m)
  <1> DEFINE N == {n \in Nat : n \in 1 .. m => CoveredTo(auths, n)}
  <1>1. 0 \in N
    OBVIOUS
  <1>2. ASSUME NEW n \in Nat, n \in N
        PROVE  n + 1 \in N
    <2> SUFFICES ASSUME n + 1 \in 1 .. m
                 PROVE  CoveredTo(auths, n + 1)
      OBVIOUS
    <2>1. auths[n + 1].numActions \in Nat
      OBVIOUS
    <2>2. CASE n = 0
      <3>1. n + 1 = 1 /\ Start(auths, 1) = 0
        BY <2>2, FirstStart
      <3>2. EndAt(auths, 1) \in Nat
        BY <2>1, <3>1 DEF EndAt
      <3>3. \A k \in 1 .. 1 : k = 1
        OBVIOUS
      <3>4. CoveredTo(auths, 1)
        BY <3>1, <3>2, <3>3 DEF CoveredTo
      <3> QED BY <3>1, <3>4
    <2>3. CASE n # 0
      <3>1. n >= 1 /\ n \in 1 .. m
        BY <2>3
      <3>2. CoveredTo(auths, n)
        BY <1>2, <3>1
      <3>3. Start(auths, n + 1) = EndAt(auths, n)
        BY <3>1, NextStart DEF EndAt
      <3> DEFINE start == Start(auths, n + 1)
                 end == EndAt(auths, n + 1)
                 Has(k, i) == Start(auths, k) < i /\ i <= EndAt(auths, k)
      <3>4. start \in Nat /\ end \in Nat /\ start <= end
        BY <2>1, <3>2, <3>3 DEF EndAt, CoveredTo
      <3>5. \A k \in 1 .. n + 1 : k \in 1 .. n \/ k = n + 1
        OBVIOUS
      <3>6. ASSUME NEW k \in 1 .. n
            PROVE  Start(auths, k) \in Nat /\ EndAt(auths, k) <= end
        <4>1. Start(auths, k) \in Nat /\ EndAt(auths, k) <= start
          BY <3>2, <3>3 DEF CoveredTo
        <4>2. EndAt(auths, k) \in Nat
          <5>1. k \in 1 .. m
            BY <3>1
          <5> QED BY <4>1, <5>1 DEF EndAt
        <4> HIDE DEF start, end
        <4> QED BY <3>4, <4>1, <4>2
      <3>7. ASSUME NEW i \in 1 .. end
            PROVE  \E k \in 1 .. n + 1 : Has(k, i)
        <4>1. CASE i <= start
          <5>1. i \in 1 .. EndAt(auths, n)
            BY <3>3, <3>4, <4>1
          <5>2. PICK k \in 1 .. n : Has(k, i)
            BY <3>2, <5>1 DEF CoveredTo
          <5> QED BY <5>2
        <4>2. CASE ~(i <= start)
          <5>1. start < i
            BY <3>4, <4>2
          <5>2. Has(n + 1, i)
            BY <5>1
          <5> QED BY <5>2
        <4> QED BY <4>1, <4>2
      <3>8. \A k \in 1 .. n + 1 : Start(auths, k) \in Nat /\ EndAt(auths, k) <= end
        BY <3>4, <3>5, <3>6
      <3> QED BY <3>4, <3>7, <3>8 DEF CoveredTo
    <2> QED BY <2>2, <2>3
  <1> HIDE DEF N
  <1>3. \A n \in Nat : n \in N
    BY <1>1, <1>2, CountInduction
  <1> QED BY <1>3 DEF N

-----------------------------------------------------------------------------
(* What is executed was signed                                             *)

(***************************************************************************)
(* Every action is of one authorization.                                   *)
(***************************************************************************)
LEMMA ActionHasAuth ==
  ASSUME NEW tx, NEW published, Operates(tx, published), AllActionsCovered(tx),
         NEW i \in DOMAIN tx.actions
  PROVE  \E k \in DOMAIN tx.auths :
           /\ Start(tx.auths, k) \in Nat
           /\ Start(tx.auths, k) < i
           /\ i <= EndAt(tx.auths, k)
           /\ EndAt(tx.auths, k) <= Len(tx.actions)
  <1> DEFINE n == Len(tx.auths)
             total == Len(tx.actions)
  <1>1. /\ n \in Nat /\ DOMAIN tx.auths = 1 .. n
        /\ total \in Nat /\ i \in 1 .. total
    BY ListPlaces DEF Operates
  <1>2. tx.auths # <<>>
    <2> SUFFICES ASSUME tx.auths = <<>>
                 PROVE  FALSE
      OBVIOUS
    <2>1. total = 0
      BY DEF AllActionsCovered
    <2> HIDE DEF total
    <2> QED BY <1>1, <2>1
  <1>3. EndAt(tx.auths, n) = total
    BY <1>2 DEF AllActionsCovered, EndAt
  <1>4. n # 0
    <2>1. tx.auths \in Seq({tx.auths[j] : j \in DOMAIN tx.auths})
      BY DEF Operates, IsList
    <2> QED BY <1>2, <2>1
  <1>5. \A k \in 1 .. n : tx.auths[k].numActions \in Nat
    BY <1>1 DEF Operates, IsPublished
  <1> HIDE DEF n, total
  <1>6. CoveredTo(tx.auths, n)
    BY <1>1, <1>4, <1>5, Covering
  <1> QED BY <1>1, <1>3, <1>6 DEF CoveredTo, total

(***************************************************************************)
(* The signer of a signed authorization has signed, in an operation that   *)
(* is in circulation, the very actions that the authorization covers.      *)
(***************************************************************************)
LEMMA AuthIsOfSigned ==
  ASSUME TxsAreKnown, NEW tx, Operates(tx, signed),
         NEW k \in DOMAIN tx.auths, IsSigned(tx, k), SignatureIsValid(tx, k)
  PROVE  \E s \in signed :
           /\ tx.auths[k].header = s.header
           /\ SignerOf(tx, k) = AddressOf[s.header.signer]
           /\ IsList(s.actions)
           /\ HashOf(tx, k) = GetOperationHash(s)
  <1> DEFINE auth == tx.auths[k]
  <1>1. PICK s \in signed : auth.header = s.header /\ auth.signature = s.signature
    BY DEF Operates, IsPublished, IsSigned
  <1>2. PICK x \in Signables : s = SignedBy[x]
    BY DEF TxsAreKnown
  <1> DEFINE operation == x.operation
             hash == GetOperationHash(operation)
             signer == AddressOf[operation.header.signer]
  <1>3. /\ s.header = operation.header /\ s.actions = operation.actions
        /\ s.signature = Sign(hash, signer, x.method)
    BY <1>2 DEF SignedBy, SignOperation
  <1>4. GetOperationHash(s) = hash
    BY <1>3 DEF GetOperationHash
  <1>5. /\ IsList(operation.actions) /\ signer \in DOMAIN Wallets
        /\ x.method \in HashMethods \cup TypedDataMethods
    BY SignedAssumption
  <1>6. SignerOf(tx, k) = Recover(HashOf(tx, k), auth.signature)
    BY DEF SignerOf
  <1>7. SignerOf(tx, k) = AddressOf[auth.header.signer]
    BY DEF SignatureIsValid
  <1> HIDE DEF auth, hash, signer
  <1>8. SignerOf(tx, k) = signer
    BY <1>1, <1>3, <1>7 DEF signer
  <1>9. HashOf(tx, k) = hash
    BY <1>1, <1>3, <1>5, <1>6, <1>8, RecoversWhatWasSigned
  <1> QED BY <1>1, <1>3, <1>4, <1>5, <1>8, <1>9 DEF auth, signer

(***************************************************************************)
(* Equal hashes are of the same actions, which mean the same each on its   *)
(* own.                                                                    *)
(***************************************************************************)
LEMMA HashTellsActions ==
  ASSUME NEW tx, NEW k \in DOMAIN tx.auths, tx.auths[k].numActions \in Nat,
         Start(tx.auths, k) \in Nat,
         NEW s, IsList(s.actions), HashOf(tx, k) = GetOperationHash(s)
  PROVE  /\ tx.auths[k].numActions = Len(s.actions)
         /\ \A j \in DOMAIN s.actions :
              Meant(tx, Start(tx.auths, k) + j) = GetOperationHash(s).actions[j]
  <1> DEFINE from == Start(tx.auths, k)
             n == tx.auths[k].numActions
             Given(i) ==
               LET action == tx.actions[i]
               IN  ActionHash(action, tx.accounts[action.accountId],
                     IF action.actionType \in OneAccountTypes THEN ZeroAccountInfo
                     ELSE tx.accounts[action.otherAccountId])
             hash == GetOperationHash(s).actions
  <1>1. HashOf(tx, k).actions = [i \in 1 .. n |-> Given(from + i)]
    BY DEF HashOf, GetOperationHashOf
  <1>2. DOMAIN hash = DOMAIN s.actions
    BY DEF GetOperationHash
  <1>3. HashOf(tx, k).actions = hash
    OBVIOUS
  <1>4. Len(s.actions) \in Nat /\ DOMAIN s.actions = 1 .. Len(s.actions)
    BY ListPlaces
  <1>5. ASSUME NEW i \in Nat, i >= 1
        PROVE  Meant(tx, i) = Given(i)
    <2>1. (i - 1) + 1 = i
      OBVIOUS
    <2>2. Meant(tx, i) = [j \in 1 .. 1 |-> Given((i - 1) + j)][1]
      BY DEF Meant, GetOperationHashOf
    <2> HIDE DEF Given
    <2> QED BY <2>1, <2>2
  <1> HIDE DEF Given, hash, from, n
  <1>6. 1 .. n = 1 .. Len(s.actions)
    <2>1. DOMAIN hash = 1 .. n
      BY <1>1, <1>3
    <2> QED BY <1>2, <1>4, <2>1
  <1>7. n = Len(s.actions)
    <2>1. n \in Nat
      BY DEF n
    <2>2. n <= Len(s.actions)
      <3>1. n = 0 \/ n \in 1 .. n
        BY <2>1
      <3> QED BY <1>4, <1>6, <2>1, <3>1
    <2>3. Len(s.actions) <= n
      <3>1. Len(s.actions) = 0 \/ Len(s.actions) \in 1 .. Len(s.actions)
        BY <1>4
      <3> QED BY <1>4, <1>6, <2>1, <3>1
    <2> QED BY <1>4, <2>1, <2>2, <2>3
  <1>8. ASSUME NEW j \in DOMAIN s.actions
        PROVE  Meant(tx, from + j) = hash[j]
    <2>1. j \in 1 .. n /\ j \in Nat /\ j >= 1
      <3>1. j \in 1 .. Len(s.actions)
        BY <1>4
      <3>2. j \in 1 .. n
        BY <1>7, <3>1
      <3>3. j \in Nat /\ j >= 1
        BY <1>4, <3>1
      <3> QED BY <3>2, <3>3
    <2>2. from + j \in Nat /\ from + j >= 1
      <3>1. from \in Nat
        BY DEF from
      <3> QED BY <2>1, <3>1
    <2>3. hash[j] = Given(from + j)
      BY <1>1, <1>3, <2>1
    <2> QED BY <1>5, <2>2, <2>3
  <1> QED BY <1>7, <1>8 DEF n, from, hash

LEMMA ValidOwnerControls ==
  ASSUME NEW tx, NEW account, NEW signer,
         ValidateAccountOwner(tx, account, signer)
  PROVE  \/ Controls(AddressOf[tx.sender], tx.accounts[account])
         \/ Controls(signer, tx.accounts[account])
  BY DEF ValidateAccountOwner, Controls

(***************************************************************************)
(* What the contract checks of an action reaches all accounts the action   *)
(* takes from or gives to.                                                 *)
(***************************************************************************)
LEMMA AcceptedAccounts ==
  ASSUME NEW tx, NEW i, NEW signer, ActionAccepted(tx, tx.actions[i], signer),
         NEW a \in ConcernedAccounts(tx, i)
  PROVE  Controls(AddressOf[tx.sender], a) \/ Controls(signer, a)
  <1> DEFINE action == tx.actions[i]
  <1>1. /\ ValidateAccountOwner(tx, action.accountId, signer)
        /\ action.actionType = "Transfer" =>
             ValidateAccountOwner(tx, action.otherAccountId, signer)
    BY DEF ActionAccepted
  <1>2. \/ a = tx.accounts[action.accountId]
        \/ /\ action.actionType = "Transfer"
           /\ a = tx.accounts[action.otherAccountId]
    BY DEF ConcernedAccounts
  <1> HIDE DEF action
  <1> QED BY <1>1, <1>2, ValidOwnerControls

LEMMA ExecutedWasSigned ==
  ASSUME TxsAreKnown, NEW tx, NEW at, Operates(tx, signed), WasAccepted(tx, at),
         NEW i \in DOMAIN tx.actions,
         NEW others, others = {a \in ConcernedAccounts(tx, i) :
                                 ~Controls(AddressOf[tx.sender], a)},
         others # {}
  PROVE  \E s \in signed :
           /\ Authorizes(s, tx, at, i)
           /\ \A a \in others : Controls(AddressOf[s.header.signer], a)
  <1>1. PICK k \in DOMAIN tx.auths :
          /\ Start(tx.auths, k) \in Nat
          /\ Start(tx.auths, k) < i
          /\ i <= EndAt(tx.auths, k)
          /\ EndAt(tx.auths, k) <= Len(tx.actions)
    BY ActionHasAuth DEF WasAccepted
  <1> DEFINE from == Start(tx.auths, k)
             n == tx.auths[k].numActions
             signer == SignerOf(tx, k)
  <1>2. n \in Nat
    BY DEF Operates, IsPublished
  <1>3. i \in Nat
    BY ListPlaces DEF Operates
  <1>4. ActionAccepted(tx, tx.actions[i], signer)
    <2>1. i - from \in 1 .. n /\ from + (i - from) = i
      BY <1>1, <1>2, <1>3 DEF EndAt
    <2>2. \A j \in 1 .. n : ActionAccepted(tx, tx.actions[from + j], signer)
      BY DEF WasAccepted, ActionsAccepted
    <2> HIDE DEF from, n, signer
    <2> QED BY <2>1, <2>2
  <1> HIDE DEF signer
  <1>5. \A a \in others : Controls(signer, a)
    BY <1>4, AcceptedAccounts
  <1>6. IsSigned(tx, k)
    <2> SUFFICES ASSUME ~IsSigned(tx, k)
                 PROVE  FALSE
      OBVIOUS
    <2>1. signer = AddressOf[tx.sender]
      BY DEF SignerOf, signer
    <2> QED BY <1>5, <2>1
  <1>7. PICK s \in signed :
          /\ tx.auths[k].header = s.header
          /\ signer = AddressOf[s.header.signer]
          /\ IsList(s.actions)
          /\ HashOf(tx, k) = GetOperationHash(s)
    BY <1>6, AuthIsOfSigned DEF WasAccepted, signer
  <1>8. /\ n = Len(s.actions)
        /\ \A j \in DOMAIN s.actions :
             Meant(tx, from + j) = GetOperationHash(s).actions[j]
    BY <1>1, <1>2, <1>7, HashTellsActions
  <1>9. /\ s.header.expiration = 0 \/ s.header.expiration >= at
        /\ s.header.sender = ZeroOwner
           \/ AddressOf[s.header.sender] = AddressOf[tx.sender]
    BY <1>7 DEF WasAccepted, HeaderAcceptedAt
  <1>10. /\ from \in 0 .. i - 1
         /\ i <= from + Len(s.actions)
         /\ from + Len(s.actions) <= Len(tx.actions)
    BY <1>1, <1>2, <1>3, <1>8 DEF EndAt
  <1> HIDE DEF from, n
  <1>11. Authorizes(s, tx, at, i)
    BY <1>8, <1>9, <1>10 DEF Authorizes
  <1> QED BY <1>5, <1>7, <1>11

(***************************************************************************)
(* An action that was executed on an account its sender does not control   *)
(* is, in its place among all the actions signed with it, one that someone *)
(* who controls the account has signed, for this sender and in time.  The  *)
(* hash over the places of a transaction is the hash over the accounts     *)
(* that were signed only if the actions mean the same; the contract's walk *)
(* over the authorizations leaves out no action and reads none twice.      *)
(***************************************************************************)
THEOREM SignedOnly == SignedSpec => []OnlyWhatWasSigned
  <1>1. ASSUME SignedInductive
        PROVE  OnlyWhatWasSigned
    <2> SUFFICES ASSUME NEW h \in Executed, NEW i \in DOMAIN ExecutedTx(h).actions,
                        NEW others,
                        others = {a \in ConcernedAccounts(ExecutedTx(h), i) :
                                    ~Controls(AddressOf[ExecutedTx(h).sender], a)},
                        others # {}
                 PROVE  \E s \in signed :
                          /\ Authorizes(s, ExecutedTx(h), history[h].at, i)
                          /\ \A a \in others : Controls(AddressOf[s.header.signer], a)
      BY DEF OnlyWhatWasSigned
    <2>1. TxsAreKnown /\ HistoryIsKnown
      BY <1>1 DEF SignedInductive, HistoryIsSound
    <2>2. history[h].tx \in DOMAIN txs /\ ExecutedTx(h).method = "operate"
      BY <2>1 DEF HistoryIsKnown, Executed, ExecutedTx
    <2>3. Operates(ExecutedTx(h), signed)
      BY <2>1, <2>2 DEF TxsAreKnown, CancelsOne, ExecutedTx
    <2>4. WasAccepted(ExecutedTx(h), history[h].at)
      BY <2>1 DEF HistoryIsKnown
    <2> QED BY <2>1, <2>3, <2>4, ExecutedWasSigned
  <1> QED BY <1>1, SignedIsInductive, PTL

-----------------------------------------------------------------------------
(* What is sent is read back                                               *)

(***************************************************************************)
(* Of a signed operation that is published.                                *)
(***************************************************************************)
IsReadBack(s) ==
  /\ IsList(s.actions)
  /\ \A i \in DOMAIN s.actions : IsClear(s.actions[i]) /\ HasOwners(s.actions[i])
  /\ Recover(GetOperationHash(s), s.signature) = AddressOf[s.header.signer]
  /\ AddressOf[s.header.signer] # NoOne

LEMMA PublishedIsReadBack ==
  ASSUME ClientFitsProxy, SignablesAreClear, NEW x \in Signables
  PROVE  IsReadBack(SignedBy[x])
  <1> DEFINE s == SignedBy[x]
             operation == x.operation
             signer == AddressOf[operation.header.signer]
  <1>1. s.header = operation.header /\ s.actions = operation.actions
    BY DEF SignedBy
  <1>2. /\ IsList(operation.actions) /\ signer \in DOMAIN Wallets
        /\ AccountsHaveOwners(operation)
        /\ \A i \in DOMAIN operation.actions : IsClear(operation.actions[i])
    BY SignedAssumption DEF ClientFitsProxy, SignablesAreClear
  <1>3. \A i \in DOMAIN operation.actions : HasOwners(operation.actions[i])
    BY <1>2 DEF AccountsHaveOwners, HasOwners
  <1>4. signer # NoOne /\ signer # Stranger
    BY <1>2, SignaturesAssumption
  <1>5. /\ HasValidSignature(GetOperationHash(s), s.signature, signer)
        /\ s.signature.raw.v = "high"
    BY <1>1 DEF SignablesAreClear, OperationHasValidSignature
  <1> HIDE DEF s, signer, operation
  <1>6. Recover(GetOperationHash(s), s.signature) = signer
    BY <1>4, <1>5 DEF HasValidSignature, EcRecoverTypedSignature, Recover
  <1>7. signer = AddressOf[s.header.signer]
    BY <1>1 DEF signer
  <1> QED BY <1>1, <1>2, <1>3, <1>4, <1>6, <1>7 DEF IsReadBack, s

LEMMA HasOwnersHasIts ==
  ASSUME NEW action, IsClear(action), HasOwners(action)
  PROVE  HasItsAccounts(action)
  BY ActionTypes DEF IsClear, HasOwners, HasItsAccounts, IsActionType

(***************************************************************************)
(* The object that is built: its authorizations fit its actions.           *)
(***************************************************************************)
Fits(op, published) ==
  /\ IsSound(op)
  /\ op.committed = FALSE
  /\ AuthsFit(op, published)

LEMMA SignedStaysFit ==
  ASSUME NEW published, \A x \in published : IsReadBack(x),
         NEW op, Fits(op, published), NEW s \in published
  PROVE  Fits(AddSignedOperation(op, s), published)
  <1> DEFINE new == AddSignedOperation(op, s)
             said == [i \in DOMAIN s.actions |-> SaysSigned(s.actions[i])]
  <1>1. /\ \A x \in published : IsList(x.actions)
        /\ IsReadable(s)
        /\ \A i \in DOMAIN s.actions : HasItsAccounts(s.actions[i])
    BY HasOwnersHasIts DEF IsReadBack, IsReadable, IsClear
  <1>2. \A i \in DOMAIN s.actions : said[i] = SaysSigned(s.actions[i])
    OBVIOUS
  <1>3. IsSound(op) /\ op.committed = FALSE /\ op.committed \in BOOLEAN
        /\ AuthsFit(op, published)
    BY DEF Fits
  <1> HIDE DEF said
  <1>4. PICK k \in 0 .. Len(s.actions) : AddsActions(new, op, k, said)
    BY <1>1, <1>2, <1>3, SignedOperationAdds
  <1>5. AuthsFit(new, published)
    BY <1>1, <1>3, SignedOperationFits
  <1> HIDE DEF new
  <1> QED BY <1>3, <1>4, <1>5 DEF AddsActions, Fits, new

LEMMA RequestStaysFit ==
  ASSUME NEW published, \A x \in published : IsReadBack(x),
         NEW op, Fits(op, published), NEW r, IsActionType(r.kind)
  PROVE  Fits(AddAction(op, r), published)
  <1> DEFINE new == AddAction(op, r)
             said == <<SaysRequest(r)>>
  <1>1. said[1] = SaysRequest(r)
    OBVIOUS
  <1> HIDE DEF said
  <1>2. IsSound(op) /\ ~op.committed /\ AuthsFit(op, published)
        /\ op.committed = FALSE
    BY DEF Fits
  <1>3. Adds(new, op, 1, said)
    BY <1>1, <1>2, ActionAdds
  <1>4. \A x \in published : IsList(x.actions)
    BY DEF IsReadBack
  <1> HIDE DEF new
  <1>5. AddsActions(new, op, 1, said) /\ new.auths = op.auths
    BY <1>3 DEF Adds, AddsActions
  <1>6. AuthsFit(new, published)
    BY <1>2, <1>4, <1>5, AuthsStayFit
  <1> QED BY <1>2, <1>5, <1>6 DEF AddsActions, Fits, new

LEMMA BuiltFits ==
  ASSUME PlansAreKnown, NEW published, \A x \in published : IsReadBack(x),
         NEW steps \in Plans,
         \A i \in DOMAIN steps :
           steps[i].kind = "Signable" => SignedBy[steps[i].signable] \in published
  PROVE  Fits(Built(steps), published)
  <1> DEFINE n == Len(steps)
             f == CHOOSE g : BuiltBy(steps, n, g)
             N == {i \in Nat : i <= n => Fits(f[i], published)}
  <1>1. Built(steps) = f[n]
    BY DEF Built, BuiltBy, BuiltNext
  <1>2. n \in Nat /\ DOMAIN steps = 1 .. n
    BY SignedAssumption, ListPlaces
  <1>3. BuiltBy(steps, n, f)
    BY <1>2, BuiltExist
  <1> HIDE DEF f, n
  <1>4. 0 \in N
    <2>1. f[0] = Initiate("Signed")
      BY <1>2, <1>3 DEF BuiltBy
    <2> DEFINE new == Initiate("Signed")
    <2>2. /\ new = [accounts |-> <<>>, actions |-> <<>>, auths |-> <<>>,
                    proxy |-> "Signed", committed |-> FALSE]
          /\ DOMAIN <<>> = {}
      BY DEF Initiate
    <2> HIDE DEF new
    <2>3. IsSound(new)
      BY <2>2, EmptyList DEF IsSound, IsObject, NoAccountTwice
    <2>4. AuthsFit(new, published)
      BY <2>2 DEF AuthsFit
    <2> QED BY <2>1, <2>2, <2>3, <2>4 DEF Fits, new
  <1>5. ASSUME NEW i \in Nat, i \in N
        PROVE  i + 1 \in N
    <2> SUFFICES ASSUME i + 1 <= n
                 PROVE  Fits(f[i + 1], published)
      OBVIOUS
    <2> DEFINE step == steps[i + 1]
    <2>1. Fits(f[i], published) /\ i + 1 \in DOMAIN steps
      BY <1>2, <1>5
    <2>2. f[i + 1] = BuiltNext(step, f[i])
      <3>1. i + 1 \in 0 .. n /\ i + 1 # 0 /\ (i + 1) - 1 = i
        BY <1>2
      <3> QED BY <1>3, <3>1 DEF BuiltBy
    <2>3. CASE step.kind = "Signable"
      <3>1. SignedBy[step.signable] \in published
        BY <2>1, <2>3
      <3> HIDE DEF step
      <3> QED BY <2>1, <2>2, <2>3, <3>1, SignedStaysFit DEF BuiltNext
    <2>4. CASE step.kind # "Signable"
      <3>1. IsActionType(step.kind)
        BY <2>1, <2>4 DEF PlansAreKnown, IsActionType
      <3> HIDE DEF step
      <3> QED BY <2>1, <2>2, <2>4, <3>1, RequestStaysFit DEF BuiltNext
    <2> QED BY <2>3, <2>4
  <1> HIDE DEF N
  <1>6. n \in N
    BY <1>2, <1>4, <1>5, CountInduction
  <1> QED BY <1>1, <1>2, <1>6 DEF N

(***************************************************************************)
(* What says the same hashes to the same.                                  *)
(***************************************************************************)
PlaceHash(accounts, action) ==
  ActionHash(action, accounts[action.accountId],
             IF action.actionType \in OneAccountTypes THEN ZeroAccountInfo
             ELSE accounts[action.otherAccountId])

IsPlain(amount) ==
  /\ amount = [sign |-> amount.sign, unit |-> amount.unit, value |-> amount.value]
  /\ amount.sign \in BOOLEAN

LEMMA PlainAmount ==
  ASSUME NEW amount, IsPlain(amount)
  PROVE  SignedAmount(amount) = amount
  <1> DEFINE value == [abs |-> amount.value, isNegative |-> FALSE]
             number == Times(value, amount.sign)
  <1>1. SignedAmount(amount)
          = [sign |-> ~number.isNegative, unit |-> amount.unit, value |-> number.abs]
    BY DEF SignedAmount, AmountArgs
  <1>2. /\ amount = [sign |-> amount.sign, unit |-> amount.unit,
                     value |-> amount.value]
        /\ amount.sign = TRUE \/ amount.sign = FALSE
    BY DEF IsPlain
  <1>3. CASE amount.sign = TRUE
    <2>1. number = [value EXCEPT !.isNegative = @]
      BY <1>3 DEF Times
    <2>2. number.abs = amount.value /\ number.isNegative = FALSE
      BY <2>1
    <2> HIDE DEF number
    <2>3. SignedAmount(amount)
            = [sign |-> TRUE, unit |-> amount.unit, value |-> amount.value]
      BY <1>1, <2>2
    <2> QED BY <1>2, <1>3, <2>3
  <1>4. CASE amount.sign = FALSE
    <2>1. number = [value EXCEPT !.isNegative = ~@]
      BY <1>4 DEF Times
    <2>2. number.abs = amount.value /\ number.isNegative = TRUE
      BY <2>1
    <2> HIDE DEF number
    <2>3. SignedAmount(amount)
            = [sign |-> FALSE, unit |-> amount.unit, value |-> amount.value]
      BY <1>1, <2>2
    <2> QED BY <1>2, <1>4, <2>3
  <1> QED BY <1>2, <1>3, <1>4

LEMMA SaysSameHash ==
  ASSUME NEW accounts, NEW args, NEW action, IsClear(action), HasOwners(action),
         Says(accounts, args) = SaysSigned(action)
  PROVE  PlaceHash(accounts, args)
           = ActionHash(action, action.primaryAccount, action.secondaryAccount)
  <1> DEFINE given == Says(accounts, args)
             said == SaysSigned(action)
  <1>1. /\ given.type = args.actionType
        /\ given.account = AccountMeant(accounts[args.accountId])
        /\ given.other = IF args.actionType \in OneAccountTypes THEN <<>>
                         ELSE AccountMeant(accounts[args.otherAccountId])
        /\ given.markets = args.markets /\ given.amount = args.amount
        /\ given.address = args.otherAddress /\ given.data = args.data
    BY DEF Says
  <1>2. /\ said.type = action.actionType
        /\ said.account = AccountMeant(action.primaryAccount)
        /\ said.other = IF action.actionType \in OneAccountTypes THEN <<>>
                        ELSE AccountMeant(action.secondaryAccount)
        /\ said.markets = action.markets
        /\ said.amount = SignedAmount(action.amount)
        /\ said.address = action.otherAddress /\ said.data = action.data
    BY DEF SaysSigned
  <1>3. SignedAmount(action.amount) = action.amount
    BY PlainAmount DEF IsClear, IsPlain
  <1> HIDE DEF given, said
  <1>4. given = said
    BY DEF given, said
  <1>5. /\ args.actionType = action.actionType
        /\ AccountMeant(accounts[args.accountId]) = AccountMeant(action.primaryAccount)
        /\ args.markets = action.markets /\ args.amount = action.amount
        /\ args.otherAddress = action.otherAddress /\ args.data = action.data
    BY <1>1, <1>2, <1>3, <1>4
  <1>6. AccountMeant(IF args.actionType \in OneAccountTypes THEN ZeroAccountInfo
                     ELSE accounts[args.otherAccountId])
          = AccountMeant(action.secondaryAccount)
    <2>1. CASE args.actionType \in OneAccountTypes
      BY <1>5, <2>1 DEF HasOwners
    <2>2. CASE args.actionType \notin OneAccountTypes
      BY <1>1, <1>2, <1>4, <1>5, <2>2
    <2> QED BY <2>1, <2>2
  <1> QED BY <1>5, <1>6 DEF PlaceHash, ActionHash

LEMMA CoveredHash ==
  ASSUME ClientFitsProxy, NEW op, NEW auth, NEW start, NEW s, IsReadBack(s),
         CoversOne(op, auth, start, s)
  PROVE  GetOperationHashOf(op.accounts, op.actions, auth, start) = GetOperationHash(s)
  <1> DEFINE n == Len(s.actions)
             Given(i) == PlaceHash(op.accounts, op.actions[start + i])
             Signed(i) == ActionHash(s.actions[i], s.actions[i].primaryAccount,
                                     s.actions[i].secondaryAccount)
  <1>1. n \in Nat /\ DOMAIN s.actions = 1 .. n
    BY ListPlaces DEF IsReadBack
  <1>2. auth.numActions = n /\ auth.header = s.header
    BY DEF CoversOne
  <1>3. \A i \in 1 .. n : Given(i) = Signed(i)
    BY <1>1, SaysSameHash DEF CoversOne, IsReadBack
  <1>4. GetOperationHashOf(op.accounts, op.actions, auth, start)
          = [domain |-> ChainDomain,
             actions |-> [i \in 1 .. auth.numActions |-> Given(i)],
             header |-> HeaderHash(auth.header)]
    BY DEF GetOperationHashOf, PlaceHash
  <1>5. GetOperationHash(s)
          = [domain |-> ClientDomain,
             actions |-> [i \in DOMAIN s.actions |-> Signed(i)],
             header |-> HeaderHash(s.header)]
    BY DEF GetOperationHash
  <1>6. ClientDomain = ChainDomain
    BY DEF ClientFitsProxy
  <1> HIDE DEF Given, Signed, n
  <1>7. [i \in 1 .. auth.numActions |-> Given(i)] = [i \in DOMAIN s.actions |-> Signed(i)]
    BY <1>1, <1>2, <1>3
  <1> QED BY <1>2, <1>4, <1>5, <1>6, <1>7

(***************************************************************************)
(* The contract starts authorizations where the client does.               *)
(***************************************************************************)
LEMMA SameStarts ==
  ASSUME NEW auths, IsList(auths), NEW st, StartsOf(auths, st)
  PROVE  \A k \in 1 .. Len(auths) + 1 : Start(auths, k) = st[k]
  <1> SUFFICES ASSUME NEW k \in 1 .. Len(auths) + 1
               PROVE  Start(auths, k) = st[k]
    OBVIOUS
  <1> DEFINE f == CHOOSE g : StartBy(auths, k, g)
  <1>1. Start(auths, k) = f[k]
    BY DEF Start, StartBy
  <1>2. k \in Nat /\ k <= Len(auths) + 1 /\ k \in 1 .. k
    BY ListPlaces
  <1>3. StartBy(auths, k, f)
    BY <1>2, StartsExist
  <1> HIDE DEF f
  <1> QED BY <1>1, <1>2, <1>3, StartsAreThose

(***************************************************************************)
(* A transaction the contract can read.                                    *)
(***************************************************************************)
IsWellFormed(tx) ==
  tx.method = "operate" =>
    /\ AllActionsCovered(tx)
    /\ \A k \in DOMAIN tx.auths : SignatureIsValid(tx, k)

LEMMA FitIsWellFormed ==
  ASSUME ClientFitsProxy, NEW published, \A x \in published : IsReadBack(x),
         NEW op, Fits(op, published),
         NEW tx, tx.accounts = op.accounts, tx.actions = op.actions,
         tx.auths = GenerateAuthData(op)
  PROVE  IsWellFormed(tx)
  <1> DEFINE n == Len(tx.auths)
  <1>1. PICK st : ReachesBy(op, tx.auths, st, Len(op.actions), published)
    BY GeneratedReaches DEF Fits, Reaches
  <1>2. /\ IsList(tx.auths) /\ StartsOf(tx.auths, st)
        /\ st[n + 1] = Len(tx.actions) /\ st[1] = 0
        /\ \A k \in 1 .. n : st[k + 1] = st[k] + tx.auths[k].numActions
        /\ \A k \in 1 .. n : CoversSigned(op, tx.auths[k], st[k], published)
    BY <1>1 DEF ReachesBy, StartsOf
  <1>3. n \in Nat /\ DOMAIN tx.auths = 1 .. n
    BY <1>2, ListPlaces
  <1>4. \A k \in 1 .. n + 1 : Start(tx.auths, k) = st[k]
    BY <1>2, <1>3, SameStarts
  <1>5. AllActionsCovered(tx)
    <2>1. CASE tx.auths = <<>>
      <3>1. n = 0
        BY <2>1, EmptyList
      <3>2. Len(tx.actions) = 0
        BY <1>2, <3>1
      <3> QED BY <2>1, <3>2 DEF AllActionsCovered
    <2>2. CASE tx.auths # <<>>
      <3>1. n # 0
        <4>1. tx.auths \in Seq({tx.auths[j] : j \in DOMAIN tx.auths})
          BY <1>2 DEF IsList
        <4> QED BY <2>2, <4>1
      <3>2. n \in 1 .. n /\ n \in 1 .. n + 1
        BY <1>3, <3>1
      <3>3. Start(tx.auths, n) + tx.auths[n].numActions = Len(tx.actions)
        BY <1>2, <1>4, <3>2
      <3> QED BY <2>2, <3>3 DEF AllActionsCovered
    <2> QED BY <2>1, <2>2
  <1>6. ASSUME NEW k \in DOMAIN tx.auths, IsSigned(tx, k)
        PROVE  /\ AddressOf[tx.auths[k].header.signer] = SignerOf(tx, k)
               /\ SignerOf(tx, k) # NoOne
    <2> DEFINE auth == tx.auths[k]
    <2>1. k \in 1 .. n /\ k \in 1 .. n + 1
      BY <1>3
    <2>2. PICK s \in published : CoversOne(op, auth, st[k], s)
      BY <1>2, <1>6, <2>1 DEF CoversSigned, IsSigned
    <2>3. auth.header = s.header /\ auth.signature = s.signature
      BY <2>2 DEF CoversOne
    <2>4. HashOf(tx, k) = GetOperationHash(s)
      <3>1. HashOf(tx, k) = GetOperationHashOf(op.accounts, op.actions, auth, st[k])
        BY <1>4, <2>1 DEF HashOf
      <3> HIDE DEF auth
      <3> QED BY <2>2, <3>1, CoveredHash
    <2>5. SignerOf(tx, k) = Recover(HashOf(tx, k), auth.signature)
      BY <1>6 DEF SignerOf
    <2> HIDE DEF auth
    <2>6. IsReadBack(s)
      OBVIOUS
    <2> QED BY <2>3, <2>4, <2>5, <2>6 DEF IsReadBack, auth
  <1> QED BY <1>5, <1>6 DEF IsWellFormed, SignatureIsValid

(***************************************************************************)
(* The transactions that are sent, and what becomes of them.               *)
(***************************************************************************)
TxsAreWellFormed ==
  /\ signed \subseteq {SignedBy[s] : s \in Signables}
  /\ IsList(txs) /\ IsList(status) /\ Len(status) = Len(txs)
  /\ \A t \in DOMAIN txs : IsWellFormed(txs[t]) /\ status[t] # "malformed"

LEMMA PoolIsWellFormed ==
  ASSUME TxsAreWellFormed, NEW tx, Pool(tx), IsWellFormed(tx)
  PROVE  TxsAreWellFormed'
  <1> DEFINE n == Len(txs)
  <1>1. /\ IsList(txs') /\ Len(txs') = n + 1
        /\ \A i \in 1 .. n : txs'[i] = txs[i]
        /\ txs'[n + 1] = tx
        /\ n \in Nat /\ DOMAIN txs = 1 .. n
    BY AppendToList, ListPlaces DEF Pool, TxsAreWellFormed
  <1>2. /\ IsList(status') /\ Len(status') = n + 1
        /\ \A i \in 1 .. n : status'[i] = status[i]
        /\ status'[n + 1] = "pool"
    BY AppendToList DEF Pool, TxsAreWellFormed
  <1>3. DOMAIN txs' = 1 .. n + 1
    BY <1>1, ListPlaces
  <1>4. \A i \in 1 .. n + 1 : i \in 1 .. n \/ i = n + 1
    BY <1>1
  <1>5. signed' = signed
    BY DEF Pool
  <1> HIDE DEF n
  <1>6. \A t \in 1 .. n + 1 : IsWellFormed(txs'[t]) /\ status'[t] # "malformed"
    BY <1>1, <1>2, <1>4 DEF TxsAreWellFormed
  <1> QED BY <1>1, <1>2, <1>3, <1>5, <1>6 DEF TxsAreWellFormed

LEMMA StatusIsWellFormed ==
  ASSUME TxsAreWellFormed, NEW t \in DOMAIN txs, NEW reason, reason # "malformed",
         status' = [status EXCEPT ![t] = reason], UNCHANGED <<signed, txs>>
  PROVE  TxsAreWellFormed'
  <1> DEFINE S == {status[i] : i \in DOMAIN status} \cup {reason}
  <1>1. status \in Seq(S)
    BY DEF TxsAreWellFormed, IsList
  <1>2. DOMAIN status = 1 .. Len(status) /\ DOMAIN txs = DOMAIN status
        /\ Len(status) \in Nat
    BY ListPlaces DEF TxsAreWellFormed
  <1>3. reason \in S /\ t \in 1 .. Len(status)
    BY <1>2
  <1> HIDE DEF S
  <1>4. status' \in Seq(S) /\ Len(status') = Len(status)
    BY <1>1, <1>3
  <1>5. IsList(status')
    BY <1>4, SequencesAreLists
  <1>6. \A i \in DOMAIN txs : status'[i] # "malformed"
    BY <1>2 DEF TxsAreWellFormed
  <1> QED BY <1>4, <1>5, <1>6 DEF TxsAreWellFormed

LEMMA WellFormedInitially ==
  ASSUME SignedInit
  PROVE  TxsAreWellFormed
  BY EmptyList DEF SignedInit, TxsAreWellFormed

LEMMA WellFormedStep ==
  ASSUME ClientFitsProxy, SignablesAreClear, PlansAreKnown,
         TxsAreWellFormed, [SignedNext]_signedVars
  PROVE  TxsAreWellFormed'
  <1>1. \A x \in signed : IsReadBack(x)
    BY PublishedIsReadBack DEF TxsAreWellFormed
  <1>2. ASSUME NEW s \in Signables, PublishOperation(s)
        PROVE  TxsAreWellFormed'
    BY <1>2 DEF PublishOperation, TxsAreWellFormed
  <1>3. ASSUME NEW sender, NEW steps \in Plans, Submit(sender, steps)
        PROVE  TxsAreWellFormed'
    <2> DEFINE op == Built(steps)
               tx == [method |-> "operate", sender |-> sender,
                      accounts |-> op.accounts, actions |-> op.actions,
                      auths |-> GenerateAuthData(op)]
    <2>1. /\ Pool(tx)
          /\ \A i \in DOMAIN steps :
               steps[i].kind = "Signable" => SignedBy[steps[i].signable] \in signed
      BY <1>3 DEF Submit
    <2>2. Fits(op, signed)
      BY <1>1, <2>1, BuiltFits
    <2>3. /\ tx.accounts = op.accounts /\ tx.actions = op.actions
          /\ tx.auths = GenerateAuthData(op)
      OBVIOUS
    <2> HIDE DEF op, tx
    <2>4. IsWellFormed(tx)
      BY <1>1, <2>2, <2>3, FitIsWellFormed
    <2> QED BY <2>1, <2>4, PoolIsWellFormed
  <1>4. ASSUME NEW s \in Signables, NEW hasOptions,
               CancelOperation(s.operation, hasOptions)
        PROVE  TxsAreWellFormed'
    <2>1. PICK tx : Pool(tx) /\ CancelsOne(tx)
      BY <1>4, CancelOperationPools
    <2>2. IsWellFormed(tx)
      BY <2>1 DEF CancelsOne, IsWellFormed
    <2> QED BY <2>1, <2>2, PoolIsWellFormed
  <1>5. ASSUME NEW t \in DOMAIN txs, Operate(t)
        PROVE  TxsAreWellFormed'
    <2>1. IsWellFormed(txs[t])
      BY DEF TxsAreWellFormed
    <2>2. /\ UNCHANGED <<signed, txs>>
          /\ \E reason \in {"mined", "reverted"} :
               status' = [status EXCEPT ![t] = reason]
      BY <1>5, <2>1 DEF Operate, IsWellFormed, Accept, Refuse
    <2> QED BY <2>2, StatusIsWellFormed
  <1>6. ASSUME NEW t \in DOMAIN txs, Cancel(t)
        PROVE  TxsAreWellFormed'
    <2>1. /\ UNCHANGED <<signed, txs>>
          /\ \E reason \in {"mined", "reverted"} :
               status' = [status EXCEPT ![t] = reason]
      BY <1>6 DEF Cancel, Accept, Refuse
    <2> QED BY <2>1, StatusIsWellFormed
  <1>7. ASSUME UNCHANGED <<signed, txs, status>>
        PROVE  TxsAreWellFormed'
    BY <1>7 DEF TxsAreWellFormed
  <1>8. CASE ShutDown \/ StartUp \/ BlockTick \/ UNCHANGED signedVars
    BY <1>7, <1>8 DEF ShutDown, StartUp, BlockTick, signedVars
  <1> QED BY <1>2, <1>3, <1>4, <1>5, <1>6, <1>8 DEF SignedNext

(***************************************************************************)
(* Where the client is configured for the proxy and what is signed is      *)
(* clear: whatever is built of signed operations and own requests, in any  *)
(* order and however often, generateAuthData's authorizations cover all of *)
(* it, start where the contract starts to read them, and hash, through the *)
(* places of the accounts in one common list, to what was signed.          *)
(***************************************************************************)
THEOREM AllIsReadBack ==
  ASSUME ClientFitsProxy, SignablesAreClear, PlansAreKnown
  PROVE  SignedSpec => []NothingIsMalformed
  <1>1. SignedInit => TxsAreWellFormed
    BY WellFormedInitially
  <1>2. TxsAreWellFormed /\ [SignedNext]_signedVars => TxsAreWellFormed'
    BY WellFormedStep
  <1>3. TxsAreWellFormed => NothingIsMalformed
    BY DEF TxsAreWellFormed, NothingIsMalformed
  <1> QED BY <1>1, <1>2, <1>3, PTL DEF SignedSpec

-----------------------------------------------------------------------------
(* Expiries: prices                                                        *)

Args == [market : Markets, timeDelta : Nat, forceUpdate : BOOLEAN]

Trades ==
  [input : Markets, output : Markets, owed : Markets, toZero : BOOLEAN,
   amount : Int, maxExpiry : Nat]

States == [wei : [Markets -> Int], expiry : [Markets -> Nat]]

ClockIsOK == now \in Nat /\ rampTime \in Nat

LEMMA PriceIsPositive ==
  ASSUME NEW m \in Markets
  PROVE  Price[m] \in Nat \ {0}
  BY ExpiryAssumption

LEMMA SpreadIsNat ==
  ASSUME NEW held \in Markets, NEW owed \in Markets
  PROVE  Spread[<<held, owed>>] \in Nat
  <1>1. <<held, owed>> \in Markets \X Markets
    OBVIOUS
  <1> QED BY <1>1, ExpiryAssumption

LEMMA AgeIsNat ==
  ASSUME ClockIsOK, NEW since \in Nat
  PROVE  /\ ExpiryAge(now, since) \in Nat
         /\ Least(ExpiryAge(now, since), rampTime) \in Nat
  <1>1. ExpiryAge(now, since) \in Nat
    BY DEF ExpiryAge, ClockIsOK
  <1> QED BY <1>1 DEF Least, ClockIsOK

(***************************************************************************)
(* The spread of a trade is at most what the age of the expiry allows.     *)
(***************************************************************************)
LEMMA SpreadIsRamped ==
  ASSUME ClockIsOK, NEW since \in Nat, NEW s \in Nat
  PROVE  LET age == ExpiryAge(now, since)
             spread == IF age < rampTime THEN GetPartial(s, age, rampTime) ELSE s
         IN  /\ spread \in Nat
             /\ spread * rampTime <= s * Least(age, rampTime)
             /\ rampTime = 0 => spread = s
  <1> DEFINE age == ExpiryAge(now, since)
  <1>1. age \in Nat /\ rampTime \in Nat
    BY AgeIsNat DEF ClockIsOK
  <1> HIDE DEF age
  <1>2. CASE age < rampTime
    <2>1. rampTime \in Nat \ {0}
      BY <1>1, <1>2
    <2>2. /\ GetPartial(s, age, rampTime) \in Nat
          /\ GetPartial(s, age, rampTime) * rampTime <= s * age
      BY <1>1, <2>1, GetPartialIsNat, PartialIsPaid
    <2> QED BY <1>2, <2>1, <2>2 DEF Least, age
  <1>3. CASE ~(age < rampTime)
    <2>1. s * rampTime <= s * rampTime
      BY <1>1, ProductIsNat
    <2>2. Least(age, rampTime) = rampTime
      BY <1>1, <1>3 DEF Least
    <2> QED BY <1>3, <2>1, <2>2 DEF age
  <1> QED BY <1>2, <1>3

LEMMA PriceIsRamped ==
  ASSUME ClockIsOK, NEW held \in Markets, NEW owed \in Markets, NEW since \in Nat
  PROVE  LET price == AdjustedOwedPrice(held, owed, since)
             ramp == Least(ExpiryAge(now, since), rampTime)
             spread == Spread[<<held, owed>>]
         IN  /\ price \in Nat \ {0}
             /\ IF rampTime = 0
                THEN price * Base <= Price[owed] * (Base + spread)
                ELSE price * (Base * rampTime)
                       <= Price[owed] * (Base * rampTime + spread * ramp)
  <1> DEFINE full == Spread[<<held, owed>>]
             ramp == Least(ExpiryAge(now, since), rampTime)
             spread == IF ExpiryAge(now, since) < rampTime
                       THEN GetPartial(full, ExpiryAge(now, since), rampTime) ELSE full
             p == Price[owed]
             more == GetPartial(p, spread, Base)
             price == AdjustedOwedPrice(held, owed, since)
  <1>1. full \in Nat /\ p \in Nat \ {0} /\ Base \in Nat \ {0} /\ ramp \in Nat /\ rampTime \in Nat
    BY SpreadIsNat, PriceIsPositive, BaseIsPositive, AgeIsNat DEF ClockIsOK
  <1> HIDE DEF full, ramp, p
  <1>2. spread \in Nat /\ spread * rampTime <= full * ramp /\ (rampTime = 0 => spread = full)
    BY <1>1, SpreadIsRamped DEF ramp
  <1>3. price = p + more
    BY DEF AdjustedOwedPrice, DecimalMul, full, p
  <1> HIDE DEF spread
  <1>4. more \in Nat /\ more * Base <= p * spread
    BY <1>1, <1>2, GetPartialIsNat, PartialIsPaid
  <1> HIDE DEF more, price
  <1>5. price \in Nat \ {0}
    BY <1>1, <1>3, <1>4
  <1>6. price * Base <= p * (Base + spread)
    <2>1. price * Base = p * Base + more * Base
      BY <1>1, <1>3, <1>4
    <2>2. p * (Base + spread) = p * Base + p * spread
      BY <1>1, <1>2
    <2>3. p * Base \in Nat /\ more * Base \in Nat /\ p * spread \in Nat
      BY <1>1, <1>2, <1>4, ProductIsNat
    <2> QED BY <1>4, <2>1, <2>2, <2>3
  <1>7. CASE rampTime = 0
    BY <1>2, <1>5, <1>6, <1>7 DEF full, p, price
  <1>8. CASE rampTime # 0
    <2> DEFINE x == price * Base
               y == p * (Base + spread)
    <2>1. x \in Nat /\ y \in Nat
      BY <1>1, <1>2, <1>5, ProductIsNat
    <2>2. x <= y
      BY <1>6
    <2>3. x * rampTime = price * (Base * rampTime)
      BY <1>1, <1>5
    <2>4. y * rampTime = p * (Base * rampTime + spread * rampTime)
      BY <1>1, <1>2
    <2> HIDE DEF x, y
    <2>5. x * rampTime <= y * rampTime
      BY <1>1, <2>1, <2>2, ScaleUp
    <2>6. p * (Base * rampTime + spread * rampTime) <= p * (Base * rampTime + full * ramp)
      <3> DEFINE a == Base * rampTime + spread * rampTime
                 b == Base * rampTime + full * ramp
      <3>1. Base * rampTime \in Nat /\ spread * rampTime \in Nat /\ full * ramp \in Nat
        BY <1>1, <1>2, ProductIsNat
      <3>2. a \in Nat /\ b \in Nat /\ a <= b
        BY <1>2, <3>1
      <3> HIDE DEF a, b
      <3>3. a * p <= b * p
        BY <1>1, <3>2, ScaleUp
      <3>4. a * p = p * a /\ b * p = p * b
        BY <1>1, <3>2
      <3> QED BY <3>3, <3>4 DEF a, b
    <2>7. price * (Base * rampTime) <= p * (Base * rampTime + full * ramp)
      <3> DEFINE u == price * (Base * rampTime)
                 v == p * (Base * rampTime + spread * rampTime)
                 w == p * (Base * rampTime + full * ramp)
      <3>1. Base * rampTime \in Nat /\ spread * rampTime \in Nat /\ full * ramp \in Nat
        BY <1>1, <1>2, ProductIsNat
      <3>2. u \in Nat /\ v \in Nat /\ w \in Nat
        <4>1. Base * rampTime + spread * rampTime \in Nat /\ Base * rampTime + full * ramp \in Nat
          BY <3>1
        <4> QED BY <1>1, <1>5, <3>1, <4>1, ProductIsNat
      <3>3. u <= v /\ v <= w
        BY <2>3, <2>4, <2>5, <2>6
      <3> HIDE DEF u, v, w
      <3>4. u <= w
        BY <3>2, <3>3
      <3> QED BY <3>4 DEF u, w
    <2> QED BY <1>5, <1>8, <2>7 DEF full, p, price, ramp
  <1> QED BY <1>7, <1>8

-----------------------------------------------------------------------------
(* Expiries: trades                                                        *)

LEMMA NowIsState ==
  ASSUME wei \in [Markets -> Int], expiry \in [Markets -> Nat]
  PROVE  Now \in States
  BY DEF Now, States

\* A trade that changes something, as its owner's two markets see it.
Repays(s, t, held, owed) ==
  /\ held \in Markets /\ owed \in Markets /\ held # owed
  /\ owed = t.owed /\ {held, owed} = {t.input, t.output}
  /\ s.expiry[owed] # 0 /\ s.expiry[owed] <= now
  /\ s.wei[owed] < 0 /\ s.wei[held] > 0

Amounts(s, t, held, owed) ==
  IF InputWei(s, t) > 0
  THEN [repaid |-> InputWei(s, t),
        taken |-> OwedWeiToHeldWei(InputWei(s, t), held, owed, s.expiry[owed])]
  ELSE [repaid |-> HeldWeiToOwedWei(-InputWei(s, t), held, owed, s.expiry[owed]),
        taken |-> -InputWei(s, t)]

LEMMA AmountsAreNat ==
  ASSUME ClockIsOK, NEW held \in Markets, NEW owed \in Markets, NEW since \in Nat,
         NEW amount \in Nat
  PROVE  /\ OwedWeiToHeldWei(amount, held, owed, since) \in Nat
         /\ OwedWeiToHeldWei(amount, held, owed, since) * Price[held]
              <= amount * AdjustedOwedPrice(held, owed, since)
         /\ HeldWeiToOwedWei(amount, held, owed, since) \in Nat
         /\ amount * Price[held]
              <= HeldWeiToOwedWei(amount, held, owed, since)
                   * AdjustedOwedPrice(held, owed, since)
  <1> DEFINE price == AdjustedOwedPrice(held, owed, since)
  <1>1. price \in Nat \ {0} /\ Price[held] \in Nat \ {0}
    BY PriceIsRamped, PriceIsPositive
  <1>2. /\ OwedWeiToHeldWei(amount, held, owed, since) = GetPartial(amount, price, Price[held])
        /\ HeldWeiToOwedWei(amount, held, owed, since) = GetPartialRoundUp(amount, Price[held], price)
    BY DEF OwedWeiToHeldWei, HeldWeiToOwedWei
  <1> HIDE DEF price
  <1>3. /\ GetPartial(amount, price, Price[held]) \in Nat
        /\ GetPartial(amount, price, Price[held]) * Price[held] <= amount * price
        /\ amount * Price[held] <= GetPartialRoundUp(amount, Price[held], price) * price
    BY <1>1, GetPartialIsNat, PartialIsPaid
  <1>4. GetPartialRoundUp(amount, Price[held], price) \in Nat
    BY <1>1, RoundUpIsNat
  <1> QED BY <1>2, <1>3, <1>4 DEF price

(***************************************************************************)
(* A trade that goes through repays an expired debt, and leaves neither a  *)
(* supply of what was owed nor a debt of what was held.                    *)
(***************************************************************************)
Outcome(s, t, held, owed) ==
  LET amounts == Amounts(s, t, held, owed)
      after == Traded(s, t)
  IN  /\ amounts.repaid \in Nat /\ amounts.taken \in Nat
      /\ amounts.taken * Price[held]
           <= amounts.repaid * AdjustedOwedPrice(held, owed, s.expiry[owed])
      /\ after \in States
      /\ after.wei[owed] = s.wei[owed] + amounts.repaid /\ after.wei[owed] <= 0
      /\ after.wei[held] = s.wei[held] - amounts.taken /\ after.wei[held] >= 0
      /\ \A m \in Markets \ {held, owed} : after.wei[m] = s.wei[m]
      /\ after.expiry = IF after.wei[owed] = 0 THEN [s.expiry EXCEPT ![owed] = 0]
                        ELSE s.expiry

LEMMA InputIsInt ==
  ASSUME NEW s \in States, NEW t \in Trades
  PROVE  InputWei(s, t) \in Int
  BY DEF InputWei, States, Trades

LEMMA TradeRepays ==
  ASSUME ClockIsOK, NEW s \in States, NEW t \in Trades, t.input # t.output,
         t.owed \in {t.input, t.output}, InputWei(s, t) # 0, CanTrade(s, t)
  PROVE  \E held, owed \in Markets : Repays(s, t, held, owed) /\ Outcome(s, t, held, owed)
  <1> DEFINE x == InputWei(s, t)
             y == OutputWei(s, t)
             held == IF x > 0 THEN t.output ELSE t.input
             owed == IF x > 0 THEN t.input ELSE t.output
             amounts == Amounts(s, t, held, owed)
             after == Traded(s, t)
  <1>1. x \in Int /\ x # 0
    BY InputIsInt
  <1>2. /\ s.wei \in [Markets -> Int] /\ s.expiry \in [Markets -> Nat]
        /\ t.input \in Markets /\ t.output \in Markets /\ t.owed \in Markets
    BY DEF States, Trades
  <1>3. /\ IsExpired(s, t)
        /\ x > 0 => /\ t.input = t.owed
                    /\ s.wei[t.input] < 0 /\ s.wei[t.input] + x <= 0
                    /\ s.wei[t.output] > 0 /\ -y <= s.wei[t.output]
        /\ ~(x > 0) => /\ t.output = t.owed
                       /\ s.wei[t.input] > 0 /\ s.wei[t.input] + x >= 0
                       /\ s.wei[t.output] < 0 /\ y <= -s.wei[t.output]
    BY DEF CanTrade
  <1>4. y = IF x > 0 THEN -OwedWeiToHeldWei(x, t.output, t.input, s.expiry[t.owed])
            ELSE HeldWeiToOwedWei(-x, t.input, t.output, s.expiry[t.owed])
    BY DEF OutputWei
  <1>5. amounts = IF x > 0 THEN [repaid |-> x, taken |-> OwedWeiToHeldWei(x, held, owed, s.expiry[owed])]
                  ELSE [repaid |-> HeldWeiToOwedWei(-x, held, owed, s.expiry[owed]), taken |-> -x]
    BY DEF Amounts
  <1>6. after.wei = [s.wei EXCEPT ![t.input] = @ + x, ![t.output] = @ + y]
    BY <1>1 DEF Traded
  <1>7. after = [wei |-> after.wei,
                 expiry |-> IF after.wei[t.owed] = 0 THEN [s.expiry EXCEPT ![t.owed] = 0] ELSE s.expiry]
    BY <1>1 DEF Traded
  <1> HIDE DEF x, y, amounts, after
  <1>8. CASE x > 0
    <2>1. held = t.output /\ owed = t.input /\ t.owed = owed
      BY <1>3, <1>8
    <2> HIDE DEF held, owed
    <2>2. Repays(s, t, held, owed)
      BY <1>2, <1>3, <1>8, <2>1 DEF Repays, IsExpired
    <2> DEFINE taken == OwedWeiToHeldWei(x, held, owed, s.expiry[owed])
    <2>0. x \in Nat
      BY <1>1, <1>8
    <2>3. /\ taken \in Nat
          /\ taken * Price[held] <= x * AdjustedOwedPrice(held, owed, s.expiry[owed])
      BY <1>2, <2>0, <2>1, AmountsAreNat
    <2>4. amounts.repaid = x /\ amounts.taken = taken /\ y = -taken
      BY <1>4, <1>5, <1>8, <2>1
    <2> HIDE DEF taken
    <2>5. after.wei = [s.wei EXCEPT ![owed] = @ + x, ![held] = @ + y]
      BY <1>6, <2>1
    <2>6. /\ after.wei \in [Markets -> Int]
          /\ after.wei[owed] = s.wei[owed] + x /\ after.wei[held] = s.wei[held] - taken
          /\ \A m \in Markets \ {held, owed} : after.wei[m] = s.wei[m]
      BY <1>1, <1>2, <2>1, <2>3, <2>4, <2>5
    <2>7. after \in States
      BY <1>2, <1>7, <2>6 DEF States
    <2>8. after.wei[owed] <= 0 /\ after.wei[held] >= 0
      BY <1>1, <1>2, <1>3, <1>8, <2>1, <2>3, <2>4, <2>6
    <2>9. after.expiry = IF after.wei[owed] = 0 THEN [s.expiry EXCEPT ![owed] = 0] ELSE s.expiry
      BY <1>7, <2>1
    <2>10. amounts.repaid \in Nat /\ amounts.taken \in Nat
      BY <1>1, <1>8, <2>3, <2>4
    <2>11. Outcome(s, t, held, owed)
      BY <2>3, <2>4, <2>6, <2>7, <2>8, <2>9, <2>10 DEF Outcome, amounts, after
    <2> QED BY <1>2, <2>1, <2>2, <2>11
  <1>9. CASE ~(x > 0)
    <2>1. held = t.input /\ owed = t.output /\ t.owed = owed
      BY <1>3, <1>9
    <2> HIDE DEF held, owed
    <2>2. Repays(s, t, held, owed)
      BY <1>2, <1>3, <1>9, <2>1 DEF Repays, IsExpired
    <2> DEFINE repaid == HeldWeiToOwedWei(-x, held, owed, s.expiry[owed])
    <2>0. -x \in Nat
      BY <1>1, <1>9
    <2>3. /\ repaid \in Nat
          /\ (-x) * Price[held] <= repaid * AdjustedOwedPrice(held, owed, s.expiry[owed])
      BY <1>2, <2>0, <2>1, AmountsAreNat
    <2>4. amounts.repaid = repaid /\ amounts.taken = -x /\ y = repaid
      BY <1>4, <1>5, <1>9, <2>1
    <2> HIDE DEF repaid
    <2>5. after.wei = [s.wei EXCEPT ![held] = @ + x, ![owed] = @ + y]
      BY <1>6, <2>1
    <2>6. /\ after.wei \in [Markets -> Int]
          /\ after.wei[owed] = s.wei[owed] + repaid /\ after.wei[held] = s.wei[held] + x
          /\ \A m \in Markets \ {held, owed} : after.wei[m] = s.wei[m]
      BY <1>1, <1>2, <2>1, <2>3, <2>4, <2>5
    <2>12. s.wei[held] + x = s.wei[held] - (-x)
      BY <1>1, <1>2, <2>1
    <2>7. after \in States
      BY <1>2, <1>7, <2>6 DEF States
    <2>8. after.wei[owed] <= 0 /\ after.wei[held] >= 0
      BY <1>1, <1>2, <1>3, <1>9, <2>1, <2>3, <2>4, <2>6
    <2>9. after.expiry = IF after.wei[owed] = 0 THEN [s.expiry EXCEPT ![owed] = 0] ELSE s.expiry
      BY <1>7, <2>1
    <2>11. Outcome(s, t, held, owed)
      BY <2>0, <2>3, <2>4, <2>6, <2>7, <2>8, <2>9, <2>12 DEF Outcome, amounts, after
    <2> QED BY <1>2, <2>1, <2>2, <2>11
  <1> QED BY <1>8, <1>9

(***************************************************************************)
(* Rounding is never for the one who trades.                               *)
(***************************************************************************)
LEMMA WorthIsFair ==
  ASSUME ClockIsOK, NEW held \in Markets, NEW owed \in Markets, NEW since \in Nat,
         NEW repaid \in Nat, NEW taken \in Nat,
         taken * Price[held] <= repaid * AdjustedOwedPrice(held, owed, since)
  PROVE  LET ramp == Least(ExpiryAge(now, since), rampTime)
             spread == Spread[<<held, owed>>]
         IN  IF rampTime = 0
             THEN taken * Price[held] * Base <= repaid * Price[owed] * (Base + spread)
             ELSE taken * Price[held] * Base * rampTime
                    <= repaid * Price[owed] * (Base * rampTime + spread * ramp)
  <1> DEFINE price == AdjustedOwedPrice(held, owed, since)
             ramp == Least(ExpiryAge(now, since), rampTime)
             spread == Spread[<<held, owed>>]
             p == Price[owed]
             h == Price[held]
             u == taken * h
             v == repaid * price
  <1>1. /\ price \in Nat \ {0} /\ ramp \in Nat /\ spread \in Nat /\ p \in Nat \ {0} /\ h \in Nat \ {0}
        /\ Base \in Nat \ {0} /\ rampTime \in Nat
    BY PriceIsRamped, AgeIsNat, SpreadIsNat, PriceIsPositive, BaseIsPositive DEF ClockIsOK
  <1>2. IF rampTime = 0 THEN price * Base <= p * (Base + spread)
        ELSE price * (Base * rampTime) <= p * (Base * rampTime + spread * ramp)
    BY PriceIsRamped
  <1> HIDE DEF price, ramp, spread, p, h
  <1>3. u \in Nat /\ v \in Nat /\ u <= v
    BY <1>1, ProductIsNat DEF price, h
  <1>4. ASSUME NEW k \in Nat, NEW n \in Nat, price * k <= p * n
        PROVE  u * k <= repaid * p * n
    <2>1. u * k <= v * k
      BY <1>3, <1>4, ScaleUp
    <2> DEFINE x == price * k
               y == p * n
    <2>2. x \in Nat /\ y \in Nat /\ x <= y
      BY <1>1, <1>4, ProductIsNat
    <2>3. v * k = x * repaid
      BY <1>1, <1>4
    <2>4. y * repaid = repaid * p * n
      BY <1>1, <1>4
    <2> HIDE DEF x, y, u, v
    <2>5. x * repaid <= y * repaid
      BY <2>2, ScaleUp
    <2> DEFINE a == u * k
               b == v * k
               d == y * repaid
    <2>6. a \in Nat /\ b \in Nat /\ d \in Nat
      BY <1>3, <1>4, <2>2, ProductIsNat
    <2>7. a <= b /\ b <= d
      BY <2>1, <2>3, <2>5
    <2> HIDE DEF a, b, d
    <2>8. a <= d
      BY <2>6, <2>7
    <2> QED BY <2>4, <2>8 DEF a, d
  <1>5. CASE rampTime = 0
    <2>1. Base \in Nat /\ Base + spread \in Nat
      BY <1>1
    <2>2. u * Base <= repaid * p * (Base + spread)
      BY <1>2, <1>4, <1>5, <2>1
    <2> QED BY <1>5, <2>2 DEF h, p, spread
  <1>6. CASE rampTime # 0
    <2>1. Base * rampTime \in Nat /\ spread * ramp \in Nat
      BY <1>1, ProductIsNat
    <2>2. Base * rampTime + spread * ramp \in Nat
      BY <2>1
    <2>3. u * (Base * rampTime) <= repaid * p * (Base * rampTime + spread * ramp)
      BY <1>2, <1>4, <1>6, <2>1, <2>2
    <2>4. u * (Base * rampTime) = u * Base * rampTime
      BY <1>1, <1>3
    <2> QED BY <1>6, <2>3, <2>4 DEF h, p, spread, ramp
  <1> QED BY <1>5, <1>6

-----------------------------------------------------------------------------
(* Expiries: what is set                                                   *)

\* What expiry is, or what the owner's friend may make of it.
Granted(m, was, is) ==
  \/ is = was
  \/ /\ approved # 0
     /\ IF is = 0 THEN wei[m] >= 0 ELSE is >= now + approved /\ wei[m] < 0

AccountIsOK ==
  /\ wei \in [Markets -> Int]
  /\ expiry \in [Markets -> Nat]
  /\ approved \in Nat
  /\ ClockIsOK

IsSet(sender, set) ==
  /\ set \in [Markets -> Nat]
  /\ sender = Friend => \A m \in Markets : Granted(m, expiry[m], set[m])

LEMMA SetOneIsSet ==
  ASSUME AccountIsOK, NEW sender, NEW arg \in Args, NEW set, IsSet(sender, set)
  PROVE  IsSet(sender, SetOne(set, sender, arg))
  <1> DEFINE next == SetOne(set, sender, arg)
             m == arg.market
  <1>1. m \in Markets /\ arg.timeDelta \in Nat /\ set \in [Markets -> Nat]
    BY DEF Args, IsSet
  <1>2. wei[m] \in Int /\ now \in Nat /\ approved \in Nat
    BY <1>1 DEF AccountIsOK, ClockIsOK
  <1>3. CASE next = set
    BY <1>3
  <1>4. CASE next # set
    <2> DEFINE time == IF arg.timeDelta = 0 \/ wei[m] >= 0 THEN 0 ELSE now + arg.timeDelta
    <2>1. MaySet(sender, arg) /\ next = [set EXCEPT ![m] = time]
      BY <1>4 DEF SetOne
    <2>2. time \in Nat
      BY <1>1, <1>2
    <2>3. next \in [Markets -> Nat] /\ next[m] = time /\ \A n \in Markets : n # m => next[n] = set[n]
      BY <1>1, <2>1, <2>2
    <2>4. ASSUME sender = Friend
          PROVE  Granted(m, expiry[m], time)
      <3>1. approved # 0 /\ arg.timeDelta >= approved
        BY <2>1, <2>4, ExpiryAssumption DEF MaySet
      <3>2. arg.timeDelta # 0
        BY <1>1, <1>2, <3>1
      <3>3. CASE wei[m] >= 0
        BY <3>1, <3>3 DEF Granted
      <3>4. CASE ~(wei[m] >= 0)
        <4>1. time = now + arg.timeDelta /\ wei[m] < 0
          BY <1>2, <3>2, <3>4
        <4>2. time # 0 /\ time >= now + approved
          BY <1>1, <1>2, <3>1, <3>2, <4>1
        <4> HIDE DEF time
        <4> QED BY <3>1, <4>1, <4>2 DEF Granted
      <3> QED BY <3>3, <3>4
    <2> HIDE DEF next, time, m
    <2> QED BY <2>3, <2>4 DEF IsSet, next
  <1> QED BY <1>3, <1>4

SetBy(sender, args, n, f) ==
  f = [i \in 0 .. n |-> IF i = 0 THEN expiry ELSE SetOne(f[i - 1], sender, args[i])]

LEMMA SetsExist ==
  ASSUME NEW sender, NEW args
  PROVE  \A n \in Nat : \E f : SetBy(sender, args, n, f)
  <1> DEFINE N == {n \in Nat : \E f : SetBy(sender, args, n, f)}
  <1>1. 0 \in N
    <2>1. SetBy(sender, args, 0, [i \in 0 .. 0 |-> expiry])
      BY DEF SetBy
    <2> QED BY <2>1
  <1>2. ASSUME NEW n \in Nat, n \in N
        PROVE  n + 1 \in N
    <2>1. PICK f : SetBy(sender, args, n, f)
      BY <1>2
    <2> DEFINE g == [i \in 0 .. n + 1 |->
                       IF i = 0 THEN expiry ELSE SetOne(f[i - 1], sender, args[i])]
    <2>2. ASSUME NEW i \in 0 .. n + 1, i # 0
          PROVE  g[i - 1] = f[i - 1]
      <3>1. i - 1 \in 0 .. n /\ i - 1 \in 0 .. n + 1
        BY <2>2
      <3> QED BY <2>1, <3>1 DEF SetBy
    <2>3. g = [i \in 0 .. n + 1 |->
                 IF i = 0 THEN expiry ELSE SetOne(g[i - 1], sender, args[i])]
      BY <2>2
    <2> HIDE DEF g
    <2>4. SetBy(sender, args, n + 1, g)
      BY <2>3 DEF SetBy
    <2> QED BY <2>4
  <1> HIDE DEF N
  <1>3. \A n \in Nat : n \in N
    BY <1>1, <1>2, NaturalInduction
  <1> QED BY <1>3 DEF N

LEMMA AllIsSet ==
  ASSUME AccountIsOK, NEW sender, NEW args \in Seq(Args)
  PROVE  IsSet(sender, SetAll(sender, args))
  <1> DEFINE n == Len(args)
             f == CHOOSE g : SetBy(sender, args, n, g)
             N == {i \in Nat : i <= n => IsSet(sender, f[i])}
  <1>0. n \in Nat
    OBVIOUS
  <1>1. SetAll(sender, args) = f[n]
    BY DEF SetAll, SetBy
  <1>2. SetBy(sender, args, n, f)
    BY <1>0, SetsExist
  <1> HIDE DEF f
  <1>3. 0 \in N
    <2>1. f[0] = expiry
      BY <1>0, <1>2 DEF SetBy
    <2> QED BY <2>1 DEF IsSet, Granted, AccountIsOK
  <1>4. ASSUME NEW i \in Nat, i \in N
        PROVE  i + 1 \in N
    <2> SUFFICES ASSUME i + 1 <= n PROVE IsSet(sender, f[i + 1])
      OBVIOUS
    <2>1. IsSet(sender, f[i])
      BY <1>0, <1>4
    <2>2. i + 1 \in 0 .. n /\ i + 1 # 0 /\ (i + 1) - 1 = i
      BY <1>0
    <2>3. f[i + 1] = SetOne(f[i], sender, args[i + 1])
      BY <1>2, <2>2 DEF SetBy
    <2>4. args[i + 1] \in Args
      BY <2>2
    <2> QED BY <2>1, <2>3, <2>4, SetOneIsSet
  <1> HIDE DEF N, n
  <1>5. \A i \in Nat : i \in N
    BY <1>3, <1>4, NaturalInduction
  <1>6. n \in N
    BY <1>0, <1>5
  <1>7. n <= n
    BY <1>0
  <1> QED BY <1>1, <1>6, <1>7 DEF N

-----------------------------------------------------------------------------
(* Expiries: plans                                                         *)

\* The trades of a plan are of one debt.
PlanTrades(owed) ==
  {t \in Trades : /\ t.toZero /\ t.input # t.output
                  /\ t.owed = owed /\ owed \in {t.input, t.output}}

\* What a trade of the plan does to the debt: nothing, or it goes up, up to
\* nothing, where the expiry goes too.
Reached(s, owed) ==
  /\ s \in States
  /\ \/ s = Now
     \/ wei[owed] < 0 /\ s.expiry = expiry
     \/ wei[owed] < 0 /\ s.wei[owed] = 0 /\ s.expiry = [expiry EXCEPT ![owed] = 0]

LEMMA PlannedReaches ==
  ASSUME AccountIsOK, NEW owed \in Markets, NEW s, Reached(s, owed),
         NEW t \in PlanTrades(owed), Accepted(s, t)
  PROVE  Reached(Traded(s, t), owed)
  <1> DEFINE after == Traded(s, t)
  <1>1. CASE InputWei(s, t) = 0
    BY <1>1 DEF Traded
  <1>2. CASE InputWei(s, t) # 0
    <2>1. /\ s \in States /\ t \in Trades /\ t.input # t.output
          /\ t.owed \in {t.input, t.output} /\ CanTrade(s, t) /\ ClockIsOK
      BY <1>2 DEF Reached, PlanTrades, Accepted, AccountIsOK
    <2>2. PICK held, d \in Markets : Repays(s, t, held, d) /\ Outcome(s, t, held, d)
      BY <1>2, <2>1, TradeRepays
    <2>3. d = owed /\ s.wei[owed] < 0 /\ s.expiry[owed] # 0
      BY <2>2 DEF Repays, PlanTrades
    <2>4. /\ after \in States
          /\ after.expiry = IF after.wei[owed] = 0 THEN [s.expiry EXCEPT ![owed] = 0] ELSE s.expiry
      BY <2>2, <2>3 DEF Outcome
    <2>5. wei[owed] < 0 /\ s.expiry = expiry
      <3>1. CASE s = Now
        BY <2>3, <3>1 DEF Now
      <3>2. CASE wei[owed] < 0 /\ s.expiry = expiry
        BY <3>2
      <3>3. CASE s.wei[owed] = 0
        BY <2>3, <3>3
      <3> QED BY <3>1, <3>2, <3>3 DEF Reached
    <2> HIDE DEF after
    <2>6. Reached(after, owed)
      BY <2>4, <2>5 DEF Reached
    <2> QED BY <2>6 DEF after
  <1> QED BY <1>1, <1>2

AfterOne(before, t) ==
  IF before.accepted /\ Accepted(before.state, t)
  THEN [state |-> Traded(before.state, t), accepted |-> TRUE]
  ELSE [state |-> Now, accepted |-> FALSE]

AfterBy(trades, n, f) ==
  f = [i \in 0 .. n |-> IF i = 0 THEN [state |-> Now, accepted |-> TRUE]
                        ELSE AfterOne(f[i - 1], trades[i])]

LEMMA AftersExist ==
  ASSUME NEW trades
  PROVE  \A n \in Nat : \E f : AfterBy(trades, n, f)
  <1> DEFINE N == {n \in Nat : \E f : AfterBy(trades, n, f)}
             first == [state |-> Now, accepted |-> TRUE]
  <1>1. 0 \in N
    <2>1. AfterBy(trades, 0, [i \in 0 .. 0 |-> first])
      BY DEF AfterBy
    <2> QED BY <2>1
  <1>2. ASSUME NEW n \in Nat, n \in N
        PROVE  n + 1 \in N
    <2>1. PICK f : AfterBy(trades, n, f)
      BY <1>2
    <2> DEFINE g == [i \in 0 .. n + 1 |->
                       IF i = 0 THEN first ELSE AfterOne(f[i - 1], trades[i])]
    <2>2. ASSUME NEW i \in 0 .. n + 1, i # 0
          PROVE  g[i - 1] = f[i - 1]
      <3>1. i - 1 \in 0 .. n /\ i - 1 \in 0 .. n + 1
        BY <2>2
      <3> HIDE DEF first
      <3> QED BY <2>1, <3>1 DEF AfterBy, first
    <2>3. g = [i \in 0 .. n + 1 |->
                 IF i = 0 THEN first ELSE AfterOne(g[i - 1], trades[i])]
      BY <2>2
    <2> HIDE DEF g
    <2>4. AfterBy(trades, n + 1, g)
      BY <2>3 DEF AfterBy
    <2> QED BY <2>4
  <1> HIDE DEF N
  <1>3. \A n \in Nat : n \in N
    BY <1>1, <1>2, NaturalInduction
  <1> QED BY <1>3 DEF N

LEMMA PlanReaches ==
  ASSUME AccountIsOK, NEW owed \in Markets, NEW trades \in Seq(PlanTrades(owed))
  PROVE  Reached(AfterTrades(trades).state, owed)
  <1> DEFINE n == Len(trades)
             f == CHOOSE g : AfterBy(trades, n, g)
             N == {i \in Nat : i <= n => Reached(f[i].state, owed)}
  <1>0. n \in Nat
    OBVIOUS
  <1>1. AfterTrades(trades) = f[n]
    BY DEF AfterTrades, AfterBy, AfterOne
  <1>2. AfterBy(trades, n, f)
    BY <1>0, AftersExist
  <1> HIDE DEF f
  <1>3. Reached(Now, owed)
    BY NowIsState DEF Reached, AccountIsOK
  <1>4. 0 \in N
    <2>1. f[0] = [state |-> Now, accepted |-> TRUE]
      BY <1>0, <1>2 DEF AfterBy
    <2> QED BY <1>3, <2>1
  <1>5. ASSUME NEW i \in Nat, i \in N
        PROVE  i + 1 \in N
    <2> SUFFICES ASSUME i + 1 <= n PROVE Reached(f[i + 1].state, owed)
      OBVIOUS
    <2>1. Reached(f[i].state, owed)
      BY <1>0, <1>5
    <2>2. i + 1 \in 0 .. n /\ i + 1 # 0 /\ (i + 1) - 1 = i
      BY <1>0
    <2>3. f[i + 1] = AfterOne(f[i], trades[i + 1])
      BY <1>2, <2>2 DEF AfterBy
    <2>4. trades[i + 1] \in PlanTrades(owed)
      BY <2>2
    <2>5. CASE f[i].accepted /\ Accepted(f[i].state, trades[i + 1])
      <3>1. Reached(Traded(f[i].state, trades[i + 1]), owed)
        BY <2>1, <2>4, <2>5, PlannedReaches
      <3> QED BY <2>3, <2>5, <3>1 DEF AfterOne
    <2>6. CASE ~(f[i].accepted /\ Accepted(f[i].state, trades[i + 1]))
      BY <1>3, <2>3, <2>6 DEF AfterOne
    <2> QED BY <2>5, <2>6
  <1> HIDE DEF N, n
  <1>6. \A i \in Nat : i \in N
    BY <1>4, <1>5, NaturalInduction
  <1>7. n \in N /\ n <= n
    BY <1>0, <1>6
  <1> QED BY <1>1, <1>7 DEF N

PlannedBy(owed, preferences, n, f) ==
  f = [i \in 0 .. n |-> IF i = 0 THEN [trades |-> <<>>, rest |-> <<1, 1>>]
                        ELSE PlanOne(f[i - 1], preferences[i], owed)]

LEMMA PlansExist ==
  ASSUME NEW owed, NEW preferences
  PROVE  \A n \in Nat : \E f : PlannedBy(owed, preferences, n, f)
  <1> DEFINE N == {n \in Nat : \E f : PlannedBy(owed, preferences, n, f)}
             first == [trades |-> <<>>, rest |-> <<1, 1>>]
  <1>1. 0 \in N
    <2>1. PlannedBy(owed, preferences, 0, [i \in 0 .. 0 |-> first])
      BY DEF PlannedBy
    <2> QED BY <2>1
  <1>2. ASSUME NEW n \in Nat, n \in N
        PROVE  n + 1 \in N
    <2>1. PICK f : PlannedBy(owed, preferences, n, f)
      BY <1>2
    <2> DEFINE g == [i \in 0 .. n + 1 |->
                       IF i = 0 THEN first ELSE PlanOne(f[i - 1], preferences[i], owed)]
    <2>2. ASSUME NEW i \in 0 .. n + 1, i # 0
          PROVE  g[i - 1] = f[i - 1]
      <3>1. i - 1 \in 0 .. n /\ i - 1 \in 0 .. n + 1
        BY <2>2
      <3> HIDE DEF first
      <3> QED BY <2>1, <3>1 DEF PlannedBy, first
    <2>3. g = [i \in 0 .. n + 1 |->
                 IF i = 0 THEN first ELSE PlanOne(g[i - 1], preferences[i], owed)]
      BY <2>2
    <2> HIDE DEF g
    <2>4. PlannedBy(owed, preferences, n + 1, g)
      BY <2>3 DEF PlannedBy
    <2> QED BY <2>4
  <1> HIDE DEF N
  <1>3. \A n \in Nat : n \in N
    BY <1>1, <1>2, NaturalInduction
  <1> QED BY <1>3 DEF N

LEMMA LiquidationTradeIsOfPlan ==
  ASSUME AccountIsOK, NEW held \in Markets, NEW owed \in Markets, held # owed
  PROVE  /\ LiquidationTrade(held, owed, owed) \in PlanTrades(owed)
         /\ LiquidationTrade(owed, held, owed) \in PlanTrades(owed)
  <1>1. expiry[owed] \in Nat /\ 0 \in Int
    BY DEF AccountIsOK
  <1>2. /\ LiquidationTrade(held, owed, owed) \in Trades
        /\ LiquidationTrade(owed, held, owed) \in Trades
    BY <1>1 DEF LiquidationTrade, Trades
  <1> QED BY <1>2 DEF PlanTrades, LiquidationTrade

LEMMA AllIsPlanned ==
  ASSUME AccountIsOK, NEW owed \in Markets, wei[owed] < 0,
         NEW preferences \in Seq(Markets)
  PROVE  Planned(owed, preferences).trades \in Seq(PlanTrades(owed))
  <1> DEFINE n == Len(preferences)
             f == CHOOSE g : PlannedBy(owed, preferences, n, g)
             S == PlanTrades(owed)
             N == {i \in Nat : i <= n => f[i].trades \in Seq(S)}
  <1>0. n \in Nat
    OBVIOUS
  <1>1. Planned(owed, preferences) = f[n]
    BY DEF Planned, PlannedBy
  <1>2. PlannedBy(owed, preferences, n, f)
    BY <1>0, PlansExist
  <1> HIDE DEF f
  <1>3. 0 \in N
    <2>1. f[0] = [trades |-> <<>>, rest |-> <<1, 1>>]
      BY <1>0, <1>2 DEF PlannedBy
    <2> HIDE DEF S
    <2>2. f[0].trades \in Seq(S)
      BY <2>1
    <2> QED BY <2>2
  <1>4. ASSUME NEW i \in Nat, i \in N
        PROVE  i + 1 \in N
    <2> SUFFICES ASSUME i + 1 <= n PROVE f[i + 1].trades \in Seq(S)
      OBVIOUS
    <2> DEFINE held == preferences[i + 1]
               trade == LiquidationTrade(owed, held, owed)
               other == LiquidationTrade(held, owed, owed)
    <2>1. f[i].trades \in Seq(S)
      BY <1>0, <1>4
    <2>2. i + 1 \in 0 .. n /\ i + 1 # 0 /\ (i + 1) - 1 = i
      BY <1>0
    <2>3. f[i + 1] = PlanOne(f[i], held, owed)
      BY <1>2, <2>2 DEF PlannedBy
    <2>4. held \in Markets
      BY <2>2
    <2>5. CASE wei[held] <= 0
      BY <2>1, <2>3, <2>5 DEF PlanOne
    <2>6. CASE ~(wei[held] <= 0)
      <3>1. held # owed
        BY <2>6 DEF AccountIsOK
      <3>2. trade \in S /\ other \in S
        BY <2>4, <3>1, LiquidationTradeIsOfPlan
      <3>3. \/ f[i + 1].trades = f[i].trades
            \/ f[i + 1].trades = Append(f[i].trades, trade)
            \/ f[i + 1].trades = Append(f[i].trades, other)
        BY <2>3 DEF PlanOne
      <3> HIDE DEF trade, other, held, S, N, n
      <3>4. ASSUME NEW e \in S
            PROVE  Append(f[i].trades, e) \in Seq(S)
        <4> DEFINE trades == f[i].trades
        <4>1. trades \in Seq(S)
          BY <2>1
        <4> HIDE DEF trades
        <4>2. Append(trades, e) \in Seq(S)
          BY <3>4, <4>1
        <4> QED BY <4>2 DEF trades
      <3> QED BY <2>1, <3>2, <3>3, <3>4
    <2> QED BY <2>5, <2>6
  <1> HIDE DEF N, n
  <1>5. \A i \in Nat : i \in N
    BY <1>3, <1>4, NaturalInduction
  <1>6. n \in N /\ n <= n
    BY <1>0, <1>5
  <1> QED BY <1>1, <1>6 DEF N

-----------------------------------------------------------------------------
(* Expiries: the invariant and what follows                                *)

PlanIsOK ==
  plan.outcome = "waiting" =>
    plan.owed \in Markets /\ plan.trades \in Seq(PlanTrades(plan.owed))

ExpiryInv == AccountIsOK /\ PlanIsOK

LEMMA ExpiryInitially ==
  ASSUME ExpiryInit
  PROVE  ExpiryInv
  <1>1. wei \in [Markets -> Int]
    <2>1. \A m \in Markets : wei[m] \in Balances[m] /\ Balances[m] \subseteq Int
      BY ExpiryAssumption DEF ExpiryInit
    <2>2. wei \in [Markets -> UNION {Balances[m] : m \in Markets}]
      BY DEF ExpiryInit
    <2> QED BY <2>1, <2>2
  <1>2. rampTime \in Nat
    BY ExpiryAssumption DEF ExpiryInit
  <1> QED BY <1>1, <1>2 DEF ExpiryInit, ExpiryInv, AccountIsOK, ClockIsOK, PlanIsOK, NoPlan

LEMMA OrdersAreArgs == \A args \in Orders : args \in Seq(Args)
  BY ExpiryAssumption DEF Args

LEMMA SettingKeeps ==
  ASSUME ExpiryInv, SetNext
  PROVE  ExpiryInv'
  <1>1. ASSUME NEW sender \in {Owner, Friend}, NEW args \in Orders,
               CallFunctionSetExpiry(sender, args)
        PROVE  ExpiryInv'
    <2>1. IsSet(sender, SetAll(sender, args))
      BY OrdersAreArgs, AllIsSet DEF ExpiryInv
    <2> QED BY <1>1, <2>1 DEF CallFunctionSetExpiry, IsSet, ExpiryInv, AccountIsOK, ClockIsOK, PlanIsOK
  <1>2. ASSUME NEW minTimeDelta \in Deltas, SetApproval(minTimeDelta)
        PROVE  ExpiryInv'
    BY <1>2, ExpiryAssumption DEF SetApproval, ExpiryInv, AccountIsOK, ClockIsOK, PlanIsOK
  <1>3. ASSUME NEW newRampTime \in RampTimes, OwnerSetExpiryRampTime(newRampTime)
        PROVE  ExpiryInv'
    BY <1>3, ExpiryAssumption
       DEF OwnerSetExpiryRampTime, ExpiryInv, AccountIsOK, ClockIsOK, PlanIsOK
  <1>4. ASSUME NEW m \in Markets, NEW balance \in Balances[m], Rebalance(m, balance)
        PROVE  ExpiryInv'
    <2>1. balance \in Int
      BY ExpiryAssumption
    <2>2. wei' = [wei EXCEPT ![m] = balance] /\ expiry' = expiry
      BY <1>4 DEF Rebalance, Apply, Now
    <2> QED BY <1>4, <2>1, <2>2 DEF Rebalance, ExpiryInv, AccountIsOK, ClockIsOK, PlanIsOK
  <1>5. ASSUME Tick
        PROVE  ExpiryInv'
    BY <1>5 DEF Tick, ExpiryInv, AccountIsOK, ClockIsOK, PlanIsOK
  <1> QED BY <1>1, <1>2, <1>3, <1>4, <1>5 DEF SetNext

(***************************************************************************)
(* A trade of the next-state relation is of two markets and changes        *)
(* nothing, or is fair.                                                    *)
(***************************************************************************)
TradeOutcome(t) ==
  \/ Now' = Now
  \/ \E held, owed \in Markets :
       /\ Repays(Now, t, held, owed) /\ Outcome(Now, t, held, owed)
       /\ Now' = Traded(Now, t)

LEMMA TradesHaveOutcomes ==
  ASSUME ExpiryInv, TradeNext
  PROVE  /\ \E t \in Trades : TradeOutcome(t)
         /\ UNCHANGED <<approved, rampTime, now, plan>>
  <1>0. PICK input \in Markets, output \in Markets, x \in Inputs :
          \E owed \in {input, output} :
            Trade([input |-> input, output |-> output, owed |-> owed,
                   toZero |-> x.toZero, amount |-> x.amount, maxExpiry |-> MaxUint32])
    BY DEF TradeNext
  <1>1. PICK owed \in {input, output} :
          Trade([input |-> input, output |-> output, owed |-> owed,
                 toZero |-> x.toZero, amount |-> x.amount, maxExpiry |-> MaxUint32])
    BY <1>0
  <1> DEFINE t == [input |-> input, output |-> output, owed |-> owed,
                   toZero |-> x.toZero, amount |-> x.amount, maxExpiry |-> MaxUint32]
  <1>2. t \in Trades
    BY ExpiryAssumption DEF Trades
  <1>3. /\ t.input # t.output /\ t.owed \in {t.input, t.output}
        /\ Accepted(Now, t)
        /\ Now' = [wei |-> Traded(Now, t).wei, expiry |-> Traded(Now, t).expiry]
        /\ UNCHANGED <<approved, rampTime, now, plan>>
    BY <1>1 DEF Trade, Apply, Now
  <1> HIDE DEF t
  <1>4. Now \in States /\ ClockIsOK
    BY NowIsState DEF ExpiryInv, AccountIsOK
  <1>5. CASE InputWei(Now, t) = 0
    <2>1. Now' = Now
      BY <1>3, <1>5 DEF Traded, Now
    <2> QED BY <1>2, <1>3, <2>1 DEF TradeOutcome
  <1>6. CASE InputWei(Now, t) # 0
    <2>1. CanTrade(Now, t)
      BY <1>3, <1>6 DEF Accepted
    <2>2. PICK held, d \in Markets : Repays(Now, t, held, d) /\ Outcome(Now, t, held, d)
      BY <1>2, <1>3, <1>4, <1>6, <2>1, TradeRepays
    <2>3. Traded(Now, t) \in States
      BY <2>2 DEF Outcome
    <2>4. Now' = Traded(Now, t)
      BY <1>3, <2>3 DEF States
    <2> QED BY <1>2, <1>3, <2>2, <2>4 DEF TradeOutcome
  <1> QED BY <1>5, <1>6

LEMMA StateIsNow ==
  ASSUME NEW s \in States, wei' = s.wei, expiry' = s.expiry
  PROVE  wei' \in [Markets -> Int] /\ expiry' \in [Markets -> Nat]
  BY DEF States

LEMMA TradingKeeps ==
  ASSUME ExpiryInv, TradeNext
  PROVE  ExpiryInv'
  <1>1. PICK t \in Trades : TradeOutcome(t)
    BY TradesHaveOutcomes
  <1>2. UNCHANGED <<approved, rampTime, now, plan>>
    BY TradesHaveOutcomes
  <1>3. wei' \in [Markets -> Int] /\ expiry' \in [Markets -> Nat]
    <2>1. CASE Now' = Now
      BY <2>1 DEF Now, ExpiryInv, AccountIsOK
    <2>2. CASE Now' # Now
      <3>1. Traded(Now, t) \in States /\ Now' = Traded(Now, t)
        BY <1>1, <2>2 DEF TradeOutcome, Outcome
      <3>2. wei' = Traded(Now, t).wei /\ expiry' = Traded(Now, t).expiry
        BY <3>1 DEF Now
      <3> QED BY <3>1, <3>2, StateIsNow
    <2> QED BY <2>1, <2>2
  <1> QED BY <1>2, <1>3 DEF ExpiryInv, AccountIsOK, ClockIsOK, PlanIsOK

LEMMA MiningReaches ==
  ASSUME ExpiryInv, Mine
  PROVE  /\ \E owed \in Markets : Reached(Now', owed)
         /\ UNCHANGED <<approved, rampTime, now>>
         /\ plan'.outcome # "waiting"
  <1> DEFINE after == AfterTrades(plan.trades)
  <1>1. /\ plan.outcome = "waiting"
        /\ wei' = after.state.wei /\ expiry' = after.state.expiry
        /\ plan' = [NoPlan EXCEPT !.outcome = IF after.accepted THEN "mined" ELSE "reverted"]
        /\ UNCHANGED <<approved, rampTime, now>>
    BY DEF Mine, Apply
  <1>2. plan.owed \in Markets /\ plan.trades \in Seq(PlanTrades(plan.owed))
    BY <1>1 DEF ExpiryInv, PlanIsOK
  <1>3. Reached(after.state, plan.owed)
    BY <1>2, PlanReaches DEF ExpiryInv
  <1> HIDE DEF after
  <1>4. after.state \in States
    BY <1>3 DEF Reached
  <1>5. Now' = after.state
    BY <1>1, <1>4 DEF Now, States
  <1>6. plan'.outcome # "waiting"
    BY <1>1 DEF NoPlan
  <1> QED BY <1>1, <1>2, <1>3, <1>5, <1>6

LEMMA PlanningKeeps ==
  ASSUME ExpiryInv, ClientNext
  PROVE  ExpiryInv'
  <1>1. ASSUME NEW owed \in Markets, NEW preferences \in Preferences,
               FullyLiquidate(owed, preferences)
        PROVE  ExpiryInv'
    <2>1. wei[owed] < 0 /\ preferences \in Seq(Markets)
      BY <1>1, ExpiryAssumption DEF FullyLiquidate
    <2>2. Planned(owed, preferences).trades \in Seq(PlanTrades(owed))
      BY <2>1, AllIsPlanned DEF ExpiryInv
    <2>3. plan'.trades = Planned(owed, preferences).trades /\ plan'.owed = owed
      BY <1>1 DEF FullyLiquidate
    <2>4. plan'.trades \in Seq(PlanTrades(plan'.owed))
      BY <2>2, <2>3
    <2>5. PlanIsOK'
      BY <2>3, <2>4 DEF PlanIsOK
    <2> QED BY <1>1, <2>5 DEF FullyLiquidate, ExpiryInv, AccountIsOK, ClockIsOK
  <1>2. ASSUME Mine
        PROVE  ExpiryInv'
    <2>1. PICK owed \in Markets : Reached(Now', owed)
      BY <1>2, MiningReaches
    <2>2. wei' \in [Markets -> Int] /\ expiry' \in [Markets -> Nat]
      BY <2>1 DEF Reached, States, Now
    <2>3. UNCHANGED <<approved, rampTime, now>> /\ plan'.outcome # "waiting"
      BY <1>2, MiningReaches
    <2> QED BY <2>2, <2>3 DEF ExpiryInv, AccountIsOK, ClockIsOK, PlanIsOK
  <1> QED BY <1>1, <1>2 DEF ClientNext

LEMMA ExpiryInvIsKept ==
  ASSUME ExpiryInv, [ExpiryNext]_expiryVars
  PROVE  ExpiryInv'
  <1>1. CASE UNCHANGED expiryVars
    BY <1>1 DEF expiryVars, ExpiryInv, AccountIsOK, ClockIsOK, PlanIsOK, PlanTrades
  <1> QED BY <1>1, SettingKeeps, TradingKeeps, PlanningKeeps DEF ExpiryNext

(***************************************************************************)
(* Through settings, trades, plans and what other operations do: balances, *)
(* expiries and times are numbers, and the trades of a waiting plan are    *)
(* all of one debt.                                                        *)
(***************************************************************************)
THEOREM ExpiryIsInductive == ExpirySpec => []ExpiryInv
  <1>1. ExpiryInit => ExpiryInv
    BY ExpiryInitially
  <1>2. ExpiryInv /\ [ExpiryNext]_expiryVars => ExpiryInv'
    BY ExpiryInvIsKept
  <1> QED BY <1>1, <1>2, PTL DEF ExpirySpec

LEMMA FriendsMoveWhatIsGranted ==
  ASSUME ExpiryInv, NEW m \in Markets, expiry'[m] # expiry[m],
         NEW args \in Orders, CallFunctionSetExpiry(Friend, args)
  PROVE  /\ approved # 0
         /\ IF expiry'[m] = 0 THEN wei[m] >= 0
            ELSE expiry'[m] >= now + approved /\ wei[m] < 0
  <1>1. IsSet(Friend, SetAll(Friend, args))
    BY OrdersAreArgs, AllIsSet DEF ExpiryInv
  <1>2. Granted(m, expiry[m], expiry'[m])
    BY <1>1 DEF IsSet, CallFunctionSetExpiry
  <1> QED BY <1>2 DEF Granted

LEMMA ExpiriesGoWithTheDebt ==
  ASSUME ExpiryInv, NEW m \in Markets, expiry'[m] # expiry[m], TradeNext \/ Mine
  PROVE  wei[m] < 0 /\ wei'[m] = 0 /\ expiry'[m] = 0
  <1>0. expiry \in [Markets -> Nat]
    BY DEF ExpiryInv, AccountIsOK
  <1>1. CASE TradeNext
    <2>1. PICK t \in Trades : TradeOutcome(t)
      BY <1>1, TradesHaveOutcomes
    <2>2. Now' # Now
      BY DEF Now
    <2>3. PICK held, owed \in Markets :
            /\ Repays(Now, t, held, owed) /\ Outcome(Now, t, held, owed)
            /\ Now' = Traded(Now, t)
      BY <2>1, <2>2 DEF TradeOutcome
    <2>4. wei' = Traded(Now, t).wei /\ expiry' = Traded(Now, t).expiry
      BY <2>3 DEF Now
    <2>5. expiry' = IF wei'[owed] = 0 THEN [expiry EXCEPT ![owed] = 0] ELSE expiry
      BY <2>3, <2>4 DEF Outcome, Now
    <2>6. wei[owed] < 0
      BY <2>3 DEF Repays, Now
    <2> QED BY <1>0, <2>5, <2>6
  <1>2. CASE Mine
    <2>1. PICK owed \in Markets : Reached(Now', owed)
      BY <1>2, MiningReaches
    <2>2. Now' # Now
      BY DEF Now
    <2>3. wei[owed] < 0 /\ wei'[owed] = 0 /\ expiry' = [expiry EXCEPT ![owed] = 0]
      BY <2>1, <2>2 DEF Reached, Now
    <2> QED BY <1>0, <2>3
  <1> QED BY <1>1, <1>2

LEMMA OnlySettingMovesAlone ==
  ASSUME ExpiryInv, [ExpiryNext]_expiryVars, NEW m \in Markets, expiry'[m] # expiry[m]
  PROVE  UNCHANGED wei \/ TradeNext \/ Mine
  <1>1. CASE SetNext
    <2>1. ASSUME NEW sender \in {Owner, Friend}, NEW args \in Orders,
                 CallFunctionSetExpiry(sender, args)
          PROVE  UNCHANGED wei
      BY <2>1 DEF CallFunctionSetExpiry
    <2>2. ASSUME NEW n \in Markets, NEW balance \in Balances[n], Rebalance(n, balance)
          PROVE  FALSE
      BY <2>2 DEF Rebalance, Apply, Now
    <2> QED BY <1>1, <2>1, <2>2 DEF SetNext, SetApproval, OwnerSetExpiryRampTime, Tick
  <1>2. CASE ClientNext
    BY <1>2 DEF ClientNext, FullyLiquidate
  <1>3. CASE UNCHANGED expiryVars
    BY <1>3 DEF expiryVars
  <1> QED BY <1>1, <1>2, <1>3 DEF ExpiryNext

(***************************************************************************)
(* A friend moves an expiry only where he was approved and there is a debt *)
(* and never to less than the time he was granted; trades and plans clear  *)
(* it, with the debt; and nothing else that changes a balance moves it: for *)
(* any orders, amounts, prices, spreads and times.                         *)
(***************************************************************************)
THEOREM ExpiriesNeedConsent == ExpirySpec => ExpiriesAreConsented
  <1> DEFINE IsConsented ==
        \A m \in Markets :
          expiry'[m] # expiry[m] =>
            /\ (\E args \in Orders : CallFunctionSetExpiry(Friend, args)) =>
                 /\ approved # 0
                 /\ IF expiry'[m] = 0 THEN wei[m] >= 0
                    ELSE expiry'[m] >= now + approved /\ wei[m] < 0
            /\ TradeNext \/ Mine => wei[m] < 0 /\ wei'[m] = 0 /\ expiry'[m] = 0
            /\ UNCHANGED wei \/ TradeNext \/ Mine
  <1>1. ASSUME ExpiryInv, [ExpiryNext]_expiryVars
        PROVE  IsConsented
    <2> SUFFICES ASSUME NEW m \in Markets, expiry'[m] # expiry[m]
                 PROVE  /\ (\E args \in Orders : CallFunctionSetExpiry(Friend, args)) =>
                             /\ approved # 0
                             /\ IF expiry'[m] = 0 THEN wei[m] >= 0
                                ELSE expiry'[m] >= now + approved /\ wei[m] < 0
                        /\ TradeNext \/ Mine => wei[m] < 0 /\ wei'[m] = 0 /\ expiry'[m] = 0
                        /\ UNCHANGED wei \/ TradeNext \/ Mine
      OBVIOUS
    <2> QED BY <1>1, FriendsMoveWhatIsGranted, ExpiriesGoWithTheDebt, OnlySettingMovesAlone
  <1> QED BY <1>1, ExpiryIsInductive, PTL DEF ExpirySpec, ExpiriesAreConsented

(***************************************************************************)
(* However a trade of an expired account is asked for, its debt has        *)
(* expired and is not overpaid, its collateral is not overdrawn, what is   *)
(* taken is worth no more than what is repaid with the spread that the age *)
(* allows, and no expiry stays behind: for any prices, spreads, amounts    *)
(* and ramps.                                                              *)
(***************************************************************************)
THEOREM RepaymentsAreFair == ExpirySpec => TradesAreFair
  <1> DEFINE IsFair ==
        \/ wei' = wei
        \/ \E held, owed \in Markets :
             /\ \A m \in Markets \ {held, owed} : wei'[m] = wei[m]
             /\ expiry[owed] # 0 /\ expiry[owed] <= now
             /\ wei'[owed] = 0 => expiry'[owed] = 0
             /\ TradeIsFair(held, owed)
        \/ ~TradeNext
  <1>1. ASSUME ExpiryInv, TradeNext, wei' # wei
        PROVE  IsFair
    <2>1. PICK t \in Trades : TradeOutcome(t)
      BY <1>1, TradesHaveOutcomes
    <2>2. PICK held \in Markets, owed \in Markets :
            /\ Repays(Now, t, held, owed) /\ Outcome(Now, t, held, owed)
            /\ Now' = Traded(Now, t)
      BY <1>1, <2>1 DEF TradeOutcome, Now
    <2>3. wei' = Traded(Now, t).wei /\ expiry' = Traded(Now, t).expiry
      BY <2>2 DEF Now
    <2> DEFINE amounts == Amounts(Now, t, held, owed)
    <2>4. /\ amounts.repaid \in Nat /\ amounts.taken \in Nat
          /\ amounts.taken * Price[held]
               <= amounts.repaid * AdjustedOwedPrice(held, owed, expiry[owed])
          /\ wei'[owed] = wei[owed] + amounts.repaid /\ wei'[owed] <= 0
          /\ wei'[held] = wei[held] - amounts.taken /\ wei'[held] >= 0
          /\ \A m \in Markets \ {held, owed} : wei'[m] = wei[m]
          /\ expiry' = IF wei'[owed] = 0 THEN [expiry EXCEPT ![owed] = 0] ELSE expiry
      BY <2>2, <2>3 DEF Outcome, Now
    <2>5. expiry[owed] # 0 /\ expiry[owed] <= now
      BY <2>2 DEF Repays, Now
    <2> HIDE DEF amounts
    <2>6. /\ ClockIsOK /\ expiry \in [Markets -> Nat]
          /\ wei[owed] \in Int /\ wei[held] \in Int
      BY <1>1 DEF ExpiryInv, AccountIsOK
    <2>7. wei'[owed] - wei[owed] = amounts.repaid /\ wei[held] - wei'[held] = amounts.taken
      BY <2>4, <2>6
    <2>8. expiry[owed] \in Nat
      BY <2>6
    <2>9. LET ramp == Least(ExpiryAge(now, expiry[owed]), rampTime)
              spread == Spread[<<held, owed>>]
          IN  IF rampTime = 0
              THEN amounts.taken * Price[held] * Base
                     <= amounts.repaid * Price[owed] * (Base + spread)
              ELSE amounts.taken * Price[held] * Base * rampTime
                     <= amounts.repaid * Price[owed] * (Base * rampTime + spread * ramp)
      BY <2>4, <2>6, <2>8, WorthIsFair
    <2>10. TradeIsFair(held, owed)
      BY <2>4, <2>7, <2>9 DEF TradeIsFair
    <2>11. wei'[owed] = 0 => expiry'[owed] = 0
      BY <2>4, <2>6
    <2> QED BY <2>4, <2>5, <2>10, <2>11
  <1>2. ASSUME ExpiryInv, [ExpiryNext]_expiryVars
        PROVE  IsFair
    BY <1>1, <1>2
  <1> QED BY <1>2, ExpiryIsInductive, PTL DEF ExpirySpec, TradesAreFair

-----------------------------------------------------------------------------
(* Expiries: late plans                                                    *)

(***************************************************************************)
(* The loop of fullyLiquidateExpiredAccount on what it has read, with the  *)
(* share of the ramp that was over.                                        *)
(***************************************************************************)
Debt(read, owed) == -read.wei[owed]

HeldWorth(read, held) == read.wei[held] * Price[held] * Base

OwedPrice(held, owed) == Price[owed] * (Base + Spread[<<held, owed>>])

PlanOneAt(read, ramp, planned, held, owed) ==
  LET heldValue == HeldWorth(read, held) * ClientRampTime
      owedValue == Debt(read, owed) * OwedPrice(held, owed) * ramp
      more == heldValue * planned.rest[2]
      less == owedValue * planned.rest[1]
      trade(input, output) ==
        [input |-> input, output |-> output, owed |-> owed, toZero |-> TRUE,
         amount |-> 0, maxExpiry |-> read.expiry[owed]]
  IN  IF planned.rest[1] = 0 \/ read.wei[held] <= 0 THEN planned
      ELSE IF more > less
      THEN [trades |-> Append(planned.trades, trade(owed, held)), rest |-> <<0, 1>>]
      ELSE [trades |-> Append(planned.trades, trade(held, owed)),
            rest |-> <<less - more, owedValue * planned.rest[2]>>]

RampAt(read, owed, time) == Least(ExpiryAge(time, read.expiry[owed]), ClientRampTime)

MadeBy(read, ramp, owed, preferences, f) ==
  f = [i \in 0 .. Len(preferences) |->
         IF i = 0 THEN [trades |-> <<>>, rest |-> <<1, 1>>]
         ELSE PlanOneAt(read, ramp, f[i - 1], preferences[i], owed)]

PositivesOf(read, preferences) ==
  {i \in DOMAIN preferences : read.wei[preferences[i]] > 0}

IsMadeOf(p, preferences, f) ==
  /\ MadeBy(p.read, RampAt(p.read, p.owed, p.at), p.owed, preferences, f)
  /\ p.trades = f[Len(preferences)].trades
  /\ p.expected = IF f[Len(preferences)].rest[1] = 0 THEN {p.owed}
                  ELSE {preferences[i] : i \in PositivesOf(p.read, preferences)}

IsMade(p) ==
  /\ p.owed \in Markets /\ p.read \in States /\ p.at \in Nat
  /\ p.read.wei[p.owed] < 0 /\ p.read.expiry[p.owed] # 0
  /\ \E preferences \in Preferences : \E f : IsMadeOf(p, preferences, f)

PlanIsMade == plan.outcome = "waiting" => IsMade(plan) /\ plan.at <= now

LEMMA RestIsOfNumbers ==
  ASSUME NEW w \in Int, NEW d \in Int, NEW a \in Int, NEW b \in Int, NEW c \in Int
  PROVE  /\ w * a * b * c = w * a * c * b
         /\ -d * a * b * c = (-d) * (a * c) * b
  <1>1. w * a * b * c = w * a * c * b
    BY SMT
  <1>2. -d * a * b * c = (-d) * (a * c) * b
    BY SMT
  <1> QED BY <1>1, <1>2

LEMMA PlanOneIsAt ==
  ASSUME AccountIsOK, NEW planned, NEW held \in Markets, NEW owed \in Markets
  PROVE  PlanOne(planned, held, owed)
           = PlanOneAt(Now, RampAt(Now, owed, now), planned, held, owed)
  <1> DEFINE ramp == RampAt(Now, owed, now)
  <1>1. /\ wei[held] \in Int /\ wei[owed] \in Int /\ Price[held] \in Int /\ Price[owed] \in Int
        /\ ClientRampTime \in Int /\ Base \in Int /\ Spread[<<held, owed>>] \in Int
    BY PriceIsPositive, SpreadIsNat, BaseIsPositive, ExpiryAssumption DEF AccountIsOK
  <1>2. ramp = Least(ExpiryAge(now, expiry[owed]), ClientRampTime)
    BY DEF RampAt, Now
  <1>3. ramp \in Int
    <2>1. ExpiryAge(now, expiry[owed]) \in Int
      BY AgeIsNat DEF AccountIsOK
    <2> QED BY <1>1, <1>2, <2>1 DEF Least
  <1> HIDE DEF ramp
  <1>4. HeldValue(held) = HeldWorth(Now, held) * ClientRampTime
    BY <1>1, RestIsOfNumbers DEF HeldValue, HeldWorth, Now
  <1>5. OwedValue(held, owed) = Debt(Now, owed) * OwedPrice(held, owed) * ramp
    <2>1. Base + Spread[<<held, owed>>] \in Int
      BY <1>1
    <2> QED BY <1>1, <1>2, <1>3, <2>1, RestIsOfNumbers DEF OwedValue, Debt, OwedPrice, Now
  <1>6. /\ Now.wei = wei /\ Now.expiry = expiry
    BY DEF Now
  <1> QED BY <1>4, <1>5, <1>6 DEF PlanOne, PlanOneAt, LiquidationTrade, ramp

LEMMA PlanningMakes ==
  ASSUME ExpiryInv, NEW owed \in Markets, NEW preferences \in Preferences,
         FullyLiquidate(owed, preferences)
  PROVE  IsMade(plan') /\ plan'.at = now
  <1> DEFINE n == Len(preferences)
             f == CHOOSE g : PlannedBy(owed, preferences, n, g)
             p == [trades |-> Planned(owed, preferences).trades, read |-> Now, at |-> now,
                   expected |-> IF Planned(owed, preferences).rest[1] = 0 THEN {owed}
                                ELSE {preferences[i] : i \in Positives(preferences)},
                   owed |-> owed, outcome |-> "waiting"]
  <1>0. n \in Nat /\ preferences \in Seq(Markets)
    BY ExpiryAssumption
  <1>1. plan' = p /\ wei[owed] < 0 /\ expiry[owed] # 0
    BY DEF FullyLiquidate
  <1>2. Planned(owed, preferences) = f[n]
    BY DEF Planned, PlannedBy
  <1>3. PlannedBy(owed, preferences, n, f)
    BY <1>0, PlansExist
  <1> HIDE DEF f
  <1>4. MadeBy(Now, RampAt(Now, owed, now), owed, preferences, f)
    <2>1. \A i \in 1 .. n : preferences[i] \in Markets
      BY <1>0
    <2>2. \A i \in 1 .. n : \A x :
            PlanOne(x, preferences[i], owed)
              = PlanOneAt(Now, RampAt(Now, owed, now), x, preferences[i], owed)
      BY <2>1, PlanOneIsAt DEF ExpiryInv
    <2>3. \A i \in 0 .. n : i # 0 => i \in 1 .. n
      BY <1>0
    <2> DEFINE g == [i \in 0 .. n |->
                       IF i = 0 THEN [trades |-> <<>>, rest |-> <<1, 1>>]
                       ELSE PlanOneAt(Now, RampAt(Now, owed, now), f[i - 1], preferences[i], owed)]
    <2>4. f = g
      BY <1>3, <2>2, <2>3 DEF PlannedBy
    <2> QED BY <2>4 DEF MadeBy
  <1>5. PositivesOf(Now, preferences) = Positives(preferences)
    BY DEF PositivesOf, Positives, Now
  <1>6. IsMadeOf(p, preferences, f)
    <2>1. /\ p.read = Now /\ p.owed = owed /\ p.at = now
          /\ p.trades = Planned(owed, preferences).trades
          /\ p.expected = IF Planned(owed, preferences).rest[1] = 0 THEN {owed}
                          ELSE {preferences[i] : i \in Positives(preferences)}
      OBVIOUS
    <2> HIDE DEF p, n
    <2> QED BY <1>2, <1>4, <1>5, <2>1 DEF IsMadeOf, n
  <1>7. Now \in States /\ now \in Nat
    BY NowIsState DEF ExpiryInv, AccountIsOK, ClockIsOK
  <1>8. IsMade(p)
    <2>1. p.read = Now /\ p.owed = owed /\ p.at = now
      OBVIOUS
    <2>2. Now.wei[owed] < 0 /\ Now.expiry[owed] # 0
      BY <1>1 DEF Now
    <2> HIDE DEF p
    <2> QED BY <1>6, <1>7, <2>1, <2>2 DEF IsMade
  <1> QED BY <1>1, <1>8

LEMMA PlanStaysMade ==
  ASSUME ExpiryInv, PlanIsMade, [ExpiryNext]_expiryVars
  PROVE  PlanIsMade'
  <1>1. ASSUME plan' = plan, now' \in {now, now + 1}
        PROVE  PlanIsMade'
    <2>1. plan.outcome = "waiting" => plan.at \in Nat /\ plan.at <= now
      BY DEF PlanIsMade, IsMade
    <2>2. now \in Nat
      BY DEF ExpiryInv, AccountIsOK, ClockIsOK
    <2> QED BY <1>1, <2>1, <2>2 DEF PlanIsMade
  <1>2. CASE SetNext
    BY <1>1, <1>2 DEF SetNext, CallFunctionSetExpiry, SetApproval, OwnerSetExpiryRampTime,
       Rebalance, Tick
  <1>3. CASE TradeNext
    BY <1>1, <1>3 DEF TradeNext, Trade
  <1>4. ASSUME NEW owed \in Markets, NEW preferences \in Preferences,
               FullyLiquidate(owed, preferences)
        PROVE  PlanIsMade'
    <2>1. IsMade(plan') /\ plan'.at = now /\ now' = now
      BY <1>4, PlanningMakes DEF FullyLiquidate
    <2>2. now \in Nat
      BY DEF ExpiryInv, AccountIsOK, ClockIsOK
    <2> QED BY <2>1, <2>2 DEF PlanIsMade
  <1>5. CASE Mine
    BY <1>5, MiningReaches DEF PlanIsMade
  <1>6. CASE UNCHANGED expiryVars
    BY <1>1, <1>6 DEF expiryVars
  <1> QED BY <1>2, <1>3, <1>4, <1>5, <1>6 DEF ExpiryNext, ClientNext

(***************************************************************************)
(* Once the ramp is over, the price of a trade is the one the client takes *)
(* it to be, rounded down.                                                 *)
(***************************************************************************)
LEMMA OwedPriceIsPositive ==
  ASSUME NEW held \in Markets, NEW owed \in Markets
  PROVE  OwedPrice(held, owed) \in Nat \ {0}
  <1> DEFINE p == Price[owed]
             q == Base + Spread[<<held, owed>>]
  <1>1. p \in Nat \ {0} /\ q \in Nat \ {0}
    BY PriceIsPositive, SpreadIsNat, BaseIsPositive
  <1> HIDE DEF p, q
  <1>2. p * q \in Nat \ {0}
    BY <1>1, SMT
  <1> QED BY <1>2 DEF OwedPrice, p, q

LEMMA LatePrice ==
  ASSUME ClockIsOK, NEW held \in Markets, NEW owed \in Markets, NEW since \in Nat,
         since + rampTime <= now
  PROVE  /\ AdjustedOwedPrice(held, owed, since) \in Nat \ {0}
         /\ AdjustedOwedPrice(held, owed, since) * Base <= OwedPrice(held, owed)
  <1> DEFINE price == AdjustedOwedPrice(held, owed, since)
             spread == Spread[<<held, owed>>]
             p == Price[owed]
             more == GetPartial(p, spread, Base)
  <1>1. p \in Nat \ {0} /\ spread \in Nat /\ Base \in Nat \ {0}
    BY PriceIsPositive, SpreadIsNat, BaseIsPositive
  <1>2. ~(ExpiryAge(now, since) < rampTime)
    BY DEF ExpiryAge, ClockIsOK
  <1>3. price = p + more
    BY <1>2 DEF AdjustedOwedPrice, DecimalMul
  <1> HIDE DEF p, spread, price
  <1>4. more \in Nat /\ more * Base <= p * spread
    BY <1>1, GetPartialIsNat, PartialIsPaid
  <1> HIDE DEF more
  <1>5. price \in Nat \ {0}
    BY <1>1, <1>3, <1>4
  <1> DEFINE x == more * Base
             y == p * spread
             z == p * Base
  <1>6. x \in Nat /\ y \in Nat /\ z \in Nat /\ x <= y
    BY <1>1, <1>4, ProductIsNat
  <1>7. price * Base = z + x
    BY <1>1, <1>3, <1>4, SMT
  <1>8. p * (Base + spread) = z + y
    BY <1>1, SMT
  <1> HIDE DEF x, y, z
  <1>9. z + x <= z + y
    BY <1>6
  <1> QED BY <1>5, <1>7, <1>8, <1>9 DEF OwedPrice, price, p, spread

(***************************************************************************)
(* The rest that the client takes to remain is never less than the debt    *)
(* that remains: d of a debt D, after the worth x of one more collateral,  *)
(* for which c is repaid.                                                  *)
(***************************************************************************)
LEMMA ScaleBoth ==
  ASSUME NEW a \in Nat, NEW b \in Nat, NEW x \in Nat, NEW y \in Nat, a <= b, x <= y
  PROVE  a * x <= b * y
  <1> DEFINE u == a * x
             v == b * x
             w == b * y
  <1>1. u \in Nat /\ v \in Nat /\ w \in Nat
    BY ProductIsNat
  <1>2. u <= v
    BY ScaleUp
  <1>3. x * b <= y * b
    BY ScaleUp
  <1>4. v = x * b /\ w = y * b
    BY SMT
  <1> HIDE DEF u, v, w
  <1>5. u <= w
    BY <1>1, <1>2, <1>3, <1>4
  <1> QED BY <1>5 DEF u, w

LEMMA RestShrinks ==
  ASSUME NEW total \in Nat \ {0}, NEW debt \in Nat, NEW repaid \in Nat, repaid <= debt,
         NEW price \in Nat \ {0}, NEW worth \in Nat, worth <= repaid * price,
         NEW r1 \in Nat, NEW r2 \in Nat \ {0}, debt * r2 <= total * r1,
         worth * r2 <= (total * price) * r1
  PROVE  LET s1 == (total * price) * r1 - worth * r2
             s2 == (total * price) * r2
         IN  /\ s1 \in Nat /\ s2 \in Nat \ {0}
             /\ (debt - repaid) * s2 <= total * s1
  <1> DEFINE a == debt * r2
             b == total * r1
             k == repaid * price
             u == a * price
             v == b * price
             g == worth * r2
             h == k * r2
             s1 == (total * price) * r1 - worth * r2
             s2 == (total * price) * r2
  <1>1. a \in Nat /\ b \in Nat /\ k \in Nat /\ g \in Nat /\ a <= b /\ worth <= k
    BY ProductIsNat
  <1>2. (total * price) * r1 = v
    BY SMT
  <1>3. s2 \in Nat \ {0}
    <2>1. total * price \in Nat \ {0}
      BY SMT
    <2> DEFINE o == total * price
    <2>2. o \in Nat \ {0}
      BY <2>1
    <2> HIDE DEF o
    <2>3. o * r2 \in Nat \ {0}
      BY <2>2, SMT
    <2> QED BY <2>3 DEF o
  <1>4. (debt - repaid) * s2 = total * (u - h)
    BY SMT
  <1> HIDE DEF a, b, k, s2
  <1>5. u \in Nat /\ v \in Nat /\ h \in Nat /\ u <= v /\ g <= h
    BY <1>1, ProductIsNat, ScaleUp
  <1>6. s1 = v - g
    BY <1>2
  <1> HIDE DEF u, v, g, h, s1
  <1>7. s1 \in Nat
    <2>1. g <= v
      BY <1>2 DEF g
    <2> QED BY <1>1, <1>5, <1>6, <2>1
  <1>8. u - h <= s1 /\ u - h \in Int
    BY <1>1, <1>5, <1>6
  <1>9. total * (u - h) <= total * s1
    <2> DEFINE i == u - h
               j == s1 - i
    <2>1. j \in Nat /\ i \in Int
      BY <1>7, <1>8
    <2>2. total * s1 = total * i + total * j
      <3>1. s1 = i + j
        BY <1>7, <1>8
      <3> HIDE DEF i, j
      <3> QED BY <2>1, <3>1, SMT
    <2> HIDE DEF i, j
    <2>3. total * j \in Nat /\ total * i \in Int
      BY <2>1, ProductIsNat
    <2>4. total * i <= total * s1
      BY <2>2, <2>3
    <2> QED BY <2>4 DEF i
  <1> QED BY <1>3, <1>4, <1>7, <1>9 DEF s1, s2

\* And where the collateral is worth more than the rest, it is enough for the
\* debt.
LEMMA LastIsCovered ==
  ASSUME NEW total \in Nat \ {0}, NEW debt \in Nat,
         NEW price \in Nat, NEW worth \in Nat,
         NEW r1 \in Nat, NEW r2 \in Nat \ {0}, debt * r2 <= total * r1,
         worth * r2 > (total * price) * r1
  PROVE  debt * price < worth
  <1> DEFINE a == debt * r2
             b == total * r1
             u == a * price
             v == b * price
             g == worth * r2
             x == debt * price
  <1>1. a \in Nat /\ b \in Nat /\ g \in Nat /\ a <= b /\ x \in Nat
    BY ProductIsNat
  <1>2. (total * price) * r1 = v
    BY SMT
  <1>3. x * r2 = u
    BY SMT
  <1> HIDE DEF a, b, x
  <1>4. u \in Nat /\ v \in Nat /\ u <= v
    BY <1>1, ProductIsNat, ScaleUp
  <1>5. v < g
    BY <1>2
  <1> HIDE DEF u, v, g
  <1>6. x * r2 < worth * r2
    <2>1. u < g
      BY <1>1, <1>4, <1>5
    <2> QED BY <1>3, <2>1 DEF g
  <1>7. x < worth
    BY <1>1, <1>6, CancelFactor
  <1> QED BY <1>7 DEF x

(***************************************************************************)
(* The state s in the middle of a plan, the client having gone through the *)
(* collaterals used, of which the sum was repaid, to planned.              *)
(***************************************************************************)
IsLate(owed) ==
  /\ AccountIsOK /\ owed \in Markets
  /\ wei[owed] < 0 /\ expiry[owed] # 0 /\ expiry[owed] + rampTime <= now

Follows(s, planned, sum, used, owed) ==
  /\ s \in States /\ s.wei[owed] <= 0
  /\ s.expiry = IF s.wei[owed] = 0 THEN [expiry EXCEPT ![owed] = 0] ELSE expiry
  /\ planned.rest[1] \in Nat /\ planned.rest[2] \in Nat \ {0}
  /\ (-s.wei[owed]) * planned.rest[2] <= Debt(Now, owed) * planned.rest[1]
  /\ planned.rest[1] # 0 =>
       /\ s.wei[owed] = wei[owed] + sum
       /\ \A m \in used : wei[m] > 0 => s.wei[m] = 0
  /\ \A m \in Markets \ used : m # owed => s.wei[m] = wei[m]

LEMMA NothingIsFollowed ==
  ASSUME NEW owed, IsLate(owed), NEW planned, planned.rest = <<1, 1>>
  PROVE  Follows(Now, planned, 0, {}, owed)
  <1>1. /\ wei \in [Markets -> Int] /\ owed \in Markets /\ wei[owed] < 0
        /\ Now.wei = wei /\ Now.expiry = expiry /\ Now \in States
    BY NowIsState DEF IsLate, AccountIsOK, Now
  <1>2. planned.rest[1] = 1 /\ planned.rest[2] = 1
    OBVIOUS
  <1>3. Debt(Now, owed) = -wei[owed]
    BY <1>1 DEF Debt
  <1>4. (-wei[owed]) * 1 <= (-wei[owed]) * 1
    BY <1>1
  <1> QED BY <1>1, <1>2, <1>3, <1>4 DEF Follows

LEMMA SkippedIsFollowed ==
  ASSUME NEW owed, NEW s, NEW planned, NEW sum, NEW used, NEW held \in Markets,
         Follows(s, planned, sum, used, owed), IsLate(owed),
         planned.rest[1] = 0 \/ wei[held] <= 0
  PROVE  Follows(s, planned, sum, used \cup {held}, owed)
  <1>1. wei[held] \in Int
    BY DEF IsLate, AccountIsOK
  <1>2. planned.rest[1] # 0 => \A m \in used \cup {held} : wei[m] > 0 => s.wei[m] = 0
    BY <1>1 DEF Follows
  <1> QED BY <1>2 DEF Follows

\* What both kinds of trade rest on.
LEMMA FollowedIsTyped ==
  ASSUME NEW owed, NEW s, NEW planned, NEW sum, NEW used, NEW held \in Markets,
         Follows(s, planned, sum, used, owed), IsLate(owed),
         held \notin used, wei[held] > 0
  PROVE  /\ ClockIsOK /\ owed \in Markets /\ held # owed
         /\ expiry[owed] \in Nat /\ expiry[owed] # 0 /\ expiry[owed] <= now
         /\ expiry[owed] + rampTime <= now
         /\ s.wei[held] = wei[held] /\ wei[held] \in Nat \ {0}
         /\ -s.wei[owed] \in Nat /\ s.wei[owed] \in Int /\ s.wei[owed] <= 0
         /\ s.wei[owed] # 0 => s.expiry = expiry
         /\ Debt(Now, owed) \in Nat \ {0} /\ Debt(Now, owed) = -wei[owed]
         /\ LiquidationTrade(held, owed, owed) \in Trades
         /\ LiquidationTrade(owed, held, owed) \in Trades
         /\ Now \in States
  <1>1. /\ wei \in [Markets -> Int] /\ owed \in Markets /\ wei[owed] < 0 /\ ClockIsOK
        /\ expiry \in [Markets -> Nat] /\ expiry[owed] # 0 /\ expiry[owed] + rampTime <= now
        /\ AccountIsOK
    BY DEF IsLate, AccountIsOK
  <1>2. rampTime \in Nat /\ now \in Nat
    BY <1>1 DEF ClockIsOK
  <1>3. s.wei[owed] \in Int /\ s.wei[owed] <= 0
    BY <1>1 DEF Follows, States
  <1>4. held # owed /\ wei[held] \in Nat \ {0}
    BY <1>1
  <1>5. s.wei[held] = wei[held]
    BY <1>4 DEF Follows
  <1>6. Debt(Now, owed) = -wei[owed]
    BY DEF Debt, Now
  <1>7. s.wei[owed] # 0 => s.expiry = expiry
    BY DEF Follows
  <1>8. /\ LiquidationTrade(held, owed, owed) \in Trades
        /\ LiquidationTrade(owed, held, owed) \in Trades
    BY <1>1, <1>4, LiquidationTradeIsOfPlan DEF PlanTrades
  <1>9. Now \in States
    BY <1>1, NowIsState
  <1>10. expiry[owed] \in Nat
    BY <1>1
  <1>11. expiry[owed] <= now
    BY <1>1, <1>2, <1>10
  <1>12. -s.wei[owed] \in Nat /\ -wei[owed] \in Nat \ {0}
    BY <1>1, <1>3
  <1> QED BY <1>1, <1>3, <1>4, <1>5, <1>6, <1>7, <1>8, <1>9, <1>10, <1>11, <1>12

\* The worth of a collateral and the price of a debt, as the client scales them.
Worth(held) == HeldWorth(Now, held) * ClientRampTime

Asked(held, owed) == OwedPrice(held, owed) * ClientRampTime

LEMMA WorthIsAsked ==
  ASSUME ClockIsOK, NEW held \in Markets, NEW owed \in Markets, wei[held] \in Nat \ {0},
         NEW since \in Nat, since + rampTime <= now
  PROVE  LET price == AdjustedOwedPrice(held, owed, since)
         IN  /\ Worth(held) \in Nat /\ Asked(held, owed) \in Nat \ {0}
             /\ \A d \in Nat : /\ wei[held] * Price[held] <= d * price
                                    => Worth(held) <= d * Asked(held, owed)
                               /\ d * Asked(held, owed) < Worth(held)
                                    => d * price < wei[held] * Price[held]
  <1> DEFINE price == AdjustedOwedPrice(held, owed, since)
             x == wei[held] * Price[held]
             k == Base * ClientRampTime
             q == OwedPrice(held, owed)
             asked == Asked(held, owed)
             worth == Worth(held)
  <1>1. /\ price \in Nat \ {0} /\ price * Base <= q /\ q \in Nat \ {0}
        /\ Base \in Nat \ {0} /\ ClientRampTime \in Nat \ {0} /\ Price[held] \in Nat \ {0}
    BY LatePrice, OwedPriceIsPositive, BaseIsPositive, PriceIsPositive, ExpiryAssumption
  <1>2. x \in Nat /\ k \in Nat \ {0}
    BY <1>1, SMT
  <1>3. worth = x * k
    <2> DEFINE a == wei[held]
               b == Price[held]
    <2>1. a \in Nat /\ b \in Nat
      BY <1>1
    <2>2. worth = a * b * Base * ClientRampTime
      BY DEF Worth, HeldWorth, Now
    <2> HIDE DEF a, b, worth
    <2>3. a * b * Base * ClientRampTime = (a * b) * (Base * ClientRampTime)
      BY <1>1, <2>1, SMT
    <2> QED BY <2>2, <2>3 DEF a, b
  <1>4. asked \in Nat \ {0} /\ asked = q * ClientRampTime
    <2> HIDE DEF q
    <2>1. q * ClientRampTime \in Nat \ {0}
      BY <1>1, SMT
    <2> QED BY <2>1 DEF Asked, q
  <1>5. price * k <= asked
    <2> HIDE DEF price, q
    <2>1. price * Base \in Nat
      BY <1>1, ProductIsNat
    <2>2. (price * Base) * ClientRampTime <= q * ClientRampTime
      BY <1>1, <2>1, ScaleUp
    <2>3. price * (Base * ClientRampTime) = (price * Base) * ClientRampTime
      BY <1>1, SMT
    <2> QED BY <1>4, <2>2, <2>3
  <1>6. worth \in Nat
    BY <1>2, <1>3, ProductIsNat
  <1> HIDE DEF price, x, k, q, asked, worth
  <1>7. ASSUME NEW d \in Nat
        PROVE  /\ d * price \in Nat /\ d * asked \in Nat
               /\ (d * price) * k <= d * asked
    <2>1. (d * price) * k = d * (price * k)
      BY <1>1, <1>2, SMT
    <2>2. price * k \in Nat
      BY <1>1, <1>2, ProductIsNat
    <2>3. d * (price * k) <= d * asked
      BY <1>4, <1>5, <2>2, ScaleBoth
    <2> QED BY <1>1, <1>4, <2>1, <2>3, ProductIsNat
  <1>8. ASSUME NEW d \in Nat, x <= d * price
        PROVE  worth <= d * asked
    <2> DEFINE y == d * price
               z == d * asked
    <2>1. y \in Nat /\ z \in Nat /\ y * k <= z /\ x <= y
      BY <1>7, <1>8
    <2> HIDE DEF y, z
    <2>2. x * k <= y * k
      BY <1>2, <2>1, ScaleUp
    <2>3. x * k \in Nat /\ y * k \in Nat
      BY <1>2, <2>1, ProductIsNat
    <2>4. x * k <= z
      BY <2>1, <2>2, <2>3
    <2> QED BY <1>3, <2>4 DEF z
  <1>9. ASSUME NEW d \in Nat, d * asked < worth
        PROVE  d * price < x
    <2> DEFINE y == d * price
               z == d * asked
    <2>1. y \in Nat /\ z \in Nat /\ y * k <= z /\ z < worth
      BY <1>7, <1>9
    <2> HIDE DEF y, z
    <2>2. y * k \in Nat
      BY <1>2, <2>1, ProductIsNat
    <2>3. y * k < x * k
      BY <1>3, <1>6, <2>1, <2>2
    <2>4. y < x
      BY <1>2, <2>1, <2>3, CancelFactor
    <2> QED BY <2>4 DEF y
  <1> QED BY <1>4, <1>6, <1>8, <1>9 DEF price, x, asked, worth

LEMMA LastIsFollowed ==
  ASSUME NEW owed, NEW s, NEW planned, NEW sum, NEW used, NEW held \in Markets,
         Follows(s, planned, sum, used, owed), IsLate(owed),
         held \notin used, wei[held] > 0,
         Worth(held) * planned.rest[2]
           > (Debt(Now, owed) * Asked(held, owed)) * planned.rest[1],
         NEW next, next.rest = <<0, 1>>, NEW more
  PROVE  LET t == LiquidationTrade(owed, held, owed)
         IN  Accepted(s, t) /\ Follows(Traded(s, t), next, more, used \cup {held}, owed)
  <1> DEFINE t == LiquidationTrade(owed, held, owed)
             d == -s.wei[owed]
             after == Traded(s, t)
             price == AdjustedOwedPrice(held, owed, expiry[owed])
             total == Debt(Now, owed)
             x == wei[held] * Price[held]
  <1>1. /\ ClockIsOK /\ owed \in Markets /\ held # owed
        /\ expiry[owed] \in Nat /\ expiry[owed] # 0 /\ expiry[owed] <= now
        /\ expiry[owed] + rampTime <= now
        /\ s.wei[held] = wei[held] /\ wei[held] \in Nat \ {0}
        /\ d \in Nat /\ s.wei[owed] \in Int /\ s.wei[owed] <= 0
        /\ s.wei[owed] # 0 => s.expiry = expiry
        /\ total \in Nat \ {0}
        /\ t \in Trades
    BY FollowedIsTyped
  <1>2. /\ s \in States
        /\ planned.rest[1] \in Nat /\ planned.rest[2] \in Nat \ {0}
        /\ d * planned.rest[2] <= total * planned.rest[1]
        /\ \A m \in Markets \ used : m # owed => s.wei[m] = wei[m]
        /\ s.expiry = IF s.wei[owed] = 0 THEN [expiry EXCEPT ![owed] = 0] ELSE expiry
    BY DEF Follows
  <1>3. next.rest[1] = 0 /\ next.rest[2] = 1
    OBVIOUS
  <1>4. /\ t.input = owed /\ t.output = held /\ t.owed = owed /\ t.toZero
        /\ t.maxExpiry = expiry[owed]
        /\ InputWei(s, t) = d
    BY DEF LiquidationTrade, InputWei
  <1>5. price \in Nat \ {0} /\ Price[held] \in Nat \ {0}
    BY <1>1, LatePrice, PriceIsPositive
  <1>6. x \in Nat
    BY <1>1, <1>5, ProductIsNat
  <1>7. d * price < x
    <2>1. /\ Worth(held) \in Nat /\ Asked(held, owed) \in Nat \ {0}
          /\ d * Asked(held, owed) < Worth(held) => d * price < x
      BY <1>1, WorthIsAsked
    <2> DEFINE w == Worth(held)
               a == Asked(held, owed)
               r1 == planned.rest[1]
               r2 == planned.rest[2]
    <2>2. /\ w \in Nat /\ a \in Nat /\ r1 \in Nat /\ r2 \in Nat \ {0}
          /\ w * r2 > (total * a) * r1 /\ d * r2 <= total * r1
      BY <1>2, <2>1
    <2> HIDE DEF d, total, w, a, r1, r2
    <2>3. d * a < w
      BY <1>1, <2>2, LastIsCovered
    <2> QED BY <2>1, <2>3 DEF w, a
  <1> HIDE DEF t, after
  <1>8. CASE d = 0
    <2>1. Accepted(s, t) /\ after = s
      BY <1>4, <1>8 DEF Accepted, Traded, after
    <2>2. s.wei[owed] = 0
      BY <1>1, <1>8
    <2>3. (-s.wei[owed]) * next.rest[2] <= total * next.rest[1]
      <3> HIDE DEF total
      <3> QED BY <1>1, <1>3, <2>2
    <2>4. Follows(s, next, more, used \cup {held}, owed)
      BY <1>1, <1>2, <1>3, <2>3 DEF Follows
    <2> QED BY <2>1, <2>4 DEF t, after
  <1>9. CASE d # 0
    <2>1. d > 0 /\ s.wei[owed] < 0 /\ s.expiry = expiry
      BY <1>1, <1>9
    <2> DEFINE taken == OwedWeiToHeldWei(d, held, owed, expiry[owed])
    <2>2. OutputWei(s, t) = -taken
      BY <1>4, <2>1 DEF OutputWei
    <2>3. taken \in Nat /\ taken <= wei[held]
      <3>1. taken \in Nat /\ taken * Price[held] <= d * price
        BY <1>1, AmountsAreNat
      <3> DEFINE p == Price[held]
                 w == wei[held]
                 y == d * price
      <3>2. p \in Nat \ {0} /\ w \in Nat /\ y \in Nat /\ taken * p <= y /\ y < w * p
        <4>1. y \in Nat
          <5> HIDE DEF d, price
          <5> QED BY <1>1, <1>5, ProductIsNat
        <4> QED BY <1>1, <1>5, <1>7, <3>1, <4>1
      <3> HIDE DEF taken, p, w, y
      <3>3. taken * p \in Nat /\ w * p \in Nat
        BY <3>1, <3>2, ProductIsNat
      <3>4. taken * p < w * p
        BY <3>2, <3>3
      <3>5. taken < w
        BY <3>1, <3>2, <3>4, CancelFactor
      <3> QED BY <3>1, <3>2, <3>5 DEF w
    <2> HIDE DEF taken
    <2>4. CanTrade(s, t)
      <3>1. IsExpired(s, t)
        BY <1>1, <1>4, <2>1 DEF IsExpired
      <3>2. s.wei[owed] + d = 0
        BY <1>1
      <3>3. -(-taken) <= s.wei[held] /\ s.wei[held] > 0
        BY <1>1, <2>3
      <3> HIDE DEF d
      <3> QED BY <1>4, <2>1, <2>2, <3>1, <3>2, <3>3 DEF CanTrade
    <2>5. Accepted(s, t)
      BY <2>4 DEF Accepted
    <2>6. PICK h, o \in Markets : Repays(s, t, h, o) /\ Outcome(s, t, h, o)
      <3>1. t.input # t.output /\ t.owed \in {t.input, t.output} /\ InputWei(s, t) # 0
        BY <1>1, <1>4, <1>9
      <3> QED BY <1>1, <1>2, <2>4, <3>1, TradeRepays
    <2>7. o = owed /\ h = held
      BY <1>4, <2>6 DEF Repays
    <2>8. /\ after \in States /\ after.wei[owed] = s.wei[owed] + d
          /\ \A m \in Markets \ {held, owed} : after.wei[m] = s.wei[m]
          /\ after.expiry = IF after.wei[owed] = 0 THEN [s.expiry EXCEPT ![owed] = 0]
                            ELSE s.expiry
      <3>1. Amounts(s, t, held, owed).repaid = d
        BY <1>4, <2>1 DEF Amounts
      <3> HIDE DEF d
      <3> QED BY <2>6, <2>7, <3>1 DEF Outcome, after
    <2>9. after.wei[owed] = 0
      BY <1>1, <2>8
    <2>10. after.expiry = [expiry EXCEPT ![owed] = 0]
      BY <2>1, <2>8, <2>9
    <2>11. (-after.wei[owed]) * next.rest[2] <= total * next.rest[1]
      <3> HIDE DEF total
      <3> QED BY <1>1, <1>3, <2>9
    <2>12. \A m \in Markets \ (used \cup {held}) : m # owed => after.wei[m] = wei[m]
      BY <1>2, <2>8
    <2>13. Follows(after, next, more, used \cup {held}, owed)
      <3>1. after.wei[owed] <= 0
        BY <2>9
      <3>2. next.rest[1] \in Nat /\ next.rest[2] \in Nat \ {0} /\ next.rest[1] = 0
        BY <1>3
      <3>3. after.expiry = IF after.wei[owed] = 0 THEN [expiry EXCEPT ![owed] = 0] ELSE expiry
        BY <2>9, <2>10
      <3> QED BY <2>8, <2>11, <2>12, <3>1, <3>2, <3>3 DEF Follows
    <2> QED BY <2>5, <2>13 DEF t, after
  <1> QED BY <1>8, <1>9 DEF t

LEMMA HeldIsFollowed ==
  ASSUME NEW owed, NEW s, NEW planned, NEW sum \in Int,
         NEW used \in SUBSET Markets, NEW held \in Markets,
         Follows(s, planned, sum, used, owed), IsLate(owed),
         held \notin used, wei[held] > 0, planned.rest[1] # 0,
         ~(Worth(held) * planned.rest[2]
             > (Debt(Now, owed) * Asked(held, owed)) * planned.rest[1]),
         NEW next,
         next.rest = <<(Debt(Now, owed) * Asked(held, owed)) * planned.rest[1]
                         - Worth(held) * planned.rest[2],
                       (Debt(Now, owed) * Asked(held, owed)) * planned.rest[2]>>,
         sum + OutputWei(Now, LiquidationTrade(held, owed, owed)) <= -wei[owed]
  PROVE  LET t == LiquidationTrade(held, owed, owed)
         IN  /\ Accepted(s, t)
             /\ Follows(Traded(s, t), next, sum + OutputWei(Now, t), used \cup {held}, owed)
  <1> DEFINE t == LiquidationTrade(held, owed, owed)
             d == -s.wei[owed]
             x == wei[held]
             c == HeldWeiToOwedWei(x, held, owed, expiry[owed])
             after == Traded(s, t)
             price == AdjustedOwedPrice(held, owed, expiry[owed])
             total == Debt(Now, owed)
             r1 == planned.rest[1]
             r2 == planned.rest[2]
             w == Worth(held)
             a == Asked(held, owed)
             s1 == (total * a) * r1 - w * r2
             s2 == (total * a) * r2
  <1>1. /\ ClockIsOK /\ owed \in Markets /\ held # owed
        /\ expiry[owed] \in Nat /\ expiry[owed] # 0 /\ expiry[owed] <= now
        /\ expiry[owed] + rampTime <= now
        /\ s.wei[held] = x /\ x \in Nat \ {0}
        /\ d \in Nat /\ s.wei[owed] \in Int /\ s.wei[owed] <= 0
        /\ s.wei[owed] # 0 => s.expiry = expiry
        /\ total \in Nat \ {0} /\ total = -wei[owed]
        /\ t \in Trades
    BY FollowedIsTyped
  <1>2. /\ s \in States
        /\ r1 \in Nat /\ r2 \in Nat \ {0} /\ d * r2 <= total * r1
        /\ s.wei[owed] = wei[owed] + sum
        /\ \A m \in used : wei[m] > 0 => s.wei[m] = 0
        /\ \A m \in Markets \ used : m # owed => s.wei[m] = wei[m]
    BY DEF Follows
  <1>3. next.rest[1] = s1 /\ next.rest[2] = s2
    OBVIOUS
  <1>4. /\ t.input = held /\ t.output = owed /\ t.owed = owed /\ t.toZero
        /\ t.maxExpiry = expiry[owed]
        /\ InputWei(s, t) = -x /\ InputWei(Now, t) = -x
    BY <1>1 DEF LiquidationTrade, InputWei, Now
  <1>5. -x \in Int /\ ~(-x > 0) /\ -x # 0 /\ -(-x) = x
    BY <1>1
  <1>6. OutputWei(Now, t) = c
    BY <1>4, <1>5 DEF OutputWei, Now
  <1>7. /\ c \in Nat /\ x * Price[held] <= c * price
        /\ price \in Nat \ {0} /\ Price[held] \in Nat \ {0}
    BY <1>1, AmountsAreNat, LatePrice, PriceIsPositive
  <1>8. c # 0
    <2> DEFINE p == Price[held]
    <2>1. p \in Nat \ {0} /\ x * p <= c * price
      BY <1>7
    <2> HIDE DEF c, p, x, price
    <2>2. x * p \in Nat \ {0}
      BY <1>1, <2>1, SMT
    <2>3. c = 0 => c * price = 0
      BY <1>7
    <2> QED BY <2>1, <2>2, <2>3
  <1>9. sum + c <= -wei[owed]
    BY <1>6
  <1>10. wei[owed] \in Int
    BY <1>1 DEF IsLate, AccountIsOK
  <1>11. c <= d /\ s.wei[owed] < 0 /\ s.wei[owed] + c <= 0
    <2> HIDE DEF c
    <2> QED BY <1>1, <1>2, <1>7, <1>8, <1>9, <1>10
  <1>12. s.expiry = expiry
    BY <1>1, <1>11
  <1>13. OutputWei(s, t) = c
    BY <1>4, <1>5, <1>12 DEF OutputWei
  <1>14. /\ w \in Nat /\ a \in Nat \ {0} /\ w <= c * a
    <2>1. /\ w \in Nat /\ a \in Nat \ {0}
          /\ \A n \in Nat : x * Price[held] <= n * price => w <= n * a
      BY <1>1, WorthIsAsked
    <2> HIDE DEF c
    <2> QED BY <1>7, <2>1
  <1>15. ~(w * r2 > (total * a) * r1)
    OBVIOUS
  <1> HIDE DEF t, c, x, price, total, r1, r2, w, a
  <1>16. w * r2 <= (total * a) * r1
    <2>1. w * r2 \in Nat
      BY <1>2, <1>14, ProductIsNat
    <2> DEFINE o == total * a
    <2>2. o \in Nat
      BY <1>1, <1>14, ProductIsNat
    <2> HIDE DEF o
    <2>3. o * r1 \in Nat
      BY <1>2, <2>2, ProductIsNat
    <2> QED BY <1>15, <2>1, <2>3 DEF o
  <1>17. s1 \in Nat /\ s2 \in Nat \ {0} /\ (d - c) * s2 <= total * s1
    <2> HIDE DEF d
    <2> QED BY <1>1, <1>2, <1>7, <1>11, <1>14, <1>16, RestShrinks
  <1> HIDE DEF s1, s2, after
  <1>18. CanTrade(s, t)
    <2>1. IsExpired(s, t)
      BY <1>1, <1>4, <1>12 DEF IsExpired
    <2>2. s.wei[held] + (-x) >= 0 /\ s.wei[held] > 0
      BY <1>1
    <2>3. c <= -s.wei[owed]
      BY <1>11
    <2> QED BY <1>4, <1>5, <1>11, <1>13, <2>1, <2>2, <2>3 DEF CanTrade
  <1>19. Accepted(s, t)
    BY <1>18 DEF Accepted
  <1>20. PICK h, o \in Markets : Repays(s, t, h, o) /\ Outcome(s, t, h, o)
    <2>1. t.input # t.output /\ t.owed \in {t.input, t.output} /\ InputWei(s, t) # 0
      BY <1>1, <1>4, <1>5
    <2> QED BY <1>1, <1>2, <1>18, <2>1, TradeRepays
  <1>21. o = owed /\ h = held
    BY <1>4, <1>20 DEF Repays
  <1>22. /\ after \in States /\ after.wei[owed] = s.wei[owed] + c
         /\ after.wei[owed] <= 0
         /\ after.wei[held] = s.wei[held] - x
         /\ \A m \in Markets \ {held, owed} : after.wei[m] = s.wei[m]
         /\ after.expiry = IF after.wei[owed] = 0 THEN [s.expiry EXCEPT ![owed] = 0]
                           ELSE s.expiry
    <2>1. Amounts(s, t, held, owed) = [repaid |-> c, taken |-> x]
      BY <1>4, <1>5, <1>12 DEF Amounts, c
    <2> QED BY <1>20, <1>21, <2>1 DEF Outcome, after
  <1>23. after.wei[held] = 0
    BY <1>1, <1>22
  <1>24. -after.wei[owed] = d - c
    BY <1>1, <1>7, <1>22
  <1>25. after.wei[owed] = wei[owed] + (sum + c)
    BY <1>2, <1>7, <1>10, <1>22
  <1>26. \A m \in used \cup {held} : wei[m] > 0 => after.wei[m] = 0
    <2>1. \A m \in used : wei[m] > 0 => m \in Markets /\ m # held /\ m # owed
      <3>1. wei[owed] < 0
        BY DEF IsLate
      <3>2. wei[owed] \in Int
        BY <1>10
      <3> QED BY <3>1, <3>2
    <2> QED BY <1>2, <1>22, <1>23, <2>1
  <1>27. \A m \in Markets \ (used \cup {held}) : m # owed => after.wei[m] = wei[m]
    BY <1>2, <1>22
  <1>28. Follows(after, next, sum + c, used \cup {held}, owed)
    <2>1. /\ next.rest[1] \in Nat /\ next.rest[2] \in Nat \ {0}
          /\ (-after.wei[owed]) * next.rest[2] <= Debt(Now, owed) * next.rest[1]
      BY <1>3, <1>17, <1>24 DEF total
    <2>2. after.expiry = IF after.wei[owed] = 0 THEN [expiry EXCEPT ![owed] = 0] ELSE expiry
      BY <1>12, <1>22
    <2> HIDE DEF d
    <2> QED BY <1>22, <1>25, <1>26, <1>27, <2>1, <2>2 DEF Follows
  <1> QED BY <1>6, <1>19, <1>28 DEF t, after

(***************************************************************************)
(* One round of the client's loop, where the whole ramp was over.          *)
(***************************************************************************)
RoundOf(planned, next, held, owed) ==
  \/ /\ planned.rest[1] = 0 \/ wei[held] <= 0
     /\ next = planned
  \/ /\ planned.rest[1] # 0 /\ wei[held] > 0
     /\ Worth(held) * planned.rest[2]
          > (Debt(Now, owed) * Asked(held, owed)) * planned.rest[1]
     /\ next.trades = Append(planned.trades, LiquidationTrade(owed, held, owed))
     /\ next.rest = <<0, 1>>
  \/ /\ planned.rest[1] # 0 /\ wei[held] > 0
     /\ ~(Worth(held) * planned.rest[2]
            > (Debt(Now, owed) * Asked(held, owed)) * planned.rest[1])
     /\ next.trades = Append(planned.trades, LiquidationTrade(held, owed, owed))
     /\ next.rest = <<(Debt(Now, owed) * Asked(held, owed)) * planned.rest[1]
                        - Worth(held) * planned.rest[2],
                      (Debt(Now, owed) * Asked(held, owed)) * planned.rest[2]>>

LEMMA RoundsAreRounds ==
  ASSUME AccountIsOK, NEW planned, NEW held \in Markets, NEW owed \in Markets
  PROVE  RoundOf(planned, PlanOneAt(Now, ClientRampTime, planned, held, owed), held, owed)
  <1> DEFINE owedValue == Debt(Now, owed) * OwedPrice(held, owed) * ClientRampTime
             next == PlanOneAt(Now, ClientRampTime, planned, held, owed)
             r1 == planned.rest[1]
             r2 == planned.rest[2]
             w == Worth(held)
             o == Debt(Now, owed) * Asked(held, owed)
  <1>1. owedValue = o
    <2> DEFINE d == Debt(Now, owed)
               q == OwedPrice(held, owed)
    <2>1. d \in Int /\ q \in Int /\ ClientRampTime \in Int
      <3>1. d \in Int
        BY DEF Debt, Now, AccountIsOK
      <3> QED BY <3>1, OwedPriceIsPositive, ExpiryAssumption
    <2> HIDE DEF d, q
    <2>2. (d * q) * ClientRampTime = d * (q * ClientRampTime)
      BY <2>1, SMT
    <2> QED BY <2>2 DEF Asked, d, q
  <1>2. /\ Now.wei = wei /\ Now.expiry = expiry
        /\ wei[held] \in Int
        /\ HeldWorth(Now, held) * ClientRampTime = w
    BY DEF Now, AccountIsOK, Worth
  <1>3. next = IF r1 = 0 \/ wei[held] <= 0 THEN planned
               ELSE IF w * r2 > owedValue * r1
               THEN [trades |-> Append(planned.trades, LiquidationTrade(owed, held, owed)),
                     rest |-> <<0, 1>>]
               ELSE [trades |-> Append(planned.trades, LiquidationTrade(held, owed, owed)),
                     rest |-> <<owedValue * r1 - w * r2, owedValue * r2>>]
    BY <1>2 DEF PlanOneAt, LiquidationTrade
  <1>4. ~(wei[held] <= 0) => wei[held] > 0
    BY <1>2
  <1> HIDE DEF owedValue, next, w, o
  <1> QED BY <1>1, <1>3, <1>4 DEF RoundOf, next, w, o

\* The trades of a plan of what is there now.
OfPlan(owed) == {t \in PlanTrades(owed) : t.input # owed => wei[t.input] > 0}

Begins(a, b) == Len(a) <= Len(b) /\ \A k \in 1 .. Len(a) : a[k] = b[k]

LEMMA AppendedIsOfPlan ==
  ASSUME AccountIsOK, NEW held \in Markets, NEW owed \in Markets, wei[owed] < 0, wei[held] > 0
  PROVE  /\ LiquidationTrade(held, owed, owed) \in OfPlan(owed)
         /\ LiquidationTrade(owed, held, owed) \in OfPlan(owed)
  <1>1. held # owed
    BY DEF AccountIsOK
  <1>2. /\ LiquidationTrade(held, owed, owed) \in PlanTrades(owed)
        /\ LiquidationTrade(owed, held, owed) \in PlanTrades(owed)
    BY <1>1, LiquidationTradeIsOfPlan
  <1> QED BY <1>2 DEF OfPlan, LiquidationTrade

LEMMA AppendBegins ==
  ASSUME NEW S, NEW a \in Seq(S), NEW e \in S
  PROVE  /\ Append(a, e) \in Seq(S) /\ Begins(a, Append(a, e))
         /\ Len(Append(a, e)) = Len(a) + 1 /\ Append(a, e)[Len(a) + 1] = e
  BY DEF Begins

LEMMA TradesArePlanned ==
  ASSUME AccountIsOK, NEW owed \in Markets, wei[owed] < 0, NEW preferences \in Seq(Markets),
         NEW f, MadeBy(Now, ClientRampTime, owed, preferences, f)
  PROVE  \A i \in 0 .. Len(preferences) :
           /\ f[i].trades \in Seq(OfPlan(owed))
           /\ Begins(f[i].trades, f[Len(preferences)].trades)
           /\ i # 0 => RoundOf(f[i - 1], f[i], preferences[i], owed)
  <1> DEFINE n == Len(preferences)
             S == OfPlan(owed)
             N == {i \in Nat : i <= n => /\ f[i].trades \in Seq(S)
                                         /\ \A j \in 0 .. i : Begins(f[j].trades, f[i].trades)}
  <1>0. n \in Nat
    OBVIOUS
  <1>1. f[0] = [trades |-> <<>>, rest |-> <<1, 1>>]
    BY <1>0 DEF MadeBy
  <1>2. ASSUME NEW i \in 1 .. n
        PROVE  RoundOf(f[i - 1], f[i], preferences[i], owed)
    <2>1. i \in 0 .. n /\ i # 0
      BY <1>0
    <2>2. f[i] = PlanOneAt(Now, ClientRampTime, f[i - 1], preferences[i], owed)
      BY <2>1 DEF MadeBy
    <2>3. preferences[i] \in Markets
      OBVIOUS
    <2> QED BY <2>2, <2>3, RoundsAreRounds
  <1>3. 0 \in N
    <2>1. f[0].trades = <<>>
      BY <1>1
    <2> HIDE DEF S
    <2>2. f[0].trades \in Seq(S) /\ Begins(f[0].trades, f[0].trades)
      BY <2>1 DEF Begins
    <2>3. \A j \in 0 .. 0 : j = 0
      OBVIOUS
    <2> QED BY <2>2, <2>3
  <1>4. ASSUME NEW i \in Nat, i \in N
        PROVE  i + 1 \in N
    <2> SUFFICES ASSUME i + 1 <= n
                 PROVE  /\ f[i + 1].trades \in Seq(S)
                        /\ \A j \in 0 .. i + 1 : Begins(f[j].trades, f[i + 1].trades)
      OBVIOUS
    <2>0. i + 1 \in 1 .. n /\ (i + 1) - 1 = i /\ i <= n
      BY <1>0
    <2>1. /\ f[i].trades \in Seq(S)
          /\ \A j \in 0 .. i : Begins(f[j].trades, f[i].trades)
      BY <1>4, <2>0
    <2>2. RoundOf(f[i], f[i + 1], preferences[i + 1], owed)
      BY <1>2, <2>0
    <2>3. preferences[i + 1] \in Markets
      BY <2>0
    <2>4. \/ f[i + 1].trades = f[i].trades
          \/ \E e \in S : f[i + 1].trades = Append(f[i].trades, e)
      <3> DEFINE held == preferences[i + 1]
      <3>1. held \in Markets
        BY <2>3
      <3> HIDE DEF held, S, N, n
      <3>2. wei[held] > 0 => /\ LiquidationTrade(held, owed, owed) \in S
                             /\ LiquidationTrade(owed, held, owed) \in S
        BY <3>1, AppendedIsOfPlan DEF S
      <3> QED BY <2>2, <3>2 DEF RoundOf, held
    <2>5. f[i + 1].trades \in Seq(S) /\ Begins(f[i].trades, f[i + 1].trades)
      <3> DEFINE a == f[i].trades
      <3>1. a \in Seq(S)
        BY <2>1
      <3> HIDE DEF a, S, N, n
      <3>2. Begins(a, a)
        BY <3>1 DEF Begins
      <3> QED BY <2>4, <3>1, <3>2, AppendBegins DEF a
    <2>6. ASSUME NEW j \in 0 .. i + 1
          PROVE  Begins(f[j].trades, f[i + 1].trades)
      <3>1. CASE j = i + 1
        <4> DEFINE a == f[i + 1].trades
        <4>1. a \in Seq(S)
          BY <2>5
        <4> HIDE DEF a, S, N, n
        <4>2. Begins(a, a)
          BY <4>1 DEF Begins
        <4> QED BY <3>1, <4>2 DEF a
      <3>2. CASE j # i + 1
        <4>1. j \in 0 .. i
          BY <3>2
        <4>2. Begins(f[j].trades, f[i].trades)
          BY <2>1, <4>1
        <4> DEFINE a == f[j].trades
                   b == f[i].trades
                   c == f[i + 1].trades
        <4>3. b \in Seq(S) /\ c \in Seq(S) /\ Begins(a, b) /\ Begins(b, c)
          BY <2>1, <2>5, <4>2
        <4> HIDE DEF a, b, c, S, N, n
        <4>4. Len(b) \in Nat /\ Len(c) \in Nat
          BY <4>3
        <4>5. \A k \in 1 .. Len(a) : k \in 1 .. Len(b)
          BY <4>3, <4>4 DEF Begins
        <4>6. Begins(a, c)
          BY <4>3, <4>4, <4>5 DEF Begins
        <4> QED BY <4>6 DEF a, c
      <3> QED BY <3>1, <3>2
    <2> QED BY <2>5, <2>6
  <1> HIDE DEF N
  <1>5. \A i \in Nat : i \in N
    BY <1>3, <1>4, NaturalInduction
  <1>6. ASSUME NEW i \in 0 .. n
        PROVE  f[i].trades \in Seq(S) /\ Begins(f[i].trades, f[n].trades)
    <2>1. i \in N /\ n \in N /\ i <= n /\ i \in Nat
      BY <1>0, <1>5
    <2> QED BY <2>1 DEF N
  <1>7. ASSUME NEW i \in 0 .. n, i # 0
        PROVE  RoundOf(f[i - 1], f[i], preferences[i], owed)
    <2>1. i \in 1 .. n
      BY <1>0, <1>7
    <2> QED BY <1>2, <2>1
  <1> QED BY <1>6, <1>7

(***************************************************************************)
(* What the collateral of a plan repays grows with its trades.             *)
(***************************************************************************)
SummedOne(sum, t) == IF t.input = t.owed THEN sum ELSE sum + OutputWei(Now, t)

RoundedBy(trades, n, g) ==
  g = [i \in 0 .. n |-> IF i = 0 THEN 0 ELSE SummedOne(g[i - 1], trades[i])]

LEMMA RoundedExist ==
  ASSUME NEW trades
  PROVE  \A n \in Nat : \E g : RoundedBy(trades, n, g)
  <1> DEFINE N == {n \in Nat : \E g : RoundedBy(trades, n, g)}
  <1>1. 0 \in N
    <2>1. RoundedBy(trades, 0, [i \in 0 .. 0 |-> 0])
      BY DEF RoundedBy
    <2> QED BY <2>1
  <1>2. ASSUME NEW n \in Nat, n \in N
        PROVE  n + 1 \in N
    <2>1. PICK f : RoundedBy(trades, n, f)
      BY <1>2
    <2> DEFINE g == [i \in 0 .. n + 1 |-> IF i = 0 THEN 0 ELSE SummedOne(f[i - 1], trades[i])]
    <2>2. ASSUME NEW i \in 0 .. n + 1, i # 0
          PROVE  g[i - 1] = f[i - 1]
      <3>1. i - 1 \in 0 .. n /\ i - 1 \in 0 .. n + 1
        BY <2>2
      <3> QED BY <2>1, <3>1 DEF RoundedBy
    <2>3. g = [i \in 0 .. n + 1 |-> IF i = 0 THEN 0 ELSE SummedOne(g[i - 1], trades[i])]
      BY <2>2
    <2> HIDE DEF g
    <2>4. RoundedBy(trades, n + 1, g)
      BY <2>3 DEF RoundedBy
    <2> QED BY <2>4
  <1> HIDE DEF N
  <1>3. \A n \in Nat : n \in N
    BY <1>1, <1>2, NaturalInduction
  <1> QED BY <1>3 DEF N

LEMMA SumGrows ==
  ASSUME AccountIsOK, NEW owed \in Markets, NEW t \in OfPlan(owed), NEW sum \in Nat
  PROVE  SummedOne(sum, t) \in Nat /\ sum <= SummedOne(sum, t)
  <1>1. CASE t.input = t.owed
    BY <1>1 DEF SummedOne
  <1>2. CASE t.input # t.owed
    <2>1. /\ t.input \in Markets /\ t.output \in Markets /\ t.owed = owed /\ t.toZero
          /\ t.output = owed /\ wei[t.input] > 0
      <3>1. t \in PlanTrades(owed) /\ (t.input # owed => wei[t.input] > 0)
        BY DEF OfPlan
      <3>2. t \in Trades /\ t.owed = owed /\ t.toZero /\ owed \in {t.input, t.output}
        BY <3>1 DEF PlanTrades
      <3> QED BY <1>2, <3>1, <3>2 DEF Trades
    <2>2. wei[t.input] \in Nat /\ wei[t.input] # 0 /\ expiry[t.owed] \in Nat
      BY <2>1 DEF AccountIsOK
    <2> DEFINE x == wei[t.input]
    <2>3. InputWei(Now, t) = -x
      BY <2>1 DEF InputWei, Now
    <2>4. ~(-x > 0) /\ -(-x) = x
      BY <2>2
    <2>5. OutputWei(Now, t) = HeldWeiToOwedWei(x, t.input, t.output, expiry[t.owed])
      BY <2>3, <2>4 DEF OutputWei, Now
    <2>6. OutputWei(Now, t) \in Nat
      <3> DEFINE i == t.input
                 o == t.output
                 e == expiry[t.owed]
      <3>1. ClockIsOK /\ x \in Nat /\ i \in Markets /\ o \in Markets /\ e \in Nat
        BY <2>1, <2>2 DEF AccountIsOK
      <3> HIDE DEF x, i, o, e
      <3>2. HeldWeiToOwedWei(x, i, o, e) \in Nat
        BY <3>1, AmountsAreNat
      <3> QED BY <2>5, <3>2 DEF i, o, e
    <2> QED BY <1>2, <2>6 DEF SummedOne
  <1> QED BY <1>1, <1>2

LEMMA SumsGrow ==
  ASSUME AccountIsOK, NEW owed \in Markets, NEW trades \in Seq(OfPlan(owed)),
         NEW g, RoundedBy(trades, Len(trades), g)
  PROVE  /\ \A i \in 0 .. Len(trades) : g[i] \in Nat /\ g[i] <= g[Len(trades)]
         /\ g[0] = 0
         /\ \A i \in 1 .. Len(trades) : g[i] = SummedOne(g[i - 1], trades[i])
  <1> DEFINE n == Len(trades)
             N == {i \in Nat : i <= n => /\ g[i] \in Nat
                                         /\ \A j \in 0 .. i : g[j] \in Nat /\ g[j] <= g[i]}
  <1>0. n \in Nat
    OBVIOUS
  <1>1. g[0] = 0
    BY <1>0 DEF RoundedBy
  <1>2. ASSUME NEW i \in 1 .. n
        PROVE  g[i] = SummedOne(g[i - 1], trades[i])
    <2>1. i \in 0 .. n /\ i # 0
      BY <1>0
    <2> QED BY <2>1 DEF RoundedBy
  <1>3. 0 \in N
    BY <1>1
  <1>4. ASSUME NEW i \in Nat, i \in N
        PROVE  i + 1 \in N
    <2> SUFFICES ASSUME i + 1 <= n
                 PROVE  g[i + 1] \in Nat /\ \A j \in 0 .. i + 1 : g[j] \in Nat /\ g[j] <= g[i + 1]
      OBVIOUS
    <2>0. i + 1 \in 1 .. n /\ (i + 1) - 1 = i /\ i <= n
      BY <1>0
    <2>1. g[i] \in Nat /\ \A j \in 0 .. i : g[j] \in Nat /\ g[j] <= g[i]
      BY <1>4, <2>0
    <2>2. g[i + 1] = SummedOne(g[i], trades[i + 1])
      BY <1>2, <2>0
    <2>3. trades[i + 1] \in OfPlan(owed)
      BY <2>0
    <2>4. g[i + 1] \in Nat /\ g[i] <= g[i + 1]
      BY <2>1, <2>2, <2>3, SumGrows
    <2>5. ASSUME NEW j \in 0 .. i + 1
          PROVE  g[j] \in Nat /\ g[j] <= g[i + 1]
      <3>1. CASE j = i + 1
        BY <2>4, <3>1
      <3>2. CASE j # i + 1
        <4>1. j \in 0 .. i
          BY <3>2
        <4>2. g[j] \in Nat /\ g[j] <= g[i]
          BY <2>1, <4>1
        <4> QED BY <2>1, <2>4, <4>2
      <3> QED BY <3>1, <3>2
    <2> QED BY <2>4, <2>5
  <1> HIDE DEF N
  <1>5. \A i \in Nat : i \in N
    BY <1>3, <1>4, NaturalInduction
  <1>6. ASSUME NEW i \in 0 .. n
        PROVE  g[i] \in Nat /\ g[i] <= g[n]
    <2>1. i \in N /\ n \in N /\ i <= n /\ i \in Nat
      BY <1>0, <1>5
    <2> QED BY <2>1 DEF N
  <1> QED BY <1>1, <1>2, <1>6

(***************************************************************************)
(* The plan goes through, trade by trade, as the client went through the   *)
(* collaterals.                                                            *)
(***************************************************************************)
UsedBy(preferences, i) == {preferences[j] : j \in 1 .. i}

LEMMA OneMoreIsUsed ==
  ASSUME NEW preferences \in Preferences, NEW i \in Nat, i + 1 <= Len(preferences)
  PROVE  /\ preferences[i + 1] \in Markets
         /\ UsedBy(preferences, i) \in SUBSET Markets
         /\ preferences[i + 1] \notin UsedBy(preferences, i)
         /\ UsedBy(preferences, i + 1) = UsedBy(preferences, i) \cup {preferences[i + 1]}
  <1>1. /\ preferences \in Seq(Markets)
        /\ \A k, j \in DOMAIN preferences : preferences[k] = preferences[j] => k = j
    BY ExpiryAssumption
  <1>2. DOMAIN preferences = 1 .. Len(preferences) /\ Len(preferences) \in Nat
    BY <1>1
  <1>3. i + 1 \in DOMAIN preferences /\ \A j \in 1 .. i : j \in DOMAIN preferences /\ j # i + 1
    BY <1>2
  <1>4. \A j \in DOMAIN preferences : preferences[j] \in Markets
    BY <1>1
  <1>5. 1 .. (i + 1) = (1 .. i) \cup {i + 1}
    OBVIOUS
  <1>6. preferences[i + 1] \notin UsedBy(preferences, i)
    BY <1>1, <1>3 DEF UsedBy
  <1>7. UsedBy(preferences, i) \in SUBSET Markets
    BY <1>3, <1>4 DEF UsedBy
  <1>8. UsedBy(preferences, i + 1) = UsedBy(preferences, i) \cup {preferences[i + 1]}
    BY <1>5 DEF UsedBy
  <1> QED BY <1>3, <1>4, <1>6, <1>7, <1>8

\* The trades after which the client stood at planned went through, and led
\* to a state that follows it.
WentThrough(planned, afters, sums, used, owed) ==
  /\ afters[Len(planned.trades)].accepted
  /\ Follows(afters[Len(planned.trades)].state, planned,
             sums[Len(planned.trades)], used, owed)

LEMMA RoundGoesThrough ==
  ASSUME NEW owed, IsLate(owed), NEW trades \in Seq(OfPlan(owed)),
         NEW afters, AfterBy(trades, Len(trades), afters),
         NEW sums, RoundedBy(trades, Len(trades), sums), sums[Len(trades)] <= -wei[owed],
         NEW planned, planned.trades \in Seq(OfPlan(owed)),
         NEW next, next.trades \in Seq(OfPlan(owed)), Begins(next.trades, trades),
         NEW held \in Markets, NEW used \in SUBSET Markets, held \notin used,
         RoundOf(planned, next, held, owed),
         WentThrough(planned, afters, sums, used, owed)
  PROVE  WentThrough(next, afters, sums, used \cup {held}, owed)
  <1> DEFINE n == Len(planned.trades)
             s == afters[n].state
  <1>1. afters[n].accepted /\ Follows(s, planned, sums[n], used, owed)
    BY DEF WentThrough
  <1>2. AccountIsOK /\ owed \in Markets /\ n \in Nat /\ Len(trades) \in Nat
    BY DEF IsLate
  <1>3. CASE (planned.rest[1] = 0 \/ wei[held] <= 0) /\ next = planned
    BY <1>1, <1>3, SkippedIsFollowed DEF WentThrough
  <1>4. ASSUME NEW t, next.trades = Append(planned.trades, t)
        PROVE  /\ Len(next.trades) = n + 1
               /\ afters[n + 1] = AfterOne(afters[n], t)
               /\ sums[n + 1] = SummedOne(sums[n], t)
               /\ sums[n] \in Nat /\ sums[n + 1] \in Nat /\ sums[n + 1] <= -wei[owed]
    <2>1. Len(next.trades) = n + 1 /\ next.trades[n + 1] = t
      <3> DEFINE a == planned.trades
      <3>1. a \in Seq(OfPlan(owed))
        OBVIOUS
      <3> HIDE DEF a
      <3>2. Len(Append(a, t)) = Len(a) + 1 /\ Append(a, t)[Len(a) + 1] = t
        BY <3>1
      <3> QED BY <1>4, <3>2 DEF a
    <2>2. n + 1 <= Len(trades) /\ trades[n + 1] = t
      <3>1. n + 1 \in 1 .. Len(next.trades)
        BY <1>2, <2>1
      <3> QED BY <2>1, <3>1 DEF Begins
    <2>3. /\ n + 1 \in 0 .. Len(trades) /\ n + 1 \in 1 .. Len(trades) /\ n + 1 # 0
          /\ n \in 0 .. Len(trades) /\ (n + 1) - 1 = n
      BY <1>2, <2>2
    <2>4. afters[n + 1] = AfterOne(afters[n], t)
      BY <2>2, <2>3 DEF AfterBy
    <2> DEFINE m == Len(trades)
    <2>5. /\ \A i \in 0 .. m : sums[i] \in Nat /\ sums[i] <= sums[m]
          /\ \A i \in 1 .. m : sums[i] = SummedOne(sums[i - 1], trades[i])
      BY <1>2, SumsGrow
    <2>6. sums[n] \in Nat /\ sums[n + 1] \in Nat /\ sums[n + 1] <= sums[m] /\ sums[m] \in Nat
      <3>1. m \in 0 .. m
        BY <1>2
      <3> QED BY <2>3, <2>5, <3>1
    <2>7. sums[n + 1] = SummedOne(sums[n], t)
      BY <2>2, <2>3, <2>5
    <2>8. wei[owed] \in Int
      BY <1>2 DEF AccountIsOK
    <2>9. sums[n + 1] <= -wei[owed]
      BY <2>6, <2>8
    <2> QED BY <2>1, <2>4, <2>6, <2>7, <2>9
  <1>5. ASSUME NEW t, next.trades = Append(planned.trades, t),
               Accepted(s, t), Follows(Traded(s, t), next, sums[n + 1], used \cup {held}, owed)
        PROVE  WentThrough(next, afters, sums, used \cup {held}, owed)
    <2>1. Len(next.trades) = n + 1 /\ afters[n + 1] = AfterOne(afters[n], t)
      BY <1>4, <1>5
    <2>2. afters[n + 1] = [state |-> Traded(s, t), accepted |-> TRUE]
      BY <1>1, <1>5, <2>1 DEF AfterOne
    <2> HIDE DEF n, s
    <2> QED BY <1>5, <2>1, <2>2 DEF WentThrough
  <1>6. CASE /\ planned.rest[1] # 0 /\ wei[held] > 0
             /\ Worth(held) * planned.rest[2]
                  > (Debt(Now, owed) * Asked(held, owed)) * planned.rest[1]
             /\ next.trades = Append(planned.trades, LiquidationTrade(owed, held, owed))
             /\ next.rest = <<0, 1>>
    <2> DEFINE t == LiquidationTrade(owed, held, owed)
               more == sums[n + 1]
    <2>1. Accepted(s, t) /\ Follows(Traded(s, t), next, more, used \cup {held}, owed)
      <3> HIDE DEF s, more, n
      <3> QED BY <1>1, <1>6, LastIsFollowed
    <2>2. next.trades = Append(planned.trades, t)
      BY <1>6
    <2> HIDE DEF t, s
    <2> QED BY <1>5, <2>1, <2>2
  <1>7. CASE /\ planned.rest[1] # 0 /\ wei[held] > 0
             /\ ~(Worth(held) * planned.rest[2]
                    > (Debt(Now, owed) * Asked(held, owed)) * planned.rest[1])
             /\ next.trades = Append(planned.trades, LiquidationTrade(held, owed, owed))
             /\ next.rest = <<(Debt(Now, owed) * Asked(held, owed)) * planned.rest[1]
                                - Worth(held) * planned.rest[2],
                              (Debt(Now, owed) * Asked(held, owed)) * planned.rest[2]>>
    <2> DEFINE t == LiquidationTrade(held, owed, owed)
               more == OutputWei(Now, t)
               sum == sums[n]
    <2>1. /\ next.trades = Append(planned.trades, t)
          /\ sums[n + 1] = SummedOne(sum, t) /\ sum \in Int /\ sums[n + 1] <= -wei[owed]
      <3>1. next.trades = Append(planned.trades, t)
        BY <1>7
      <3> HIDE DEF t
      <3> QED BY <1>4, <3>1
    <2>2. t.input = held /\ t.owed = owed /\ held # owed
      <3>1. held # owed
        BY <1>2, <1>7 DEF IsLate, AccountIsOK
      <3> QED BY <3>1 DEF LiquidationTrade
    <2>3. sums[n + 1] = sum + more
      BY <2>1, <2>2 DEF SummedOne
    <2>4. sum + more <= -wei[owed]
      BY <2>1, <2>3
    <2>5. Accepted(s, t) /\ Follows(Traded(s, t), next, sum + more, used \cup {held}, owed)
      <3>1. Follows(s, planned, sum, used, owed)
        BY <1>1
      <3> HIDE DEF s, sum, n
      <3> QED BY <1>7, <2>1, <2>4, <3>1, HeldIsFollowed
    <2> HIDE DEF t, s
    <2> QED BY <1>5, <2>1, <2>3, <2>5
  <1> QED BY <1>3, <1>6, <1>7 DEF RoundOf

LEMMA PlanGoesThrough ==
  ASSUME NEW owed, IsLate(owed), NEW preferences \in Preferences,
         NEW f, MadeBy(Now, ClientRampTime, owed, preferences, f),
         RoundedUp(f[Len(preferences)].trades) <= -wei[owed]
  PROVE  LET planned == f[Len(preferences)]
             after == AfterTrades(planned.trades)
         IN  /\ after.accepted
             /\ \E sum : Follows(after.state, planned, sum,
                                 UsedBy(preferences, Len(preferences)), owed)
  <1> DEFINE n == Len(preferences)
             S == OfPlan(owed)
             trades == f[n].trades
             m == Len(trades)
             afters == CHOOSE g : AfterBy(trades, m, g)
             sums == CHOOSE g : RoundedBy(trades, m, g)
             N == {i \in Nat : i <= n =>
                     WentThrough(f[i], afters, sums, UsedBy(preferences, i), owed)}
  <1>1. /\ AccountIsOK /\ owed \in Markets /\ wei[owed] < 0
        /\ preferences \in Seq(Markets) /\ n \in Nat
    BY ExpiryAssumption DEF IsLate
  <1>2. /\ \A i \in 0 .. n : f[i].trades \in Seq(S)
        /\ \A i \in 0 .. n : Begins(f[i].trades, trades)
        /\ \A i \in 0 .. n : i # 0 => RoundOf(f[i - 1], f[i], preferences[i], owed)
    <2> HIDE DEF S
    <2> QED BY <1>1, TradesArePlanned DEF S
  <1>3. trades \in Seq(S) /\ m \in Nat
    <2>1. n \in 0 .. n
      BY <1>1
    <2>2. trades \in Seq(S)
      BY <1>2, <2>1
    <2> HIDE DEF trades, S
    <2> QED BY <2>2
  <1>4. AfterTrades(trades) = afters[m]
    BY DEF AfterTrades, AfterBy, AfterOne
  <1>5. RoundedUp(trades) = sums[m]
    BY DEF RoundedUp, RoundedBy, SummedOne
  <1>6. AfterBy(trades, m, afters)
    <2> HIDE DEF trades
    <2> QED BY <1>3, AftersExist
  <1>7. RoundedBy(trades, m, sums)
    <2> HIDE DEF trades
    <2> QED BY <1>3, RoundedExist
  <1>8. sums[m] <= -wei[owed]
    BY <1>5
  <1> HIDE DEF afters, sums, S
  <1>9. 0 \in N
    <2>1. f[0] = [trades |-> <<>>, rest |-> <<1, 1>>]
      BY <1>1 DEF MadeBy
    <2>2. Len(f[0].trades) = 0 /\ f[0].rest = <<1, 1>>
      BY <2>1
    <2>3. afters[0] = [state |-> Now, accepted |-> TRUE]
      BY <1>3, <1>6 DEF AfterBy
    <2>4. sums[0] = 0
      BY <1>3, <1>7 DEF RoundedBy
    <2>5. UsedBy(preferences, 0) = {}
      BY DEF UsedBy
    <2>6. Follows(Now, f[0], 0, {}, owed)
      BY <2>2, NothingIsFollowed
    <2>7. afters[0].accepted /\ afters[0].state = Now
      BY <2>3
    <2>8. WentThrough(f[0], afters, sums, {}, owed)
      BY <2>2, <2>4, <2>6, <2>7 DEF WentThrough
    <2> QED BY <2>5, <2>8
  <1>10. ASSUME NEW i \in Nat, i \in N
         PROVE  i + 1 \in N
    <2> SUFFICES ASSUME i + 1 <= n
                 PROVE  WentThrough(f[i + 1], afters, sums, UsedBy(preferences, i + 1), owed)
      OBVIOUS
    <2>1. i <= n /\ i \in 0 .. n /\ i + 1 \in 0 .. n /\ i + 1 # 0 /\ (i + 1) - 1 = i
      BY <1>1
    <2>2. WentThrough(f[i], afters, sums, UsedBy(preferences, i), owed)
      BY <1>10, <2>1
    <2> DEFINE planned == f[i]
               next == f[i + 1]
               held == preferences[i + 1]
               used == UsedBy(preferences, i)
    <2>3. /\ held \in Markets /\ used \in SUBSET Markets /\ held \notin used
          /\ UsedBy(preferences, i + 1) = used \cup {held}
      BY OneMoreIsUsed
    <2>4. /\ planned.trades \in Seq(S) /\ next.trades \in Seq(S)
          /\ Begins(next.trades, trades) /\ RoundOf(planned, next, held, owed)
      BY <1>2, <2>1
    <2>5. WentThrough(planned, afters, sums, used, owed)
      BY <2>2
    <2> HIDE DEF planned, next, held, used, trades, n, N
    <2>6. WentThrough(next, afters, sums, used \cup {held}, owed)
      BY <1>3, <1>6, <1>7, <1>8, <2>3, <2>4, <2>5, RoundGoesThrough DEF S
    <2> QED BY <2>3, <2>6 DEF next
  <1> HIDE DEF N
  <1>11. \A i \in Nat : i \in N
    BY <1>9, <1>10, NaturalInduction
  <1>12. WentThrough(f[n], afters, sums, UsedBy(preferences, n), owed)
    <2>1. n \in N /\ n <= n
      BY <1>1, <1>11
    <2> QED BY <2>1 DEF N
  <1>13. /\ afters[m].accepted
         /\ Follows(afters[m].state, f[n], sums[m], UsedBy(preferences, n), owed)
    BY <1>12 DEF WentThrough
  <1> QED BY <1>4, <1>13

\* Where nothing of the debt remains it is paid, and where something does, every
\* collateral is used up.
LEMMA FollowedComesTrue ==
  ASSUME NEW owed, IsLate(owed), NEW preferences \in Preferences,
         NEW s, NEW planned, NEW sum,
         Follows(s, planned, sum, UsedBy(preferences, Len(preferences)), owed)
  PROVE  LET expected == IF planned.rest[1] = 0 THEN {owed}
                         ELSE {preferences[i] : i \in PositivesOf(Now, preferences)}
         IN  /\ \A m \in expected : s.wei[m] = 0
             /\ owed \in expected => s.expiry[owed] = 0
  <1> DEFINE n == Len(preferences)
             r2 == planned.rest[2]
             d == -s.wei[owed]
  <1>1. /\ AccountIsOK /\ owed \in Markets /\ wei \in [Markets -> Int] /\ wei[owed] < 0
        /\ expiry \in [Markets -> Nat]
    BY DEF IsLate, AccountIsOK
  <1>2. preferences \in Seq(Markets)
    BY ExpiryAssumption
  <1>3. CASE planned.rest[1] = 0
    <2>1. /\ d \in Nat /\ s.wei[owed] \in Int /\ r2 \in Nat \ {0}
          /\ d * r2 <= Debt(Now, owed) * planned.rest[1]
      BY <1>1 DEF Follows, States
    <2>2. Debt(Now, owed) * planned.rest[1] = 0
      <3>1. Debt(Now, owed) \in Int
        BY <1>1 DEF Debt, Now
      <3> DEFINE x == Debt(Now, owed)
      <3> HIDE DEF x
      <3>2. x * 0 = 0
        BY <3>1 DEF x
      <3> QED BY <1>3, <3>2 DEF x
    <2>3. s.wei[owed] = 0
      <3>1. d * r2 <= 0
        BY <2>1, <2>2
      <3> HIDE DEF r2, d
      <3>2. d = 0
        BY <2>1, <3>1, SMT
      <3> QED BY <2>1, <3>2 DEF d
    <2>4. s.expiry[owed] = 0
      BY <1>1, <2>3 DEF Follows
    <2> QED BY <1>3, <2>3, <2>4
  <1>4. CASE planned.rest[1] # 0
    <2>1. ASSUME NEW i \in PositivesOf(Now, preferences)
          PROVE  s.wei[preferences[i]] = 0 /\ preferences[i] # owed
      <3>1. i \in 1 .. n /\ wei[preferences[i]] > 0
        BY <1>2 DEF PositivesOf, Now
      <3>2. preferences[i] \in UsedBy(preferences, n)
        BY <3>1 DEF UsedBy
      <3> QED BY <1>1, <1>4, <3>1, <3>2 DEF Follows
    <2> QED BY <1>4, <2>1
  <1> QED BY <1>3, <1>4

LEMMA RampIsOver ==
  ASSUME NEW since \in Nat, NEW time \in Nat, time >= since + ClientRampTime
  PROVE  Least(ExpiryAge(time, since), ClientRampTime) = ClientRampTime
  <1>1. ClientRampTime \in Nat \ {0}
    BY ExpiryAssumption
  <1> QED BY <1>1 DEF Least, ExpiryAge

LEMMA LatePlanComesTrue ==
  ASSUME ExpiryInv, PlanIsMade, Mine, plan.read = Now,
         plan.at >= expiry[plan.owed] + rampTime,
         plan.at >= expiry[plan.owed] + ClientRampTime,
         RoundedUp(plan.trades) <= -wei[plan.owed]
  PROVE  PlanComesTrue
  <1> DEFINE owed == plan.owed
             after == AfterTrades(plan.trades)
  <1>1. /\ wei' = after.state.wei /\ expiry' = after.state.expiry
        /\ plan' = [NoPlan EXCEPT !.outcome = IF after.accepted THEN "mined" ELSE "reverted"]
        /\ plan.outcome = "waiting"
    BY DEF Mine, Apply
  <1>2. IsMade(plan) /\ plan.at <= now
    BY <1>1 DEF PlanIsMade
  <1>0. PICK preferences \in Preferences : \E f : IsMadeOf(plan, preferences, f)
    BY <1>2 DEF IsMade
  <1>3. PICK f : IsMadeOf(plan, preferences, f)
    BY <1>0
  <1>4. /\ AccountIsOK /\ ClockIsOK /\ owed \in Markets /\ plan.at \in Nat
        /\ wei[owed] < 0 /\ expiry[owed] # 0 /\ expiry[owed] \in Nat
    BY <1>2 DEF IsMade, ExpiryInv, AccountIsOK, Now
  <1>5. IsLate(owed)
    <2>1. expiry[owed] + rampTime <= now
      BY <1>2, <1>4 DEF ClockIsOK
    <2> QED BY <1>4, <2>1 DEF IsLate
  <1>6. RampAt(Now, owed, plan.at) = ClientRampTime
    BY <1>4, RampIsOver DEF RampAt, Now
  <1> DEFINE planned == f[Len(preferences)]
             used == UsedBy(preferences, Len(preferences))
  <1>7. /\ MadeBy(Now, ClientRampTime, owed, preferences, f)
        /\ plan.trades = planned.trades
        /\ plan.expected = IF planned.rest[1] = 0 THEN {owed}
                           ELSE {preferences[i] : i \in PositivesOf(Now, preferences)}
    BY <1>3, <1>6 DEF IsMadeOf
  <1>8. after.accepted /\ \E sum : Follows(after.state, planned, sum, used, owed)
    BY <1>5, <1>7, PlanGoesThrough
  <1>9. PICK sum : Follows(after.state, planned, sum, used, owed)
    BY <1>8
  <1> DEFINE s == after.state
  <1>10. /\ \A m \in plan.expected : s.wei[m] = 0
         /\ owed \in plan.expected => s.expiry[owed] = 0
    <2> HIDE DEF s, planned, owed
    <2> QED BY <1>5, <1>7, <1>9, FollowedComesTrue DEF s
  <1>11. plan'.outcome = "mined"
    BY <1>1, <1>8 DEF NoPlan
  <1> QED BY <1>1, <1>10, <1>11 DEF PlanComesTrue

(***************************************************************************)
(* A plan of fullyLiquidateExpiredAccount that is made once both ramps are *)
(* over, and mined before anything it was made from has changed, goes      *)
(* through and uses up what the client expected it to, unless rounding up  *)
(* asks for more than the debt.                                            *)
(***************************************************************************)
THEOREM LatePlansHold == ExpirySpec => LatePlansComeTrue
  <1>1. ExpiryInit => PlanIsMade
    BY DEF ExpiryInit, PlanIsMade, NoPlan
  <1>2. ExpiryInv /\ PlanIsMade /\ [ExpiryNext]_expiryVars => PlanIsMade'
    BY PlanStaysMade
  <1>3. ExpiryInv /\ PlanIsMade =>
          (Mine /\ plan.read = Now
             /\ plan.at >= expiry[plan.owed] + rampTime
             /\ plan.at >= expiry[plan.owed] + ClientRampTime
             /\ RoundedUp(plan.trades) <= -wei[plan.owed]
             => PlanComesTrue)
    BY LatePlanComesTrue
  <1> QED BY <1>1, <1>2, <1>3, ExpiryIsInductive, PTL DEF ExpirySpec, LatePlansComeTrue

-----------------------------------------------------------------------------
(* Liquidators: amounts and what they are worth                            *)

(***************************************************************************)
(* What is rounded up is not a whole denominator too much.                 *)
(***************************************************************************)
LEMMA RoundUpBounds ==
  ASSUME NEW t \in Nat, NEW n \in Nat, NEW d \in Nat \ {0}
  PROVE  LET u == GetPartialRoundUp(t, n, d)
         IN  u \in Nat /\ t * n <= u * d /\ u * d < t * n + d
  <1> DEFINE x == t * n
             u == GetPartialRoundUp(t, n, d)
  <1>1. x \in Nat /\ u \in Nat /\ x <= u * d
    BY ProductIsNat, RoundUpIsNat, PartialIsPaid
  <1>2. CASE t = 0 \/ n = 0
    <2>1. u = 0 /\ 0 * d = 0
      BY <1>2 DEF GetPartialRoundUp
    <2> HIDE DEF x, u
    <2>2. u * d = 0
      BY <2>1
    <2>3. 0 < x + d
      BY <1>1
    <2> QED BY <1>1, <2>2, <2>3 DEF x, u
  <1>3. CASE t # 0 /\ n # 0
    <2> DEFINE y == x - 1
               k == y \div d
    <2>1. y \in Nat
      <3>1. t \in Nat \ {0} /\ n \in Nat \ {0}
        BY <1>3
      <3>2. 1 * n <= t * n
        BY <3>1, ScaleUp
      <3> QED BY <1>1, <3>1, <3>2
    <2>2. u = k + 1
      BY <1>3 DEF GetPartialRoundUp
    <2> HIDE DEF y
    <2>3. /\ k \in Nat /\ y % d \in 0 .. (d - 1) /\ y = k * d + (y % d)
      BY <2>1, DivMod
    <2> HIDE DEF k, u
    <2>4. k * d \in Nat /\ u * d = k * d + d
      BY <2>2, <2>3, ProductIsNat
    <2>5. x = y + 1
      BY <1>1 DEF y
    <2> HIDE DEF x
    <2>6. u * d < x + d
      BY <1>1, <2>1, <2>3, <2>4, <2>5
    <2> QED BY <1>1, <2>6 DEF x, u
  <1> QED BY <1>2, <1>3

\* What a balance adds to Room.
Value(amount, price, ratio) ==
  Base * Positive(amount, price) - (Base + ratio) * Negative(amount, price)

LEMMA ValueIsInt ==
  ASSUME NEW x \in Int, NEW price \in Nat, NEW ratio \in Nat
  PROVE  /\ Positive(x, price) \in Nat /\ Negative(x, price) \in Nat
         /\ Value(x, price, ratio) \in Int
  <1>1. Positive(x, price) \in Nat
    BY ProductIsNat DEF Positive
  <1>2. Negative(x, price) \in Nat
    BY ProductIsNat DEF Negative, Positive
  <1> QED BY <1>1, <1>2, BaseIsPositive DEF Value

LEMMA ValueOfSupply ==
  ASSUME NEW x \in Nat, NEW price \in Nat, NEW ratio \in Nat
  PROVE  Value(x, price, ratio) = Base * (x * price)
  <1>1. Positive(x, price) = x * price
    BY DEF Positive
  <1>2. Negative(x, price) = 0
    BY DEF Negative, Positive
  <1> QED BY <1>1, <1>2, BaseIsPositive, ProductIsNat DEF Value

LEMMA ValueOfDebt ==
  ASSUME NEW x \in Int, x <= 0, NEW price \in Nat, NEW ratio \in Nat
  PROVE  Value(x, price, ratio) = (Base + ratio) * (x * price)
  <1>1. Positive(x, price) = 0
    BY DEF Positive
  <1>2. Negative(x, price) = -(x * price)
    <2>1. CASE x = 0
      BY <2>1 DEF Negative, Positive
    <2>2. CASE x # 0
      <3>1. Negative(x, price) = (-x) * price
        BY <2>2 DEF Negative, Positive
      <3> QED BY <3>1
    <2> QED BY <2>1, <2>2
  <1>3. x * price \in Int
    OBVIOUS
  <1> DEFINE y == x * price
  <1> HIDE DEF y
  <1>4. ASSUME y \in Int PROVE Base * 0 - (Base + ratio) * (-y) = (Base + ratio) * y
    BY <1>4, BaseIsPositive
  <1> QED BY <1>1, <1>2, <1>3, <1>4 DEF Value, y

(***************************************************************************)
(* A balance that grows by d in worth is worth from Base to Base + ratio   *)
(* times d more: the value is concave in the balance.                      *)
(***************************************************************************)
LEMMA ValueGrows ==
  ASSUME NEW x \in Int, NEW y \in Int, x <= y, NEW price \in Nat, NEW ratio \in Nat
  PROVE  LET d == y * price - x * price
             grown == Value(y, price, ratio) - Value(x, price, ratio)
         IN  /\ d \in Nat
             /\ Base * d <= grown
             /\ grown <= (Base + ratio) * d
             /\ x >= 0 => grown = Base * d
             /\ y <= 0 => grown = (Base + ratio) * d
  <1> DEFINE u == x * price
             v == y * price
             B == Base
             C == Base + ratio
  <1>1. u \in Int /\ v \in Int /\ u <= v
    BY ProductsKeepOrder
  <1>2. B \in Nat /\ C \in Nat /\ B <= C
    BY BaseIsPositive
  <1>3. CASE x >= 0
    <2>1. Value(x, price, ratio) = B * u /\ Value(y, price, ratio) = B * v
      BY <1>3, ValueOfSupply
    <2> HIDE DEF u, v, B, C
    <2>2. B * v - B * u = B * (v - u) /\ v - u \in Nat
      BY <1>1, <1>2
    <2>3. B * (v - u) <= C * (v - u)
      BY <1>2, <2>2
    <2>4. y <= 0 => B * (v - u) = C * (v - u)
      <3> SUFFICES ASSUME y <= 0 PROVE B * (v - u) = C * (v - u)
        OBVIOUS
      <3>1. x = 0 /\ y = 0
        BY <1>3
      <3>2. v - u = 0
        BY <3>1 DEF u, v
      <3> QED BY <1>2, <3>2
    <2>5. B * (v - u) \in Nat
      BY <1>2, <2>2, ProductIsNat
    <2> QED BY <1>1, <1>3, <2>1, <2>2, <2>3, <2>4, <2>5 DEF u, v, B, C
  <1>4. CASE y <= 0
    <2>1. Value(x, price, ratio) = C * u /\ Value(y, price, ratio) = C * v
      BY <1>4, ValueOfDebt
    <2> HIDE DEF u, v, B, C
    <2>2. C * v - C * u = C * (v - u) /\ v - u \in Nat
      BY <1>1, <1>2
    <2>3. B * (v - u) <= C * (v - u)
      BY <1>2, <2>2
    <2>4. x >= 0 => B * (v - u) = C * (v - u)
      <3> SUFFICES ASSUME x >= 0 PROVE B * (v - u) = C * (v - u)
        OBVIOUS
      <3>1. x = 0 /\ y = 0
        BY <1>4
      <3>2. v - u = 0
        BY <3>1 DEF u, v
      <3> QED BY <1>2, <3>2
    <2>5. C * (v - u) \in Nat
      BY <1>2, <2>2, ProductIsNat
    <2> QED BY <1>1, <1>4, <2>1, <2>2, <2>3, <2>4, <2>5 DEF u, v, B, C
  <1>5. CASE x < 0 /\ y > 0
    <2>1. Value(x, price, ratio) = C * u /\ Value(y, price, ratio) = B * v
      BY <1>5, ValueOfDebt, ValueOfSupply
    <2>2. u <= 0 /\ v >= 0
      <3>1. 0 * price = 0 /\ x <= 0 /\ 0 <= y
        BY <1>5
      <3> QED BY <3>1, ProductsKeepOrder
    <2> HIDE DEF u, v, B, C
    <2>3. v - u \in Nat
      BY <1>1
    <2>4. B * (v - u) = B * v - B * u /\ C * (v - u) = C * v - C * u
      BY <1>1, <1>2
    <2>5. B * v <= C * v
      BY <1>1, <1>2, <2>2
    <2>6. B * (-u) <= C * (-u)
      <3>1. -u \in Nat
        BY <1>1, <2>2
      <3> QED BY <1>2, <3>1
    <2>7. B * (-u) = -(B * u) /\ C * (-u) = -(C * u)
      BY <1>1, <1>2
    <2>8. B * v \in Int /\ B * u \in Int /\ C * v \in Int /\ C * u \in Int
      BY <1>1, <1>2
    <2>9. B * (v - u) <= B * v - C * u /\ B * v - C * u <= C * (v - u)
      BY <2>4, <2>5, <2>6, <2>7, <2>8
    <2> QED BY <1>1, <1>5, <2>1, <2>3, <2>9 DEF u, v, B, C
  <1> QED BY <1>3, <1>4, <1>5

(***************************************************************************)
(* A pair for which p of the owed market is repaid and t of the held one   *)
(* taken, at the price a: as long as the liquidator only gives up supply,  *)
(* or only reduces debt, he loses no more than what is rounded.            *)
(***************************************************************************)
LEMMA SafePartIsSafe ==
  ASSUME NEW h \in Int, NEW o \in Int, NEW t \in Nat, NEW p \in Nat,
         NEW hp \in Nat \ {0}, NEW op \in Nat \ {0}, NEW a \in Nat, op <= a,
         NEW m \in Nat, t * hp <= p * a, p * a < t * hp + m,
         NEW ratio \in Nat, p <= o \/ h + t <= 0
  PROVE  Value(h + t, hp, ratio) + Value(o - p, op, ratio)
           >= Value(h, hp, ratio) + Value(o, op, ratio) - (Base + ratio) * m
  <1> DEFINE x == t * hp
             z == p * op
             B == Base
             C == Base + ratio
             vh == Value(h, hp, ratio)
             vo == Value(o, op, ratio)
             wh == Value(h + t, hp, ratio)
             wo == Value(o - p, op, ratio)
  <1>1. /\ x \in Nat /\ z \in Nat /\ p * a \in Nat /\ z <= p * a
        /\ B \in Nat /\ C \in Nat /\ B <= C
    <2>1. op * p <= a * p
      BY ScaleUp
    <2>2. op * p = p * op /\ a * p = p * a
      OBVIOUS
    <2> QED BY <2>1, <2>2, ProductIsNat, BaseIsPositive
  <1>2. vh \in Int /\ vo \in Int /\ wh \in Int /\ wo \in Int
    <2>1. h + t \in Int /\ o - p \in Int /\ hp \in Nat /\ op \in Nat
      OBVIOUS
    <2> QED BY <2>1, ValueIsInt
  <1>3. /\ B * x <= wh - vh
        /\ h + t <= 0 => wh - vh = C * x
    <2>1. (h + t) * hp - h * hp = x
      OBVIOUS
    <2>2. h <= h + t /\ h + t \in Int
      OBVIOUS
    <2> QED BY <2>1, <2>2, ValueGrows
  <1>4. /\ vo - wo <= C * z
        /\ p <= o => vo - wo = B * z
    <2>1. o * op - (o - p) * op = z
      OBVIOUS
    <2>2. o - p <= o /\ o - p \in Int /\ (p <= o => o - p >= 0)
      OBVIOUS
    <2> QED BY <2>1, <2>2, ValueGrows
  <1>5. z <= x + m
    BY <1>1
  <1> HIDE DEF x, z, B, C, vh, vo, wh, wo
  <1>6. B * z <= B * x + B * m /\ C * z <= C * x + C * m /\ B * m <= C * m
    <2>1. z * B <= (x + m) * B /\ z * C <= (x + m) * C /\ B * m <= C * m
      <3>1. x + m \in Nat
        BY <1>1
      <3> QED BY <1>1, <1>5, <3>1, ScaleUp
    <2> QED BY <1>1, <2>1
  <1>7. B * z \in Nat /\ C * z \in Nat /\ B * x \in Nat /\ C * x \in Nat /\ C * m \in Nat /\ B * m \in Nat
    BY <1>1, ProductIsNat
  <1>8. wh + wo >= vh + vo - C * m
    BY <1>2, <1>3, <1>4, <1>6, <1>7
  <1> QED BY <1>8 DEF C, vh, vo, wh, wo

(***************************************************************************)
(* From no debt of the held market and no supply of the owed one, y more   *)
(* of the debt may be repaid as long as the difference of the ratio and    *)
(* the spread allows it.                                                   *)
(***************************************************************************)
\* The held balance is to be x after y of the debt has been repaid at the price
\* a, of a buffer with a room for it; d is what is rounded.
FurtherPart(h, o, y, x, hp, op, a, d, ratio, spread, rest, room) ==
  /\ h \in Nat /\ o \in Int /\ o <= 0 /\ y \in Nat /\ x \in Int
  /\ hp \in Nat \ {0} /\ op \in Nat \ {0} /\ a \in Nat /\ d \in Nat
  /\ h * hp + y * a <= x * hp + d
  /\ ratio \in Nat /\ spread \in Nat /\ spread <= ratio
  /\ rest \in Nat /\ a * Base = op * Base + op * spread - rest
  /\ room \in Int /\ (y * op) * (ratio - spread) <= room

LEMMA FurtherPartIsCovered ==
  ASSUME NEW h, NEW o, NEW y, NEW x, NEW hp, NEW op, NEW a, NEW d,
         NEW ratio, NEW spread, NEW rest, NEW room,
         FurtherPart(h, o, y, x, hp, op, a, d, ratio, spread, rest, room)
  PROVE  Value(x, hp, ratio) + Value(o - y, op, ratio)
           >= Value(h, hp, ratio) + Value(o, op, ratio) - room
                - y * rest - (Base + ratio) * d
  <1> USE DEF FurtherPart
  <1> DEFINE u == h * hp
             v == x * hp
             w == y * a
             z == y * op
             B == Base
             C == Base + ratio
             vh == Value(h, hp, ratio)
             vo == Value(o, op, ratio)
             wh == Value(x, hp, ratio)
             wo == Value(o - y, op, ratio)
  <1>1. /\ u \in Nat /\ v \in Int /\ w \in Nat /\ z \in Nat
        /\ B \in Nat /\ C \in Nat /\ B <= C
    BY ProductIsNat, BaseIsPositive
  <1>2. vh \in Int /\ vo \in Int /\ wh \in Int /\ wo \in Int
    <2>1. o - y \in Int /\ h \in Int /\ hp \in Nat /\ op \in Nat
      OBVIOUS
    <2> QED BY <2>1, ValueIsInt
  <1>3. vo - wo = C * z
    <2>1. o * op - (o - y) * op = z
      OBVIOUS
    <2>2. o - y <= o /\ o - y \in Int
      OBVIOUS
    <2> QED BY <2>1, <2>2, ValueGrows
  <1>4. wh >= vh + B * w - C * d
    <2>1. u + w <= v + d
      OBVIOUS
    <2>2. B * w <= C * w /\ B * d <= C * d
      BY <1>1
    <2>3. CASE h <= x
      <3>1. wh - vh = B * (v - u) /\ v - u \in Nat
        BY <2>3, ValueGrows
      <3> HIDE DEF u, v, w, B, C, vh, wh
      <3>2. w * B <= (v - u + d) * B
        <4>1. w <= v - u + d /\ v - u + d \in Nat
          BY <1>1, <2>1, <3>1
        <4> QED BY <1>1, <4>1, ScaleUp
      <3>3. B * w <= B * (v - u) + B * d
        BY <1>1, <3>1, <3>2
      <3>4. B * w \in Nat /\ B * (v - u) \in Nat /\ B * d \in Nat /\ C * d \in Nat
        BY <1>1, <3>1, ProductIsNat
      <3> QED BY <1>2, <2>2, <3>1, <3>3, <3>4
    <2>4. CASE x <= h
      <3>1. vh - wh <= C * (u - v) /\ u - v \in Nat
        BY <2>4, ValueGrows
      <3> HIDE DEF u, v, w, B, C, vh, wh
      <3>2. (u - v + w) * C <= d * C
        <4>1. u - v + w <= d /\ u - v + w \in Nat
          BY <1>1, <2>1, <3>1
        <4> QED BY <1>1, <4>1, ScaleUp
      <3>3. C * (u - v) + C * w <= C * d
        BY <1>1, <3>1, <3>2
      <3>4. B * w \in Nat /\ C * w \in Nat /\ C * (u - v) \in Nat /\ C * d \in Nat
        BY <1>1, <3>1, ProductIsNat
      <3> QED BY <1>2, <2>2, <3>1, <3>3, <3>4
    <2> QED BY <2>3, <2>4
  <1>5. B * w = B * z + z * spread - y * rest
    <2>1. B * w = y * (a * Base)
      BY BaseIsPositive
    <2>2. y * (op * Base + op * spread - rest) = y * (op * Base) + y * (op * spread) - y * rest
      BY BaseIsPositive
    <2>3. y * (op * Base) = B * z /\ y * (op * spread) = z * spread
      BY BaseIsPositive
    <2> QED BY <2>1, <2>2, <2>3
  <1>6. C * z = B * z + z * ratio
    BY <1>1
  <1>7. z * ratio - z * spread <= room
    <2>1. z * (ratio - spread) = z * ratio - z * spread
      BY <1>1
    <2> QED BY <2>1
  <1>8. /\ B * w \in Nat /\ C * z \in Nat /\ B * z \in Nat /\ z * ratio \in Nat
        /\ z * spread \in Nat /\ y * rest \in Nat /\ C * d \in Nat
    BY <1>1, ProductIsNat
  <1> DEFINE i == B * w
             j == C * z
             k == B * z
             l == z * ratio
             n == z * spread
             e == y * rest
             f == C * d
  <1>9. wh + wo >= vh + vo - room - e - f
    <2>1. /\ i \in Nat /\ j \in Nat /\ k \in Nat /\ l \in Nat /\ n \in Nat /\ e \in Nat /\ f \in Nat
      BY <1>8
    <2>2. /\ vo - wo = j /\ wh >= vh + i - f /\ i = k + n - e /\ j = k + l /\ l - n <= room
      BY <1>3, <1>4, <1>5, <1>6, <1>7
    <2> HIDE DEF i, j, k, l, n, e, f, vh, vo, wh, wo
    <2> QED BY <1>2, <2>1, <2>2
  <1> QED BY <1>9 DEF e, f, vh, vo, wh, wo

-----------------------------------------------------------------------------
(* Liquidators: room                                                       *)

LEMMA OneSummandChanges ==
  ASSUME NEW f, NEW g, NEW a \in Markets,
         \A m \in Markets : f[m] \in Int /\ g[m] \in Int,
         \A m \in Markets : m # a => g[m] = f[m]
  PROVE  SumFunctionOnSet(g, Markets) = SumFunctionOnSet(f, Markets) - f[a] + g[a]
  <1>1. IsFiniteSet(Markets)
    BY LiquidatorsAssumption
  <1> QED BY <1>1, SumAfterChange

LEMMA SumOfTwo ==
  ASSUME NEW f, NEW g, NEW a \in Markets, NEW b \in Markets, a # b,
         f = [m \in Markets |-> f[m]], g = [m \in Markets |-> g[m]],
         \A m \in Markets : f[m] \in Int /\ g[m] \in Int,
         \A m \in Markets \ {a, b} : g[m] = f[m]
  PROVE  SumFunction(g) = SumFunction(f) - f[a] - f[b] + g[a] + g[b]
  <1> DEFINE e == [m \in Markets |-> IF m = a THEN g[a] ELSE f[m]]
             F == SumFunctionOnSet(f, Markets)
             E == SumFunctionOnSet(e, Markets)
             G == SumFunctionOnSet(g, Markets)
  <1>1. IsFiniteSet(Markets)
    BY LiquidatorsAssumption
  <1>2. \A m \in Markets : e[m] \in Int
    OBVIOUS
  <1>3. e[a] = g[a] /\ e[b] = f[b]
    OBVIOUS
  <1>4. \A m \in Markets : m # a => e[m] = f[m]
    OBVIOUS
  <1>5. \A m \in Markets : m # b => g[m] = e[m]
    OBVIOUS
  <1> HIDE DEF e
  <1>10. \A m \in Markets : f[m] \in Int /\ e[m] \in Int
    BY <1>2
  <1>11. \A m \in Markets : e[m] \in Int /\ g[m] \in Int
    BY <1>2
  <1>6. E = F - f[a] + e[a]
    BY <1>1, <1>4, <1>10, SumAfterChange
  <1>7. G = E - e[b] + g[b]
    <2> HIDE DEF E, F, G
    <2>1. SumFunctionOnSet(g, Markets) = SumFunctionOnSet(e, Markets) - e[b] + g[b]
      BY <1>11, <1>5, OneSummandChanges
    <2> QED BY <2>1 DEF E, G
  <1>8. SumFunction(f) = F /\ SumFunction(g) = G
    BY DEF SumFunction
  <1>9. F \in Int /\ E \in Int /\ G \in Int
    BY <1>1, <1>2, SumIsInt
  <1> HIDE DEF E, F, G
  <1> QED BY <1>3, <1>6, <1>7, <1>8, <1>9

LEMMA ValuesAreNat ==
  ASSUME NEW b \in [Markets -> Int]
  PROVE  SupplyValue(b) \in Nat /\ BorrowValue(b) \in Nat
  <1> DEFINE f == [m \in Markets |-> Positive(b[m], Price[m])]
             g == [m \in Markets |-> Negative(b[m], Price[m])]
  <1>1. \A m \in Markets : f[m] \in Nat /\ g[m] \in Nat
    BY PriceIsPositive, ValueIsInt
  <1>2. SupplyValue(b) = SumFunctionOnSet(f, Markets) /\ BorrowValue(b) = SumFunctionOnSet(g, Markets)
    BY DEF SupplyValue, BorrowValue, SumFunction
  <1> HIDE DEF f, g
  <1> QED BY <1>1, <1>2, SumIsNat, LiquidatorsAssumption

LEMMA ValuesOfPair ==
  ASSUME NEW b \in [Markets -> Int], NEW c \in [Markets -> Int],
         NEW held \in Markets, NEW owed \in Markets, held # owed,
         \A m \in Markets \ {held, owed} : c[m] = b[m]
  PROVE  LET hp == Price[held]
             op == Price[owed]
         IN  /\ SupplyValue(c) = SupplyValue(b)
                  - Positive(b[held], hp) - Positive(b[owed], op)
                  + Positive(c[held], hp) + Positive(c[owed], op)
             /\ BorrowValue(c) = BorrowValue(b)
                  - Negative(b[held], hp) - Negative(b[owed], op)
                  + Negative(c[held], hp) + Negative(c[owed], op)
  <1> DEFINE fb == [m \in Markets |-> Positive(b[m], Price[m])]
             fc == [m \in Markets |-> Positive(c[m], Price[m])]
             gb == [m \in Markets |-> Negative(b[m], Price[m])]
             gc == [m \in Markets |-> Negative(c[m], Price[m])]
  <1>1. \A m \in Markets : Price[m] \in Nat /\ b[m] \in Int /\ c[m] \in Int
    BY PriceIsPositive
  <1>2. \A m \in Markets : fb[m] \in Int /\ fc[m] \in Int /\ gb[m] \in Int /\ gc[m] \in Int
    BY <1>1, ValueIsInt
  <1>3. SumFunction(fc) = SumFunction(fb) - fb[held] - fb[owed] + fc[held] + fc[owed]
    <2>1. \A m \in Markets \ {held, owed} : fc[m] = fb[m]
      OBVIOUS
    <2>2. fb = [m \in Markets |-> fb[m]] /\ fc = [m \in Markets |-> fc[m]]
      OBVIOUS
    <2> HIDE DEF fb, fc, gb, gc
    <2> QED BY <1>2, <2>1, <2>2, SumOfTwo
  <1>4. SumFunction(gc) = SumFunction(gb) - gb[held] - gb[owed] + gc[held] + gc[owed]
    <2>1. \A m \in Markets \ {held, owed} : gc[m] = gb[m]
      OBVIOUS
    <2>2. gb = [m \in Markets |-> gb[m]] /\ gc = [m \in Markets |-> gc[m]]
      OBVIOUS
    <2> HIDE DEF fb, fc, gb, gc
    <2> QED BY <1>2, <2>1, <2>2, SumOfTwo
  <1>5. /\ SupplyValue(b) = SumFunction(fb) /\ SupplyValue(c) = SumFunction(fc)
        /\ BorrowValue(b) = SumFunction(gb) /\ BorrowValue(c) = SumFunction(gc)
    BY DEF SupplyValue, BorrowValue
  <1> QED BY <1>3, <1>4, <1>5

LEMMA RoomOfPair ==
  ASSUME NEW b \in [Markets -> Int], NEW c \in [Markets -> Int],
         NEW held \in Markets, NEW owed \in Markets, held # owed,
         \A m \in Markets \ {held, owed} : c[m] = b[m], NEW ratio \in Nat
  PROVE  LET hp == Price[held]
             op == Price[owed]
         IN  /\ Room(b, ratio) \in Int
             /\ Room(c, ratio) = Room(b, ratio)
                  - Value(b[held], hp, ratio) - Value(b[owed], op, ratio)
                  + Value(c[held], hp, ratio) + Value(c[owed], op, ratio)
  <1> DEFINE hp == Price[held]
             op == Price[owed]
             B == Base
             C == Base + ratio
             i == Positive(b[held], hp)
             j == Positive(b[owed], op)
             k == Positive(c[held], hp)
             l == Positive(c[owed], op)
             p == Negative(b[held], hp)
             q == Negative(b[owed], op)
             r == Negative(c[held], hp)
             s == Negative(c[owed], op)
             S == SupplyValue(b)
             T == BorrowValue(b)
             U == SupplyValue(c)
             V == BorrowValue(c)
  <1>1. hp \in Nat /\ op \in Nat /\ B \in Nat /\ C \in Nat
    BY PriceIsPositive, BaseIsPositive
  <1>2. b[held] \in Int /\ b[owed] \in Int /\ c[held] \in Int /\ c[owed] \in Int
    OBVIOUS
  <1>3. /\ i \in Nat /\ j \in Nat /\ k \in Nat /\ l \in Nat
        /\ p \in Nat /\ q \in Nat /\ r \in Nat /\ s \in Nat
    BY <1>1, <1>2, ValueIsInt
  <1>4. S \in Nat /\ T \in Nat /\ U = S - i - j + k + l /\ V = T - p - q + r + s
    BY ValuesAreNat, ValuesOfPair
  <1>5. /\ Value(b[held], hp, ratio) = B * i - C * p
        /\ Value(b[owed], op, ratio) = B * j - C * q
        /\ Value(c[held], hp, ratio) = B * k - C * r
        /\ Value(c[owed], op, ratio) = B * l - C * s
    BY DEF Value
  <1>6. Room(b, ratio) = S * B - T * C /\ Room(c, ratio) = U * B - V * C
    BY DEF Room
  <1> HIDE DEF hp, op, B, C, i, j, k, l, p, q, r, s, S, T, U, V
  <1>7. S * B - T * C \in Int
    BY <1>1, <1>4
  <1>8. U * B = S * B - B * i - B * j + B * k + B * l
    BY <1>1, <1>3, <1>4
  <1>9. V * C = T * C - C * p - C * q + C * r + C * s
    BY <1>1, <1>3, <1>4
  <1>10. /\ S * B \in Nat /\ T * C \in Nat /\ B * i \in Nat /\ B * j \in Nat /\ B * k \in Nat
         /\ B * l \in Nat /\ C * p \in Nat /\ C * q \in Nat /\ C * r \in Nat /\ C * s \in Nat
    BY <1>1, <1>3, <1>4, ProductIsNat
  <1>11. U * B - V * C = (S * B - T * C) - (B * i - C * p) - (B * j - C * q)
                           + (B * k - C * r) + (B * l - C * s)
    BY <1>8, <1>9, <1>10
  <1> QED BY <1>5, <1>6, <1>7, <1>11 DEF hp, op

LEMMA LiquidationPriceIs ==
  ASSUME NEW held \in Markets, NEW owed \in Markets
  PROVE  LET a == LiquidationPrice(held, owed)
             op == Price[owed]
             spread == Spread[<<held, owed>>]
             rest == (op * spread) % Base
         IN  /\ a \in Nat \ {0} /\ op <= a
             /\ rest \in Nat
             /\ a * Base = op * Base + op * spread - rest
  <1> DEFINE op == Price[owed]
             spread == Spread[<<held, owed>>]
             x == op * spread
             q == x \div Base
             rest == x % Base
  <1>1. op \in Nat \ {0} /\ spread \in Nat /\ Base \in Nat \ {0}
    BY PriceIsPositive, SpreadIsNat, BaseIsPositive
  <1>2. LiquidationPrice(held, owed) = op + q
    BY DEF LiquidationPrice, DecimalMul, GetPartial
  <1>3. x \in Nat
    BY <1>1, ProductIsNat
  <1> HIDE DEF x
  <1>4. q \in Nat /\ rest \in 0 .. (Base - 1) /\ x = q * Base + rest
    BY <1>1, <1>3, DivMod
  <1> HIDE DEF op, q, rest
  <1>5. (op + q) * Base = op * Base + q * Base
    BY <1>1, <1>4
  <1>6. q * Base \in Nat /\ op * Base \in Nat
    BY <1>1, <1>4, ProductIsNat
  <1>7. (op + q) * Base = op * Base + x - rest
    BY <1>1, <1>3, <1>4, <1>5, <1>6
  <1>8. op + q \in Nat \ {0} /\ op <= op + q /\ rest \in Nat
    BY <1>1, <1>4
  <1> QED BY <1>2, <1>7, <1>8 DEF op, rest, x

-----------------------------------------------------------------------------
(* Liquidators: one pair                                                   *)

PairStates ==
  [solid : [Markets -> Int], wei : [Markets -> Int], isLiquid : BOOLEAN]

\* From s to after, p of the debt is repaid and t of the collateral taken.
Pays(s, after, held, owed, t, p) ==
  /\ after \in PairStates
  /\ after.solid = [s.solid EXCEPT ![held] = @ + t, ![owed] = @ - p]
  /\ after.wei = [s.wei EXCEPT ![held] = @ - t, ![owed] = @ + p]

LEMMA MovedPays ==
  ASSUME NEW s \in PairStates, NEW held \in Markets, NEW owed \in Markets,
         held # owed, NEW t \in Int, NEW p \in Int
  PROVE  Pays(s, Moved(s, held, owed, t, p), held, owed, t, p)
  <1> DEFINE after == Moved(s, held, owed, t, p)
  <1>1. s.solid \in [Markets -> Int] /\ s.wei \in [Markets -> Int]
    BY DEF PairStates
  <1>2. /\ after.solid = [s.solid EXCEPT ![held] = @ + t, ![owed] = @ - p]
        /\ after.wei = [s.wei EXCEPT ![held] = @ - t, ![owed] = @ + p]
    BY DEF Moved
  <1>3. after.solid \in [Markets -> Int] /\ after.wei \in [Markets -> Int]
    BY <1>1, <1>2
  <1>4. after \in PairStates
    BY <1>3 DEF PairStates, Moved
  <1> QED BY <1>2, <1>4 DEF Pays

LEMMA LiquidatedIsState ==
  ASSUME NEW s \in PairStates, NEW held \in Markets, NEW owed \in Markets,
         held # owed, NEW amount \in Int
  PROVE  Liquidated(s, held, owed, amount) \in PairStates
  <1> DEFINE price == LiquidationPrice(held, owed)
             asked == Least(amount, -s.wei[owed])
             wanted == GetPartial(asked, price, Price[held])
             paid == GetPartialRoundUp(s.wei[held], Price[held], price)
  <1>1. s.wei[owed] \in Int /\ s.wei[held] \in Int
    BY DEF PairStates
  <1>2. asked \in Int
    BY <1>1 DEF Least
  <1>3. price \in Nat \ {0} /\ Price[held] \in Nat \ {0}
    BY LiquidationPriceIs, PriceIsPositive
  <1> HIDE DEF price, asked
  <1>4. wanted \in Int /\ paid \in Int
    <2>1. price \in Int /\ Price[held] \in Int
      BY <1>3
    <2>2. wanted \in Int
      BY <1>2, <1>3, <2>1, GetPartialIsInt
    <2>3. paid \in Int
      BY <1>1, <1>3, <2>1, RoundUpIsInt
    <2> QED BY <2>2, <2>3
  <1>5. Liquidated(s, held, owed, amount) =
          IF wanted > s.wei[held] THEN Moved(s, held, owed, s.wei[held], paid)
          ELSE Moved(s, held, owed, wanted, asked)
    BY DEF Liquidated, price, asked
  <1> HIDE DEF wanted, paid
  <1>6. /\ Moved(s, held, owed, s.wei[held], paid) \in PairStates
        /\ Moved(s, held, owed, wanted, asked) \in PairStates
    BY <1>1, <1>2, <1>4, MovedPays DEF Pays
  <1> QED BY <1>5, <1>6

(***************************************************************************)
(* A liquidation repays no more than was asked for and than is owed, and   *)
(* takes no more than there is, at the adjusted price but for a token.     *)
(***************************************************************************)
LEMMA LiquidationPays ==
  ASSUME NEW s \in PairStates, NEW held \in Markets, NEW owed \in Markets,
         held # owed, s.wei[held] >= 0, s.wei[owed] <= 0, NEW amount \in Nat
  PROVE  LET price == LiquidationPrice(held, owed)
         IN  \E t, p \in Nat :
               /\ Pays(s, Liquidated(s, held, owed, amount), held, owed, t, p)
               /\ p <= amount /\ p <= -s.wei[owed] /\ t <= s.wei[held]
               /\ t * Price[held] <= p * price
               /\ p * price < t * Price[held] + Price[held] + price
               /\ IF GetPartial(Least(amount, -s.wei[owed]), price, Price[held]) > s.wei[held]
                  THEN /\ t = s.wei[held]
                       /\ p = GetPartialRoundUp(s.wei[held], Price[held], price)
                  ELSE /\ p = Least(amount, -s.wei[owed])
                       /\ t = GetPartial(p, price, Price[held])
  <1> DEFINE price == LiquidationPrice(held, owed)
             hp == Price[held]
             w == s.wei[held]
             asked == Least(amount, -s.wei[owed])
             wanted == GetPartial(asked, price, hp)
             paid == GetPartialRoundUp(w, hp, price)
             after == Liquidated(s, held, owed, amount)
  <1>1. s.wei[owed] \in Int /\ w \in Nat
    BY DEF PairStates
  <1>2. asked \in Nat /\ asked <= amount /\ asked <= -s.wei[owed]
    BY <1>1 DEF Least
  <1>3. price \in Nat \ {0} /\ hp \in Nat \ {0}
    BY LiquidationPriceIs, PriceIsPositive
  <1>4. after = IF wanted > w THEN Moved(s, held, owed, w, paid)
                ELSE Moved(s, held, owed, wanted, asked)
    BY DEF Liquidated
  <1> HIDE DEF price, hp, w, asked, after
  <1>5. /\ wanted \in Nat /\ wanted * hp <= asked * price
        /\ asked * price < wanted * hp + hp
    BY <1>2, <1>3, PartialBounds
  <1>6. paid \in Nat /\ w * hp <= paid * price /\ paid * price < w * hp + price
    BY <1>1, <1>3, RoundUpBounds
  <1>7. wanted * hp \in Nat /\ w * hp \in Nat /\ asked * price \in Nat /\ paid * price \in Nat
    BY <1>1, <1>2, <1>3, <1>5, <1>6, ProductIsNat
  <1>8. CASE wanted > w
    <2>1. paid <= asked
      BY <1>1, <1>2, <1>3, <1>8, BoundedRepayment
    <2> HIDE DEF wanted, paid
    <2>2. Pays(s, after, held, owed, w, paid)
      BY <1>1, <1>4, <1>6, <1>8, MovedPays
    <2>3. paid <= amount /\ paid <= -s.wei[owed] /\ w <= w
      BY <1>1, <1>2, <1>6, <2>1
    <2>4. paid * price < w * hp + hp + price
      BY <1>3, <1>6, <1>7
    <2> QED BY <1>1, <1>6, <1>8, <2>2, <2>3, <2>4 DEF price, hp, w, asked, wanted, paid, after
  <1>9. CASE ~(wanted > w)
    <2> HIDE DEF wanted, paid
    <2>1. Pays(s, after, held, owed, wanted, asked)
      BY <1>2, <1>4, <1>5, <1>9, MovedPays
    <2>2. wanted <= w
      BY <1>1, <1>5, <1>9
    <2>3. asked * price < wanted * hp + hp + price
      BY <1>3, <1>5, <1>7
    <2> QED BY <1>2, <1>5, <1>9, <2>1, <2>2, <2>3 DEF price, hp, w, asked, wanted, after
  <1> QED BY <1>8, <1>9

\* The balances the liquidator would have with those of the cache.
CachedBalances(s, c, held, owed) ==
  [s.solid EXCEPT ![held] = c.held, ![owed] = c.owed]

(***************************************************************************)
(* What V1 sets its cache to are the values of the balances it has then.   *)
(***************************************************************************)
LEMMA CacheIsSet ==
  ASSUME NEW s \in PairStates, NEW held \in Markets, NEW owed \in Markets,
         held # owed, NEW x \in Int, NEW y \in Int
  PROVE  LET c == SetCacheWeiValues(InitializeV1Cache(s, held, owed), held, owed, x, y)
             mid == CachedBalances(s, c, held, owed)
         IN  /\ c.held = x /\ c.owed = y /\ c.toLiquidate = s.solid[owed] - y
             /\ mid \in [Markets -> Int]
             /\ c.supply = SupplyValue(mid) /\ c.borrow = BorrowValue(mid)
  <1> DEFINE c0 == InitializeV1Cache(s, held, owed)
             c == SetCacheWeiValues(c0, held, owed, x, y)
             b == s.solid
             mid == CachedBalances(s, c, held, owed)
             hp == Price[held]
             op == Price[owed]
  <1>1. /\ c0.toLiquidate = 0 /\ c0.held = b[held] /\ c0.owed = b[owed]
        /\ c0.supply = SupplyValue(b) /\ c0.borrow = BorrowValue(b)
    BY DEF InitializeV1Cache
  <1>2. b \in [Markets -> Int] /\ b[held] \in Int /\ b[owed] \in Int
    BY DEF PairStates
  <1> HIDE DEF c0
  <1>3. /\ c.held = x /\ c.owed = y /\ c.toLiquidate = 0 + b[owed] - y
        /\ c.supply = SupplyValue(b) - Positive(b[held], hp) - Positive(b[owed], op)
                        + Positive(x, hp) + Positive(y, op)
        /\ c.borrow = BorrowValue(b) - Negative(b[held], hp) - Negative(b[owed], op)
                        + Negative(x, hp) + Negative(y, op)
    BY <1>1 DEF SetCacheWeiValues
  <1> HIDE DEF c
  <1>4. mid = [b EXCEPT ![held] = x, ![owed] = y]
    BY <1>3 DEF CachedBalances
  <1>5. /\ mid \in [Markets -> Int] /\ mid[held] = x /\ mid[owed] = y
        /\ \A m \in Markets \ {held, owed} : mid[m] = b[m]
    BY <1>2, <1>4
  <1> HIDE DEF mid, b
  <1>6. c.supply = SupplyValue(mid) /\ c.borrow = BorrowValue(mid)
    <2>1. /\ SupplyValue(mid) = SupplyValue(b) - Positive(b[held], hp) - Positive(b[owed], op)
                                   + Positive(mid[held], hp) + Positive(mid[owed], op)
          /\ BorrowValue(mid) = BorrowValue(b) - Negative(b[held], hp) - Negative(b[owed], op)
                                   + Negative(mid[held], hp) + Negative(mid[owed], op)
      BY <1>2, <1>5, ValuesOfPair
    <2> QED BY <1>3, <1>5, <2>1
  <1>7. c.toLiquidate = b[owed] - y
    BY <1>2, <1>3
  <1> QED BY <1>3, <1>5, <1>6, <1>7 DEF c, c0, mid, b

(***************************************************************************)
(* Up to the safe amount the liquidator only gives up supply or only       *)
(* reduces debt; after it he has no debt of the held market and no supply  *)
(* of the owed one, and no assertion fails.                                *)
(***************************************************************************)
LEMMA SafeAmountIs ==
  ASSUME NEW s \in PairStates, NEW held \in Markets, NEW owed \in Markets, held # owed
  PROVE  LET c == CalculateSafeLiquidationAmount(InitializeV1Cache(s, held, owed), held, owed)
             mid == CachedBalances(s, c, held, owed)
             h == s.solid[held]
             o == s.solid[owed]
             hp == Price[held]
             a == LiquidationPrice(held, owed)
         IN  /\ c.held \in Nat /\ c.owed \in Int /\ c.owed <= 0
             /\ c.toLiquidate \in Nat /\ c.owed = o - c.toLiquidate
             /\ c.held * hp <= h * hp + c.toLiquidate * a + a
             /\ \/ c.toLiquidate = 0
                \/ c.toLiquidate = o
                \/ c.toLiquidate * a <= -(h * hp)
             /\ mid \in [Markets -> Int]
             /\ c.supply = SupplyValue(mid) /\ c.borrow = BorrowValue(mid)
  <1> DEFINE c0 == InitializeV1Cache(s, held, owed)
             c == CalculateSafeLiquidationAmount(c0, held, owed)
             b == s.solid
             h == b[held]
             o == b[owed]
             hp == Price[held]
             a == LiquidationPrice(held, owed)
             more == GetPartial(o, a, hp)
             less == GetPartial(-h, hp, a)
  <1>1. /\ c0.toLiquidate = 0 /\ c0.held = h /\ c0.owed = o
        /\ c0.supply = SupplyValue(b) /\ c0.borrow = BorrowValue(b)
    BY DEF InitializeV1Cache
  <1>2. b \in [Markets -> Int] /\ h \in Int /\ o \in Int
    BY DEF PairStates
  <1>3. hp \in Nat \ {0} /\ a \in Nat \ {0}
    BY PriceIsPositive, LiquidationPriceIs
  <1>4. h * hp \in Int /\ o * a \in Int
    BY <1>2, <1>3
  <1>5. c = IF o <= 0 /\ h >= 0 THEN c0
            ELSE IF o > 0 /\ (h >= 0 \/ o * a > -(h * hp))
            THEN SetCacheWeiValues(c0, held, owed, h + more, 0)
            ELSE SetCacheWeiValues(c0, held, owed, 0, o - less)
    <2> HIDE DEF c0, h, o
    <2> QED BY <1>1 DEF CalculateSafeLiquidationAmount, OwedGoesToZeroLast, hp, a
  <1>6. (-h) * hp = -(h * hp)
    BY <1>2, <1>3
  <1>7. CASE o <= 0 /\ h >= 0
    <2>1. c = c0
      BY <1>5, <1>7
    <2>2. CachedBalances(s, c, held, owed) = b
      <3>1. CachedBalances(s, c, held, owed) = [b EXCEPT ![held] = b[held], ![owed] = b[owed]]
        BY <1>1, <2>1 DEF CachedBalances
      <3> QED BY <1>2, <3>1
    <2> HIDE DEF c0, c, b, h, o, hp, a
    <2>3. /\ c.held = h /\ c.owed = o /\ c.toLiquidate = 0
          /\ c.supply = SupplyValue(b) /\ c.borrow = BorrowValue(b)
      BY <1>1, <2>1
    <2>4. c.held \in Nat /\ c.owed \in Int /\ c.owed <= 0 /\ c.toLiquidate \in Nat
      BY <1>2, <1>7, <2>3
    <2>5. c.owed = o - c.toLiquidate
      BY <1>2, <2>3
    <2>6. c.held * hp <= h * hp + c.toLiquidate * a + a
      <3>1. h * hp <= h * hp + 0 * a + a
        BY <1>3, <1>4
      <3> QED BY <2>3, <3>1
    <2> QED BY <1>2, <2>2, <2>3, <2>4, <2>5, <2>6 DEF c0, c, b, h, o, hp, a
  <1>8. CASE ~(o <= 0 /\ h >= 0) /\ o > 0 /\ (h >= 0 \/ o * a > -(h * hp))
    <2>0. o \in Nat
      BY <1>2, <1>8
    <2>1. /\ more \in Nat /\ more * hp <= o * a /\ o * a < more * hp + hp
      BY <1>3, <2>0, PartialBounds
    <2>2. c = SetCacheWeiValues(c0, held, owed, h + more, 0)
      BY <1>5, <1>8
    <2>3. /\ c.held = h + more /\ c.owed = 0 /\ c.toLiquidate = o - 0
          /\ CachedBalances(s, c, held, owed) \in [Markets -> Int]
          /\ c.supply = SupplyValue(CachedBalances(s, c, held, owed))
          /\ c.borrow = BorrowValue(CachedBalances(s, c, held, owed))
      <3>1. h + more \in Int /\ 0 \in Int
        BY <1>2, <2>1
      <3> HIDE DEF more
      <3> QED BY <2>2, <3>1, CacheIsSet
    <2> HIDE DEF c0, c, more
    <2>4. h + more >= 0
      <3>1. CASE h >= 0
        BY <1>2, <2>1, <3>1
      <3>2. CASE ~(h >= 0)
        <4>1. (-h) * hp < (more + 1) * hp
          <5>1. (more + 1) * hp = more * hp + hp /\ more * hp \in Int
            BY <1>3, <2>1
          <5> QED BY <1>3, <1>4, <1>6, <1>8, <2>1, <3>2, <5>1
        <4>2. -h \in Int /\ more + 1 \in Int
          BY <1>2, <2>1
        <4>3. -h < more + 1
          BY <1>3, <4>1, <4>2, CancelFactor
        <4> QED BY <1>2, <2>1, <4>3
      <3> QED BY <3>1, <3>2
    <2>5. c.held * hp <= h * hp + c.toLiquidate * a + a
      <3>1. (h + more) * hp = h * hp + more * hp
        BY <1>2, <1>3, <2>1
      <3>2. c.toLiquidate = o
        BY <1>2, <2>3
      <3>3. more * hp \in Int
        BY <1>3, <2>1
      <3>4. h * hp + more * hp <= h * hp + o * a + a
        BY <1>3, <1>4, <2>1, <3>3
      <3> QED BY <2>3, <3>1, <3>2, <3>4
    <2>6. c.held \in Nat /\ c.owed \in Int /\ c.owed <= 0 /\ c.toLiquidate \in Nat /\ c.owed = o - c.toLiquidate
      BY <1>2, <1>8, <2>1, <2>3, <2>4
    <2>7. c.toLiquidate = o
      BY <1>2, <2>3
    <2> QED BY <2>3, <2>5, <2>6, <2>7 DEF c0, c
  <1>9. CASE ~(o <= 0 /\ h >= 0) /\ ~(o > 0 /\ (h >= 0 \/ o * a > -(h * hp)))
    <2>0. -h \in Nat
      BY <1>2, <1>9
    <2>1. /\ less \in Nat /\ less * a <= (-h) * hp /\ (-h) * hp < less * a + a
      BY <1>3, <2>0, PartialBounds
    <2>2. c = SetCacheWeiValues(c0, held, owed, 0, o - less)
      BY <1>5, <1>9
    <2>3. /\ c.held = 0 /\ c.owed = o - less /\ c.toLiquidate = o - (o - less)
          /\ CachedBalances(s, c, held, owed) \in [Markets -> Int]
          /\ c.supply = SupplyValue(CachedBalances(s, c, held, owed))
          /\ c.borrow = BorrowValue(CachedBalances(s, c, held, owed))
      <3>1. o - less \in Int /\ 0 \in Int
        BY <1>2, <2>1
      <3> HIDE DEF less
      <3> QED BY <2>2, <3>1, CacheIsSet
    <2> HIDE DEF c0, c, less
    <2>4. o - less <= 0
      <3>1. CASE o <= 0
        BY <1>2, <2>1, <3>1
      <3>2. CASE ~(o <= 0)
        <4>1. o * a < (less + 1) * a
          <5>1. (less + 1) * a = less * a + a /\ less * a \in Int
            BY <1>3, <2>1
          <5> QED BY <1>2, <1>3, <1>4, <1>6, <1>9, <2>1, <3>2, <5>1
        <4>2. less + 1 \in Int
          BY <2>1
        <4>3. o < less + 1
          BY <1>2, <1>3, <4>1, <4>2, CancelFactor
        <4> QED BY <1>2, <2>1, <4>3
      <3> QED BY <3>1, <3>2
    <2>5. c.toLiquidate = less
      BY <1>2, <2>1, <2>3
    <2>6. c.held * hp <= h * hp + c.toLiquidate * a + a
      <3>1. 0 * hp = 0 /\ less * a \in Int
        BY <1>3, <2>1
      <3>2. 0 <= h * hp + less * a + a
        BY <1>3, <1>4, <1>6, <2>1, <3>1
      <3> QED BY <2>3, <2>5, <3>1, <3>2
    <2>7. c.held \in Nat /\ c.owed \in Int /\ c.owed <= 0 /\ c.toLiquidate \in Nat /\ c.owed = o - c.toLiquidate
      BY <1>2, <2>1, <2>3, <2>4, <2>5
    <2>8. c.toLiquidate * a <= -(h * hp)
      BY <1>6, <2>1, <2>5
    <2> QED BY <2>3, <2>6, <2>7, <2>8 DEF c0, c
  <1> QED BY <1>7, <1>8, <1>9

\* What is left of the supply when what the ratio asks for is taken off.
Buffer(c, ratio) == c.supply - (c.borrow + DecimalMul(c.borrow, ratio))

(***************************************************************************)
(* What V1 asks for after the safe amount has a worth, times the ratio     *)
(* less the spread, of at most the buffer; and Room is the buffer but for  *)
(* what a rounding hides.                                                  *)
(***************************************************************************)
LEMMA AmountIsBuffered ==
  ASSUME NEW s \in PairStates, NEW held \in Markets, NEW owed \in Markets, held # owed,
         NEW ratio \in Nat,
         AmountForPair(s, held, owed, ratio).outcome = "done",
         AmountForPair(s, held, owed, ratio).amount # 0
  PROVE  LET c == CalculateSafeLiquidationAmount(InitializeV1Cache(s, held, owed), held, owed)
             amount == AmountForPair(s, held, owed, ratio).amount
             spread == Spread[<<held, owed>>]
         IN  /\ Buffer(c, ratio) \in Nat /\ spread < ratio
             /\ Room(CachedBalances(s, c, held, owed), ratio) >= Base * Buffer(c, ratio) - Base
             /\ \E x \in Nat : /\ amount = c.toLiquidate + x
                               /\ (x * Price[owed]) * (ratio - spread) <= Base * Buffer(c, ratio)
  <1> DEFINE c == CalculateSafeLiquidationAmount(InitializeV1Cache(s, held, owed), held, owed)
             asked == AmountForPair(s, held, owed, ratio)
             spread == Spread[<<held, owed>>]
             mid == CachedBalances(s, c, held, owed)
             op == Price[owed]
             extra == GetPartial(c.borrow, ratio, Base)
             buffer == c.supply - (c.borrow + extra)
             value == GetPartial(buffer, Base, ratio - spread)
             x == value \div op
  <1>1. /\ c.toLiquidate \in Nat
        /\ mid \in [Markets -> Int]
        /\ c.supply = SupplyValue(mid) /\ c.borrow = BorrowValue(mid)
    BY SafeAmountIs
  <1>2. asked = CalculateMaxLiquidationAmount(c, held, owed, ratio)
    BY DEF AmountForPair
  <1>3. /\ asked.outcome = "done" /\ asked.amount # 0
    OBVIOUS
  <1> HIDE DEF asked, mid, c
  <1>4. /\ c.supply >= c.borrow + extra /\ ~(ratio <= spread)
        /\ asked.amount = c.toLiquidate + x
    BY <1>2, <1>3 DEF CalculateMaxLiquidationAmount, HasMargin, DecimalMul, DecimalDiv
  <1>5. c.supply \in Nat /\ c.borrow \in Nat
    BY <1>1, ValuesAreNat
  <1>6. spread \in Nat /\ op \in Nat \ {0} /\ Base \in Nat \ {0}
    BY SpreadIsNat, PriceIsPositive, BaseIsPositive
  <1>7. /\ extra \in Nat /\ extra * Base <= c.borrow * ratio
        /\ c.borrow * ratio < extra * Base + Base
    BY <1>5, <1>6, PartialBounds
  <1> HIDE DEF extra, spread, op
  <1>8. buffer \in Nat /\ Buffer(c, ratio) = buffer
    BY <1>4, <1>5, <1>7 DEF Buffer, DecimalMul, extra
  <1>9. ratio - spread \in Nat \ {0}
    BY <1>4, <1>6
  <1>10. Room(mid, ratio) >= Base * buffer - Base
    <2>1. Room(mid, ratio) = c.supply * Base - c.borrow * (Base + ratio)
      BY <1>1 DEF Room
    <2>2. c.borrow * (Base + ratio) = c.borrow * Base + c.borrow * ratio
      BY <1>5, <1>6
    <2>3. Base * buffer = c.supply * Base - c.borrow * Base - extra * Base
      BY <1>5, <1>6, <1>7
    <2>4. /\ c.supply * Base \in Nat /\ c.borrow * Base \in Nat
          /\ c.borrow * ratio \in Nat /\ extra * Base \in Nat
      BY <1>5, <1>6, <1>7, ProductIsNat
    <2> HIDE DEF buffer
    <2> QED BY <1>6, <1>7, <2>1, <2>2, <2>3, <2>4
  <1> HIDE DEF buffer
  <1>11. value \in Nat /\ value * (ratio - spread) <= buffer * Base
    BY <1>6, <1>8, <1>9, PartialBounds
  <1> HIDE DEF value
  <1>12. x \in Nat /\ x * op <= value
    <2>1. /\ x \in Nat /\ value % op \in 0 .. (op - 1) /\ value = x * op + (value % op)
      BY <1>6, <1>11, DivMod
    <2> HIDE DEF x
    <2>2. x * op \in Nat
      BY <1>6, <2>1, ProductIsNat
    <2> QED BY <1>6, <1>11, <2>1, <2>2
  <1> HIDE DEF x
  <1>13. (x * op) * (ratio - spread) <= Base * buffer
    <2>1. x * op \in Nat
      BY <1>6, <1>12, ProductIsNat
    <2>2. (x * op) * (ratio - spread) <= value * (ratio - spread)
      BY <1>9, <1>11, <1>12, <2>1, ScaleUp
    <2>3. (x * op) * (ratio - spread) \in Nat /\ value * (ratio - spread) \in Nat
      BY <1>9, <1>11, <2>1, ProductIsNat
    <2>4. buffer * Base = Base * buffer /\ buffer * Base \in Nat
      BY <1>6, <1>8, ProductIsNat
    <2> QED BY <1>11, <2>2, <2>3, <2>4
  <1>14. spread < ratio
    BY <1>4, <1>6
  <1> QED BY <1>4, <1>8, <1>10, <1>12, <1>13, <1>14 DEF asked, c, mid, spread, op

RoomIsKept(before, after, held, owed, ratio) ==
  Room(after, ratio)
    >= Least(Room(before, ratio), 0)
         - PairRounding(held, owed, ratio, before[owed] - after[owed])

(***************************************************************************)
(* One pair does not bring the liquidator below the ratio, nor further     *)
(* below than he was, by more than what is rounded.                        *)
(***************************************************************************)
LEMMA PairKeepsRoom ==
  ASSUME NEW s \in PairStates, NEW held \in Markets, NEW owed \in Markets, held # owed,
         s.wei[held] > 0, s.wei[owed] < 0, NEW ratio \in Nat,
         AmountForPair(s, held, owed, ratio).outcome = "done",
         AmountForPair(s, held, owed, ratio).amount # 0
  PROVE  LET after == Liquidated(s, held, owed, AmountForPair(s, held, owed, ratio).amount)
         IN  after \in PairStates /\ RoomIsKept(s.solid, after.solid, held, owed, ratio)
  <1> DEFINE amount == AmountForPair(s, held, owed, ratio).amount
             after == Liquidated(s, held, owed, amount)
             c == CalculateSafeLiquidationAmount(InitializeV1Cache(s, held, owed), held, owed)
             mid == CachedBalances(s, c, held, owed)
             b == s.solid
             e == after.solid
             h == b[held]
             o == b[owed]
             hp == Price[held]
             op == Price[owed]
             a == LiquidationPrice(held, owed)
             spread == Spread[<<held, owed>>]
             rest == (op * spread) % Base
             l == c.toLiquidate
             C == Base + ratio
  <1>1. /\ c.held \in Nat /\ c.owed \in Int /\ c.owed <= 0 /\ l \in Nat /\ c.owed = o - l
        /\ c.held * hp <= h * hp + l * a + a
        /\ l = 0 \/ l = o \/ l * a <= -(h * hp)
        /\ mid \in [Markets -> Int]
    BY SafeAmountIs
  <1>2. /\ Buffer(c, ratio) \in Nat /\ spread < ratio
        /\ Room(mid, ratio) >= Base * Buffer(c, ratio) - Base
        /\ \E x \in Nat : amount = l + x /\ (x * op) * (ratio - spread) <= Base * Buffer(c, ratio)
    BY AmountIsBuffered
  <1>3. b \in [Markets -> Int] /\ h \in Int /\ o \in Int
        /\ s.wei[held] \in Int /\ s.wei[owed] \in Int
    BY DEF PairStates
  <1>4. /\ hp \in Nat \ {0} /\ op \in Nat \ {0} /\ a \in Nat \ {0} /\ op <= a
        /\ rest \in Nat /\ a * Base = op * Base + op * spread - rest
        /\ spread \in Nat /\ Base \in Nat \ {0} /\ C \in Nat \ {0} /\ Base <= C
    BY PriceIsPositive, LiquidationPriceIs, SpreadIsNat, BaseIsPositive
  <1> HIDE DEF amount
  <1>5. PICK x \in Nat : amount = l + x /\ (x * op) * (ratio - spread) <= Base * Buffer(c, ratio)
    BY <1>2
  <1>6. PICK t \in Nat, p \in Nat :
          /\ Pays(s, after, held, owed, t, p)
          /\ p <= amount
          /\ t * hp <= p * a /\ p * a < t * hp + hp + a
    <2>1. amount \in Nat
      BY <1>1, <1>5
    <2>2. s.wei[held] >= 0 /\ s.wei[owed] <= 0
      BY <1>3
    <2> QED BY <2>1, <2>2, LiquidationPays
  <1>7. /\ after \in PairStates
        /\ e = [b EXCEPT ![held] = @ + t, ![owed] = @ - p]
    BY <1>6 DEF Pays
  <1> HIDE DEF after, c, mid, b, e, hp, op, a, spread, rest
  <1>8. /\ e \in [Markets -> Int] /\ e[held] = h + t /\ e[owed] = o - p
        /\ \A m \in Markets \ {held, owed} : e[m] = b[m]
    BY <1>3, <1>7
  <1>9. mid = [b EXCEPT ![held] = c.held, ![owed] = c.owed]
    BY DEF mid, CachedBalances, b
  <1>10. /\ mid[held] = c.held /\ mid[owed] = c.owed
         /\ \A m \in Markets \ {held, owed} : e[m] = mid[m]
    BY <1>3, <1>8, <1>9
  <1> DEFINE bound == 2 * C * (hp + a) + p * rest
  <1>11. PairRounding(held, owed, ratio, o - (o - p)) = bound
    <2>1. o - (o - p) = p
      BY <1>3
    <2> QED BY <2>1 DEF PairRounding, hp, a, op, spread, rest
  <1>12. p * rest \in Nat /\ C * (hp + a) \in Nat /\ C * hp \in Nat /\ C * a \in Nat
    BY <1>4, ProductIsNat
  <1>13. Room(b, ratio) \in Int /\ Room(mid, ratio) \in Int
    <2>1. \A m \in Markets \ {held, owed} : e[m] = b[m]
      BY <1>8
    <2> QED BY <1>1, <1>3, <1>8, <1>10, <2>1, RoomOfPair
  <1> DEFINE ch == c.held
             co == c.owed
  <1>16. /\ ch \in Nat /\ co \in Int /\ co <= 0 /\ l \in Nat /\ co = o - l
    BY <1>1
  <1>17. ch * hp <= h * hp + l * a + a
    BY <1>1
  <1>14. CASE p < l
    <2>1. p <= o \/ h + t <= 0
      <3>1. CASE l = 0
        BY <1>14, <3>1
      <3>2. CASE l = o
        BY <1>3, <1>14, <3>2
      <3>3. CASE l * a <= -(h * hp)
        <4>1. p * a <= l * a
          BY <1>1, <1>4, <1>14, ScaleUp
        <4>2. t * hp \in Int /\ p * a \in Int /\ l * a \in Int /\ h * hp \in Int
          BY <1>1, <1>3, <1>4
        <4>3. t * hp <= -(h * hp)
          BY <1>6, <3>3, <4>1, <4>2
        <4>4. (h + t) * hp = h * hp + t * hp
          BY <1>3, <1>4
        <4>5. (h + t) * hp < 1 * hp
          BY <1>4, <4>2, <4>3, <4>4
        <4>6. h + t \in Int /\ 1 \in Int
          BY <1>3
        <4>7. h + t < 1
          BY <1>4, <4>5, <4>6, CancelFactor
        <4> QED BY <4>6, <4>7
      <3> QED BY <1>1, <3>1, <3>2, <3>3
    <2>2. Value(h + t, hp, ratio) + Value(o - p, op, ratio)
            >= Value(h, hp, ratio) + Value(o, op, ratio) - C * (hp + a)
      <3>1. hp + a \in Nat /\ p * a < t * hp + (hp + a)
        <4>1. t * hp \in Nat
          BY <1>4, ProductIsNat
        <4> QED BY <1>4, <1>6, <4>1
      <3>2. a \in Nat
        BY <1>4
      <3> QED BY <1>3, <1>4, <1>6, <2>1, <3>1, <3>2, SafePartIsSafe
    <2>3. Room(e, ratio) = Room(b, ratio)
            - Value(h, hp, ratio) - Value(o, op, ratio)
            + Value(h + t, hp, ratio) + Value(o - p, op, ratio)
      BY <1>3, <1>8, RoomOfPair DEF hp, op
    <2>4. /\ Value(h, hp, ratio) \in Int /\ Value(o, op, ratio) \in Int
          /\ Value(h + t, hp, ratio) \in Int /\ Value(o - p, op, ratio) \in Int
      <3>1. h + t \in Int /\ o - p \in Int /\ hp \in Nat /\ op \in Nat
        BY <1>3, <1>4
      <3> QED BY <1>3, <3>1, ValueIsInt
    <2> DEFINE loss == C * (hp + a)
    <2>5. loss \in Nat /\ bound = 2 * loss + p * rest
      BY <1>4, <1>12
    <2>6. Room(e, ratio) >= Room(b, ratio) - loss
      BY <1>12, <1>13, <2>2, <2>3, <2>4
    <2>7. Room(e, ratio) \in Int
      BY <1>13, <2>3, <2>4
    <2> HIDE DEF loss, bound
    <2>8. Room(e, ratio) >= Least(Room(b, ratio), 0) - bound
      BY <1>12, <1>13, <2>5, <2>6, <2>7 DEF Least
    <2> QED BY <1>7, <1>8, <1>11, <2>8 DEF RoomIsKept, after, amount, b, e
  <1>15. CASE ~(p < l)
    <2> DEFINE y == p - l
               d == hp + a + a
               buffer == Base * Buffer(c, ratio)
    <2>1. y \in Nat /\ y <= x /\ y <= p
      BY <1>1, <1>5, <1>6, <1>15
    <2>2. ch * hp + y * a <= (h + t) * hp + d
      <3>1. y * a = p * a - l * a
        BY <1>1, <1>4
      <3>2. (h + t) * hp = h * hp + t * hp
        BY <1>3, <1>4
      <3>3. /\ h * hp \in Int /\ t * hp \in Int /\ p * a \in Int /\ l * a \in Int
            /\ ch * hp \in Int
        <4> HIDE DEF h, l, ch
        <4> QED BY <1>3, <1>4, <1>16
      <3> QED BY <1>17, <1>4, <1>6, <3>1, <3>2, <3>3
    <2>3. (y * op) * (ratio - spread) <= buffer
      <3>1. ratio - spread \in Nat
        BY <1>2, <1>4
      <3>2. y * op <= x * op /\ y * op \in Nat /\ x * op \in Nat
        BY <1>4, <2>1, ScaleUp, ProductIsNat
      <3>3. (y * op) * (ratio - spread) <= (x * op) * (ratio - spread)
        BY <3>1, <3>2, ScaleUp
      <3>4. (y * op) * (ratio - spread) \in Nat /\ (x * op) * (ratio - spread) \in Nat
        BY <3>1, <3>2, ProductIsNat
      <3>5. buffer \in Nat
        BY <1>2, <1>4, ProductIsNat
      <3> QED BY <1>5, <3>3, <3>4, <3>5
    <2>4. buffer \in Nat /\ d \in Nat /\ h + t \in Int /\ spread <= ratio /\ a \in Nat
      BY <1>2, <1>3, <1>4, ProductIsNat
    <2>5. o - p = c.owed - y
      BY <1>1, <1>3
    <2> HIDE DEF y, d, buffer
    <2>6. Value(h + t, hp, ratio) + Value(c.owed - y, op, ratio)
            >= Value(c.held, hp, ratio) + Value(c.owed, op, ratio) - buffer
                 - y * rest - C * d
      <3>1. h + t \in Int /\ hp \in Nat \ {0} /\ op \in Nat \ {0} /\ rest \in Nat /\ spread \in Nat
            /\ a * Base = op * Base + op * spread - rest
        BY <1>4, <2>4
      <3> HIDE DEF h, ch, co
      <3>2. Value(h + t, hp, ratio) + Value(co - y, op, ratio)
              >= Value(ch, hp, ratio) + Value(co, op, ratio) - buffer
                   - y * rest - (Base + ratio) * d
        <4>1. FurtherPart(ch, co, y, h + t, hp, op, a, d, ratio, spread, rest, buffer)
          BY <1>16, <2>1, <2>2, <2>3, <2>4, <3>1 DEF FurtherPart
        <4> QED BY <4>1, FurtherPartIsCovered
      <3> QED BY <3>2 DEF ch, co
    <2>7. Room(e, ratio) = Room(mid, ratio)
            - Value(c.held, hp, ratio) - Value(c.owed, op, ratio)
            + Value(h + t, hp, ratio) + Value(o - p, op, ratio)
      <3>1. Room(e, ratio) = Room(mid, ratio)
              - Value(mid[held], hp, ratio) - Value(mid[owed], op, ratio)
              + Value(e[held], hp, ratio) + Value(e[owed], op, ratio)
        BY <1>1, <1>8, <1>10, RoomOfPair DEF hp, op
      <3> QED BY <1>8, <1>10, <3>1
    <2>8. /\ Value(c.held, hp, ratio) \in Int /\ Value(c.owed, op, ratio) \in Int
          /\ Value(h + t, hp, ratio) \in Int /\ Value(o - p, op, ratio) \in Int
      <3>1. h + t \in Int /\ o - p \in Int /\ hp \in Nat /\ op \in Nat
        BY <1>3, <1>4
      <3>2. ch \in Int /\ co \in Int
        BY <1>16
      <3> QED BY <3>1, <3>2, ValueIsInt
    <2>9. y * rest \in Nat /\ C * d \in Nat /\ y * rest <= p * rest
      BY <1>4, <2>1, <2>4, ProductIsNat, ScaleUp
    <2>10. Base + C * d <= 2 * C * (hp + a)
      <3>1. C * d = C * hp + C * a + C * a
        BY <1>4 DEF d
      <3>2. 2 * C * (hp + a) = 2 * (C * hp) + 2 * (C * a)
        BY <1>4
      <3>3. C <= C * hp
        <4>1. 1 * C <= hp * C /\ hp * C = C * hp
          BY <1>4, ScaleUp
        <4> QED BY <1>4, <4>1
      <3> QED BY <1>4, <1>12, <3>1, <3>2, <3>3
    <2>11. Room(e, ratio) \in Int
      BY <1>13, <2>7, <2>8
    <2>12. Room(mid, ratio) >= buffer - Base
      BY <1>2 DEF buffer
    <2> DEFINE i == y * rest
               j == C * d
               k == 2 * C * (hp + a)
               n == p * rest
    <2>13. Room(e, ratio) >= -(k + n)
      <3>1. i \in Nat /\ j \in Nat /\ n \in Nat /\ k \in Nat
        BY <1>4, <1>12, <2>9
      <3>2. i <= n /\ Base + j <= k
        BY <2>9, <2>10
      <3>3. Room(e, ratio) >= Room(mid, ratio) - buffer - i - j
        <4> HIDE DEF i, j
        <4> QED BY <1>13, <2>4, <2>5, <2>6, <2>7, <2>8, <3>1 DEF i, j
      <3> HIDE DEF i, j, k, n
      <3> QED BY <1>4, <1>13, <2>4, <2>11, <2>12, <3>1, <3>2, <3>3
    <2>14. bound = k + n /\ k + n \in Nat
      BY <1>4, <1>12
    <2> HIDE DEF k, n, bound
    <2>15. Room(e, ratio) >= Least(Room(b, ratio), 0) - bound
      BY <1>13, <2>11, <2>13, <2>14 DEF Least
    <2> QED BY <1>7, <1>8, <1>11, <2>15 DEF RoomIsKept, after, amount, b, e
  <1> QED BY <1>14, <1>15

-----------------------------------------------------------------------------
(* Liquidators: runs of V1                                                 *)

Runs == [state : PairStates, outcome : {"done", "refused"}, value : Int]

LEMMA RoomIsInt ==
  ASSUME NEW b \in [Markets -> Int], NEW ratio \in Nat
  PROVE  Room(b, ratio) \in Int
  <1>1. SupplyValue(b) \in Nat /\ BorrowValue(b) \in Nat
    BY ValuesAreNat
  <1>2. SupplyValue(b) * Base \in Nat /\ BorrowValue(b) * (Base + ratio) \in Nat
    <2>1. Base \in Nat /\ Base + ratio \in Nat
      BY BaseIsPositive
    <2> QED BY <1>1, <2>1, ProductIsNat
  <1> QED BY <1>2 DEF Room

LEMMA UnchangedRoomIsKept ==
  ASSUME NEW b \in [Markets -> Int], NEW held \in Markets, NEW owed \in Markets,
         NEW ratio \in Nat
  PROVE  RoomIsKept(b, b, held, owed, ratio)
  <1> DEFINE room == Room(b, ratio)
             rest == (Price[owed] * Spread[<<held, owed>>]) % Base
             C == Base + ratio
             a == LiquidationPrice(held, owed)
             bound == 2 * C * (Price[held] + a) + 0 * rest
  <1>1. room \in Int
    BY RoomIsInt
  <1>2. C \in Nat /\ Price[held] + a \in Nat /\ rest \in Nat
    BY BaseIsPositive, PriceIsPositive, LiquidationPriceIs
  <1>3. b[owed] - b[owed] = 0
    <2>1. b[owed] \in Int
      OBVIOUS
    <2> QED BY <2>1
  <1>4. PairRounding(held, owed, ratio, b[owed] - b[owed]) = bound
    BY <1>3 DEF PairRounding
  <1>5. bound \in Nat
    <2> HIDE DEF C, a, rest
    <2>1. C * (Price[held] + a) \in Nat
      BY <1>2, ProductIsNat
    <2>2. 2 * C * (Price[held] + a) = 2 * (C * (Price[held] + a)) /\ 0 * rest = 0
      <3> DEFINE x == Price[held] + a
      <3> HIDE DEF x
      <3> QED BY <1>2 DEF x
    <2> QED BY <2>1, <2>2
  <1> HIDE DEF room, bound
  <1>6. room >= Least(room, 0) - bound
    BY <1>1, <1>5 DEF Least
  <1> QED BY <1>4, <1>6 DEF RoomIsKept, room

(***************************************************************************)
(* One round of V1, whatever becomes of it.                                *)
(***************************************************************************)
LEMMA RoundKeepsRoom ==
  ASSUME NEW run \in Runs, NEW held \in Markets, NEW owed \in Markets, NEW ratio \in Nat
  PROVE  LET next == LiquidatePair(run, held, owed, ratio)
         IN  /\ next \in Runs
             /\ RoomIsKept(run.state.solid, next.state.solid, held, owed, ratio)
  <1> DEFINE s == run.state
             asked == AmountForPair(s, held, owed, ratio)
             after == Liquidated(s, held, owed, asked.amount)
             next == LiquidatePair(run, held, owed, ratio)
             c == CalculateSafeLiquidationAmount(InitializeV1Cache(s, held, owed), held, owed)
  <1>1. s \in PairStates /\ run.value \in Int /\ run.outcome \in {"done", "refused"}
    BY DEF Runs
  <1>2. s.solid \in [Markets -> Int] /\ s.wei \in [Markets -> Int]
    BY <1>1 DEF PairStates
  <1>3. RoomIsKept(s.solid, s.solid, held, owed, ratio)
    BY <1>2, UnchangedRoomIsKept
  <1>4. CASE next = run
    BY <1>3, <1>4
  <1>5. CASE next # run
    <2>1. run.outcome = "done" /\ ~Skipped(s, held, owed)
      BY <1>5 DEF LiquidatePair
    <2>2. next = IF asked.outcome # "done" THEN [run EXCEPT !.outcome = asked.outcome]
                 ELSE IF asked.amount = 0 THEN run
                 ELSE IF ~MayLiquidate(s) \/ ~Healthy(after.solid)
                 THEN [run EXCEPT !.outcome = "refused"]
                 ELSE [state |-> after, outcome |-> "done",
                       value |-> run.value + asked.amount * Price[owed]]
      BY <2>1 DEF LiquidatePair
    <2>3. held # owed /\ s.wei[held] > 0 /\ s.wei[owed] < 0
      BY <1>2, <2>1 DEF Skipped
    <2>4. asked.outcome \in {"done", "refused"}
      <3>1. c.held \in Nat /\ c.owed \in Int /\ c.owed <= 0 /\ c.toLiquidate \in Nat
        BY <1>1, <2>3, SafeAmountIs
      <3>2. asked = CalculateMaxLiquidationAmount(c, held, owed, ratio)
        BY DEF AmountForPair
      <3> HIDE DEF c, asked
      <3>3. ~(c.held < 0 \/ c.owed > 0 \/ c.toLiquidate < 0)
        BY <3>1
      <3> QED BY <3>2, <3>3 DEF CalculateMaxLiquidationAmount
    <2>5. CASE next = [run EXCEPT !.outcome = asked.outcome] \/ next = [run EXCEPT !.outcome = "refused"]
      <3>1. PICK outcome \in {"done", "refused"} : next = [run EXCEPT !.outcome = outcome]
        BY <2>4, <2>5
      <3> HIDE DEF next
      <3>2. next \in Runs /\ next.state = s
        BY <3>1 DEF Runs
      <3> QED BY <1>3, <3>2 DEF next
    <2>6. CASE ~(next = [run EXCEPT !.outcome = asked.outcome] \/ next = [run EXCEPT !.outcome = "refused"])
      <3>1. /\ asked.outcome = "done" /\ asked.amount # 0
            /\ next = [state |-> after, outcome |-> "done",
                       value |-> run.value + asked.amount * Price[owed]]
        BY <1>5, <2>2, <2>6
      <3>2. after \in PairStates /\ RoomIsKept(s.solid, after.solid, held, owed, ratio)
        BY <1>1, <2>3, <3>1, PairKeepsRoom
      <3>3. run.value + asked.amount * Price[owed] \in Int
        <4>1. asked.amount \in Int
          <5>1. c.toLiquidate \in Nat
            BY <1>1, <2>3, SafeAmountIs
          <5>2. \E x \in Nat :
                  /\ asked.amount = c.toLiquidate + x
                  /\ (x * Price[owed]) * (ratio - Spread[<<held, owed>>]) <= Base * Buffer(c, ratio)
            BY <1>1, <2>3, <3>1, AmountIsBuffered
          <5> HIDE DEF c, asked
          <5>3. PICK x \in Nat : asked.amount = c.toLiquidate + x
            BY <5>2
          <5> QED BY <5>1, <5>3
        <4>2. Price[owed] \in Int
          BY PriceIsPositive
        <4> HIDE DEF asked
        <4>3. asked.amount * Price[owed] \in Int
          BY <4>1, <4>2
        <4> QED BY <1>1, <4>3
      <3> HIDE DEF after, asked, next
      <3>4. next \in Runs /\ next.state = after
        BY <3>1, <3>2, <3>3 DEF Runs
      <3> QED BY <3>2, <3>4 DEF next, after, asked
    <2> QED BY <2>5, <2>6
  <1> QED BY <1>4, <1>5

RoundsBy(ratio, owed, held, n, f) ==
  f = [i \in 0 .. n |->
         IF i = 0 THEN [state |-> Here, outcome |-> "done", value |-> 0]
         ELSE LiquidatePair(f[i - 1], HeldOf(i, held), OwedOf(i, owed, held), ratio)]

LEMMA RoundsExist ==
  ASSUME NEW ratio, NEW owed, NEW held
  PROVE  \A n \in Nat : \E f : RoundsBy(ratio, owed, held, n, f)
  <1> DEFINE N == {n \in Nat : \E f : RoundsBy(ratio, owed, held, n, f)}
             Zero == [state |-> Here, outcome |-> "done", value |-> 0]
  <1>1. 0 \in N
    <2>1. RoundsBy(ratio, owed, held, 0, [i \in 0 .. 0 |-> Zero])
      BY DEF RoundsBy
    <2> QED BY <2>1
  <1>2. ASSUME NEW n \in Nat, n \in N
        PROVE  n + 1 \in N
    <2>1. PICK f : RoundsBy(ratio, owed, held, n, f)
      BY <1>2
    <2> DEFINE g == [i \in 0 .. n + 1 |->
                       IF i = 0 THEN Zero
                       ELSE LiquidatePair(f[i - 1], HeldOf(i, held), OwedOf(i, owed, held), ratio)]
    <2>2. ASSUME NEW i \in 0 .. n + 1, i # 0
          PROVE  g[i - 1] = f[i - 1]
      <3>1. i - 1 \in 0 .. n /\ i - 1 \in 0 .. n + 1
        BY <2>2
      <3> QED BY <2>1, <3>1 DEF RoundsBy
    <2>3. g = [i \in 0 .. n + 1 |->
                 IF i = 0 THEN Zero
                 ELSE LiquidatePair(g[i - 1], HeldOf(i, held), OwedOf(i, owed, held), ratio)]
      BY <2>2
    <2> HIDE DEF g
    <2>4. RoundsBy(ratio, owed, held, n + 1, g)
      BY <2>3 DEF RoundsBy
    <2> QED BY <2>4
  <1> HIDE DEF N
  <1>3. \A n \in Nat : n \in N
    BY <1>1, <1>2, NaturalInduction
  <1> QED BY <1>3 DEF N

LEMMA PairOfRound ==
  ASSUME NEW owed \in Seq(Markets), NEW held \in Seq(Markets),
         NEW i \in 1 .. Len(owed) * Len(held)
  PROVE  HeldOf(i, held) \in Markets /\ OwedOf(i, owed, held) \in Markets
  <1> DEFINE n == Len(owed)
             d == Len(held)
             k == (i - 1) \div d
             r == (i - 1) % d
  <1>1. n \in Nat /\ d \in Nat /\ i - 1 \in Nat /\ n * d \in Nat
    <2>1. n \in Nat /\ d \in Nat
      OBVIOUS
    <2>2. n * d \in Nat
      BY <2>1, ProductIsNat
    <2> HIDE DEF n, d
    <2> QED BY <2>1, <2>2
  <1>2. d # 0
    <2> SUFFICES ASSUME d = 0 PROVE FALSE
      OBVIOUS
    <2>1. n * d = 0 /\ i \in 1 .. n * d
      <3>1. n * 0 = 0
        BY <1>1
      <3> QED BY <3>1
    <2> QED BY <2>1
  <1>3. i - 1 < n * d /\ i \in Int
    BY <1>1
  <1> HIDE DEF n, d
  <1>4. k \in Nat /\ r \in 0 .. (d - 1) /\ i - 1 = k * d + r
    BY <1>1, <1>2, DivMod
  <1> HIDE DEF k, r
  <1>5. k < n
    <2>1. k * d < n * d
      <3>1. k * d \in Nat
        BY <1>1, <1>4, ProductIsNat
      <3> QED BY <1>1, <1>3, <1>4, <3>1
    <2> QED BY <1>1, <1>2, <1>4, <2>1, CancelFactor
  <1>6. k + 1 \in 1 .. n /\ r + 1 \in 1 .. d
    BY <1>1, <1>4, <1>5
  <1>7. HeldOf(i, held) = held[r + 1] /\ OwedOf(i, owed, held) = owed[k + 1]
    BY DEF HeldOf, OwedOf, r, k, d
  <1> QED BY <1>6, <1>7 DEF n, d

LEMMA RoundsKeepRoom ==
  ASSUME Here \in PairStates, NEW ratio \in Nat,
         NEW owed \in Seq(Markets), NEW held \in Seq(Markets)
  PROVE  LET run == V1Rounds(ratio, owed, held)
         IN  /\ \A i \in 0 .. Len(owed) * Len(held) : run[i] \in Runs
             /\ \A i \in 1 .. Len(owed) * Len(held) :
                  RoomIsKept(run[i - 1].state.solid, run[i].state.solid,
                             HeldOf(i, held), OwedOf(i, owed, held), ratio)
  <1> DEFINE n == Len(owed) * Len(held)
             run == V1Rounds(ratio, owed, held)
             N == {i \in Nat : i <= n => run[i] \in Runs}
             Zero == [state |-> Here, outcome |-> "done", value |-> 0]
  <1>0. n \in Nat
    BY ProductIsNat
  <1>1. run = CHOOSE f : RoundsBy(ratio, owed, held, n, f)
    BY DEF V1Rounds, RoundsBy
  <1>2. RoundsBy(ratio, owed, held, n, run)
    BY <1>0, <1>1, RoundsExist
  <1> HIDE DEF run
  <1>3. ASSUME NEW i \in 1 .. n
        PROVE  /\ HeldOf(i, held) \in Markets /\ OwedOf(i, owed, held) \in Markets
               /\ run[i] = LiquidatePair(run[i - 1], HeldOf(i, held), OwedOf(i, owed, held), ratio)
    <2>1. HeldOf(i, held) \in Markets /\ OwedOf(i, owed, held) \in Markets
      BY <1>3, PairOfRound
    <2> HIDE DEF n
    <2>2. i \in 0 .. n /\ i # 0
      BY <1>0
    <2> QED BY <1>2, <2>1, <2>2 DEF RoundsBy
  <1> HIDE DEF n
  <1>4. 0 \in N
    <2>1. run[0] = Zero
      BY <1>0, <1>2 DEF RoundsBy
    <2>2. Zero \in Runs
      BY DEF Runs
    <2> QED BY <2>1, <2>2
  <1>5. ASSUME NEW i \in Nat, i \in N
        PROVE  i + 1 \in N
    <2> SUFFICES ASSUME i + 1 <= n PROVE run[i + 1] \in Runs
      OBVIOUS
    <2>1. run[i] \in Runs
      BY <1>0, <1>5
    <2>2. i + 1 \in 1 .. n /\ (i + 1) - 1 = i
      BY <1>0
    <2> DEFINE j == i + 1
    <2>3. j \in 1 .. n /\ j - 1 = i
      BY <2>2
    <2> HIDE DEF j
    <2>4. run[j] \in Runs
      BY <1>3, <2>1, <2>3, RoundKeepsRoom
    <2> QED BY <2>4 DEF j
  <1> HIDE DEF N
  <1>6. \A i \in Nat : i \in N
    BY <1>4, <1>5, NaturalInduction
  <1>7. \A i \in 0 .. n : run[i] \in Runs
    BY <1>0, <1>6 DEF N
  <1>8. ASSUME NEW i \in 1 .. n
        PROVE  RoomIsKept(run[i - 1].state.solid, run[i].state.solid,
                          HeldOf(i, held), OwedOf(i, owed, held), ratio)
    <2>1. i - 1 \in 0 .. n
      BY <1>0
    <2>2. run[i - 1] \in Runs
      BY <1>7, <2>1
    <2> QED BY <1>3, <2>2, RoundKeepsRoom
  <1> QED BY <1>7, <1>8 DEF run, n

(***************************************************************************)
(* V1 keeps the ratio the liquidator asked for, but for what is rounded,   *)
(* and none of its assertions fails.                                       *)
(***************************************************************************)
LEMMA HisRatioIsKept ==
  ASSUME Here \in PairStates
  PROVE  LiquidatorKeepsHisRatio
  <1> SUFFICES ASSUME NEW owed \in OwedPreferences, NEW held \in HeldPreferences,
                      NEW ratio \in LiquidatorRatios,
                      NEW i \in 1 .. Len(owed) * Len(held)
               PROVE  LET run == V1Rounds(ratio, owed, held)
                          before == run[i - 1].state.solid
                          after == run[i].state.solid
                          h == HeldOf(i, held)
                          o == OwedOf(i, owed, held)
                      IN  /\ run[i].outcome # "assertion"
                          /\ Room(after, ratio)
                               >= Least(Room(before, ratio), 0)
                                    - PairRounding(h, o, ratio, before[o] - after[o])
    BY DEF LiquidatorKeepsHisRatio
  <1> DEFINE run == V1Rounds(ratio, owed, held)
             n == Len(owed) * Len(held)
  <1>1. owed \in Seq(Markets) /\ held \in Seq(Markets) /\ ratio \in Nat
    BY LiquidatorsAssumption
  <1>2. /\ \A j \in 0 .. n : run[j] \in Runs
        /\ RoomIsKept(run[i - 1].state.solid, run[i].state.solid,
                      HeldOf(i, held), OwedOf(i, owed, held), ratio)
    BY <1>1, RoundsKeepRoom
  <1>3. i \in 0 .. n
    <2>1. n \in Nat
      BY <1>1, ProductIsNat
    <2> HIDE DEF n
    <2>2. i \in 1 .. n
      BY DEF n
    <2> QED BY <2>1, <2>2
  <1> HIDE DEF run, n
  <1>4. run[i].outcome # "assertion"
    <2>1. run[i] \in Runs
      BY <1>2, <1>3
    <2> QED BY <2>1 DEF Runs
  <1> QED BY <1>2, <1>4 DEF RoomIsKept, run

-----------------------------------------------------------------------------
(* Liquidators: plans of V4                                                *)

\* The amounts an operation can be made of: no more is taken than there is, or
\* repaid than is owed and the sale has to bring, and DolomiteMargin and Expiry
\* come to the same when they start from one of them.
IsWithin(planned, held, owed, price) ==
  LET takes == planned.amounts.takes
      repays == planned.amounts.repays
      wanted == GetPartial(repays, price, Price[held])
  IN  /\ planned.amounts.flip \in BOOLEAN
      /\ takes \in Nat /\ takes <= wei[held]
      /\ repays \in Nat /\ repays <= -wei[owed]
      /\ planned.minOutput \in Nat /\ repays <= planned.minOutput
      /\ GetPartialRoundUp(takes, Price[held], price) <= repays
      /\ IF wanted > wei[held]
         THEN takes = wei[held] /\ repays = GetPartialRoundUp(wei[held], Price[held], price)
         ELSE takes = wanted
      /\ ~planned.amounts.flip => takes = wanted

\* What was given for a price, rounded up again, is not more than it.
LEMMA RoundedBack ==
  ASSUME NEW m \in Nat, NEW a \in Nat \ {0}, NEW hp \in Nat \ {0}
  PROVE  LET takes == GetPartial(m, a, hp)
         IN  takes \in Nat /\ GetPartialRoundUp(takes, hp, a) <= m
  <1> DEFINE t == GetPartial(m, a, hp)
             u == GetPartialRoundUp(t, hp, a)
  <1>1. t \in Nat /\ t * hp <= m * a
    BY PartialBounds
  <1> HIDE DEF t
  <1>2. u \in Nat /\ u * a < t * hp + a
    BY <1>1, RoundUpBounds
  <1> HIDE DEF u
  <1>3. u * a < (m + 1) * a
    <2>1. (m + 1) * a = m * a + a /\ m * a \in Nat /\ t * hp \in Nat /\ u * a \in Nat
      BY <1>1, <1>2, ProductIsNat
    <2> QED BY <1>1, <1>2, <2>1
  <1>4. u < m + 1
    BY <1>2, <1>3, CancelFactor
  <1>5. u <= m
    BY <1>2, <1>4
  <1> QED BY <1>1, <1>5 DEF t, u

\* An amount of a worth less than one token more than w is at most w.
LEMMA NoMoreThanThereIs ==
  ASSUME NEW t \in Nat, NEW w \in Nat, NEW hp \in Nat \ {0}, NEW x \in Nat,
         t * hp <= x, x < w * hp + hp
  PROVE  t <= w
  <1>1. (w + 1) * hp = w * hp + hp /\ t * hp \in Nat /\ w * hp \in Nat
    BY ProductIsNat
  <1>2. t * hp < (w + 1) * hp
    BY <1>1
  <1>3. t < w + 1
    BY <1>2, CancelFactor
  <1> QED BY <1>3

LEMMA MostIsWithin ==
  ASSUME wei \in [Markets -> Int], NEW held \in Markets, NEW owed \in Markets,
         wei[owed] <= 0, wei[held] > 0, NEW price \in Nat \ {0}
  PROVE  LET most == MaxLiquidationAmount(held, owed, price)
         IN  /\ most.flip \in BOOLEAN
             /\ most.takes \in Nat /\ most.takes <= wei[held]
             /\ most.repays \in Nat /\ most.repays <= -wei[owed]
             /\ GetPartialRoundUp(most.takes, Price[held], price) <= most.repays
             /\ IF GetPartial(most.repays, price, Price[held]) > wei[held]
                THEN /\ most.takes = wei[held]
                     /\ most.repays = GetPartialRoundUp(wei[held], Price[held], price)
                ELSE most.takes = GetPartial(most.repays, price, Price[held])
             /\ ~most.flip => most.takes = GetPartial(most.repays, price, Price[held])
             /\ \A m \in Nat : m < most.repays => GetPartial(m, price, Price[held]) <= wei[held]
             /\ most = [flip |-> most.flip, takes |-> most.takes, repays |-> most.repays]
  <1> DEFINE w == wei[held]
             d == -wei[owed]
             hp == Price[held]
             most == MaxLiquidationAmount(held, owed, price)
             up == GetPartialRoundUp(w, hp, price)
             down == GetPartial(d, price, hp)
  <1>1. w \in Nat /\ d \in Nat /\ hp \in Nat \ {0}
    BY PriceIsPositive
  <1>2. most = IF w * hp < d * price
               THEN [flip |-> TRUE, takes |-> w, repays |-> up]
               ELSE [flip |-> FALSE, takes |-> down, repays |-> d]
    BY DEF MaxLiquidationAmount
  <1> HIDE DEF w, d, hp, most
  <1>3. up \in Nat /\ w * hp <= up * price /\ up * price < w * hp + price
    BY <1>1, RoundUpBounds
  <1>4. down \in Nat /\ down * hp <= d * price
    BY <1>1, PartialBounds
  <1>5. w * hp \in Nat /\ d * price \in Nat /\ up * price \in Nat
    BY <1>1, <1>3, ProductIsNat
  <1>6. CASE w * hp < d * price
    <2>1. most.flip = TRUE /\ most.takes = w /\ most.repays = up
          /\ most = [flip |-> most.flip, takes |-> most.takes, repays |-> most.repays]
      BY <1>2, <1>6
    <2> DEFINE wanted == GetPartial(up, price, hp)
    <2> HIDE DEF up
    <2>2. up <= d
      <3>1. up * price < d * price + price
        BY <1>1, <1>3, <1>5, <1>6
      <3> QED BY <1>1, <1>3, <1>5, <3>1, NoMoreThanThereIs
    <2>3. wanted \in Nat /\ up * price < wanted * hp + hp
      BY <1>1, <1>3, PartialBounds
    <2> HIDE DEF wanted
    <2>4. w <= wanted
      <3>1. w * hp <= up * price
        BY <1>3
      <3> QED BY <1>1, <1>5, <2>3, <3>1, NoMoreThanThereIs
    <2>5. ~(wanted > w) => w = wanted
      BY <1>1, <2>3, <2>4
    <2>6. ASSUME NEW m \in Nat, m < up
          PROVE  GetPartial(m, price, hp) <= w
      <3> DEFINE t == GetPartial(m, price, hp)
      <3>1. t \in Nat /\ t * hp <= m * price
        BY <1>1, PartialBounds
      <3>2. (m + 1) * price <= up * price /\ (m + 1) * price = m * price + price /\ m * price \in Nat
        <4>1. m + 1 <= up /\ m + 1 \in Nat
          BY <1>3, <2>6
        <4> QED BY <1>3, <4>1, ScaleUp, ProductIsNat
      <3>3. m * price < w * hp + hp
        BY <1>1, <1>3, <1>5, <3>2
      <3> HIDE DEF t
      <3>4. t <= w
        BY <1>1, <3>1, <3>2, <3>3, NoMoreThanThereIs
      <3> QED BY <3>4 DEF t
    <2>7. up <= up /\ w <= w
      BY <1>1, <1>3
    <2> QED BY <1>1, <1>3, <2>1, <2>2, <2>5, <2>6, <2>7 DEF w, d, hp, most, up, wanted
  <1>7. CASE ~(w * hp < d * price)
    <2>1. most.flip = FALSE /\ most.takes = down /\ most.repays = d
          /\ most = [flip |-> most.flip, takes |-> most.takes, repays |-> most.repays]
      BY <1>2, <1>7
    <2>2. d * price < w * hp + hp
      BY <1>1, <1>5, <1>7
    <2>3. down <= w
      <3> HIDE DEF down
      <3> QED BY <1>1, <1>4, <1>5, <2>2, NoMoreThanThereIs
    <2>4. GetPartialRoundUp(down, hp, price) <= d
      BY <1>1, RoundedBack
    <2>5. ~(down > w)
      <3> HIDE DEF down
      <3> QED BY <1>1, <1>4, <2>3
    <2>6. ASSUME NEW m \in Nat, m < d
          PROVE  GetPartial(m, price, hp) <= w
      <3> DEFINE t == GetPartial(m, price, hp)
      <3>1. t \in Nat /\ t * hp <= m * price
        BY <1>1, PartialBounds
      <3>2. m * price <= d * price /\ m * price \in Nat
        <4>1. m <= d
          BY <1>1, <2>6
        <4> QED BY <1>1, <4>1, ScaleUp, ProductIsNat
      <3>3. m * price < w * hp + hp
        BY <1>1, <1>5, <2>2, <3>2
      <3> HIDE DEF t
      <3>4. t <= w
        BY <1>1, <3>1, <3>2, <3>3, NoMoreThanThereIs
      <3> QED BY <3>4 DEF t
    <2>7. d <= d
      BY <1>1
    <2> QED BY <1>1, <1>4, <2>1, <2>3, <2>4, <2>5, <2>6, <2>7 DEF w, d, hp, most, down
  <1> QED BY <1>6, <1>7

LEMMA PlannedIsWithin ==
  ASSUME wei \in [Markets -> Int], NEW held \in Markets, NEW owed \in Markets,
         wei[owed] <= 0, wei[held] > 0, NEW price \in Nat \ {0}, NEW minOutput \in MinOutputs
  PROVE  IsWithin(ActualLiquidationAmount(MaxLiquidationAmount(held, owed, price),
                                          held, price, minOutput), held, owed, price)
  <1> DEFINE most == MaxLiquidationAmount(held, owed, price)
             hp == Price[held]
             planned == ActualLiquidationAmount(most, held, price, minOutput)
  <1>1. /\ most.flip \in BOOLEAN
        /\ most.takes \in Nat /\ most.takes <= wei[held]
        /\ most.repays \in Nat /\ most.repays <= -wei[owed]
        /\ GetPartialRoundUp(most.takes, hp, price) <= most.repays
        /\ IF GetPartial(most.repays, price, hp) > wei[held]
           THEN most.takes = wei[held] /\ most.repays = GetPartialRoundUp(wei[held], hp, price)
           ELSE most.takes = GetPartial(most.repays, price, hp)
        /\ ~most.flip => most.takes = GetPartial(most.repays, price, hp)
        /\ \A m \in Nat : m < most.repays => GetPartial(m, price, hp) <= wei[held]
        /\ most = [flip |-> most.flip, takes |-> most.takes, repays |-> most.repays]
    BY MostIsWithin
  <1>2. wei[held] \in Int /\ wei[owed] \in Int /\ hp \in Nat \ {0}
    BY PriceIsPositive
  <1> HIDE DEF most, hp
  <1>3. CASE planned.amounts = most /\ planned.minOutput \in Nat /\ most.repays <= planned.minOutput
    <2> HIDE DEF planned
    <2> QED BY <1>1, <1>3 DEF IsWithin, planned, hp, most
  <1>4. CASE minOutput = All
    <2>1. planned = [amounts |-> most, minOutput |-> most.repays]
      BY <1>4 DEF ActualLiquidationAmount
    <2>2. most.repays <= most.repays
      BY <1>1
    <2> QED BY <1>1, <1>3, <2>1, <2>2
  <1>5. CASE minOutput # All
    <2>1. minOutput \in Nat
      BY <1>5, LiquidatorsAssumption
    <2>2. CASE minOutput < most.repays
      <3> DEFINE takes == GetPartial(minOutput, price, hp)
                 less == [most EXCEPT !.repays = minOutput, !.takes = takes]
      <3>1. planned = [amounts |-> less, minOutput |-> minOutput]
        BY <1>5, <2>2 DEF ActualLiquidationAmount, hp
      <3>2. less.flip = most.flip /\ less.repays = minOutput /\ less.takes = takes
        BY <1>1
      <3>3. takes <= wei[held]
        BY <1>1, <2>1, <2>2
      <3>4. takes \in Nat /\ GetPartialRoundUp(takes, hp, price) <= minOutput
        BY <1>2, <2>1, RoundedBack
      <3>5. minOutput <= -wei[owed] /\ minOutput <= minOutput
        BY <1>1, <1>2, <2>1, <2>2
      <3>6. ~(takes > wei[held])
        <4> HIDE DEF takes
        <4> QED BY <1>2, <3>3, <3>4
      <3> HIDE DEF less, takes
      <3>7. planned.amounts = less /\ planned.minOutput = minOutput
        BY <3>1
      <3> HIDE DEF planned
      <3> QED BY <1>1, <2>1, <3>2, <3>3, <3>4, <3>5, <3>6, <3>7 DEF IsWithin, planned, hp, takes, most
    <2>3. CASE ~(minOutput < most.repays)
      <3>1. planned = [amounts |-> most, minOutput |-> minOutput]
        BY <1>5, <2>3 DEF ActualLiquidationAmount
      <3>2. most.repays <= minOutput
        BY <1>1, <2>1, <2>3
      <3> QED BY <1>3, <2>1, <3>1, <3>2
    <2> QED BY <2>2, <2>3
  <1> QED BY <1>4, <1>5

\* The balances, expiries and times are numbers, and so are the liquidator's.
LiquidatorInv == AccountIsOK /\ solid \in [Markets -> Int] /\ isLiquid \in BOOLEAN

LEMMA HereIsState ==
  ASSUME LiquidatorInv
  PROVE  Here \in PairStates /\ Now \in States
  <1>1. Here \in PairStates
    BY DEF LiquidatorInv, AccountIsOK, Here, PairStates
  <1>2. Now \in States
    BY NowIsState DEF LiquidatorInv, AccountIsOK
  <1> QED BY <1>1, <1>2

LEMMA AdjustedPriceIsPositive ==
  ASSUME LiquidatorInv, NEW held \in Markets, NEW owed \in Markets, NEW expiring \in BOOLEAN
  PROVE  OwedPriceAdj(held, owed, expiring) \in Nat \ {0}
  <1>1. expiry[owed] \in Nat /\ ClockIsOK
    BY DEF LiquidatorInv, AccountIsOK
  <1>2. AdjustedOwedPrice(held, owed, expiry[owed]) \in Nat \ {0}
    BY <1>1, PriceIsRamped
  <1> QED BY <1>2, LiquidationPriceIs DEF OwedPriceAdj

LEMMA PlannedLiquidation ==
  ASSUME LiquidatorInv, NEW held \in Markets, NEW owed \in Markets, held # owed,
         wei[owed] < 0, wei[held] > 0, NEW planned,
         IsWithin(planned, held, owed, LiquidationPrice(held, owed))
  PROVE  LET after == Liquidated(Here, held, owed, planned.amounts.repays)
         IN  /\ wei[held] - after.wei[held] = planned.amounts.takes
             /\ after.wei[owed] - wei[owed] = planned.amounts.repays
  <1> DEFINE takes == planned.amounts.takes
             repays == planned.amounts.repays
             price == LiquidationPrice(held, owed)
             hp == Price[held]
             after == Liquidated(Here, held, owed, repays)
  <1>1. Here \in PairStates /\ Here.wei = wei /\ wei \in [Markets -> Int]
    BY HereIsState DEF Here, LiquidatorInv, AccountIsOK
  <1>2. /\ takes \in Nat /\ repays \in Nat /\ repays <= -wei[owed]
        /\ IF GetPartial(repays, price, hp) > wei[held]
           THEN takes = wei[held] /\ repays = GetPartialRoundUp(wei[held], hp, price)
           ELSE takes = GetPartial(repays, price, hp)
    BY DEF IsWithin
  <1>3. Least(repays, -wei[owed]) = repays
    <2> HIDE DEF repays
    <2> QED BY <1>1, <1>2 DEF Least
  <1> HIDE DEF takes, repays, price, hp
  <1>4. PICK t \in Nat, p \in Nat :
          /\ Pays(Here, after, held, owed, t, p)
          /\ IF GetPartial(Least(repays, -wei[owed]), price, hp) > wei[held]
             THEN t = wei[held] /\ p = GetPartialRoundUp(wei[held], hp, price)
             ELSE p = Least(repays, -wei[owed]) /\ t = GetPartial(p, price, hp)
    <2>1. Here.wei[held] >= 0 /\ Here.wei[owed] <= 0
      BY <1>1
    <2> DEFINE a == LiquidationPrice(held, owed)
               asked == Least(repays, -Here.wei[owed])
    <2>2. \E t, p \in Nat :
            /\ Pays(Here, after, held, owed, t, p)
            /\ p <= repays /\ p <= -Here.wei[owed] /\ t <= Here.wei[held]
            /\ t * Price[held] <= p * a /\ p * a < t * Price[held] + Price[held] + a
            /\ IF GetPartial(asked, a, Price[held]) > Here.wei[held]
               THEN t = Here.wei[held] /\ p = GetPartialRoundUp(Here.wei[held], Price[held], a)
               ELSE p = asked /\ t = GetPartial(p, a, Price[held])
      <3>1. Here \in PairStates /\ repays \in Nat
        BY <1>1, <1>2
      <3> QED BY <2>1, <3>1, LiquidationPays
    <2> HIDE DEF after
    <2> QED BY <1>1, <2>2 DEF hp, price
  <1>5. t = takes /\ p = repays
    BY <1>2, <1>3, <1>4
  <1>6. after.wei = [wei EXCEPT ![held] = @ - t, ![owed] = @ + p]
    BY <1>1, <1>4 DEF Pays
  <1> HIDE DEF after
  <1>7. after.wei[held] = wei[held] - t /\ after.wei[owed] = wei[owed] + p
    BY <1>1, <1>6
  <1>8. wei[held] - (wei[held] - t) = t /\ wei[owed] + p - wei[owed] = p
    BY <1>1
  <1>9. wei[held] - after.wei[held] = takes /\ after.wei[owed] - wei[owed] = repays
    BY <1>1, <1>2, <1>5, <1>7, <1>8
  <1> QED BY <1>9 DEF after, takes, repays

LEMMA PlannedExpiry ==
  ASSUME LiquidatorInv, NEW held \in Markets, NEW owed \in Markets, held # owed,
         wei[owed] < 0, wei[held] > 0, expiry[owed] \in 1 .. now, NEW planned,
         IsWithin(planned, held, owed, AdjustedOwedPrice(held, owed, expiry[owed]))
  PROVE  LET t == EncodeExpiryLiquidateAction(held, owed, planned.amounts)
             after == ExpiryTraded(Here, t)
         IN  /\ Accepted(Now, t)
             /\ wei[held] - after.wei[held] = planned.amounts.takes
             /\ after.wei[owed] - wei[owed] \in 0 .. planned.minOutput
  <1> DEFINE takes == planned.amounts.takes
             repays == planned.amounts.repays
             price == AdjustedOwedPrice(held, owed, expiry[owed])
             hp == Price[held]
             t == EncodeExpiryLiquidateAction(held, owed, planned.amounts)
             after == ExpiryTraded(Here, t)
             paid == GetPartialRoundUp(takes, hp, price)
  <1>1. wei \in [Markets -> Int] /\ expiry \in [Markets -> Nat] /\ now \in Nat
    BY DEF LiquidatorInv, AccountIsOK, ClockIsOK
  <1>2. /\ planned.amounts.flip \in BOOLEAN
        /\ takes \in Nat /\ takes <= wei[held] /\ repays \in Nat /\ repays <= -wei[owed]
        /\ planned.minOutput \in Nat /\ repays <= planned.minOutput
        /\ paid <= repays
        /\ ~planned.amounts.flip => takes = GetPartial(repays, price, hp)
    BY DEF IsWithin
  <1>3. paid \in Nat
    <2>1. price \in Nat \ {0} /\ hp \in Nat \ {0}
      BY <1>1, PriceIsRamped, PriceIsPositive DEF LiquidatorInv, AccountIsOK
    <2> HIDE DEF price, hp, takes
    <2> QED BY <1>2, <2>1, RoundUpIsNat
  <1>4. /\ Now.wei = wei /\ Now.expiry = expiry
        /\ after.wei = Traded(Now, t).wei
    BY DEF Now, Here, ExpiryTraded
  <1>5. IsExpired(Now, [t EXCEPT !.input = t.input])
    <2>1. t.owed = owed /\ t.maxExpiry = expiry[owed]
      BY DEF EncodeExpiryLiquidateAction
    <2>2. [t EXCEPT !.input = t.input] = t
      BY DEF EncodeExpiryLiquidateAction
    <2> HIDE DEF t
    <2> QED BY <1>1, <1>4, <2>1, <2>2 DEF IsExpired
  <1>6. [t EXCEPT !.input = t.input] = t
    BY DEF EncodeExpiryLiquidateAction
  <1>7. CASE planned.amounts.flip
    <2>1. /\ t.input = held /\ t.output = owed /\ t.owed = owed /\ ~t.toZero
          /\ t.amount = -takes
      BY <1>7 DEF EncodeExpiryLiquidateAction
    <2> HIDE DEF t, after, takes, repays, price, hp
    <2>2. InputWei(Now, t) = -takes
      BY <2>1 DEF InputWei
    <2>3. -(-takes) = takes /\ ~(-takes > 0)
      BY <1>2
    <2>4. OutputWei(Now, t) = paid
      <3>1. OutputWei(Now, t) = HeldWeiToOwedWei(-(-takes), held, owed, expiry[owed])
        BY <1>4, <2>1, <2>2, <2>3 DEF OutputWei
      <3>2. HeldWeiToOwedWei(takes, held, owed, expiry[owed]) = paid
        BY DEF HeldWeiToOwedWei, hp, price
      <3> HIDE DEF paid
      <3> QED BY <2>3, <3>1, <3>2
    <2> HIDE DEF paid
    <2>5. CASE takes = 0
      <3>4. ~(-takes # 0)
        <4>1. ~(takes > 0)
          BY <1>2, <2>5
        <4> QED BY <1>2, <4>1
      <3>1. InputWei(Now, t) = 0
        BY <2>2, <3>4
      <3>2. after.wei = wei
        BY <1>4, <3>1 DEF Traded
      <3>3. wei[held] - wei[held] = 0 /\ wei[owed] - wei[owed] = 0
        BY <1>1
      <3> QED BY <1>2, <2>5, <3>1, <3>2, <3>3 DEF Accepted, t, after, takes
    <2>6. CASE takes # 0
      <3>1. InputWei(Now, t) # 0
        BY <1>2, <2>2, <2>6
      <3>2. CanTrade(Now, t)
        <4>1. /\ Now.wei[t.input] > 0 /\ Now.wei[t.input] + (-takes) >= 0
              /\ Now.wei[t.output] < 0 /\ paid <= -Now.wei[t.output]
          BY <1>1, <1>2, <1>3, <1>4, <2>1
        <4> QED BY <1>5, <1>6, <2>1, <2>2, <2>3, <2>4, <4>1 DEF CanTrade
      <3>3. after.wei = [wei EXCEPT ![held] = @ + (-takes), ![owed] = @ + paid]
        BY <1>4, <2>1, <2>2, <2>4, <3>1 DEF Traded
      <3>4. after.wei[held] = wei[held] + (-takes) /\ after.wei[owed] = wei[owed] + paid
        BY <1>1, <3>3
      <3>5. wei[held] - (wei[held] + (-takes)) = takes /\ wei[owed] + paid - wei[owed] = paid
        BY <1>1, <1>2, <1>3
      <3>6. paid \in 0 .. planned.minOutput
        BY <1>2, <1>3
      <3>8. /\ wei[held] - after.wei[held] = takes
            /\ after.wei[owed] - wei[owed] \in 0 .. planned.minOutput
        BY <1>1, <1>2, <1>3, <3>4, <3>5, <3>6
      <3> QED BY <3>2, <3>8 DEF Accepted, t, after, takes
    <2> QED BY <2>5, <2>6
  <1>8. CASE ~planned.amounts.flip
    <2>1. /\ t.input = owed /\ t.output = held /\ t.owed = owed /\ ~t.toZero
          /\ t.amount = repays
      BY <1>8 DEF EncodeExpiryLiquidateAction
    <2>0. takes = GetPartial(repays, price, hp)
      BY <1>2, <1>8
    <2> HIDE DEF t, after, takes, repays, price, hp
    <2>2. InputWei(Now, t) = repays
      BY <2>1 DEF InputWei
    <2>5. CASE repays = 0
      <3>1. InputWei(Now, t) = 0
        BY <2>2, <2>5
      <3>2. after.wei = wei
        BY <1>4, <3>1 DEF Traded
      <3>3. wei[held] - wei[held] = 0 /\ wei[owed] - wei[owed] = 0
        BY <1>1
      <3>4. takes = 0
        <4>1. price \in Nat \ {0} /\ hp \in Nat \ {0}
          BY <1>1, PriceIsRamped, PriceIsPositive DEF LiquidatorInv, AccountIsOK, price, hp
        <4>2. takes * hp <= 0 * price /\ 0 * price = 0
          BY <2>0, <2>5, <4>1, PartialBounds
        <4>3. takes * hp < 1 * hp
          BY <1>2, <4>1, <4>2
        <4>4. takes < 1
          BY <1>2, <4>1, <4>3, CancelFactor
        <4> QED BY <1>2, <4>4
      <3> QED BY <1>2, <3>1, <3>2, <3>3, <3>4 DEF Accepted, t, after, takes
    <2>6. CASE repays # 0
      <3>0. repays > 0
        BY <1>2, <2>6
      <3>1. InputWei(Now, t) # 0
        BY <2>2, <2>6
      <3>7. OutputWei(Now, t) = -takes
        BY <1>4, <2>0, <2>1, <2>2, <3>0 DEF OutputWei, OwedWeiToHeldWei, hp, price
      <3>2. CanTrade(Now, t)
        <4>1. /\ Now.wei[t.input] < 0 /\ Now.wei[t.input] + repays <= 0
              /\ Now.wei[t.output] > 0 /\ -(-takes) <= Now.wei[t.output]
          BY <1>1, <1>2, <1>4, <2>1
        <4> QED BY <1>5, <1>6, <2>1, <2>2, <3>0, <3>7, <4>1 DEF CanTrade
      <3>3. after.wei = [wei EXCEPT ![owed] = @ + repays, ![held] = @ + (-takes)]
        BY <1>4, <2>1, <2>2, <3>1, <3>7 DEF Traded
      <3>4. after.wei[held] = wei[held] + (-takes) /\ after.wei[owed] = wei[owed] + repays
        BY <1>1, <3>3
      <3>5. wei[held] - (wei[held] + (-takes)) = takes /\ wei[owed] + repays - wei[owed] = repays
        BY <1>1, <1>2
      <3>6. repays \in 0 .. planned.minOutput
        BY <1>2
      <3>8. /\ wei[held] - after.wei[held] = takes
            /\ after.wei[owed] - wei[owed] \in 0 .. planned.minOutput
        BY <1>1, <1>2, <1>3, <3>4, <3>5, <3>6
      <3> QED BY <3>2, <3>8 DEF Accepted, t, after, takes
    <2> QED BY <2>5, <2>6
  <1> QED BY <1>2, <1>7, <1>8

(***************************************************************************)
(* What V4 has worked out is what DolomiteMargin and Expiry do.            *)
(***************************************************************************)
LEMMA PlansStayExact ==
  ASSUME LiquidatorInv
  PROVE  PlansAreExact
  <1> SUFFICES ASSUME NEW held \in Markets, NEW owed \in Markets, NEW minOutput \in MinOutputs,
                      NEW expiring \in BOOLEAN,
                      CheckConstants(held, owed, expiring), wei[owed] < 0,
                      expiring \/ MayLiquidate(Here)
               PROVE  LET planned == V4Plan(held, owed, minOutput, expiring)
                          action == LiquidationAction(held, owed, expiring, planned.amounts)
                      IN  /\ action.accepted
                          /\ wei[held] - action.state.wei[held] = planned.amounts.takes
                          /\ action.state.wei[owed] - wei[owed] \in 0 .. planned.minOutput
    BY DEF PlansAreExact
  <1> DEFINE price == OwedPriceAdj(held, owed, expiring)
             planned == V4Plan(held, owed, minOutput, expiring)
             action == LiquidationAction(held, owed, expiring, planned.amounts)
             t == EncodeExpiryLiquidateAction(held, owed, planned.amounts)
  <1>1. /\ wei \in [Markets -> Int] /\ held # owed /\ wei[held] > 0 /\ wei[owed] <= 0
        /\ expiring => expiry[owed] \in 1 .. now
    BY DEF LiquidatorInv, AccountIsOK, CheckConstants
  <1>2. IsWithin(planned, held, owed, price)
    <2>1. price \in Nat \ {0}
      BY AdjustedPriceIsPositive
    <2>2. planned = ActualLiquidationAmount(MaxLiquidationAmount(held, owed, price),
                                            held, price, minOutput)
      BY DEF V4Plan
    <2> HIDE DEF price, planned
    <2> QED BY <1>1, <2>1, <2>2, PlannedIsWithin
  <1> HIDE DEF planned
  <1>3. CASE expiring
    <2>1. price = AdjustedOwedPrice(held, owed, expiry[owed])
      BY <1>3 DEF OwedPriceAdj
    <2>2. action = [accepted |-> Accepted(Now, t), state |-> ExpiryTraded(Here, t)]
      BY <1>3 DEF LiquidationAction
    <2>3. /\ Accepted(Now, t)
          /\ wei[held] - ExpiryTraded(Here, t).wei[held] = planned.amounts.takes
          /\ ExpiryTraded(Here, t).wei[owed] - wei[owed] \in 0 .. planned.minOutput
      BY <1>1, <1>2, <1>3, <2>1, PlannedExpiry
    <2> HIDE DEF action, t
    <2> QED BY <2>2, <2>3 DEF action, planned
  <1>4. CASE ~expiring
    <2>1. price = LiquidationPrice(held, owed)
      BY <1>4 DEF OwedPriceAdj
    <2> DEFINE after == Liquidated(Here, held, owed, planned.amounts.repays)
    <2>2. action = [accepted |-> wei[owed] < 0 /\ MayLiquidate(Here), state |-> after]
      BY <1>4 DEF LiquidationAction
    <2>3. /\ wei[held] - after.wei[held] = planned.amounts.takes
          /\ after.wei[owed] - wei[owed] = planned.amounts.repays
      BY <1>1, <1>2, <2>1, PlannedLiquidation
    <2>4. planned.amounts.repays \in 0 .. planned.minOutput
      <3>1. /\ planned.amounts.repays \in Nat /\ planned.minOutput \in Nat
            /\ planned.amounts.repays <= planned.minOutput
        BY <1>2 DEF IsWithin
      <3> QED BY <3>1
    <2>5. MayLiquidate(Here)
      BY <1>4
    <2> HIDE DEF action, after
    <2>6. /\ action.accepted
          /\ wei[held] - action.state.wei[held] = planned.amounts.takes
          /\ action.state.wei[owed] - wei[owed] \in 0 .. planned.minOutput
      BY <2>2, <2>3, <2>4, <2>5
    <2> QED BY <2>6 DEF action, planned
  <1> QED BY <1>3, <1>4

-----------------------------------------------------------------------------
(* Liquidators: the invariant and what follows                             *)

LEMMA LiquidatorInitially ==
  ASSUME LiquidatorsInit
  PROVE  LiquidatorInv
  <1>1. wei \in [Markets -> Int] /\ solid \in [Markets -> Int]
    BY LiquidatorsAssumption DEF LiquidatorsInit
  <1>2. rampTime \in Nat
    BY ExpiryAssumption DEF LiquidatorsInit
  <1> QED BY <1>1, <1>2 DEF LiquidatorsInit, LiquidatorInv, AccountIsOK, ClockIsOK

LEMMA TradedIsState ==
  ASSUME ClockIsOK, NEW s \in States, NEW t \in Trades
  PROVE  Traded(s, t) \in States
  <1> DEFINE x == InputWei(s, t)
             y == OutputWei(s, t)
             after == [s.wei EXCEPT ![t.input] = @ + x, ![t.output] = @ + y]
  <1>1. /\ s.wei \in [Markets -> Int] /\ s.expiry \in [Markets -> Nat]
        /\ t.input \in Markets /\ t.output \in Markets /\ t.owed \in Markets
        /\ s.expiry[t.owed] \in Nat
    BY DEF States, Trades
  <1>2. x \in Int
    BY InputIsInt
  <1>3. y \in Int
    <2>1. CASE x > 0
      <3>1. x \in Nat /\ y = -OwedWeiToHeldWei(x, t.output, t.input, s.expiry[t.owed])
        BY <1>2, <2>1 DEF OutputWei
      <3> HIDE DEF x, y
      <3>2. OwedWeiToHeldWei(x, t.output, t.input, s.expiry[t.owed]) \in Nat
        BY <1>1, <3>1, AmountsAreNat
      <3> QED BY <3>1, <3>2
    <2>2. CASE ~(x > 0)
      <3>1. -x \in Nat /\ y = HeldWeiToOwedWei(-x, t.input, t.output, s.expiry[t.owed])
        BY <1>2, <2>2 DEF OutputWei
      <3> HIDE DEF x, y
      <3>2. HeldWeiToOwedWei(-x, t.input, t.output, s.expiry[t.owed]) \in Nat
        BY <1>1, <3>1, AmountsAreNat
      <3> QED BY <3>1, <3>2
    <2> QED BY <2>1, <2>2
  <1>4. Traded(s, t) = IF x = 0 THEN s
                       ELSE [wei |-> after,
                             expiry |-> IF after[t.owed] = 0
                                        THEN [s.expiry EXCEPT ![t.owed] = 0] ELSE s.expiry]
    BY DEF Traded
  <1> HIDE DEF x, y
  <1>5. after \in [Markets -> Int]
    BY <1>1, <1>2, <1>3
  <1> HIDE DEF after
  <1>6. [s.expiry EXCEPT ![t.owed] = 0] \in [Markets -> Nat]
    BY <1>1
  <1> QED BY <1>1, <1>4, <1>5, <1>6 DEF States

LEMMA EncodedIsTrade ==
  ASSUME LiquidatorInv, NEW held \in Markets, NEW owed \in Markets, NEW amounts,
         amounts.takes \in Int, amounts.repays \in Int
  PROVE  /\ EncodeExpiryLiquidateAction(held, owed, amounts) \in Trades
         /\ ExpiryTraded(Here, EncodeExpiryLiquidateAction(held, owed, amounts)) \in PairStates
         /\ Traded(Now, EncodeExpiryLiquidateAction(held, owed, amounts)) \in States
  <1> DEFINE t == EncodeExpiryLiquidateAction(held, owed, amounts)
             after == Traded(Now, t)
  <1>1. expiry[owed] \in Nat /\ ClockIsOK /\ Now \in States /\ solid \in [Markets -> Int]
        /\ wei \in [Markets -> Int]
    BY HereIsState DEF LiquidatorInv, AccountIsOK
  <1>2. t \in Trades
    <2>1. -amounts.takes \in Int
      OBVIOUS
    <2> QED BY <1>1, <2>1 DEF EncodeExpiryLiquidateAction, Trades
  <1>3. after \in States
    BY <1>1, <1>2, TradedIsState
  <1>4. ExpiryTraded(Here, t) =
          [solid |-> [m \in Markets |-> solid[m] + wei[m] - after.wei[m]],
           wei |-> after.wei, isLiquid |-> FALSE]
    BY DEF ExpiryTraded, Here, Now
  <1> HIDE DEF after, t
  <1>5. ExpiryTraded(Here, t) \in PairStates
    <2>1. after.wei \in [Markets -> Int]
      BY <1>3 DEF States
    <2>2. [m \in Markets |-> solid[m] + wei[m] - after.wei[m]] \in [Markets -> Int]
      BY <1>1, <2>1
    <2> QED BY <1>4, <2>1, <2>2 DEF PairStates
  <1> QED BY <1>2, <1>3, <1>5 DEF t, after

LEMMA BecomesState ==
  ASSUME LiquidatorInv, NEW s \in PairStates, Become(s), expiry' \in [Markets -> Nat]
  PROVE  LiquidatorInv'
  BY DEF LiquidatorInv, AccountIsOK, ClockIsOK, Become, PairStates

LEMMA V1Keeps ==
  ASSUME LiquidatorInv, NEW ratio \in LiquidatorRatios, NEW minValue,
         NEW owed \in OwedPreferences, NEW held \in HeldPreferences,
         LiquidateV1(ratio, minValue, owed, held)
  PROVE  LiquidatorInv'
  <1> DEFINE n == Len(owed) * Len(held)
             run == V1Run(ratio, owed, held)
  <1>1. owed \in Seq(Markets) /\ held \in Seq(Markets) /\ ratio \in Nat
    BY LiquidatorsAssumption
  <1>2. Here \in PairStates
    BY HereIsState
  <1>3. \A i \in 0 .. n : V1Rounds(ratio, owed, held)[i] \in Runs
    BY <1>1, <1>2, RoundsKeepRoom
  <1>4. n \in Nat
    BY <1>1, ProductIsNat
  <1>5. run = V1Rounds(ratio, owed, held)[n]
    BY DEF V1Run
  <1> HIDE DEF n, run
  <1>6. run \in Runs
    <2>1. n \in 0 .. n
      BY <1>4
    <2> QED BY <1>3, <1>5, <2>1
  <1>7. run.state \in PairStates
    BY <1>6 DEF Runs
  <1>8. Become(run.state) /\ expiry' = expiry
    BY DEF LiquidateV1, run
  <1>9. expiry' \in [Markets -> Nat]
    BY <1>8 DEF LiquidatorInv, AccountIsOK
  <1> QED BY <1>7, <1>8, <1>9, BecomesState

LEMMA V4Keeps ==
  ASSUME LiquidatorInv, NEW held \in Markets, NEW owed \in Markets,
         NEW inputAmount \in InputAmounts, NEW minOutput \in MinOutputs,
         NEW expiring \in BOOLEAN, NEW gain \in Gains,
         LiquidateV4(held, owed, inputAmount, minOutput, expiring, gain)
  PROVE  LiquidatorInv'
  <1> DEFINE price == OwedPriceAdj(held, owed, expiring)
             planned == V4Plan(held, owed, minOutput, expiring)
             action == LiquidationAction(held, owed, expiring, planned.amounts)
             output == planned.minOutput + gain
             after == Sold(action.state, held, owed, inputAmount, output)
  <1>1. /\ CheckConstants(held, owed, expiring) /\ Become(after)
        /\ expiry' = IF expiring /\ after.wei[owed] = 0
                     THEN [expiry EXCEPT ![owed] = 0] ELSE expiry
    BY DEF LiquidateV4
  <1>2. /\ wei \in [Markets -> Int] /\ expiry \in [Markets -> Nat]
        /\ held # owed /\ wei[held] > 0 /\ wei[owed] <= 0
    BY <1>1 DEF LiquidatorInv, AccountIsOK, CheckConstants
  <1>3. IsWithin(planned, held, owed, price)
    <2>1. price \in Nat \ {0}
      BY AdjustedPriceIsPositive
    <2>2. planned = ActualLiquidationAmount(MaxLiquidationAmount(held, owed, price),
                                            held, price, minOutput)
      BY DEF V4Plan
    <2> HIDE DEF price, planned
    <2> QED BY <1>2, <2>1, <2>2, PlannedIsWithin
  <1> HIDE DEF planned
  <1>4. /\ planned.amounts.takes \in Int /\ planned.amounts.repays \in Int
        /\ planned.minOutput \in Nat
    BY <1>3 DEF IsWithin
  <1>5. action.state \in PairStates
    <2>1. ExpiryTraded(Here, EncodeExpiryLiquidateAction(held, owed, planned.amounts)) \in PairStates
      BY <1>4, EncodedIsTrade
    <2>2. Liquidated(Here, held, owed, planned.amounts.repays) \in PairStates
      BY <1>2, <1>4, HereIsState, LiquidatedIsState
    <2> QED BY <2>1, <2>2 DEF LiquidationAction
  <1>6. output \in Int
    <2>1. gain \in Nat
      BY LiquidatorsAssumption
    <2> QED BY <1>4, <2>1
  <1> HIDE DEF action, output
  <1>7. after \in PairStates
    <2> DEFINE s == action.state
               sold == IF inputAmount = All THEN s.solid[held] - solid[held] ELSE inputAmount
    <2>1. /\ s.solid \in [Markets -> Int] /\ s.wei \in [Markets -> Int] /\ s.isLiquid \in BOOLEAN
          /\ s = [solid |-> s.solid, wei |-> s.wei, isLiquid |-> s.isLiquid]
      BY <1>5 DEF PairStates
    <2>2. sold \in Int
      <3>1. inputAmount # All => inputAmount \in Nat
        BY LiquidatorsAssumption
      <3>2. s.solid[held] \in Int /\ solid[held] \in Int
        BY <2>1 DEF LiquidatorInv
      <3> QED BY <3>1, <3>2
    <2>3. after = [s EXCEPT !.solid[held] = @ - sold, !.solid[owed] = @ + output]
      BY DEF Sold
    <2> HIDE DEF sold, s, after
    <2>4. [s.solid EXCEPT ![held] = @ - sold, ![owed] = @ + output] \in [Markets -> Int]
      BY <1>6, <2>1, <2>2
    <2>5. after = [solid |-> [s.solid EXCEPT ![held] = @ - sold, ![owed] = @ + output],
                   wei |-> s.wei, isLiquid |-> s.isLiquid]
      BY <2>1, <2>3
    <2> QED BY <2>1, <2>4, <2>5 DEF PairStates
  <1>8. expiry' \in [Markets -> Nat]
    BY <1>1, <1>2
  <1> QED BY <1>1, <1>7, <1>8, BecomesState

LEMMA ExpireKeeps ==
  ASSUME LiquidatorInv, NEW held \in Markets, NEW owed \in Markets, Expire(held, owed)
  PROVE  LiquidatorInv'
  <1> DEFINE amounts == AmountsForExpiration(held, owed)
             price == AdjustedOwedPrice(held, owed, expiry[owed])
             hp == Price[held]
             h == Abs(wei[held])
             o == Abs(wei[owed])
  <1>1. h \in Nat /\ o \in Nat
    <2>1. wei[held] \in Int /\ wei[owed] \in Int
      BY DEF LiquidatorInv, AccountIsOK
    <2> QED BY <2>1 DEF Abs
  <1>2. price \in Nat \ {0} /\ hp \in Nat \ {0}
    BY PriceIsRamped, PriceIsPositive DEF LiquidatorInv, AccountIsOK
  <1>3. \/ amounts = [flip |-> TRUE, takes |-> h, repays |-> GetPartialRoundUp(h, hp, price)]
        \/ amounts = [flip |-> FALSE, takes |-> GetPartial(o, price, hp), repays |-> o]
    BY DEF AmountsForExpiration
  <1>4. GetPartialRoundUp(h, hp, price) \in Nat /\ GetPartial(o, price, hp) \in Nat
    <2> HIDE DEF h, o, price, hp
    <2> QED BY <1>1, <1>2, RoundUpIsNat, PartialBounds
  <1> HIDE DEF amounts, price, hp, h, o
  <1>5. amounts.takes \in Int /\ amounts.repays \in Int
    BY <1>1, <1>3, <1>4
  <1>6. ExpireTrade(held, owed) = EncodeExpiryLiquidateAction(held, owed, amounts)
    BY DEF ExpireTrade, amounts
  <1>7. /\ ExpiryTraded(Here, ExpireTrade(held, owed)) \in PairStates
        /\ Traded(Now, ExpireTrade(held, owed)) \in States
    BY <1>5, <1>6, EncodedIsTrade
  <1>8. /\ Become(ExpiryTraded(Here, ExpireTrade(held, owed)))
        /\ expiry' = Traded(Now, ExpireTrade(held, owed)).expiry
    BY DEF Expire
  <1>9. expiry' \in [Markets -> Nat]
    BY <1>7, <1>8 DEF States
  <1> QED BY <1>7, <1>8, <1>9, BecomesState

LEMMA LiquidatorInvIsKept ==
  ASSUME LiquidatorInv, [LiquidatorsNext]_<<expiryVars, liquidatorVars>>
  PROVE  LiquidatorInv'
  <1>1. CASE UNCHANGED <<wei, expiry, approved, rampTime, now, solid, isLiquid>>
    BY <1>1 DEF LiquidatorInv, AccountIsOK, ClockIsOK
  <1>2. CASE UNCHANGED <<expiryVars, liquidatorVars>>
    BY <1>1, <1>2 DEF expiryVars, liquidatorVars
  <1>3. ASSUME NEW listing \in Listings,
               \/ OwnerAddLiquidatorToAssetWhitelist(listing[1], listing[2])
               \/ OwnerRemoveLiquidatorFromAssetWhitelist(listing[1], listing[2])
        PROVE  LiquidatorInv'
    BY <1>1, <1>3
       DEF OwnerAddLiquidatorToAssetWhitelist, OwnerRemoveLiquidatorFromAssetWhitelist, expiryVars
  <1>4. ASSUME NEW owed \in Markets, SetExpiry(owed), UNCHANGED liquidatorVars
        PROVE  LiquidatorInv'
    <2> DEFINE args == <<[market |-> owed, timeDelta |-> 1, forceUpdate |-> FALSE]>>
    <2>1. args \in Seq(Args)
      BY DEF Args
    <2>2. IsSet(Owner, SetAll(Owner, args))
      BY <2>1, AllIsSet DEF LiquidatorInv
    <2>3. expiry' = SetAll(Owner, args) /\ UNCHANGED <<wei, approved, rampTime, now>>
      BY <1>4 DEF SetExpiry, CallFunctionSetExpiry
    <2> HIDE DEF args
    <2> QED BY <1>4, <2>2, <2>3 DEF IsSet, liquidatorVars, LiquidatorInv, AccountIsOK, ClockIsOK
  <1>5. CASE Tick /\ UNCHANGED liquidatorVars
    BY <1>5 DEF Tick, liquidatorVars, LiquidatorInv, AccountIsOK, ClockIsOK
  <1>6. CASE ProxiesNext
    BY <1>6, V1Keeps, V4Keeps, ExpireKeeps DEF ProxiesNext
  <1> QED BY <1>2, <1>3, <1>4, <1>5, <1>6 DEF LiquidatorsNext

(***************************************************************************)
(* However prices, spreads and balances are, whatever is asked of the      *)
(* proxies and whatever else happens: V1 leaves the liquidator with the    *)
(* ratio he asked for but for what is rounded, none of its assertions      *)
(* fails, and what V4 has worked out is what DolomiteMargin and Expiry do. *)
(***************************************************************************)
THEOREM LiquidatorsKeepPlans == LiquidatorsSpec => []LiquidatorsPlanWell
  <1>1. LiquidatorsInit => LiquidatorInv
    BY LiquidatorInitially
  <1>2. LiquidatorInv /\ [LiquidatorsNext]_<<expiryVars, liquidatorVars>> => LiquidatorInv'
    BY LiquidatorInvIsKept
  <1>3. LiquidatorInv => LiquidatorsPlanWell
    BY HereIsState, HisRatioIsKept, PlansStayExact DEF LiquidatorsPlanWell
  <1> QED BY <1>1, <1>2, <1>3, PTL DEF LiquidatorsSpec
=============================================================================

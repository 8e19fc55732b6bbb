------------------------ MODULE DolomiteMarginProofs ------------------------
(***************************************************************************)
(* Theorems of DolomiteMargin, for any accounts, markets, requests, prices *)
(* and parameters: every variable keeps its type, the books stay exact and *)
(* no index falls.  They rest on the invariant Inductive, which adds what  *)
(* preprocessing has verified of the running operation, and on what is     *)
(* proved first of MarginStorage: every write takes a sound ledger to a    *)
(* sound ledger and leaves the indexes alone, whatever the accounts, the   *)
(* markets, the widths of the stored values and the amounts written.       *)
(***************************************************************************)
EXTENDS DolomiteMargin, MarginMathProofs

-----------------------------------------------------------------------------
(* Writes of the ledger                                                    *)

(***************************************************************************)
(* M is a sound ledger that writes to the balances of the accounts A in    *)
(* the markets S have made of L.                                           *)
(***************************************************************************)
OnlyMoves(M, L, A, S) ==
  /\ \A a \in Accounts, m \in Markets :
       a \notin A \/ m \notin S => M.par[a][m] = L.par[a][m]
  /\ \A m \in Markets \ S : M.totalPar[m] = L.totalPar[m]

Follows(M, L, A, S) ==
  /\ Sound(M)
  /\ M.index = L.index
  /\ M.status = L.status
  /\ OnlyMoves(M, L, A, S)

\* The ledgers agree on everything that setPar writes.
SameBooks(M, L) ==
  /\ M.par = L.par
  /\ M.totalPar = L.totalPar
  /\ M.numberOfMarketsWithDebt = L.numberOfMarketsWithDebt
  /\ M.marketsWithBalances = L.marketsWithBalances
  /\ M.index = L.index

-----------------------------------------------------------------------------

LEMMA FollowsIsReflexive ==
  ASSUME NEW L, Sound(L), NEW A, NEW S
  PROVE  Follows(L, L, A, S)
  BY DEF Follows, OnlyMoves

LEMMA FollowsIsTransitive ==
  ASSUME NEW L, NEW M, NEW N, NEW A, NEW S,
         Follows(M, L, A, S), Follows(N, M, A, S)
  PROVE  Follows(N, L, A, S)
  <1>1. OnlyMoves(N, L, A, S)
    BY DEF Follows, OnlyMoves
  <1> QED BY <1>1 DEF Follows

(***************************************************************************)
(* More accounts may be named than were written to.                        *)
(***************************************************************************)
LEMMA FollowsIsMonotonic ==
  ASSUME NEW L, NEW M, NEW A, NEW B, A \subseteq B, NEW S, Follows(M, L, A, S)
  PROVE  Follows(M, L, B, S)
  BY DEF Follows, OnlyMoves

(***************************************************************************)
(* A write that touches neither balances nor indexes.                      *)
(***************************************************************************)
LEMMA SameBooksAreSound ==
  ASSUME NEW L, Sound(L), NEW M \in Ledgers, SameBooks(M, L)
  PROVE  Sound(M)
  <1>1. BooksAreExact(M)
    BY DEF Sound, SameBooks, BooksAreExact
  <1>2. TotalsAreExact(M)
    BY DEF Sound, SameBooks, TotalsAreExact, Supplies, Borrows
  <1> QED BY <1>1, <1>2 DEF Sound, SameBooks

LEMMA SameBooksFollow ==
  ASSUME NEW L, Sound(L), NEW M \in Ledgers, SameBooks(M, L),
         M.status = L.status, NEW A, NEW S
  PROVE  Follows(M, L, A, S)
  <1>1. OnlyMoves(M, L, A, S)
    BY DEF SameBooks, OnlyMoves
  <1> QED BY <1>1, SameBooksAreSound DEF Follows, SameBooks

LEMMA FailFollows ==
  ASSUME NEW L, Sound(L), NEW A, NEW S
  PROVE  Follows(Fail(L), L, A, S)
  <1> DEFINE M == Fail(L)
  <1>1. /\ M \in Ledgers
        /\ SameBooks(M, L)
        /\ M.status = L.status
    BY DEF Sound, Fail, Ledgers, SameBooks
  <1> HIDE DEF M
  <1>2. Follows(M, L, A, S)
    BY <1>1, SameBooksFollow
  <1> QED BY <1>2 DEF M

LEMMA SetStatusIsSound ==
  ASSUME NEW L, Sound(L), NEW a \in Accounts, NEW status \in Statuses
  PROVE  /\ Sound(SetStatus(L, a, status))
         /\ SameBooks(SetStatus(L, a, status), L)
         /\ SetStatus(L, a, status).status = [L.status EXCEPT ![a] = status]
  <1> DEFINE M == SetStatus(L, a, status)
  <1>1. /\ M \in Ledgers
        /\ SameBooks(M, L)
        /\ M.status = [L.status EXCEPT ![a] = status]
    BY DEF Sound, SetStatus, Ledgers, SameBooks
  <1> HIDE DEF M
  <1>2. Sound(M)
    BY <1>1, SameBooksAreSound
  <1> QED BY <1>1, <1>2 DEF M

(***************************************************************************)
(* Tokens move: of the ledger only the tokens held may change.             *)
(***************************************************************************)
LEMMA HoldingFollows ==
  ASSUME NEW L, Sound(L), NEW m \in Markets, NEW wei \in Int,
         L.balanceOf[m] + wei \in 0 .. TokenSupply, NEW A, NEW S
  PROVE  Follows([L EXCEPT !.balanceOf[m] = @ + wei], L, A, S)
  <1> DEFINE M == [L EXCEPT !.balanceOf[m] = @ + wei]
  <1>1. /\ M \in Ledgers
        /\ SameBooks(M, L)
        /\ M.status = L.status
    BY DEF Sound, Ledgers, SameBooks
  <1> HIDE DEF M
  <1>2. Follows(M, L, A, S)
    BY <1>1, SameBooksFollow
  <1> QED BY <1>2 DEF M

LEMMA TransferInFollows ==
  ASSUME NEW L, Sound(L), NEW m \in Markets, NEW from, NEW wei \in Int,
         NEW A, NEW S
  PROVE  Follows(TransferIn(L, m, from, wei), L, A, S)
  <1>1. CASE wei >= 0 /\ L.balanceOf[m] + wei <= TokenSupply
    <2>1. L.balanceOf[m] + wei \in 0 .. TokenSupply
      BY <1>1, StorageAssumption DEF Sound, Ledgers
    <2> QED BY <2>1, HoldingFollows, FailFollows, FollowsIsReflexive
            DEF TransferIn
  <1>2. CASE ~(wei >= 0 /\ L.balanceOf[m] + wei <= TokenSupply)
    <2>1. wei < 0 \/ ~(L.balanceOf[m] + wei <= TokenSupply)
      BY <1>2
    <2>2. ~(L.balanceOf[m] + wei <= TokenSupply)
            => L.balanceOf[m] + wei > TokenSupply
      BY StorageAssumption DEF Sound, Ledgers
    <2> QED BY <2>1, <2>2, FailFollows, FollowsIsReflexive DEF TransferIn
  <1> QED BY <1>1, <1>2

LEMMA TransferOutFollows ==
  ASSUME NEW L, Sound(L), NEW m \in Markets, NEW to, NEW wei \in Int,
         NEW A, NEW S
  PROVE  Follows(TransferOut(L, m, to, wei), L, A, S)
  <1>1. CASE wei <= 0 /\ L.balanceOf[m] + wei >= 0
    <2>1. L.balanceOf[m] + wei \in 0 .. TokenSupply
      BY <1>1, StorageAssumption DEF Sound, Ledgers
    <2> QED BY <2>1, HoldingFollows, FailFollows, FollowsIsReflexive
            DEF TransferOut
  <1>2. CASE ~(wei <= 0 /\ L.balanceOf[m] + wei >= 0)
    <2>1. wei > 0 \/ ~(L.balanceOf[m] + wei >= 0)
      BY <1>2
    <2>2. ~(L.balanceOf[m] + wei >= 0) => L.balanceOf[m] + wei < 0
      BY DEF Sound, Ledgers
    <2> QED BY <2>1, <2>2, FailFollows, FollowsIsReflexive DEF TransferOut
  <1> QED BY <1>1, <1>2

-----------------------------------------------------------------------------
(* setPar: the totals stay within their width, and the counter and the set *)
(* follow the one balance that changes.                                    *)

LEMMA RolledTotalIsTyped ==
  ASSUME NEW total \in [borrow : 0 .. MaxUint128, supply : 0 .. MaxUint128],
         NEW oldPar \in Int, NEW newPar \in Int,
         RollIsSafe(total, oldPar, newPar)
  PROVE  RolledTotalPar(total, oldPar, newPar)
           \in [borrow : 0 .. MaxUint128, supply : 0 .. MaxUint128]
  <1> DEFINE supply == total.supply - PositivePart(oldPar) + PositivePart(newPar)
             borrow == total.borrow - NegativePart(oldPar) + NegativePart(newPar)
  <1>1. /\ PositivePart(oldPar) \in Nat /\ PositivePart(newPar) \in Nat
        /\ NegativePart(oldPar) \in Nat /\ NegativePart(newPar) \in Nat
    BY DEF PositivePart, NegativePart
  <1>2. /\ total.supply >= PositivePart(oldPar)
        /\ total.borrow >= NegativePart(oldPar)
        /\ Abs(supply) <= MaxUint128
        /\ Abs(borrow) <= MaxUint128
    BY DEF RollIsSafe, RolledTotalPar, FitsUint128
  <1>3. supply \in Nat /\ borrow \in Nat
    BY <1>1, <1>2, MathAssumption
  <1>4. supply \in 0 .. MaxUint128 /\ borrow \in 0 .. MaxUint128
    BY <1>2, <1>3, MathAssumption DEF Abs
  <1> QED BY <1>4 DEF RolledTotalPar

LEMMA DebtsFollow ==
  ASSUME NEW f \in [Markets -> Int], NEW m \in Markets, NEW newPar \in Int
  PROVE  LET g == [f EXCEPT ![m] = newPar]
         IN  Cardinality({x \in Markets : g[x] < 0})
               = Cardinality({x \in Markets : f[x] < 0})
                   + DebtChange(f[m], newPar)
  <1> DEFINE g == [f EXCEPT ![m] = newPar]
             old == {x \in Markets : f[x] < 0}
             new == {x \in Markets : g[x] < 0}
  <1>1. IsFiniteSet(old)
    BY FS_Subset, StorageAssumption
  <1>2. Cardinality(old) \in Nat
    BY <1>1, FS_CardinalityType
  <1>3. CASE f[m] < 0 /\ newPar >= 0
    <2>1. new = old \ {m} /\ m \in old
      BY <1>3
    <2>2. DebtChange(f[m], newPar) = -1
      BY <1>3 DEF DebtChange
    <2>3. Cardinality(old \ {m}) = Cardinality(old) - 1
      BY <1>1, <2>1, FS_RemoveElement
    <2> QED BY <1>2, <2>1, <2>2, <2>3
  <1>4. CASE f[m] >= 0 /\ newPar < 0
    <2>1. new = old \cup {m} /\ m \notin old
      BY <1>4
    <2>2. DebtChange(f[m], newPar) = 1
      BY <1>4 DEF DebtChange
    <2>3. Cardinality(old \cup {m}) = Cardinality(old) + 1
      BY <1>1, <2>1, FS_AddElement
    <2> QED BY <1>2, <2>1, <2>2, <2>3
  <1>5. CASE (f[m] < 0) <=> (newPar < 0)
    <2>1. new = old
      BY <1>5
    <2>2. DebtChange(f[m], newPar) = 0
      BY <1>5 DEF DebtChange
    <2> QED BY <1>2, <2>1, <2>2
  <1> QED BY <1>3, <1>4, <1>5

LEMMA BalancesFollow ==
  ASSUME NEW f \in [Markets -> Int], NEW m \in Markets, NEW newPar \in Int
  PROVE  LET g == [f EXCEPT ![m] = newPar]
         IN  BalancesAfter({x \in Markets : f[x] # 0}, m, f[m], newPar)
               = {x \in Markets : g[x] # 0}
  <1> DEFINE g == [f EXCEPT ![m] = newPar]
             old == {x \in Markets : f[x] # 0}
             new == {x \in Markets : g[x] # 0}
  <1>1. CASE newPar = 0 /\ f[m] # 0
    <2>1. new = old \ {m}
      BY <1>1
    <2> QED BY <1>1, <2>1 DEF BalancesAfter
  <1>2. CASE newPar # 0 /\ f[m] = 0
    <2>1. new = old \cup {m}
      BY <1>2
    <2> QED BY <1>2, <2>1 DEF BalancesAfter
  <1>3. CASE (newPar = 0) <=> (f[m] = 0)
    <2>1. new = old
      BY <1>3
    <2> QED BY <1>3, <2>1 DEF BalancesAfter
  <1> QED BY <1>1, <1>2, <1>3

(***************************************************************************)
(* The totals follow the one balance that changes.                         *)
(***************************************************************************)
LEMMA PartsAreNat ==
  ASSUME NEW x \in Int
  PROVE  PositivePart(x) \in Nat /\ NegativePart(x) \in Nat
  BY DEF PositivePart, NegativePart

LEMMA TotalsFollow ==
  ASSUME NEW L \in Ledgers, TotalsAreExact(L), NEW M \in Ledgers,
         NEW a \in Accounts, NEW m \in Markets, NEW newPar \in Int,
         M.par = [L.par EXCEPT ![a] = [@ EXCEPT ![m] = newPar]],
         M.totalPar = [L.totalPar EXCEPT
                         ![m] = RolledTotalPar(@, L.par[a][m], newPar)]
  PROVE  TotalsAreExact(M)
  <1> SUFFICES ASSUME NEW n \in Markets
               PROVE  /\ M.totalPar[n].supply = SumFunction(Supplies(M, n))
                      /\ M.totalPar[n].borrow = SumFunction(Borrows(M, n))
    BY DEF TotalsAreExact
  <1>1. /\ L.totalPar[n].supply = SumFunction(Supplies(L, n))
        /\ L.totalPar[n].borrow = SumFunction(Borrows(L, n))
    BY DEF TotalsAreExact
  <1>2. \A b \in Accounts : L.par[b][n] \in Int /\ M.par[b][n] \in Int
    BY MathAssumption DEF Ledgers, Signed128
  <1>3. CASE n # m
    <2>1. M.totalPar[n] = L.totalPar[n]
      BY <1>3 DEF Ledgers
    <2>2. \A b \in Accounts : M.par[b][n] = L.par[b][n]
      BY <1>3 DEF Ledgers
    <2>3. Supplies(M, n) = Supplies(L, n) /\ Borrows(M, n) = Borrows(L, n)
      BY <2>2 DEF Supplies, Borrows
    <2> QED BY <1>1, <2>1, <2>3
  <1>4. CASE n = m
    <2> DEFINE oldPar == L.par[a][m]
               f == Supplies(L, m)
               g == Supplies(M, m)
               p == Borrows(L, m)
               q == Borrows(M, m)
    <2>1. /\ M.par[a][m] = newPar
          /\ \A b \in Accounts : b # a => M.par[b][m] = L.par[b][m]
      BY DEF Ledgers
    <2>2. oldPar \in Int
      BY <1>2, <1>4
    <2>3. /\ DOMAIN f = Accounts /\ DOMAIN g = Accounts
          /\ DOMAIN p = Accounts /\ DOMAIN q = Accounts
          /\ \A b \in Accounts : f[b] \in Int /\ g[b] \in Int
          /\ \A b \in Accounts : p[b] \in Int /\ q[b] \in Int
      BY <1>2, <1>4, PartsAreNat DEF Supplies, Borrows
    <2>4. /\ f[a] = PositivePart(oldPar) /\ g[a] = PositivePart(newPar)
          /\ p[a] = NegativePart(oldPar) /\ q[a] = NegativePart(newPar)
          /\ \A b \in Accounts : b # a => g[b] = f[b] /\ q[b] = p[b]
      BY <2>1 DEF Supplies, Borrows
    <2>5. /\ M.totalPar[m].supply
               = L.totalPar[m].supply - PositivePart(oldPar)
                   + PositivePart(newPar)
          /\ M.totalPar[m].borrow
               = L.totalPar[m].borrow - NegativePart(oldPar)
                   + NegativePart(newPar)
      BY DEF RolledTotalPar, Ledgers
    <2>6. IsFiniteSet(Accounts)
      BY StorageAssumption
    <2> HIDE DEF f, g, p, q, oldPar
    <2>7. SumFunctionOnSet(g, Accounts)
            = SumFunctionOnSet(f, Accounts) - f[a] + g[a]
      BY <2>3, <2>4, <2>6, SumAfterChange
    <2>8. SumFunctionOnSet(q, Accounts)
            = SumFunctionOnSet(p, Accounts) - p[a] + q[a]
      BY <2>3, <2>4, <2>6, SumAfterChange
    <2>9. /\ L.totalPar[m].supply = SumFunctionOnSet(f, Accounts)
          /\ L.totalPar[m].borrow = SumFunctionOnSet(p, Accounts)
      BY <1>1, <1>4, <2>3 DEF SumFunction, f, p
    <2>10. /\ M.totalPar[m].supply = SumFunctionOnSet(g, Accounts)
           /\ M.totalPar[m].borrow = SumFunctionOnSet(q, Accounts)
      BY <2>4, <2>5, <2>7, <2>8, <2>9
    <2> QED BY <1>4, <2>3, <2>10 DEF SumFunction, g, q
  <1> QED BY <1>3, <1>4

LEMMA SetParFollows ==
  ASSUME NEW L, Sound(L), NEW a \in Accounts, NEW m \in Markets,
         NEW newPar \in Int, NEW A, a \in A, NEW S, m \in S
  PROVE  Follows(SetPar(L, a, m, newPar), L, A, S)
  <1> DEFINE oldPar == L.par[a][m]
             total  == L.totalPar[m]
             M == [L EXCEPT
                    !.par[a][m] = newPar,
                    !.totalPar[m] = RolledTotalPar(total, oldPar, newPar),
                    !.numberOfMarketsWithDebt[a] = @ + DebtChange(oldPar, newPar),
                    !.marketsWithBalances[a] =
                       BalancesAfter(@, m, oldPar, newPar)]
  <1>1. CASE newPar # oldPar /\ FitsUint128(newPar)
               /\ RollIsSafe(total, oldPar, newPar)
    <2>1. /\ L \in Ledgers
          /\ oldPar \in Int
          /\ L.par[a] \in [Markets -> Int]
          /\ total \in [borrow : 0 .. MaxUint128, supply : 0 .. MaxUint128]
      BY MathAssumption DEF Sound, Ledgers, Signed128
    <2>2. newPar \in Signed128
      BY <1>1, MathAssumption DEF FitsUint128, Abs, Signed128
    <2>3. DebtChange(oldPar, newPar) \in Int
      BY <2>1 DEF DebtChange
    <2>4. BalancesAfter(L.marketsWithBalances[a], m, oldPar, newPar)
            \in SUBSET Markets
      <3>1. L.marketsWithBalances[a] \in SUBSET Markets
        BY <2>1 DEF Ledgers
      <3> QED BY <3>1 DEF BalancesAfter
    <2>5. RolledTotalPar(total, oldPar, newPar)
            \in [borrow : 0 .. MaxUint128, supply : 0 .. MaxUint128]
      BY <1>1, <2>1, RolledTotalIsTyped
    <2>6. /\ M.par = [L.par EXCEPT ![a] = [@ EXCEPT ![m] = newPar]]
          /\ M.totalPar
               = [L.totalPar EXCEPT ![m] = RolledTotalPar(total, oldPar, newPar)]
          /\ M.numberOfMarketsWithDebt
               = [L.numberOfMarketsWithDebt EXCEPT
                    ![a] = @ + DebtChange(oldPar, newPar)]
          /\ M.marketsWithBalances
               = [L.marketsWithBalances EXCEPT
                    ![a] = BalancesAfter(@, m, oldPar, newPar)]
          /\ M.status = L.status
          /\ M.index = L.index
          /\ M.balanceOf = L.balanceOf
          /\ M.ok = L.ok
      BY <2>1 DEF Ledgers
    <2>7. M \in Ledgers
      <3>1. M.par \in [Accounts -> [Markets -> Signed128]]
        BY <2>1, <2>2, <2>6 DEF Ledgers
      <3>2. M.totalPar \in [Markets -> [borrow : 0 .. MaxUint128,
                                        supply : 0 .. MaxUint128]]
        BY <2>1, <2>5, <2>6 DEF Ledgers
      <3>3. M.numberOfMarketsWithDebt \in [Accounts -> Int]
        BY <2>1, <2>3, <2>6 DEF Ledgers
      <3>4. M.marketsWithBalances \in [Accounts -> SUBSET Markets]
        BY <2>1, <2>4, <2>6 DEF Ledgers
      <3> DEFINE P == M.par
                 T == M.totalPar
                 D == M.numberOfMarketsWithDebt
                 B == M.marketsWithBalances
      <3>5. M = [L EXCEPT !.par = P, !.totalPar = T,
                          !.numberOfMarketsWithDebt = D,
                          !.marketsWithBalances = B]
        BY <2>1, <2>6 DEF Ledgers
      <3> HIDE DEF M, P, T, D, B
      <3> QED BY <2>1, <3>1, <3>2, <3>3, <3>4, <3>5 DEF Ledgers, P, T, D, B
    <2>8. BooksAreExact(M)
      <3> SUFFICES ASSUME NEW b \in Accounts
                   PROVE  /\ M.numberOfMarketsWithDebt[b]
                               = Cardinality({x \in Markets : M.par[b][x] < 0})
                          /\ M.marketsWithBalances[b]
                               = {x \in Markets : M.par[b][x] # 0}
        BY DEF BooksAreExact
      <3>1. /\ L.numberOfMarketsWithDebt[b]
                 = Cardinality({x \in Markets : L.par[b][x] < 0})
            /\ L.marketsWithBalances[b] = {x \in Markets : L.par[b][x] # 0}
        BY DEF Sound, BooksAreExact
      <3>2. CASE b = a
        <4>1. M.par[a] = [L.par[a] EXCEPT ![m] = newPar]
          BY <2>1, <2>6 DEF Ledgers
        <4>2. M.numberOfMarketsWithDebt[a]
                = L.numberOfMarketsWithDebt[a] + DebtChange(oldPar, newPar)
          BY <2>1, <2>6 DEF Ledgers
        <4>3. M.marketsWithBalances[a]
                = BalancesAfter(L.marketsWithBalances[a], m, oldPar, newPar)
          BY <2>1, <2>6 DEF Ledgers
        <4> DEFINE f == L.par[a]
        <4>4. f \in [Markets -> Int] /\ f[m] = oldPar
          BY <2>1
        <4> HIDE DEF M, f, oldPar
        <4>5. Cardinality({x \in Markets : [f EXCEPT ![m] = newPar][x] < 0})
                = Cardinality({x \in Markets : f[x] < 0})
                    + DebtChange(f[m], newPar)
          BY <4>4, DebtsFollow
        <4>6. BalancesAfter({x \in Markets : f[x] # 0}, m, f[m], newPar)
                = {x \in Markets : [f EXCEPT ![m] = newPar][x] # 0}
          BY <4>4, BalancesFollow
        <4> QED BY <3>1, <3>2, <4>1, <4>2, <4>3, <4>4, <4>5, <4>6 DEF f
      <3>3. CASE b # a
        <4>1. /\ M.par[b] = L.par[b]
              /\ M.numberOfMarketsWithDebt[b] = L.numberOfMarketsWithDebt[b]
              /\ M.marketsWithBalances[b] = L.marketsWithBalances[b]
          BY <2>1, <2>6, <3>3 DEF Ledgers
        <4> HIDE DEF M
        <4> QED BY <3>1, <4>1
      <3> QED BY <3>2, <3>3
    <2>9. SetPar(L, a, m, newPar) = M
      BY <1>1 DEF SetPar
    <2>10. TotalsAreExact(M)
      <3> HIDE DEF M
      <3>1. TotalsAreExact(L)
        BY DEF Sound
      <3>2. M.totalPar = [L.totalPar EXCEPT
                            ![m] = RolledTotalPar(@, L.par[a][m], newPar)]
        BY <2>6
      <3> QED BY <2>1, <2>6, <2>7, <3>1, <3>2, TotalsFollow
    <2>11. OnlyMoves(M, L, A, S)
      <3>1. ASSUME NEW b \in Accounts, NEW n \in Markets, b # a \/ n # m
            PROVE  M.par[b][n] = L.par[b][n]
        BY <2>1, <2>6, <3>1 DEF Ledgers
      <3>2. ASSUME NEW n \in Markets, n # m
            PROVE  M.totalPar[n] = L.totalPar[n]
        BY <2>1, <2>6, <3>2 DEF Ledgers
      <3> HIDE DEF M
      <3> QED BY <3>1, <3>2 DEF OnlyMoves
    <2> HIDE DEF M
    <2> QED BY <2>6, <2>7, <2>8, <2>9, <2>10, <2>11 DEF Follows, Sound
  <1>2. CASE newPar = oldPar
    BY <1>2, FollowsIsReflexive DEF SetPar
  <1>3. CASE newPar # oldPar /\ ~(FitsUint128(newPar)
                                   /\ RollIsSafe(total, oldPar, newPar))
    <2>1. SetPar(L, a, m, newPar) = Fail(L)
      BY <1>3 DEF SetPar
    <2> QED BY <2>1, FailFollows
  <1> QED BY <1>1, <1>2, <1>3

-----------------------------------------------------------------------------
(* The amounts that writes are given are integers.                         *)

LEMMA GetWeiIsInt ==
  ASSUME NEW L, Sound(L), NEW a \in Accounts, NEW m \in Markets,
         NEW index \in Indexes
  PROVE  GetWei(L, a, m, index) \in Int
  <1>1. L.par[a][m] \in Int
    BY MathAssumption DEF Sound, Ledgers, Signed128
  <1> QED BY <1>1, ParToWeiIsInt DEF GetWei

LEMMA SetParFromDeltaWeiFollows ==
  ASSUME NEW L, Sound(L), NEW a \in Accounts, NEW m \in Markets,
         NEW index \in Indexes, NEW deltaWei \in Int,
         NEW A, a \in A, NEW S, m \in S
  PROVE  Follows(SetParFromDeltaWei(L, a, m, index, deltaWei), L, A, S)
  <1>1. GetWei(L, a, m, index) + deltaWei \in Int
    BY GetWeiIsInt
  <1>2. WeiToPar(GetWei(L, a, m, index) + deltaWei, index) \in Int
    BY <1>1, WeiToParIsInt
  <1> QED BY <1>2, SetParFollows, FollowsIsReflexive DEF SetParFromDeltaWei

LEMMA AmountIsTyped ==
  ASSUME NEW L, Sound(L), NEW a \in Accounts, NEW m \in Markets,
         NEW index \in Indexes, NEW amount \in AssetAmounts
  PROVE  LET new == GetNewParAndDeltaWei(L, a, m, index, amount)
         IN  new.par \in Int /\ new.deltaWei \in Int
  <1> DEFINE oldWei   == GetWei(L, a, m, index)
             deltaWei == IF amount.ref = "Target" THEN amount.value - oldWei
                                                  ELSE amount.value
             newPar   == IF amount.ref = "Delta" THEN L.par[a][m] + amount.value
                                                 ELSE amount.value
  <1>1. L.par[a][m] \in Int /\ amount.value \in Int
    BY MathAssumption DEF Sound, Ledgers, Signed128, AssetAmounts
  <1>2. oldWei \in Int
    BY GetWeiIsInt
  <1> HIDE DEF oldWei
  <1>3. deltaWei \in Int /\ newPar \in Int /\ oldWei + deltaWei \in Int
    BY <1>1, <1>2
  <1>4. /\ WeiToPar(oldWei + deltaWei, index) \in Int
        /\ ParToWei(newPar, index) - oldWei \in Int
    BY <1>2, <1>3, WeiToParIsInt, ParToWeiIsInt
  <1> QED BY <1>1, <1>3, <1>4 DEF GetNewParAndDeltaWei, oldWei

LEMMA LiquidationAmountIsTyped ==
  ASSUME NEW L, Sound(L), NEW a \in Accounts, NEW m \in Markets,
         NEW index \in Indexes, NEW amount \in AssetAmounts
  PROVE  LET new == GetNewParAndDeltaWeiForLiquidation(L, a, m, index, amount)
         IN  new.par \in Int /\ new.deltaWei \in Int
  <1> DEFINE asked == GetNewParAndDeltaWei(L, a, m, index, amount)
  <1>1. asked.par \in Int /\ asked.deltaWei \in Int
    BY AmountIsTyped
  <1>2. -GetWei(L, a, m, index) \in Int
    BY GetWeiIsInt
  <1> HIDE DEF asked
  <1> QED BY <1>1, <1>2 DEF GetNewParAndDeltaWeiForLiquidation, asked

LEMMA ExcessIsInt ==
  ASSUME NEW L, Sound(L), NEW m \in Markets
  PROVE  GetNumExcessTokens(L, m) \in Int
  <1>1. /\ L.totalPar[m] \in [borrow : Nat, supply : Nat]
        /\ L.index[m] \in Indexes
        /\ L.balanceOf[m] \in Nat
    BY MathAssumption, StorageAssumption DEF Sound, Ledgers
  <1>2. /\ SupplyWei(L.totalPar[m], L.index[m]) \in Nat
        /\ BorrowWei(L.totalPar[m], L.index[m]) \in Nat
    BY <1>1, TotalsAreNat
  <1> QED BY <1>1, <1>2 DEF GetNumExcessTokens

(***************************************************************************)
(* The risk parameters and the overrides give natural numbers.             *)
(***************************************************************************)
LEMMA SpreadIsNat ==
  ASSUME riskParams \in RiskParamsType,
         marketParams \in [Markets -> MarketParamsType],
         NEW a \in Accounts \cup {ZeroAccount},
         NEW heldMarket \in Markets, NEW owedMarket \in Markets
  PROVE  GetLiquidationSpreadForAccountAndPair(a, heldMarket, owedMarket) \in Nat
  <1>1. RiskOverrideSetter(a) \in RiskSetters \cup {NoSetter}
    BY StorageAssumption DEF RiskOverrideSetter, RiskParamsType
  <1>2. GetAccountRiskOverride(a).liquidationSpread \in Nat
    BY <1>1, StorageAssumption DEF GetAccountRiskOverride
  <1> DEFINE premium(m) == OnePlus(marketParams[m].liquidationSpreadPremium)
             spread == DecimalMul(riskParams.liquidationSpread,
                                  premium(heldMarket))
  <1>3. premium(heldMarket) \in Nat /\ premium(owedMarket) \in Nat
    BY BaseIsPositive DEF OnePlus, MarketParamsType
  <1>4. riskParams.liquidationSpread \in Nat
    BY DEF RiskParamsType
  <1> HIDE DEF premium
  <1>5. spread \in Nat
    BY <1>3, <1>4, BaseIsPositive, GetPartialIsNat DEF DecimalMul
  <1> HIDE DEF spread
  <1>6. DecimalMul(spread, premium(owedMarket)) \in Nat
    BY <1>3, <1>5, BaseIsPositive, GetPartialIsNat DEF DecimalMul
  <1> QED BY <1>2, <1>6 DEF GetLiquidationSpreadForAccountAndPair, spread, premium

-----------------------------------------------------------------------------
(* Steps of an operation                                                   *)

(***************************************************************************)
(* What a step of an operation finds when it starts an action.             *)
(***************************************************************************)
LEMMA ActionIsVerified ==
  ASSUME Inductive, NEW type, Executing(type)
  PROVE  /\ ~Idle
         /\ Arg \in ActionArgs
         /\ Arg.actionType = type
         /\ AccountOne \in Accounts
         /\ AccountLayout(type) # "OnePrimary" => AccountTwo \in Accounts
         /\ ActionMarkets(Arg) \subseteq DOMAIN cache
  <1>1. /\ ~Idle
        /\ pc \in DOMAIN request.actions
        /\ Arg.actionType = type
    BY DEF Executing
  <1>2. request \in Requests
    BY <1>1 DEF Inductive, TypeOK, OperationTypeOK, Idle
  <1>3. request \in [sender : Addresses, accounts : Seq(Accounts),
                     actions : Seq(ActionArgs)]
    BY <1>2, OperationAssumption
  <1>4. Arg \in ActionArgs
    <2>1. request.actions \in Seq(ActionArgs)
      BY <1>3
    <2> QED BY <1>1, <2>1 DEF Arg
  <1>5. /\ VerifyAccountLayout(request, pc)
        /\ ActionMarkets(Arg) \subseteq DOMAIN cache
    BY <1>1 DEF Inductive, RequestIsVerified, Arg
  <1>6. /\ Arg.accountId \in DOMAIN request.accounts
        /\ AccountLayout(type) # "OnePrimary"
             => Arg.otherAccountId \in DOMAIN request.accounts
    BY <1>1, <1>5 DEF VerifyAccountLayout, Arg
  <1>7. request.accounts \in Seq(Accounts)
    BY <1>3
  <1> QED BY <1>1, <1>4, <1>5, <1>6, <1>7 DEF AccountOne, AccountTwo

(***************************************************************************)
(* The cached entry of a market is an index and a price that is not zero.  *)
(***************************************************************************)
LEMMA CachedMarket ==
  ASSUME Inductive, NEW m \in DOMAIN cache
  PROVE  /\ m \in Markets
         /\ CachedIndex(m) \in Indexes
         /\ cache[m].price \in Nat \ {0}
  BY DEF Inductive, TypeOK, OperationTypeOK, CachedIndex, CacheEntries

LEMMA MarketsOfArg ==
  ASSUME Inductive, NEW type, Executing(type)
  PROVE  /\ type # "Call" => MarketOne \in DOMAIN cache
         /\ type \in {"Buy", "Sell", "Trade", "Liquidate", "Vaporize"}
              => MarketTwo \in DOMAIN cache
  <1>1. /\ Arg.actionType = type
        /\ ActionMarkets(Arg) \subseteq DOMAIN cache
    BY ActionIsVerified
  <1>2. type # "Call" => MarketOne \in ActionMarkets(Arg)
    BY <1>1 DEF ActionMarkets, MarketLayout, MarketOne
  <1>3. type \in {"Buy", "Sell", "Trade", "Liquidate", "Vaporize"}
          => MarketTwo \in ActionMarkets(Arg)
    BY <1>1 DEF ActionMarkets, MarketLayout, MarketTwo
  <1> QED BY <1>1, <1>2, <1>3

LEMMA ArgAmount ==
  ASSUME Inductive, NEW type, Executing(type)
  PROVE  Arg.amount \in AssetAmounts
  <1>1. Arg \in ActionArgs
    BY ActionIsVerified
  <1> QED BY <1>1 DEF ActionArgs

-----------------------------------------------------------------------------

LEMMA InductiveIsSound ==
  ASSUME Inductive
  PROVE  Sound(ledger)
  BY DEF Inductive

(***************************************************************************)
(* The accounts whose balances an action may change; it may do so in the   *)
(* cached markets only.                                                    *)
(***************************************************************************)
Movers ==
  IF AccountLayout(Arg.actionType) = "OnePrimary" THEN {AccountOne}
                                                  ELSE {AccountOne, AccountTwo}

Reaches(L, K) == Follows(L, K, Movers, DOMAIN cache)

LEMMA ReachesIsTransitive ==
  ASSUME NEW K, NEW L, NEW M, Reaches(L, K), Reaches(M, L)
  PROVE  Reaches(M, K)
  BY FollowsIsTransitive DEF Reaches

LEMMA LedgerReachesItself ==
  ASSUME Inductive
  PROVE  Reaches(ledger, ledger)
  BY InductiveIsSound, FollowsIsReflexive DEF Reaches

(***************************************************************************)
(* An action of an operation keeps the invariant and the indexes, moves    *)
(* its own accounts only and flags as K does, if the ledger it leaves      *)
(* follows from K and K has the books of the ledger it found.              *)
(***************************************************************************)
Kept(status) ==
  /\ Inductive'
  /\ ledger'.index = ledger.index
  /\ ledger'.status = status
  /\ OnlyMoves(ledger', ledger, Movers, DOMAIN cache)
  /\ pc' = pc + 1
  /\ UNCHANGED <<params, operators, permissions, world, request, cache, saved>>

LEMMA CompleteKeeps ==
  ASSUME Inductive, ~Idle, NEW K, SameBooks(K, ledger),
         NEW L, Reaches(L, K), Complete(L)
  PROVE  Kept(K.status)
  <1>1. /\ L.ok
        /\ ledger' = L
        /\ pc' = pc + 1
        /\ UNCHANGED <<riskParams, marketParams, listedMarkets, operators,
                       globalOperators, specialAutoTraders, price, sentinel,
                       now, request, cache, saved>>
    BY DEF Complete, params, permissions, world
  <1>2. /\ Sound(L)
        /\ L.index = ledger.index
        /\ L.status = K.status
        /\ OnlyMoves(L, ledger, Movers, DOMAIN cache)
    BY DEF Reaches, Follows, SameBooks, OnlyMoves
  <1>3. Sound(ledger)'
    BY <1>1, <1>2 DEF Sound, BooksAreExact, TotalsAreExact, Supplies, Borrows,
       IndexIsSound
  <1>4. ~Idle /\ ~Idle'
    BY <1>1 DEF Idle
  <1>5. TypeOK'
    <2>1. StorageTypeOK'
      BY <1>1, <1>2 DEF Inductive, TypeOK, StorageTypeOK, Sound
    <2>2. WorldTypeOK'
      BY <1>1 DEF Inductive, TypeOK, WorldTypeOK
    <2>3. OperationTypeOK'
      BY <1>1, <1>4 DEF Inductive, TypeOK, OperationTypeOK, SnapshotTypeOK
    <2> QED BY <2>1, <2>2, <2>3 DEF TypeOK
  <1>6. (~Idle => Sound(saved.ledger))'
    BY <1>1, <1>4 DEF Inductive, Sound, BooksAreExact, TotalsAreExact,
       Supplies, Borrows, IndexIsSound
  <1>7. RequestIsVerified'
    BY <1>1, <1>4 DEF Inductive, RequestIsVerified, VerifyAccountLayout,
       PrimaryIds
  <1>8. UNCHANGED <<params, operators, permissions, world, request, cache,
                    saved>>
    BY DEF Complete
  <1> QED BY <1>1, <1>2, <1>3, <1>5, <1>6, <1>7, <1>8 DEF Inductive, Kept

LEMMA CompleteMoves ==
  ASSUME Inductive, ~Idle, NEW L, Reaches(L, ledger), Complete(L)
  PROVE  Kept(ledger.status)
  <1>1. SameBooks(ledger, ledger)
    BY DEF SameBooks
  <1> QED BY <1>1, CompleteKeeps

-----------------------------------------------------------------------------
(* The actions on one or two accounts                                      *)

(***************************************************************************)
(* The accounts of an action are among those it may move.                  *)
(***************************************************************************)
LEMMA ActorsMove ==
  ASSUME Inductive, NEW type, Executing(type)
  PROVE  /\ AccountOne \in Movers
         /\ AccountLayout(type) # "OnePrimary" => AccountTwo \in Movers
  BY ActionIsVerified DEF Movers

(***************************************************************************)
(* The balance an action asks for of one of its accounts.                  *)
(***************************************************************************)
LEMMA AmountOfIsTyped ==
  ASSUME Inductive, NEW a \in Accounts, NEW m \in DOMAIN cache,
         Arg.amount \in AssetAmounts
  PROVE  AmountOf(a, m).par \in Int /\ AmountOf(a, m).deltaWei \in Int
  <1>1. Sound(ledger) /\ m \in Markets /\ CachedIndex(m) \in Indexes
    BY InductiveIsSound, CachedMarket
  <1> QED BY <1>1, AmountIsTyped DEF AmountOf

(***************************************************************************)
(* A write that follows other ones.                                        *)
(***************************************************************************)
LEMMA ThenSetParFromDeltaWei ==
  ASSUME Inductive, NEW K, NEW L, Reaches(L, K), NEW a \in Accounts,
         a \in Movers, NEW m \in DOMAIN cache, NEW deltaWei \in Int
  PROVE  Reaches(SetParFromDeltaWei(L, a, m, CachedIndex(m), deltaWei), K)
  <1>1. m \in Markets /\ CachedIndex(m) \in Indexes
    BY CachedMarket
  <1>2. Reaches(SetParFromDeltaWei(L, a, m, CachedIndex(m), deltaWei), L)
    BY <1>1, SetParFromDeltaWeiFollows DEF Reaches, Follows
  <1> QED BY <1>2, ReachesIsTransitive

LEMMA ThenSetPar ==
  ASSUME Inductive, NEW K, NEW L, Reaches(L, K), NEW a \in Accounts,
         a \in Movers, NEW m \in DOMAIN cache, NEW newPar \in Int
  PROVE  Reaches(SetPar(L, a, m, newPar), K)
  <1>1. m \in Markets
    BY CachedMarket
  <1>2. Reaches(SetPar(L, a, m, newPar), L)
    BY <1>1, SetParFollows DEF Reaches, Follows
  <1> QED BY <1>2, ReachesIsTransitive

LEMMA DepositKeeps ==
  ASSUME Inductive, Deposit
  PROVE  Kept(ledger.status)
  <1> DEFINE new == AmountOf(AccountOne, MarketOne)
             set == SetPar(ledger, AccountOne, MarketOne, new.par)
             paid == TransferIn(set, MarketOne, Arg.otherAddress, new.deltaWei)
  <1>1. Executing("Deposit") /\ Complete(paid)
    BY DEF Deposit
  <1>2. /\ ~Idle
        /\ AccountOne \in Accounts /\ AccountOne \in Movers
        /\ MarketOne \in DOMAIN cache
        /\ MarketOne \in Markets
        /\ Arg.amount \in AssetAmounts
    BY <1>1, ActionIsVerified, ActorsMove, MarketsOfArg, CachedMarket, ArgAmount
  <1>3. new.par \in Int /\ new.deltaWei \in Int
    BY <1>2, AmountOfIsTyped
  <1> HIDE DEF new
  <1>4. Reaches(set, ledger)
    BY <1>2, <1>3, LedgerReachesItself, ThenSetPar
  <1> HIDE DEF set
  <1>5. Reaches(paid, set)
    BY <1>2, <1>3, <1>4, TransferInFollows DEF Reaches, Follows
  <1> HIDE DEF paid
  <1>6. Reaches(paid, ledger)
    BY <1>4, <1>5, ReachesIsTransitive
  <1> QED BY <1>1, <1>2, <1>6, CompleteMoves

LEMMA WithdrawKeeps ==
  ASSUME Inductive, Withdraw
  PROVE  Kept(ledger.status)
  <1> DEFINE new == AmountOf(AccountOne, MarketOne)
             set == SetPar(ledger, AccountOne, MarketOne, new.par)
             paid == TransferOut(set, MarketOne, Arg.otherAddress, new.deltaWei)
  <1>1. Executing("Withdraw") /\ Complete(paid)
    BY DEF Withdraw
  <1>2. /\ ~Idle
        /\ AccountOne \in Accounts /\ AccountOne \in Movers
        /\ MarketOne \in DOMAIN cache
        /\ MarketOne \in Markets
        /\ Arg.amount \in AssetAmounts
    BY <1>1, ActionIsVerified, ActorsMove, MarketsOfArg, CachedMarket, ArgAmount
  <1>3. new.par \in Int /\ new.deltaWei \in Int
    BY <1>2, AmountOfIsTyped
  <1> HIDE DEF new
  <1>4. Reaches(set, ledger)
    BY <1>2, <1>3, LedgerReachesItself, ThenSetPar
  <1> HIDE DEF set
  <1>5. Reaches(paid, set)
    BY <1>2, <1>3, <1>4, TransferOutFollows DEF Reaches, Follows
  <1> HIDE DEF paid
  <1>6. Reaches(paid, ledger)
    BY <1>4, <1>5, ReachesIsTransitive
  <1> QED BY <1>1, <1>2, <1>6, CompleteMoves

LEMMA TransferKeeps ==
  ASSUME Inductive, Transfer
  PROVE  Kept(ledger.status)
  <1> DEFINE new == AmountOf(AccountOne, MarketOne)
             set == SetPar(ledger, AccountOne, MarketOne, new.par)
             moved == SetParFromDeltaWei(set, AccountTwo, MarketOne,
                                         CachedIndex(MarketOne), -new.deltaWei)
  <1>1. Executing("Transfer") /\ Complete(moved)
    BY DEF Transfer
  <1>2. /\ ~Idle
        /\ AccountOne \in Accounts /\ AccountOne \in Movers
        /\ AccountTwo \in Accounts /\ AccountTwo \in Movers
        /\ MarketOne \in DOMAIN cache
        /\ Arg.amount \in AssetAmounts
    BY <1>1, ActionIsVerified, ActorsMove, MarketsOfArg, ArgAmount DEF AccountLayout
  <1>3. new.par \in Int /\ new.deltaWei \in Int /\ -new.deltaWei \in Int
    BY <1>2, AmountOfIsTyped
  <1> HIDE DEF new
  <1>4. Reaches(set, ledger)
    BY <1>2, <1>3, LedgerReachesItself, ThenSetPar
  <1> HIDE DEF set
  <1>5. Reaches(moved, ledger)
    BY <1>2, <1>3, <1>4, ThenSetParFromDeltaWei
  <1> HIDE DEF moved
  <1> QED BY <1>1, <1>2, <1>5, CompleteMoves

LEMMA ExchangeFollows ==
  ASSUME NEW L, Sound(L), NEW wrapper, NEW m \in Markets, NEW n \in Markets,
         NEW soldWei \in Int, NEW boughtWei \in Int
  PROVE  Reaches(Exchange(L, wrapper, m, soldWei, n, boughtWei), L)
  <1> DEFINE sent == TransferOut(L, m, wrapper, soldWei)
  <1>1. Reaches(sent, L)
    BY TransferOutFollows DEF Reaches
  <1> HIDE DEF sent
  <1>2. Reaches(TransferIn(sent, n, wrapper, boughtWei), sent)
    BY <1>1, TransferInFollows DEF Reaches, Follows
  <1> QED BY <1>1, <1>2, ReachesIsTransitive DEF Exchange, sent

LEMMA ExchangeCostsAreInt == \A x \in ExchangeCosts : x \in Int /\ -x \in Int
  BY OperationAssumption

LEMMA BuyKeeps ==
  ASSUME Inductive, Buy
  PROVE  Kept(ledger.status)
  <1>1. Executing("Buy")
    BY DEF Buy
  <1>2. /\ ~Idle
        /\ AccountOne \in Accounts /\ AccountOne \in Movers
        /\ MarketOne \in DOMAIN cache /\ MarketOne \in Markets
        /\ MarketTwo \in DOMAIN cache /\ MarketTwo \in Markets
    BY <1>1, ActionIsVerified, ActorsMove, MarketsOfArg, CachedMarket
  <1>3. PICK cost \in ExchangeCosts, received \in ExchangeCosts :
          LET paid == Exchange(ledger, Arg.otherAddress, MarketTwo, -cost,
                               MarketOne, received)
              bought == SetParFromDeltaWei(paid, AccountOne, MarketOne,
                                           CachedIndex(MarketOne), received)
          IN  Complete(SetParFromDeltaWei(bought, AccountOne, MarketTwo,
                                          CachedIndex(MarketTwo), -cost))
    BY DEF Buy
  <1>4. received \in Int /\ -cost \in Int
    BY ExchangeCostsAreInt
  <1> DEFINE paid == Exchange(ledger, Arg.otherAddress, MarketTwo, -cost,
                              MarketOne, received)
             bought == SetParFromDeltaWei(paid, AccountOne, MarketOne,
                                          CachedIndex(MarketOne), received)
             sold == SetParFromDeltaWei(bought, AccountOne, MarketTwo,
                                        CachedIndex(MarketTwo), -cost)
  <1>5. Reaches(paid, ledger)
    BY <1>2, <1>4, InductiveIsSound, ExchangeFollows
  <1>6. Complete(sold)
    BY <1>3
  <1> HIDE DEF paid
  <1>7. Reaches(bought, ledger)
    BY <1>2, <1>4, <1>5, ThenSetParFromDeltaWei
  <1> HIDE DEF bought
  <1>8. Reaches(sold, ledger)
    BY <1>2, <1>4, <1>7, ThenSetParFromDeltaWei
  <1> HIDE DEF sold
  <1> QED BY <1>2, <1>6, <1>8, CompleteMoves

LEMMA SellKeeps ==
  ASSUME Inductive, Sell
  PROVE  Kept(ledger.status)
  <1> DEFINE new == AmountOf(AccountOne, MarketOne)
  <1>1. Executing("Sell")
    BY DEF Sell
  <1>2. /\ ~Idle
        /\ AccountOne \in Accounts /\ AccountOne \in Movers
        /\ MarketOne \in DOMAIN cache /\ MarketOne \in Markets
        /\ MarketTwo \in DOMAIN cache /\ MarketTwo \in Markets
        /\ Arg.amount \in AssetAmounts
    BY <1>1, ActionIsVerified, ActorsMove, MarketsOfArg, CachedMarket, ArgAmount
  <1>3. PICK received \in ExchangeCosts :
          LET paid == Exchange(ledger, Arg.otherAddress, MarketOne,
                               new.deltaWei, MarketTwo, received)
              sold == SetPar(paid, AccountOne, MarketOne, new.par)
          IN  Complete(SetParFromDeltaWei(sold, AccountOne, MarketTwo,
                                          CachedIndex(MarketTwo), received))
    BY DEF Sell
  <1>4. received \in Int
    BY ExchangeCostsAreInt
  <1>5. new.par \in Int /\ new.deltaWei \in Int
    BY <1>2, AmountOfIsTyped
  <1> HIDE DEF new
  <1> DEFINE paid == Exchange(ledger, Arg.otherAddress, MarketOne,
                              new.deltaWei, MarketTwo, received)
             sold == SetPar(paid, AccountOne, MarketOne, new.par)
             bought == SetParFromDeltaWei(sold, AccountOne, MarketTwo,
                                          CachedIndex(MarketTwo), received)
  <1>6. Reaches(paid, ledger)
    BY <1>2, <1>4, <1>5, InductiveIsSound, ExchangeFollows
  <1>7. Complete(bought)
    BY <1>3
  <1> HIDE DEF paid
  <1>8. Reaches(sold, ledger)
    BY <1>2, <1>5, <1>6, ThenSetPar
  <1> HIDE DEF sold
  <1>9. Reaches(bought, ledger)
    BY <1>2, <1>4, <1>8, ThenSetParFromDeltaWei
  <1> HIDE DEF bought
  <1> QED BY <1>2, <1>7, <1>9, CompleteMoves

LEMMA CallKeeps ==
  ASSUME Inductive, Call
  PROVE  Kept(ledger.status)
  <1>1. Executing("Call") /\ Complete(ledger)
    BY DEF Call
  <1>2. ~Idle
    BY <1>1, ActionIsVerified
  <1> QED BY <1>1, <1>2, LedgerReachesItself, CompleteMoves

LEMMA MakerInputIsTyped ==
  ASSUME Inductive, AccountOne \in Accounts, AccountTwo \in Accounts,
         MarketOne \in DOMAIN cache, Arg.amount \in AssetAmounts
  PROVE  MakerInput.par \in Int /\ MakerInput.deltaWei \in Int
  <1> DEFINE takers == AmountOf(AccountOne, MarketOne)
             inverted == [denomination |-> "Wei", ref |-> "Delta",
                          value |-> -takers.deltaWei]
             makers == GetNewParAndDeltaWei(ledger, AccountTwo, MarketOne,
                                            CachedIndex(MarketOne), inverted)
  <1>1. takers.deltaWei \in Int /\ -takers.deltaWei \in Int
    BY AmountOfIsTyped
  <1> HIDE DEF takers
  <1>2. inverted \in AssetAmounts
    BY <1>1 DEF AssetAmounts
  <1> HIDE DEF inverted
  <1>3. makers.par \in Int /\ makers.deltaWei \in Int
    BY <1>2, InductiveIsSound, CachedMarket, AmountIsTyped
  <1>4. CASE Arg.calculateAmountWithMakerAccount
    BY <1>4, AmountOfIsTyped DEF MakerInput
  <1>5. CASE ~Arg.calculateAmountWithMakerAccount
    <2>1. MakerInput = [makers EXCEPT !.ok = @ /\ takers.ok]
      BY <1>5 DEF MakerInput, inverted, takers
    <2>2. /\ [makers EXCEPT !.ok = @ /\ takers.ok].par = makers.par
          /\ [makers EXCEPT !.ok = @ /\ takers.ok].deltaWei = makers.deltaWei
      BY DEF GetNewParAndDeltaWei
    <2> QED BY <1>3, <2>1, <2>2
  <1> QED BY <1>4, <1>5

LEMMA TradeKeeps ==
  ASSUME Inductive, Trade
  PROVE  Kept(ledger.status)
  <1> DEFINE input == MakerInput
  <1>1. Executing("Trade")
    BY DEF Trade
  <1>2. /\ ~Idle
        /\ AccountOne \in Accounts /\ AccountOne \in Movers
        /\ AccountTwo \in Accounts /\ AccountTwo \in Movers
        /\ MarketOne \in DOMAIN cache
        /\ MarketTwo \in DOMAIN cache
        /\ Arg.amount \in AssetAmounts
    BY <1>1, ActionIsVerified, ActorsMove, MarketsOfArg, ArgAmount DEF AccountLayout
  <1>3. PICK outputAmount \in TradeCosts :
          LET output == GetNewParAndDeltaWei(ledger, AccountTwo, MarketTwo,
                                             CachedIndex(MarketTwo), outputAmount)
              makerIn == SetPar(ledger, AccountTwo, MarketOne, input.par)
              maker == SetPar(makerIn, AccountTwo, MarketTwo, output.par)
              takerIn == SetParFromDeltaWei(maker, AccountOne, MarketOne,
                                            CachedIndex(MarketOne),
                                            -input.deltaWei)
          IN  Complete(SetParFromDeltaWei(takerIn, AccountOne, MarketTwo,
                                          CachedIndex(MarketTwo),
                                          -output.deltaWei))
    BY DEF Trade
  <1> DEFINE output == GetNewParAndDeltaWei(ledger, AccountTwo, MarketTwo,
                                            CachedIndex(MarketTwo), outputAmount)
             makerIn == SetPar(ledger, AccountTwo, MarketOne, input.par)
             maker == SetPar(makerIn, AccountTwo, MarketTwo, output.par)
             takerIn == SetParFromDeltaWei(maker, AccountOne, MarketOne,
                                           CachedIndex(MarketOne),
                                           -input.deltaWei)
             takerOut == SetParFromDeltaWei(takerIn, AccountOne, MarketTwo,
                                            CachedIndex(MarketTwo),
                                            -output.deltaWei)
  <1>4. Complete(takerOut)
    BY <1>3
  <1>5. outputAmount \in AssetAmounts
    BY OperationAssumption
  <1>6. /\ output.par \in Int
        /\ output.deltaWei \in Int
        /\ -output.deltaWei \in Int
    BY <1>2, <1>5, InductiveIsSound, CachedMarket, AmountIsTyped
  <1>7. /\ input.par \in Int
        /\ input.deltaWei \in Int
        /\ -input.deltaWei \in Int
    BY <1>2, MakerInputIsTyped
  <1> HIDE DEF input, output
  <1>8. Reaches(makerIn, ledger)
    BY <1>2, <1>7, LedgerReachesItself, ThenSetPar
  <1> HIDE DEF makerIn
  <1>9. Reaches(maker, ledger)
    BY <1>2, <1>6, <1>8, ThenSetPar
  <1> HIDE DEF maker
  <1>10. Reaches(takerIn, ledger)
    BY <1>2, <1>7, <1>9, ThenSetParFromDeltaWei
  <1> HIDE DEF takerIn
  <1>11. Reaches(takerOut, ledger)
    BY <1>2, <1>6, <1>10, ThenSetParFromDeltaWei
  <1> HIDE DEF takerOut
  <1> QED BY <1>2, <1>4, <1>11, CompleteMoves

-----------------------------------------------------------------------------
(* Liquidation and vaporization                                            *)

LEMMA OwedPriceIsPositive ==
  ASSUME Inductive, NEW a \in Accounts \cup {ZeroAccount},
         MarketOne \in DOMAIN cache, MarketTwo \in DOMAIN cache
  PROVE  OwedPriceAdjusted(a) \in Nat \ {0}
  <1> DEFINE owedPrice == cache[MarketOne].price
             spread == GetLiquidationSpreadForAccountAndPair(a, MarketTwo,
                                                             MarketOne)
  <1>1. /\ owedPrice \in Nat \ {0}
        /\ MarketOne \in Markets
        /\ MarketTwo \in Markets
    BY CachedMarket
  <1>2. spread \in Nat
    BY <1>1, SpreadIsNat DEF Inductive, TypeOK, StorageTypeOK
  <1> HIDE DEF owedPrice, spread
  <1>3. DecimalMul(owedPrice, spread) \in Nat
    BY <1>1, <1>2, BaseIsPositive, GetPartialIsNat DEF DecimalMul
  <1> QED BY <1>1, <1>3 DEF OwedPriceAdjusted, owedPrice, spread

LEMMA LiquidationAmountsAreTyped ==
  ASSUME Inductive, MarketTwo \in DOMAIN cache,
         NEW asked, asked.deltaWei \in Int, NEW maxHeldWei \in Int,
         NEW owedPrice \in Nat \ {0}
  PROVE  LET amounts == LiquidationAmounts(asked, maxHeldWei, owedPrice)
         IN  amounts.heldWei \in Int /\ amounts.owedWei \in Int
  <1>1. HeldPrice \in Nat \ {0}
    BY CachedMarket DEF HeldPrice
  <1>2. OwedWeiToHeldWei(asked.deltaWei, owedPrice) \in Int
    <2>1. owedPrice \in Int
      OBVIOUS
    <2>2. GetPartial(asked.deltaWei, owedPrice, HeldPrice) \in Int
      BY <1>1, <2>1, GetPartialIsInt
    <2> QED BY <2>2 DEF OwedWeiToHeldWei
  <1>3. HeldWeiToOwedWei(-maxHeldWei, owedPrice) \in Int
    <2>1. -(-maxHeldWei) \in Int /\ HeldPrice \in Int
      BY <1>1
    <2>2. GetPartialRoundUp(-(-maxHeldWei), HeldPrice, owedPrice) \in Int
      BY <2>1, RoundUpIsInt
    <2> QED BY <2>2 DEF HeldWeiToOwedWei
  <1> QED BY <1>2, <1>3 DEF LiquidationAmounts

LEMMA SettleFollows ==
  ASSUME Inductive, NEW K, NEW L, Reaches(L, K),
         AccountOne \in Accounts, AccountOne \in Movers,
         MarketOne \in DOMAIN cache, MarketTwo \in DOMAIN cache,
         NEW amounts, amounts.heldWei \in Int, amounts.owedWei \in Int
  PROVE  Reaches(SettleSolidAccount(L, amounts), K)
  <1> DEFINE owed == SetParFromDeltaWei(L, AccountOne, MarketOne,
                                        CachedIndex(MarketOne), -amounts.owedWei)
  <1>1. -amounts.owedWei \in Int /\ -amounts.heldWei \in Int
    OBVIOUS
  <1>2. Reaches(owed, K)
    BY <1>1, ThenSetParFromDeltaWei
  <1> HIDE DEF owed
  <1>3. Reaches(SetParFromDeltaWei(owed, AccountOne, MarketTwo,
                                   CachedIndex(MarketTwo), -amounts.heldWei),
                K)
    BY <1>1, <1>2, ThenSetParFromDeltaWei
  <1> QED BY <1>3 DEF SettleSolidAccount, owed

LEMMA DebtToRepayIsTyped ==
  ASSUME Inductive, NEW L, Sound(L), AccountTwo \in Accounts,
         MarketOne \in DOMAIN cache, Arg.amount \in AssetAmounts
  PROVE  DebtToRepay(L).par \in Int /\ DebtToRepay(L).deltaWei \in Int
  <1>1. MarketOne \in Markets /\ CachedIndex(MarketOne) \in Indexes
    BY CachedMarket
  <1> QED BY <1>1, LiquidationAmountIsTyped DEF DebtToRepay

LEMMA LiquidateKeeps ==
  ASSUME Inductive, Liquidate
  PROVE  Kept([ledger.status EXCEPT ![AccountTwo] = "Liquid"])
  <1> DEFINE liquid == AccountTwo
             marked == SetStatus(ledger, liquid, "Liquid")
             maxHeldWei == GetWei(marked, liquid, MarketTwo, CachedIndex(MarketTwo))
             asked == DebtToRepay(marked)
             amounts == LiquidationAmounts(asked, maxHeldWei,
                                           OwedPriceAdjusted(liquid))
             emptied == SetPar(marked, liquid, MarketTwo, 0)
             bounded == SetParFromDeltaWei(emptied, liquid, MarketOne,
                                           CachedIndex(MarketOne),
                                           amounts.owedWei)
             repaid == SetPar(marked, liquid, MarketOne, asked.par)
             unbounded == SetParFromDeltaWei(repaid, liquid, MarketTwo,
                                             CachedIndex(MarketTwo),
                                             amounts.heldWei)
             seized == IF amounts.bounded THEN bounded ELSE unbounded
             settled == SettleSolidAccount(seized, amounts)
  <1>1. Executing("Liquidate") /\ Complete(settled)
    BY DEF Liquidate
  <1>2. /\ ~Idle
        /\ AccountOne \in Accounts /\ AccountOne \in Movers
        /\ AccountTwo \in Accounts /\ AccountTwo \in Movers
        /\ MarketOne \in DOMAIN cache
        /\ MarketTwo \in DOMAIN cache
        /\ Arg.amount \in AssetAmounts
    BY <1>1, ActionIsVerified, ActorsMove, MarketsOfArg, ArgAmount DEF AccountLayout
  <1>3. /\ Sound(marked)
        /\ SameBooks(marked, ledger)
        /\ marked.status = [ledger.status EXCEPT ![AccountTwo] = "Liquid"]
    BY <1>2, InductiveIsSound, SetStatusIsSound DEF Statuses
  <1> HIDE DEF marked
  <1>31. Reaches(marked, marked)
    BY <1>3, FollowsIsReflexive DEF Reaches
  <1>4. maxHeldWei \in Int
    BY <1>2, <1>3, CachedMarket, GetWeiIsInt
  <1>5. asked.par \in Int /\ asked.deltaWei \in Int
    BY <1>2, <1>3, DebtToRepayIsTyped
  <1> HIDE DEF maxHeldWei, asked
  <1>6. amounts.heldWei \in Int /\ amounts.owedWei \in Int
    <2>1. OwedPriceAdjusted(liquid) \in Nat \ {0}
      BY <1>2, OwedPriceIsPositive
    <2> QED BY <1>2, <1>4, <1>5, <2>1, LiquidationAmountsAreTyped
  <1> HIDE DEF amounts
  <1>7. Reaches(bounded, marked)
    <2>1. Reaches(emptied, marked)
      BY <1>2, <1>31, ThenSetPar
    <2> HIDE DEF emptied
    <2> QED BY <1>2, <1>6, <2>1, ThenSetParFromDeltaWei
  <1>8. Reaches(unbounded, marked)
    <2>1. Reaches(repaid, marked)
      BY <1>2, <1>31, <1>5, ThenSetPar
    <2> HIDE DEF repaid
    <2> QED BY <1>2, <1>6, <2>1, ThenSetParFromDeltaWei
  <1>9. Reaches(seized, marked)
    BY <1>7, <1>8
  <1> HIDE DEF seized
  <1>10. Reaches(settled, marked)
    BY <1>2, <1>6, <1>9, SettleFollows
  <1> HIDE DEF settled
  <1>11. Kept(marked.status)
    BY <1>1, <1>2, <1>3, <1>10, CompleteKeeps
  <1> QED BY <1>3, <1>11

LEMMA VaporizeUsingExcessFollows ==
  ASSUME Inductive, NEW K, NEW L, Reaches(L, K),
         NEW a \in Accounts, a \in Movers, NEW m \in DOMAIN cache
  PROVE  Reaches(VaporizeUsingExcess(L, a, m), K)
  <1>1. GetNumExcessTokens(L, m) \in Int
    BY CachedMarket, ExcessIsInt DEF Reaches, Follows
  <1>2. Reaches(SetPar(L, a, m, 0), K)
    BY ThenSetPar
  <1>3. Reaches(SetParFromDeltaWei(L, a, m, CachedIndex(m),
                                   GetNumExcessTokens(L, m)), K)
    BY <1>1, ThenSetParFromDeltaWei
  <1> QED BY <1>2, <1>3 DEF VaporizeUsingExcess

LEMMA VaporizeForCollateralKeeps ==
  ASSUME Inductive, NEW K, SameBooks(K, ledger), NEW L, Reaches(L, K),
         Executing("Vaporize"), VaporizeForCollateral(L)
  PROVE  Kept(K.status)
  <1> DEFINE vapor == AccountTwo
             maxHeldWei == GetNumExcessTokens(L, MarketTwo)
             asked == DebtToRepay(L)
             amounts == LiquidationAmounts(asked, maxHeldWei,
                                           OwedPriceAdjusted(ZeroAccount))
             bounded == SetParFromDeltaWei(L, vapor, MarketOne,
                                           CachedIndex(MarketOne),
                                           amounts.owedWei)
             unbounded == SetPar(L, vapor, MarketOne, asked.par)
             repaid == IF amounts.bounded THEN bounded ELSE unbounded
             settled == SettleSolidAccount(repaid, amounts)
  <1>1. Complete(settled)
    BY DEF VaporizeForCollateral
  <1>2. /\ ~Idle
        /\ AccountOne \in Accounts /\ AccountOne \in Movers
        /\ AccountTwo \in Accounts /\ AccountTwo \in Movers
        /\ MarketOne \in DOMAIN cache
        /\ MarketTwo \in DOMAIN cache
        /\ Arg.amount \in AssetAmounts
    BY ActionIsVerified, ActorsMove, MarketsOfArg, ArgAmount DEF AccountLayout
  <1>3. maxHeldWei \in Int
    BY <1>2, CachedMarket, ExcessIsInt DEF Reaches, Follows
  <1>4. asked.par \in Int /\ asked.deltaWei \in Int
    BY <1>2, DebtToRepayIsTyped DEF Reaches, Follows
  <1> HIDE DEF maxHeldWei, asked
  <1>5. amounts.heldWei \in Int /\ amounts.owedWei \in Int
    <2>1. OwedPriceAdjusted(ZeroAccount) \in Nat \ {0}
      BY <1>2, OwedPriceIsPositive
    <2> QED BY <1>2, <1>3, <1>4, <2>1, LiquidationAmountsAreTyped
  <1> HIDE DEF amounts
  <1>6. Reaches(bounded, K)
    BY <1>2, <1>5, ThenSetParFromDeltaWei
  <1>7. Reaches(unbounded, K)
    BY <1>2, <1>4, ThenSetPar
  <1>8. Reaches(repaid, K)
    BY <1>6, <1>7
  <1> HIDE DEF repaid
  <1>9. Reaches(settled, K)
    BY <1>2, <1>5, <1>8, SettleFollows
  <1> HIDE DEF settled
  <1> QED BY <1>1, <1>2, <1>9, CompleteKeeps

LEMMA VaporizeKeeps ==
  ASSUME Inductive, Vaporize
  PROVE  Kept([ledger.status EXCEPT ![AccountTwo] = "Vapor"])
  <1> DEFINE marked == SetStatus(ledger, AccountTwo, "Vapor")
             refunded == VaporizeUsingExcess(marked, AccountTwo, MarketOne)
  <1>1. /\ Executing("Vaporize")
        /\ Complete(refunded) \/ VaporizeForCollateral(refunded)
    BY DEF Vaporize
  <1>2. /\ ~Idle
        /\ AccountTwo \in Accounts /\ AccountTwo \in Movers
        /\ MarketOne \in DOMAIN cache
    BY <1>1, ActionIsVerified, ActorsMove, MarketsOfArg DEF AccountLayout
  <1>3. /\ SameBooks(marked, ledger)
        /\ marked.status = [ledger.status EXCEPT ![AccountTwo] = "Vapor"]
        /\ Reaches(marked, marked)
    BY <1>2, InductiveIsSound, SetStatusIsSound, FollowsIsReflexive
       DEF Statuses, Reaches
  <1> HIDE DEF marked
  <1>4. Reaches(refunded, marked)
    BY <1>2, <1>3, VaporizeUsingExcessFollows
  <1> HIDE DEF refunded
  <1> QED BY <1>1, <1>2, <1>3, <1>4, CompleteKeeps, VaporizeForCollateralKeeps

-----------------------------------------------------------------------------
(* The beginning and the end of an operation                               *)

(***************************************************************************)
(* A market whose index is not current gets one that is sound and no less. *)
(***************************************************************************)
LEMMA FetchedIndexIsSound ==
  ASSUME Inductive, NEW m \in Markets, NEW rate \in InterestRates,
         NewIndexIsValid(ledger.index[m], CappedRate(rate), ledger.totalPar[m],
                         EarningsRate(m), now)
  PROVE  /\ FetchNewIndex(m, rate) \in Indexes
         /\ IndexIsSound(FetchNewIndex(m, rate))
         /\ FetchNewIndex(m, rate).borrow >= ledger.index[m].borrow
         /\ FetchNewIndex(m, rate).supply >= ledger.index[m].supply
  <1>1. /\ ledger.index[m] \in Indexes
        /\ IndexIsSound(ledger.index[m])
        /\ ledger.totalPar[m] \in [borrow : Nat, supply : Nat]
    BY MathAssumption DEF Inductive, Sound, Ledgers
  <1>2. CappedRate(rate) \in Nat
    BY OperationAssumption, StorageAssumption DEF CappedRate
  <1>3. EarningsRate(m) \in Nat
    BY DEF Inductive, TypeOK, StorageTypeOK, EarningsRate, RiskParamsType,
       MarketParamsType
  <1>4. now \in Nat
    BY DEF Inductive, TypeOK, WorldTypeOK
  <1>5. /\ ledger.index[m].lastUpdate <= now
        /\ ledger.index[m].borrow >= ledger.index[m].supply
    BY <1>1 DEF IndexIsSound
  <1> DEFINE new == FetchNewIndex(m, rate)
  <1>6. /\ new \in Indexes
        /\ new.lastUpdate = now
        /\ new.borrow >= ledger.index[m].borrow
        /\ new.supply >= ledger.index[m].supply
        /\ new.borrow >= new.supply
    BY <1>1, <1>2, <1>3, <1>4, <1>5, NewIndexIsIndex DEF FetchNewIndex
  <1> HIDE DEF new
  <1>7. IndexIsSound(new)
    BY <1>4, <1>6 DEF IndexIsSound
  <1> QED BY <1>6, <1>7 DEF new

LEMMA UpdatedIndexesAreSound ==
  ASSUME Inductive, NEW markets \in SUBSET Markets,
         NEW rates \in [markets -> InterestRates],
         \A m \in markets :
           ~IndexIsCurrent(m) =>
             NewIndexIsValid(ledger.index[m], CappedRate(rates[m]),
                             ledger.totalPar[m], EarningsRate(m), now)
  PROVE  LET L == UpdateIndexes(ledger, markets, rates)
         IN  /\ Sound(L)
             /\ L.ok = ledger.ok
             /\ \A m \in Markets :
                  /\ L.index[m].borrow >= ledger.index[m].borrow
                  /\ L.index[m].supply >= ledger.index[m].supply
  <1> DEFINE index(m) == IF m \in markets /\ ~IndexIsCurrent(m)
                         THEN FetchNewIndex(m, rates[m]) ELSE ledger.index[m]
             I == [m \in Markets |-> index(m)]
             L == [ledger EXCEPT !.index = I]
  <1>1. ASSUME NEW m \in Markets
        PROVE  /\ index(m) \in Indexes
               /\ IndexIsSound(index(m))
               /\ index(m).borrow >= ledger.index[m].borrow
               /\ index(m).supply >= ledger.index[m].supply
    <2>1. CASE m \in markets /\ ~IndexIsCurrent(m)
      <3>1. rates[m] \in InterestRates
        BY <2>1
      <3> QED BY <2>1, <3>1, FetchedIndexIsSound
    <2>2. CASE ~(m \in markets /\ ~IndexIsCurrent(m))
      <3>1. /\ ledger.index[m] \in Indexes
            /\ IndexIsSound(ledger.index[m])
        BY DEF Inductive, Sound, Ledgers
      <3> QED BY <2>2, <3>1, IndexFields
    <2> QED BY <2>1, <2>2
  <1>2. UpdateIndexes(ledger, markets, rates) = L
    BY DEF UpdateIndexes
  <1> HIDE DEF index
  <1>3. I \in [Markets -> Indexes] /\ \A m \in Markets : I[m] = index(m)
    BY <1>1
  <1> HIDE DEF I
  <1>4. /\ L \in Ledgers
        /\ L.index = I
        /\ L.par = ledger.par
        /\ L.numberOfMarketsWithDebt = ledger.numberOfMarketsWithDebt
        /\ L.marketsWithBalances = ledger.marketsWithBalances
        /\ L.totalPar = ledger.totalPar
        /\ L.ok = ledger.ok
    BY <1>3 DEF Inductive, Sound, Ledgers
  <1> HIDE DEF L
  <1>5. BooksAreExact(L)
    BY <1>4 DEF Inductive, Sound, BooksAreExact
  <1>51. TotalsAreExact(L)
    BY <1>4 DEF Inductive, Sound, TotalsAreExact, Supplies, Borrows
  <1>6. Sound(L)
    BY <1>1, <1>3, <1>4, <1>5, <1>51 DEF Sound
  <1> QED BY <1>1, <1>2, <1>3, <1>4, <1>6

(***************************************************************************)
(* Every step keeps the invariant; and unless it ends an operation it lets *)
(* no index of a listed market fall.                                       *)
(***************************************************************************)
KeptAndRisen ==
  /\ Inductive'
  /\ \A m \in listedMarkets : OperationEnds \/ IndexRises(m)

LEMMA KeptRises ==
  ASSUME Inductive, NEW status, Kept(status)
  PROVE  KeptAndRisen
  <1>1. listedMarkets \subseteq Markets
    BY DEF Inductive, TypeOK, StorageTypeOK
  <1>2. ASSUME NEW m \in Markets PROVE IndexRises(m)
    <2>1. /\ ledger.index[m] \in Indexes
          /\ ledger'.index[m] = ledger.index[m]
          /\ ledger.index[m].borrow >= ledger.index[m].supply
      BY DEF Inductive, Sound, Ledgers, IndexIsSound, Kept
    <2> QED BY <2>1, IndexFields DEF IndexRises
  <1> QED BY <1>1, <1>2 DEF Kept, KeptAndRisen

LEMMA BeginKeeps ==
  ASSUME Inductive, NEW r \in Requests, Begin(r)
  PROVE  KeptAndRisen
  <1> DEFINE markets == OperationMarkets(r)
  <1>1. /\ Idle
        /\ VerifyInputs(r)
        /\ \A i \in DOMAIN r.actions :
             VerifyAccountLayout(r, i) /\ VerifyMarketLayout(r, i)
        /\ markets \subseteq listedMarkets
        /\ \A m \in markets : price[m] # 0
        /\ cache' = InitializeCache(ledger', markets)
        /\ saved' = [ledger |-> ledger, operators |-> operators]
        /\ request' = r
        /\ pc' = 1
        /\ UNCHANGED <<riskParams, marketParams, listedMarkets, operators,
                       globalOperators, specialAutoTraders, price, sentinel,
                       now>>
    BY DEF Begin, params, permissions, world
  <1>2. PICK rates \in [markets -> InterestRates] :
          /\ \A m \in markets :
               ~IndexIsCurrent(m) =>
                 NewIndexIsValid(ledger.index[m], CappedRate(rates[m]),
                                 ledger.totalPar[m], EarningsRate(m), now)
          /\ ledger' = UpdateIndexes(ledger, markets, rates)
    BY DEF Begin
  <1>3. \A i \in DOMAIN r.actions : ActionMarkets(r.actions[i]) \subseteq markets
    BY DEF OperationMarkets
  <1>4. listedMarkets \subseteq Markets
    BY DEF Inductive, TypeOK, StorageTypeOK
  <1>5. markets \in SUBSET Markets
    BY <1>1, <1>4
  <1> HIDE DEF markets
  <1> DEFINE L == UpdateIndexes(ledger, markets, rates)
  <1>6. /\ Sound(L)
        /\ L.ok = ledger.ok
        /\ \A m \in Markets :
             /\ L.index[m].borrow >= ledger.index[m].borrow
             /\ L.index[m].supply >= ledger.index[m].supply
    BY <1>2, <1>5, UpdatedIndexesAreSound
  <1>7. ledger' = L
    BY <1>2
  <1> HIDE DEF L
  <1>8. ~Idle' /\ request' \in Requests
    BY <1>1, OperationAssumption DEF Idle
  <1>9. Sound(ledger)'
    BY <1>1, <1>6, <1>7 DEF Sound, BooksAreExact, TotalsAreExact,
       Supplies, Borrows, IndexIsSound
  <1>10. TypeOK'
    <2>1. StorageTypeOK'
      BY <1>1, <1>6, <1>7 DEF Inductive, TypeOK, StorageTypeOK, Sound
    <2>2. WorldTypeOK'
      BY <1>1 DEF Inductive, TypeOK, WorldTypeOK
    <2>3. /\ DOMAIN cache' = markets
          /\ cache' \in [markets -> CacheEntries]
      <3>1. ASSUME NEW m \in markets
            PROVE  [isClosing |-> marketParams[m].isClosing,
                    borrowPar |-> L.totalPar[m].borrow,
                    supplyPar |-> L.totalPar[m].supply,
                    index     |-> L.index[m],
                    price     |-> price[m]] \in CacheEntries
        <4>1. m \in Markets
          BY <1>5
        <4>2. price[m] \in Nat \ {0} /\ marketParams[m].isClosing \in BOOLEAN
          BY <1>1, <4>1 DEF Inductive, TypeOK, WorldTypeOK, StorageTypeOK,
             MarketParamsType
        <4>3. /\ L.totalPar[m].borrow \in 0 .. MaxUint128
              /\ L.totalPar[m].supply \in 0 .. MaxUint128
              /\ L.index[m] \in Indexes
          BY <1>6, <4>1 DEF Sound, Ledgers
        <4> QED BY <4>2, <4>3 DEF CacheEntries
      <3> QED BY <1>1, <1>7, <3>1 DEF InitializeCache
    <2>4. SnapshotTypeOK'
      BY <1>1 DEF Inductive, TypeOK, StorageTypeOK, SnapshotTypeOK
    <2>5. OperationTypeOK'
      BY <1>1, <1>5, <1>8, <2>3, <2>4 DEF OperationTypeOK
    <2> QED BY <2>1, <2>2, <2>5 DEF TypeOK
  <1>11. (~Idle => Sound(saved.ledger))'
    BY <1>1 DEF Inductive, Sound, BooksAreExact, TotalsAreExact,
       Supplies, Borrows, IndexIsSound
  <1>12. RequestIsVerified'
    <2>1. DOMAIN cache' = markets
      BY <1>1 DEF InitializeCache
    <2> QED BY <1>1, <1>3, <1>8, <2>1 DEF RequestIsVerified, VerifyInputs,
               VerifyAccountLayout, VerifyMarketLayout, PrimaryIds
  <1>13. ASSUME NEW m \in listedMarkets PROVE IndexRises(m)
    BY <1>4, <1>6, <1>7 DEF IndexRises, Sound, IndexIsSound
  <1> QED BY <1>9, <1>10, <1>11, <1>12, <1>13 DEF KeptAndRisen, Inductive

LEMMA EndKeeps ==
  ASSUME Inductive, ~Idle, EndOperation, Sound(ledger)', ledger.ok',
         operators' \subseteq Addresses \X Addresses
  PROVE  KeptAndRisen
  <1>1. /\ request' = NoRequest
        /\ pc' = 0
        /\ cache' = NoCache
        /\ saved' = NoSnapshot
        /\ UNCHANGED <<riskParams, marketParams, listedMarkets,
                       globalOperators, specialAutoTraders, price, sentinel,
                       now>>
    BY DEF EndOperation, params, permissions, world
  <1>2. Idle' /\ OperationEnds
    BY <1>1 DEF Idle, OperationEnds
  <1>3. StorageTypeOK'
    BY <1>1 DEF Inductive, TypeOK, StorageTypeOK, Sound
  <1>4. WorldTypeOK'
    BY <1>1 DEF Inductive, TypeOK, WorldTypeOK
  <1>5. OperationTypeOK'
    <2>1. DOMAIN cache' = {} /\ cache' \in [DOMAIN cache' -> CacheEntries]
      BY <1>1 DEF NoCache
    <2> QED BY <1>1, <1>2, <2>1 DEF OperationTypeOK
  <1> QED BY <1>2, <1>3, <1>4, <1>5 DEF KeptAndRisen, Inductive, TypeOK,
             RequestIsVerified

LEMMA CommitKeeps ==
  ASSUME Inductive, Commit
  PROVE  KeptAndRisen
  <1> DEFINE L == ClearStatuses(ledger, AllPrimaryAccounts)
  <1>1. /\ ~Idle
        /\ ledger' = L
        /\ operators' = operators
        /\ EndOperation
        /\ now' = now
    BY DEF Commit, EndOperation, world
  <1>2. /\ L \in Ledgers
        /\ L.ok
        /\ L.par = ledger.par
        /\ L.numberOfMarketsWithDebt = ledger.numberOfMarketsWithDebt
        /\ L.marketsWithBalances = ledger.marketsWithBalances
        /\ L.totalPar = ledger.totalPar
        /\ L.index = ledger.index
    BY DEF ClearStatuses, Inductive, TypeOK, StorageTypeOK, Ledgers, Statuses
  <1> HIDE DEF L
  <1>3. Sound(ledger)' /\ ledger.ok'
    BY <1>1, <1>2 DEF Inductive, Sound, BooksAreExact, TotalsAreExact,
       Supplies, Borrows, IndexIsSound
  <1>4. operators' \subseteq Addresses \X Addresses
    BY <1>1 DEF Inductive, TypeOK, StorageTypeOK
  <1> QED BY <1>1, <1>3, <1>4, EndKeeps

LEMMA RevertKeeps ==
  ASSUME Inductive, Revert
  PROVE  KeptAndRisen
  <1>1. /\ ~Idle
        /\ ledger' = saved.ledger
        /\ operators' = saved.operators
        /\ EndOperation
        /\ now' = now
    BY DEF Revert, EndOperation, world
  <1>2. Sound(saved.ledger) /\ SnapshotTypeOK
    BY <1>1 DEF Inductive, TypeOK, OperationTypeOK
  <1>3. Sound(ledger)' /\ ledger.ok'
    BY <1>1, <1>2 DEF SnapshotTypeOK, Sound, BooksAreExact, TotalsAreExact,
       Supplies, Borrows, IndexIsSound
  <1>4. operators' \subseteq Addresses \X Addresses
    BY <1>1, <1>2 DEF SnapshotTypeOK
  <1> QED BY <1>1, <1>3, <1>4, EndKeeps

LEMMA OperateKeeps ==
  ASSUME Inductive, Operate
  PROVE  KeptAndRisen
  <1>1. CASE \E r \in Requests : Begin(r)
    BY <1>1, BeginKeeps
  <1>2. CASE Deposit
    BY <1>2, DepositKeeps, KeptRises
  <1>3. CASE Withdraw
    BY <1>3, WithdrawKeeps, KeptRises
  <1>4. CASE Transfer
    BY <1>4, TransferKeeps, KeptRises
  <1>5. CASE Buy
    BY <1>5, BuyKeeps, KeptRises
  <1>6. CASE Sell
    BY <1>6, SellKeeps, KeptRises
  <1>7. CASE Trade
    BY <1>7, TradeKeeps, KeptRises
  <1>8. CASE Call
    BY <1>8, CallKeeps, KeptRises
  <1>9. CASE Liquidate
    BY <1>9, LiquidateKeeps, KeptRises
  <1>10. CASE Vaporize
    BY <1>10, VaporizeKeeps, KeptRises
  <1>11. CASE Commit
    BY <1>11, CommitKeeps
  <1>12. CASE Revert
    BY <1>12, RevertKeeps
  <1> QED BY <1>1, <1>2, <1>3, <1>4, <1>5, <1>6, <1>7, <1>8, <1>9, <1>10,
             <1>11, <1>12 DEF Operate

-----------------------------------------------------------------------------
(* The owner, the holders of permissions and the world                     *)

(***************************************************************************)
(* A step that leaves the running operation and the indexes of listed      *)
(* markets alone, and time no earlier.                                     *)
(***************************************************************************)
LEMMA QuietStepKeeps ==
  ASSUME Inductive, UNCHANGED operation, StorageTypeOK', WorldTypeOK',
         now' >= now, Sound(ledger)',
         \A m \in listedMarkets : ledger'.index[m] = ledger.index[m]
  PROVE  KeptAndRisen
  <1>1. /\ request' = request /\ pc' = pc
        /\ cache' = cache /\ saved' = saved
        /\ Idle' <=> Idle
    BY DEF operation, Idle
  <1>2. OperationTypeOK'
    BY <1>1 DEF Inductive, TypeOK, OperationTypeOK, SnapshotTypeOK
  <1>3. (~Idle => Sound(saved.ledger))'
    <2> SUFFICES ASSUME ~Idle'
                 PROVE  Sound(saved.ledger)'
      OBVIOUS
    <2>1. Sound(saved.ledger)
      BY <1>1 DEF Inductive
    <2>2. /\ now \in Nat
          /\ now' \in Nat
      BY DEF Inductive, TypeOK, WorldTypeOK
    <2>3. ASSUME NEW m \in Markets
          PROVE  IndexIsSound(saved.ledger.index[m])'
      <3>1. /\ saved.ledger.index[m].lastUpdate \in Nat
            /\ IndexIsSound(saved.ledger.index[m])
        BY <2>1, IndexFields DEF Sound, Ledgers
      <3> QED BY <1>1, <2>2, <3>1 DEF IndexIsSound
    <2> QED BY <1>1, <2>1, <2>3 DEF Sound, BooksAreExact
  <1>4. RequestIsVerified'
    BY <1>1 DEF Inductive, RequestIsVerified, VerifyAccountLayout, PrimaryIds
  <1>5. ASSUME NEW m \in listedMarkets PROVE IndexRises(m)
    <2>1. m \in Markets
      BY DEF Inductive, TypeOK, StorageTypeOK
    <2>2. /\ ledger.index[m] \in Indexes
          /\ ledger'.index[m] = ledger.index[m]
          /\ ledger.index[m].borrow >= ledger.index[m].supply
      BY <2>1 DEF Inductive, Sound, Ledgers, IndexIsSound
    <2> QED BY <2>2, IndexFields DEF IndexRises
  <1> QED BY <1>2, <1>3, <1>4, <1>5 DEF KeptAndRisen, Inductive, TypeOK

(***************************************************************************)
(* The same when the ledger does not change at all.                        *)
(***************************************************************************)
LEMMA UnchangedLedgerKeeps ==
  ASSUME Inductive, UNCHANGED <<ledger, operation, now>>, StorageTypeOK',
         WorldTypeOK'
  PROVE  KeptAndRisen
  <1>1. Sound(ledger)'
    BY DEF Inductive, Sound, BooksAreExact, TotalsAreExact,
       Supplies, Borrows, IndexIsSound
  <1>2. now' >= now
    BY DEF Inductive, TypeOK, WorldTypeOK
  <1> QED BY <1>1, <1>2, QuietStepKeeps

(***************************************************************************)
(* The same when a write has made the ledger.                              *)
(***************************************************************************)
LEMMA WrittenLedgerKeeps ==
  ASSUME Inductive, NEW L, Follows(L, ledger, {}, {}), L.ok, ledger' = L,
         UNCHANGED <<params, operators, permissions, world, operation>>
  PROVE  KeptAndRisen
  <1>1. UNCHANGED <<riskParams, marketParams, listedMarkets, operators,
                    globalOperators, specialAutoTraders, price, sentinel, now>>
    BY DEF params, permissions, world
  <1>2. Sound(ledger)' /\ ledger'.index = ledger.index
    BY <1>1 DEF Follows, Sound, BooksAreExact, TotalsAreExact,
       Supplies, Borrows, IndexIsSound
  <1>3. StorageTypeOK' /\ WorldTypeOK' /\ now' >= now
    BY <1>1, <1>2 DEF Inductive, TypeOK, StorageTypeOK, WorldTypeOK, Sound
  <1> QED BY <1>2, <1>3, QuietStepKeeps

(***************************************************************************)
(* The owner takes no more tokens than there are.                          *)
(***************************************************************************)
LEMMA PayingOutKeeps ==
  ASSUME Inductive, NEW m \in Markets, NEW recipient, NEW paid \in Nat,
         paid <= ledger.balanceOf[m],
         ledger' = TransferOut(ledger, m, recipient, -paid),
         UNCHANGED <<params, operators, permissions, world, operation>>
  PROVE  KeptAndRisen
  <1> DEFINE L == TransferOut(ledger, m, recipient, -paid)
  <1>1. -paid \in Int
    OBVIOUS
  <1>2. Follows(L, ledger, {}, {})
    BY <1>1, InductiveIsSound, TransferOutFollows
  <1>3. ledger.balanceOf[m] \in Nat /\ ledger.ok /\ ledger \in Ledgers
    BY StorageAssumption DEF Inductive, TypeOK, StorageTypeOK, Ledgers
  <1>4. ~(-paid > 0) /\ ~(ledger.balanceOf[m] + (-paid) < 0)
    BY <1>3
  <1>5. L.ok
    BY <1>3, <1>4 DEF TransferOut, Ledgers
  <1> HIDE DEF L
  <1>6. ledger' = L
    BY DEF L
  <1> QED BY <1>2, <1>5, <1>6, WrittenLedgerKeeps

LEMMA OwnerWithdrawExcessTokensKeeps ==
  ASSUME Inductive, NEW m \in Markets, NEW recipient,
         OwnerWithdrawExcessTokens(m, recipient)
  PROVE  KeptAndRisen
  <1> DEFINE excess == GetNumExcessTokens(ledger, m)
             held   == ledger.balanceOf[m]
             paid   == IF excess > held THEN held ELSE excess
  <1>1. excess \in Int
    BY InductiveIsSound, ExcessIsInt
  <1>2. held \in Nat
    BY StorageAssumption DEF Inductive, TypeOK, StorageTypeOK, Ledgers
  <1>3. /\ excess >= 0
        /\ ledger' = TransferOut(ledger, m, recipient, -paid)
        /\ UNCHANGED <<params, operators, permissions, world, operation>>
    BY DEF OwnerWithdrawExcessTokens
  <1> HIDE DEF excess
  <1>4. paid \in Nat /\ paid <= held
    BY <1>1, <1>2, <1>3
  <1> HIDE DEF paid
  <1> QED BY <1>3, <1>4, PayingOutKeeps

LEMMA OwnerWithdrawUnsupportedTokensKeeps ==
  ASSUME Inductive, NEW m \in Markets, NEW recipient,
         OwnerWithdrawUnsupportedTokens(m, recipient)
  PROVE  KeptAndRisen
  <1> DEFINE held == ledger.balanceOf[m]
  <1>1. held \in Nat /\ held <= ledger.balanceOf[m]
    BY StorageAssumption DEF Inductive, TypeOK, StorageTypeOK, Ledgers
  <1>2. /\ ledger' = TransferOut(ledger, m, recipient, -held)
        /\ UNCHANGED <<params, operators, permissions, world, operation>>
    BY DEF OwnerWithdrawUnsupportedTokens
  <1> HIDE DEF held
  <1> QED BY <1>1, <1>2, PayingOutKeeps

LEMMA OwnerAddMarketKeeps ==
  ASSUME Inductive, NEW m \in Markets, NEW p \in MarketChoices,
         NEW answer \in Prices[m], OwnerAddMarket(m, p, answer)
  PROVE  KeptAndRisen
  <1> DEFINE L == [ledger EXCEPT !.index[m] = NewIndex(now)]
  <1>1. /\ m \notin listedMarkets
        /\ listedMarkets' = listedMarkets \cup {m}
        /\ marketParams' = [marketParams EXCEPT ![m] = p]
        /\ ledger' = L
        /\ price' = [price EXCEPT ![m] = answer]
        /\ UNCHANGED <<riskParams, operators, globalOperators,
                       specialAutoTraders, sentinel, now, operation>>
    BY DEF OwnerAddMarket, permissions
  <1>2. NewIndex(now) \in Indexes /\ IndexIsSound(NewIndex(now))
    BY MathAssumption DEF NewIndex, Indexes, IndexIsSound, Inductive, TypeOK,
       WorldTypeOK
  <1>3. /\ L \in Ledgers
        /\ L.ok = ledger.ok
        /\ L.par = ledger.par
        /\ L.totalPar = ledger.totalPar
        /\ L.numberOfMarketsWithDebt = ledger.numberOfMarketsWithDebt
        /\ L.marketsWithBalances = ledger.marketsWithBalances
        /\ L.index = [ledger.index EXCEPT ![m] = NewIndex(now)]
    BY <1>2 DEF Inductive, Sound, Ledgers
  <1> HIDE DEF L
  <1>4. ledger.index \in [Markets -> Indexes]
    BY DEF Inductive, Sound, Ledgers
  <1>5. \A n \in Markets : IndexIsSound(L.index[n])
    BY <1>2, <1>3, <1>4 DEF Inductive, Sound
  <1>51. BooksAreExact(L) /\ TotalsAreExact(L)
    BY <1>3 DEF Inductive, Sound, BooksAreExact, TotalsAreExact, Supplies,
       Borrows
  <1>6. Sound(ledger)'
    <2>1. ledger' = L /\ now' = now /\ Sound(L)
      BY <1>1, <1>3, <1>5, <1>51 DEF Sound
    <2> QED BY <2>1 DEF Sound, BooksAreExact, TotalsAreExact, Supplies,
            Borrows, IndexIsSound
  <1>7. p \in MarketParamsType /\ answer \in Nat
    BY AdminAssumption
  <1>8. StorageTypeOK'
    BY <1>1, <1>3, <1>7 DEF Inductive, TypeOK, StorageTypeOK
  <1>9. WorldTypeOK' /\ now' >= now
    BY <1>1, <1>7 DEF Inductive, TypeOK, WorldTypeOK
  <1>10. \A n \in listedMarkets : ledger'.index[n] = ledger.index[n]
    BY <1>1, <1>3, <1>4 DEF Inductive, TypeOK, StorageTypeOK
  <1> QED BY <1>1, <1>6, <1>8, <1>9, <1>10, QuietStepKeeps

(***************************************************************************)
(* The setters of a market's parameters, and of the risk parameters.       *)
(***************************************************************************)
LEMMA SetMarketParamsKeeps ==
  ASSUME Inductive, NEW m \in Markets, NEW p \in MarketParamsType,
         SetMarketParams(m, p)
  PROVE  KeptAndRisen
  <1>1. /\ marketParams' = [marketParams EXCEPT ![m] = p]
        /\ UNCHANGED <<ledger, riskParams, listedMarkets, operators,
                       globalOperators, specialAutoTraders, price, sentinel,
                       now, operation>>
    BY DEF SetMarketParams, permissions, world
  <1>2. StorageTypeOK' /\ WorldTypeOK'
    BY <1>1 DEF Inductive, TypeOK, StorageTypeOK, WorldTypeOK
  <1> QED BY <1>1, <1>2, UnchangedLedgerKeeps

LEMMA SetRiskParamsKeeps ==
  ASSUME Inductive, NEW p \in RiskParamsType, SetRiskParams(p)
  PROVE  KeptAndRisen
  <1>1. /\ riskParams' = p
        /\ UNCHANGED <<ledger, marketParams, listedMarkets, operators,
                       globalOperators, specialAutoTraders, price, sentinel,
                       now, operation>>
    BY DEF SetRiskParams, permissions, world
  <1>2. StorageTypeOK' /\ WorldTypeOK'
    BY <1>1 DEF Inductive, TypeOK, StorageTypeOK, WorldTypeOK
  <1> QED BY <1>1, <1>2, UnchangedLedgerKeeps

(***************************************************************************)
(* A step that changes only what permissions, oracles or the sentinel say. *)
(***************************************************************************)
LEMMA AnswersKeep ==
  ASSUME Inductive,
         UNCHANGED <<ledger, params, now, operation>>,
         operators' \subseteq Addresses \X Addresses,
         globalOperators' \subseteq Addresses,
         specialAutoTraders' \subseteq Addresses,
         price' \in [Markets -> Nat], sentinel' \in SentinelType
  PROVE  KeptAndRisen
  <1>1. UNCHANGED <<ledger, riskParams, marketParams, listedMarkets, now,
                    operation>>
    BY DEF params
  <1>2. StorageTypeOK' /\ WorldTypeOK'
    BY <1>1 DEF Inductive, TypeOK, StorageTypeOK, WorldTypeOK
  <1> QED BY <1>1, <1>2, UnchangedLedgerKeeps

LEMMA OwnerMarketFunctionKeeps ==
  ASSUME Inductive, OwnerMarketFunction
  PROVE  KeptAndRisen
  <1>1. PICK m \in Markets :
          \/ \E recipient \in Recipients :
               \/ OwnerWithdrawExcessTokens(m, recipient)
               \/ OwnerWithdrawUnsupportedTokens(m, recipient)
          \/ \E p \in MarketChoices, answer \in Prices[m] :
               OwnerAddMarket(m, p, answer)
          \/ \E p \in MarketChanges :
               \/ OwnerSetIsClosing(m, p.isClosing)
               \/ OwnerSetMarginPremium(m, p.marginPremium)
               \/ OwnerSetLiquidationSpreadPremium(m, p.liquidationSpreadPremium)
               \/ OwnerSetMaxSupplyWei(m, p.maxSupplyWei)
               \/ OwnerSetMaxBorrowWei(m, p.maxBorrowWei)
               \/ OwnerSetEarningsRateOverride(m, p.earningsRateOverride)
          \/ \E answer \in Prices[m] : OwnerSetPriceOracle(m, answer)
    BY DEF OwnerMarketFunction
  <1>2. marketParams[m] \in MarketParamsType
    BY DEF Inductive, TypeOK, StorageTypeOK
  <1>3. CASE \E recipient \in Recipients :
               \/ OwnerWithdrawExcessTokens(m, recipient)
               \/ OwnerWithdrawUnsupportedTokens(m, recipient)
    BY <1>3, OwnerWithdrawExcessTokensKeeps, OwnerWithdrawUnsupportedTokensKeeps
  <1>4. CASE \E p \in MarketChoices, answer \in Prices[m] :
               OwnerAddMarket(m, p, answer)
    BY <1>4, OwnerAddMarketKeeps
  <1>5. ASSUME NEW p \in MarketChanges,
               \/ OwnerSetIsClosing(m, p.isClosing)
               \/ OwnerSetMarginPremium(m, p.marginPremium)
               \/ OwnerSetLiquidationSpreadPremium(m, p.liquidationSpreadPremium)
               \/ OwnerSetMaxSupplyWei(m, p.maxSupplyWei)
               \/ OwnerSetMaxBorrowWei(m, p.maxBorrowWei)
               \/ OwnerSetEarningsRateOverride(m, p.earningsRateOverride)
        PROVE  KeptAndRisen
    <2>1. p \in MarketParamsType
      BY AdminAssumption
    <2>2. /\ [marketParams[m] EXCEPT !.isClosing = p.isClosing]
               \in MarketParamsType
          /\ [marketParams[m] EXCEPT !.marginPremium = p.marginPremium]
               \in MarketParamsType
          /\ [marketParams[m] EXCEPT
                !.liquidationSpreadPremium = p.liquidationSpreadPremium]
               \in MarketParamsType
          /\ [marketParams[m] EXCEPT !.maxSupplyWei = p.maxSupplyWei]
               \in MarketParamsType
          /\ [marketParams[m] EXCEPT !.maxBorrowWei = p.maxBorrowWei]
               \in MarketParamsType
          /\ [marketParams[m] EXCEPT
                !.earningsRateOverride = p.earningsRateOverride]
               \in MarketParamsType
      BY <1>2, <2>1 DEF MarketParamsType
    <2>3. CASE OwnerSetIsClosing(m, p.isClosing)
      BY <2>2, <2>3, SetMarketParamsKeeps DEF OwnerSetIsClosing
    <2>4. CASE OwnerSetMarginPremium(m, p.marginPremium)
      BY <2>2, <2>4, SetMarketParamsKeeps DEF OwnerSetMarginPremium
    <2>5. CASE OwnerSetLiquidationSpreadPremium(m, p.liquidationSpreadPremium)
      BY <2>2, <2>5, SetMarketParamsKeeps DEF OwnerSetLiquidationSpreadPremium
    <2>6. CASE OwnerSetMaxSupplyWei(m, p.maxSupplyWei)
      BY <2>2, <2>6, SetMarketParamsKeeps DEF OwnerSetMaxSupplyWei
    <2>7. CASE OwnerSetMaxBorrowWei(m, p.maxBorrowWei)
      BY <2>2, <2>7, SetMarketParamsKeeps DEF OwnerSetMaxBorrowWei
    <2>8. CASE OwnerSetEarningsRateOverride(m, p.earningsRateOverride)
      BY <2>2, <2>8, SetMarketParamsKeeps DEF OwnerSetEarningsRateOverride
    <2> QED BY <1>5, <2>3, <2>4, <2>5, <2>6, <2>7, <2>8
  <1>6. ASSUME NEW answer \in Prices[m], OwnerSetPriceOracle(m, answer)
        PROVE  KeptAndRisen
    <2>1. answer \in Nat
      BY AdminAssumption
    <2>2. /\ UNCHANGED <<ledger, params, operators, globalOperators,
                         specialAutoTraders, sentinel, now, operation>>
          /\ price' = [price EXCEPT ![m] = answer]
      BY <1>6 DEF OwnerSetPriceOracle, permissions
    <2>3. price' \in [Markets -> Nat]
      BY <2>1, <2>2 DEF Inductive, TypeOK, WorldTypeOK
    <2> QED BY <2>2, <2>3, AnswersKeep DEF Inductive, TypeOK, StorageTypeOK,
               WorldTypeOK
  <1> QED BY <1>1, <1>3, <1>4, <1>5, <1>6

LEMMA OwnerRiskFunctionKeeps ==
  ASSUME Inductive, OwnerRiskFunction
  PROVE  KeptAndRisen
  <1>1. riskParams \in RiskParamsType
    BY DEF Inductive, TypeOK, StorageTypeOK
  <1>2. ASSUME NEW p \in RiskChanges,
               \/ OwnerSetMarginRatio(p.marginRatio)
               \/ OwnerSetLiquidationSpread(p.liquidationSpread)
               \/ OwnerSetEarningsRate(p.earningsRate)
               \/ OwnerSetMinBorrowedValue(p.minBorrowedValue)
               \/ OwnerSetAccountMaxNumberOfMarketsWithBalances(
                    p.accountMaxNumberOfMarketsWithBalances)
        PROVE  KeptAndRisen
    <2>1. p \in RiskParamsType
      BY AdminAssumption
    <2>2. /\ [riskParams EXCEPT !.marginRatio = p.marginRatio]
               \in RiskParamsType
          /\ [riskParams EXCEPT !.liquidationSpread = p.liquidationSpread]
               \in RiskParamsType
          /\ [riskParams EXCEPT !.earningsRate = p.earningsRate]
               \in RiskParamsType
          /\ [riskParams EXCEPT !.minBorrowedValue = p.minBorrowedValue]
               \in RiskParamsType
          /\ [riskParams EXCEPT !.accountMaxNumberOfMarketsWithBalances =
                 p.accountMaxNumberOfMarketsWithBalances] \in RiskParamsType
      BY <1>1, <2>1 DEF RiskParamsType
    <2>3. CASE OwnerSetMarginRatio(p.marginRatio)
      BY <2>2, <2>3, SetRiskParamsKeeps DEF OwnerSetMarginRatio
    <2>4. CASE OwnerSetLiquidationSpread(p.liquidationSpread)
      BY <2>2, <2>4, SetRiskParamsKeeps DEF OwnerSetLiquidationSpread
    <2>5. CASE OwnerSetEarningsRate(p.earningsRate)
      BY <2>2, <2>5, SetRiskParamsKeeps DEF OwnerSetEarningsRate
    <2>6. CASE OwnerSetMinBorrowedValue(p.minBorrowedValue)
      BY <2>2, <2>6, SetRiskParamsKeeps DEF OwnerSetMinBorrowedValue
    <2>7. CASE OwnerSetAccountMaxNumberOfMarketsWithBalances(
                 p.accountMaxNumberOfMarketsWithBalances)
      BY <2>2, <2>7, SetRiskParamsKeeps
         DEF OwnerSetAccountMaxNumberOfMarketsWithBalances
    <2> QED BY <1>2, <2>3, <2>4, <2>5, <2>6, <2>7
  <1>3. ASSUME NEW setter \in RiskSetters \cup {NoSetter},
               \/ OwnerSetDefaultAccountRiskOverride(setter)
               \/ \E owner \in Addresses :
                    OwnerSetAccountRiskOverride(owner, setter)
        PROVE  KeptAndRisen
    <2>1. CASE OwnerSetDefaultAccountRiskOverride(setter)
      <3>1. [riskParams EXCEPT !.defaultAccountRiskOverrideSetter = setter]
              \in RiskParamsType
        BY <1>1 DEF RiskParamsType
      <3> QED BY <2>1, <3>1, SetRiskParamsKeeps
              DEF OwnerSetDefaultAccountRiskOverride
    <2>2. ASSUME NEW owner \in Addresses,
                 OwnerSetAccountRiskOverride(owner, setter)
          PROVE  KeptAndRisen
      <3>1. [riskParams EXCEPT !.accountRiskOverrideSetterMap[owner] = setter]
              \in RiskParamsType
        BY <1>1 DEF RiskParamsType
      <3> QED BY <2>2, <3>1, SetRiskParamsKeeps DEF OwnerSetAccountRiskOverride
    <2> QED BY <1>3, <2>1, <2>2
  <1>4. ASSUME NEW answer \in SentinelChoices, OwnerSetOracleSentinel(answer)
        PROVE  KeptAndRisen
    <2>1. /\ UNCHANGED <<ledger, params, operators, globalOperators,
                         specialAutoTraders, price, now, operation>>
          /\ sentinel' \in SentinelType
      BY <1>4, AdminAssumption DEF OwnerSetOracleSentinel, permissions
    <2> QED BY <2>1, AnswersKeep DEF Inductive, TypeOK, StorageTypeOK,
               WorldTypeOK
  <1> QED BY <1>2, <1>3, <1>4 DEF OwnerRiskFunction

(***************************************************************************)
(* Permissions; a local operator may also be named while an operation      *)
(* runs, by the code that it calls.                                        *)
(***************************************************************************)
LEMMA OwnerPermissionFunctionKeeps ==
  ASSUME Inductive, OwnerPermissionFunction
  PROVE  KeptAndRisen
  <1>1. ASSUME NEW approved \in BOOLEAN, NEW x \in GlobalOperatorCandidates,
               OwnerSetGlobalOperator(x, approved)
        PROVE  KeptAndRisen
    <2>1. /\ UNCHANGED <<ledger, params, operators, specialAutoTraders, price,
                         sentinel, now, operation>>
          /\ globalOperators' \subseteq globalOperators \cup {x}
      BY <1>1 DEF OwnerSetGlobalOperator, Granted, world
    <2>2. x \in Addresses
      BY AdminAssumption
    <2> QED BY <2>1, <2>2, AnswersKeep DEF Inductive, TypeOK, StorageTypeOK,
               WorldTypeOK
  <1>2. ASSUME NEW approved \in BOOLEAN, NEW x \in AutoTraderCandidates,
               OwnerSetAutoTraderSpecial(x, approved)
        PROVE  KeptAndRisen
    <2>1. /\ UNCHANGED <<ledger, params, operators, globalOperators, price,
                         sentinel, now, operation>>
          /\ specialAutoTraders' \subseteq specialAutoTraders \cup {x}
      BY <1>2 DEF OwnerSetAutoTraderSpecial, Granted, world
    <2>2. x \in Addresses
      BY AdminAssumption
    <2> QED BY <2>1, <2>2, AnswersKeep DEF Inductive, TypeOK, StorageTypeOK,
               WorldTypeOK
  <1> QED BY <1>1, <1>2 DEF OwnerPermissionFunction

LEMMA PermissionKeeps ==
  ASSUME Inductive, Permission
  PROVE  KeptAndRisen
  <1>1. PICK grant \in OperatorGrants, trusted \in BOOLEAN :
          SetOperators(grant[1], grant[2], trusted)
    BY DEF Permission
  <1>2. /\ UNCHANGED <<ledger, params, globalOperators, specialAutoTraders,
                       price, sentinel, now, operation>>
        /\ operators' \subseteq operators \cup {<<grant[1], grant[2]>>}
    BY <1>1 DEF SetOperators, Granted, permissions, world
  <1>3. <<grant[1], grant[2]>> \in Addresses \X Addresses
    BY AdminAssumption
  <1> QED BY <1>2, <1>3, AnswersKeep DEF Inductive, TypeOK, StorageTypeOK,
             WorldTypeOK

(***************************************************************************)
(* The world: prices, the sentinel, time and gifts.                        *)
(***************************************************************************)
LEMMA TimePassesKeeps ==
  ASSUME Inductive, TimePasses
  PROVE  KeptAndRisen
  <1>1. /\ UNCHANGED <<ledger, params, operators, permissions, price, sentinel,
                       operation>>
        /\ now' = now + 1
    BY DEF TimePasses
  <1>2. now \in Nat /\ now' \in Nat /\ now' >= now
    BY <1>1 DEF Inductive, TypeOK, WorldTypeOK
  <1>3. StorageTypeOK' /\ WorldTypeOK'
    BY <1>1, <1>2 DEF Inductive, TypeOK, StorageTypeOK, WorldTypeOK, params,
       permissions
  <1>4. ASSUME NEW m \in Markets
        PROVE  IndexIsSound(ledger.index[m])'
    <2>1. ledger.index[m].lastUpdate \in Nat /\ IndexIsSound(ledger.index[m])
      BY IndexFields DEF Inductive, Sound, Ledgers
    <2> QED BY <1>1, <1>2, <2>1 DEF IndexIsSound
  <1>5. Sound(ledger)'
    BY <1>1, <1>4 DEF Inductive, Sound, BooksAreExact
  <1> QED BY <1>1, <1>2, <1>3, <1>5, QuietStepKeeps

LEMMA DonateKeeps ==
  ASSUME Inductive, NEW m \in Markets, NEW wei \in Donations, Donate(m, wei)
  PROVE  KeptAndRisen
  <1> DEFINE L == [ledger EXCEPT !.balanceOf[m] = @ + wei]
  <1>1. /\ ledger \in Ledgers
        /\ ledger.ok
        /\ ledger.balanceOf[m] \in 0 .. TokenSupply
    BY DEF Inductive, TypeOK, StorageTypeOK, Ledgers
  <1>2. ledger.balanceOf[m] + wei \in 0 .. TokenSupply
    BY <1>1, WorldAssumption, StorageAssumption DEF Donate
  <1>3. L.ok
    BY <1>1 DEF Ledgers
  <1>4. wei \in Int
    BY WorldAssumption
  <1>5. Follows(L, ledger, {}, {})
    BY <1>2, <1>4, InductiveIsSound, HoldingFollows
  <1>6. /\ ledger' = L
        /\ UNCHANGED <<params, operators, permissions, world, operation>>
    BY DEF Donate
  <1> HIDE DEF L
  <1> QED BY <1>3, <1>5, <1>6, WrittenLedgerKeeps

LEMMA WorldKeeps ==
  ASSUME Inductive, World
  PROVE  KeptAndRisen
  <1>1. ASSUME NEW m \in Markets, PriceMoves(m)
        PROVE  KeptAndRisen
    <2>1. PICK answer \in Prices[m] : price' = [price EXCEPT ![m] = answer]
      BY <1>1 DEF PriceMoves
    <2>2. answer \in Nat
      BY AdminAssumption
    <2>3. price' \in [Markets -> Nat]
      BY <2>1, <2>2 DEF Inductive, TypeOK, WorldTypeOK
    <2>4. UNCHANGED <<ledger, params, operators, globalOperators,
                      specialAutoTraders, sentinel, now, operation>>
      BY <1>1 DEF PriceMoves, permissions
    <2> QED BY <2>3, <2>4, AnswersKeep DEF Inductive, TypeOK, StorageTypeOK,
               WorldTypeOK
  <1>2. CASE SentinelAnswers
    <2>1. /\ UNCHANGED <<ledger, params, operators, globalOperators,
                         specialAutoTraders, price, now, operation>>
          /\ sentinel' \in SentinelType
      BY <1>2, AdminAssumption DEF SentinelAnswers, permissions
    <2> QED BY <2>1, AnswersKeep DEF Inductive, TypeOK, StorageTypeOK,
               WorldTypeOK
  <1>3. CASE TimePasses
    BY <1>3, TimePassesKeeps
  <1> QED BY <1>1, <1>2, <1>3, DonateKeeps DEF World

-----------------------------------------------------------------------------
(* The theorems                                                            *)

LEMMA InitIsInductive == Init => Inductive
  <1> SUFFICES ASSUME Init PROVE Inductive
    OBVIOUS
  <1>1. /\ NewIndex(0) \in Indexes
        /\ NewIndex(0).borrow = NewIndex(0).supply
        /\ NewIndex(0).lastUpdate = 0
        /\ NewIndex(0).supply \in Int
    BY MathAssumption DEF NewIndex, Indexes
  <1>2. EmptyLedger \in Ledgers /\ EmptyLedger.ok
    <2>1. 0 \in Signed128 /\ 0 \in 0 .. MaxUint128 /\ 0 \in 0 .. TokenSupply
      BY MathAssumption, StorageAssumption DEF Signed128
    <2> QED BY <1>1, <2>1 DEF EmptyLedger, Ledgers, Statuses
  <1>3. BooksAreExact(EmptyLedger)
    <2> SUFFICES ASSUME NEW a \in Accounts
                 PROVE  /\ EmptyLedger.numberOfMarketsWithDebt[a]
                             = Cardinality({m \in Markets :
                                              EmptyLedger.par[a][m] < 0})
                        /\ EmptyLedger.marketsWithBalances[a]
                             = {m \in Markets : EmptyLedger.par[a][m] # 0}
      BY DEF BooksAreExact
    <2>1. /\ \A m \in Markets : EmptyLedger.par[a][m] = 0
          /\ EmptyLedger.numberOfMarketsWithDebt[a] = 0
          /\ EmptyLedger.marketsWithBalances[a] = {}
      BY DEF EmptyLedger
    <2>2. /\ {m \in Markets : EmptyLedger.par[a][m] < 0} = {}
          /\ {m \in Markets : EmptyLedger.par[a][m] # 0} = {}
      BY <2>1
    <2> QED BY <2>1, <2>2, FS_EmptySet
  <1>31. TotalsAreExact(EmptyLedger)
    <2> SUFFICES ASSUME NEW m \in Markets
                 PROVE  /\ EmptyLedger.totalPar[m].supply
                             = SumFunction(Supplies(EmptyLedger, m))
                        /\ EmptyLedger.totalPar[m].borrow
                             = SumFunction(Borrows(EmptyLedger, m))
      BY DEF TotalsAreExact
    <2> DEFINE f == Supplies(EmptyLedger, m)
               g == Borrows(EmptyLedger, m)
    <2>1. \A a \in Accounts : EmptyLedger.par[a][m] = 0
      BY DEF EmptyLedger
    <2>2. /\ DOMAIN f = Accounts /\ \A a \in Accounts : f[a] = 0
          /\ DOMAIN g = Accounts /\ \A a \in Accounts : g[a] = 0
      BY <2>1 DEF Supplies, Borrows, PositivePart, NegativePart
    <2>3. /\ EmptyLedger.totalPar[m].supply = 0
          /\ EmptyLedger.totalPar[m].borrow = 0
      BY DEF EmptyLedger
    <2> HIDE DEF f, g
    <2>4. /\ SumFunctionOnSet(f, Accounts) = 0
          /\ SumFunctionOnSet(g, Accounts) = 0
      BY <2>2, StorageAssumption, SumOfZeros
    <2> QED BY <2>2, <2>3, <2>4 DEF SumFunction, f, g
  <1>4. /\ ledger = EmptyLedger
        /\ now = 0
        /\ Idle
    BY DEF Init, Idle
  <1>5. Sound(ledger)
    <2>1. ASSUME NEW m \in Markets
          PROVE  IndexIsSound(EmptyLedger.index[m])
      BY <1>1, <1>4 DEF EmptyLedger, IndexIsSound
    <2> QED BY <1>2, <1>3, <1>31, <1>4, <2>1 DEF Sound
  <1>6. StorageTypeOK
    BY <1>2, <1>4, AdminAssumption
       DEF Init, StorageTypeOK, NoMarketParams, MarketParamsType
  <1>7. WorldTypeOK
    BY DEF Init, WorldTypeOK, SentinelType
  <1>8. OperationTypeOK
    BY <1>4 DEF Init, OperationTypeOK, NoCache
  <1> QED BY <1>4, <1>5, <1>6, <1>7, <1>8 DEF Inductive, TypeOK,
             RequestIsVerified

LEMMA StutterKeeps ==
  ASSUME Inductive, UNCHANGED vars
  PROVE  KeptAndRisen
  <1>1. UNCHANGED <<ledger, params, operators, permissions, world, operation>>
    BY DEF vars
  <1>2. UNCHANGED <<riskParams, marketParams, listedMarkets, globalOperators,
                    specialAutoTraders, price, sentinel, now>>
    BY <1>1 DEF params, permissions, world
  <1>3. StorageTypeOK' /\ WorldTypeOK'
    BY <1>1, <1>2 DEF Inductive, TypeOK, StorageTypeOK, WorldTypeOK
  <1> QED BY <1>1, <1>2, <1>3, UnchangedLedgerKeeps

LEMMA NextKeeps ==
  ASSUME Inductive, [Next]_vars
  PROVE  KeptAndRisen
  <1>1. CASE Operate
    BY <1>1, OperateKeeps
  <1>2. CASE OwnerMarketFunction
    BY <1>2, OwnerMarketFunctionKeeps
  <1>3. CASE OwnerRiskFunction
    BY <1>3, OwnerRiskFunctionKeeps
  <1>4. CASE OwnerPermissionFunction
    BY <1>4, OwnerPermissionFunctionKeeps
  <1>5. CASE Permission
    BY <1>5, PermissionKeeps
  <1>6. CASE World
    BY <1>6, WorldKeeps
  <1>7. CASE UNCHANGED vars
    BY <1>7, StutterKeeps
  <1> QED BY <1>1, <1>2, <1>3, <1>4, <1>5, <1>6, <1>7 DEF Next

(***************************************************************************)
(* For every set of accounts, markets, requests and answers of the world:  *)
(* the inductive invariant holds at every step.                            *)
(***************************************************************************)
THEOREM InductiveInvariant == Spec => []Inductive
  <1>1. Inductive /\ [Next]_vars => Inductive'
    BY NextKeeps DEF KeptAndRisen
  <1> QED BY InitIsInductive, <1>1, PTL DEF Spec

(***************************************************************************)
(* Every variable keeps its type: no par or total par outgrows 128 bits,   *)
(* no index 112, no action takes more tokens than there are, and no failed *)
(* write is stored, during an operation or after it (setPar, updateIndex,  *)
(* transferIn and transferOut with the reverts of SafeMath).               *)
(***************************************************************************)
THEOREM TypeCorrect == Spec => []TypeOK
  <1>1. Inductive => TypeOK
    BY DEF Inductive
  <1> QED BY InductiveInvariant, <1>1, PTL

(***************************************************************************)
(* The counter of debts and the set of markets with a balance that setPar  *)
(* maintains by increments agree with the balances at every step, so that  *)
(* isCollateralized never skips an account that owes and preprocessing     *)
(* never forgets a market.                                                 *)
(***************************************************************************)
THEOREM BooksStayExact == Spec => []ExactBooks
  <1>1. Inductive => ExactBooks
    BY DEF Inductive, Sound, ExactBooks
  <1> QED BY InductiveInvariant, <1>1, PTL

(***************************************************************************)
(* The totals of a market, which setPar rolls by the old and the new       *)
(* balance of one account, are at every step the sums of the supplies and  *)
(* of the debts of all accounts, so that the index charges, and the limits *)
(* count, exactly what the accounts hold.                                  *)
(***************************************************************************)
THEOREM TotalsStayExact == Spec => []ExactTotals
  <1>1. Inductive => ExactTotals
    BY DEF Inductive, Sound, ExactTotals
  <1> QED BY InductiveInvariant, <1>1, PTL

(***************************************************************************)
(* The indexes of a listed market never fall, but for a reverted operation *)
(* that takes them back, and the borrow index is never below the supply    *)
(* index: what calculateNewIndex credits it has charged.                   *)
(***************************************************************************)
THEOREM IndexesRise == Spec => IndexesNeverFall
  <1>1. Inductive /\ [Next]_vars
          => [\A m \in listedMarkets : OperationEnds \/ IndexRises(m)]_vars
    BY NextKeeps DEF KeptAndRisen
  <1> QED BY InductiveInvariant, <1>1, PTL DEF Spec, IndexesNeverFall
=============================================================================

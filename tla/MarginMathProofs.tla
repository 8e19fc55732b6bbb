-------------------------- MODULE MarginMathProofs --------------------------
(***************************************************************************)
(* What the arithmetic of MarginMath returns: integers, naturals and valid *)
(* indexes, for every base and every width of the stored values.  And sums *)
(* over finite sets, for the totals of a market and the values of an       *)
(* account: facts about SumFunctionOnSet, whatever the function and the    *)
(* set.  The library's fold picks the elements in an order that CHOOSE     *)
(* fixes; the lemmas here are what frees the proofs from that order.       *)
(* Induction is stated with sets in place of predicates.                   *)
(***************************************************************************)
EXTENDS MarginMath, FiniteSets, Functions, FiniteSetTheorems,
        WellFoundedInduction, TLAPS

-----------------------------------------------------------------------------
(* Induction                                                               *)

(***************************************************************************)
(* Every set of natural numbers that is not empty has a least element.     *)
(***************************************************************************)
LEMMA LeastNatural ==
  ASSUME NEW T \in SUBSET Nat, T # {}
  PROVE  \E n \in T : \A m \in T : n <= m
  <1> DEFINE R == OpToRel(<, Nat)
  <1>1. PICK n \in T : \A m \in T : ~ (<<m, n>> \in R)
    <2>1. IsWellFoundedOn(R, Nat)
      BY NatLessThanWellFounded
    <2> HIDE DEF R
    <2> QED BY <2>1, WFMin
  <1>2. ASSUME NEW m \in T
        PROVE  n <= m
    <2>1. n \in Nat /\ m \in Nat
      OBVIOUS
    <2>2. m < n => <<m, n>> \in R
      BY <2>1 DEF OpToRel
    <2>3. ~(m < n)
      BY <1>1, <2>2
    <2> QED BY <2>1, <2>3
  <1> QED BY <1>2

(***************************************************************************)
(* A set of natural numbers with 0 and all its successors is Nat.          *)
(***************************************************************************)
LEMMA NaturalInduction ==
  ASSUME NEW N, 0 \in N, \A n \in Nat : n \in N => n + 1 \in N
  PROVE  \A n \in Nat : n \in N
  <1> SUFFICES ASSUME Nat \ N # {} PROVE FALSE
    OBVIOUS
  <1>1. PICK n \in Nat \ N : \A m \in Nat \ N : n <= m
    BY LeastNatural
  <1>2. n # 0 /\ n - 1 \in Nat
    BY <1>1
  <1>3. n - 1 \in N
    BY <1>1, <1>2
  <1>4. n - 1 + 1 = n
    BY <1>1
  <1> QED BY <1>1, <1>2, <1>3, <1>4

(***************************************************************************)
(* A set of n + 1 elements has n without any one of them.                  *)
(***************************************************************************)
LEMMA OneLess ==
  ASSUME NEW T, IsFiniteSet(T), NEW n \in Nat, Cardinality(T) = n + 1
  PROVE  T # {} /\ \A x \in T : Cardinality(T \ {x}) = n
  <1>1. T # {}
    BY FS_EmptySet
  <1>2. ASSUME NEW x \in T
        PROVE  Cardinality(T \ {x}) = n
    BY FS_RemoveElement
  <1> QED BY <1>1, <1>2

(***************************************************************************)
(* A family of subsets with {} and, with T, every T \cup {x}, has S.       *)
(***************************************************************************)
LEMMA FiniteSetInduction ==
  ASSUME NEW S, IsFiniteSet(S), NEW F, {} \in F,
         \A T \in SUBSET S, x \in S : T \in F /\ x \notin T => T \cup {x} \in F
  PROVE  S \in F
  <1> DEFINE N == {n \in Nat :
                     \A T \in SUBSET S : Cardinality(T) = n => T \in F}
  <1>1. \A T \in SUBSET S : IsFiniteSet(T) /\ Cardinality(T) \in Nat
    BY FS_Subset, FS_CardinalityType
  <1>2. 0 \in N
    BY <1>1, FS_EmptySet
  <1>3. ASSUME NEW n \in Nat, n \in N
        PROVE  n + 1 \in N
    <2> SUFFICES ASSUME NEW T \in SUBSET S, Cardinality(T) = n + 1
                 PROVE  T \in F
      OBVIOUS
    <2>1. IsFiniteSet(T)
      BY <1>1
    <2>2. PICK x \in T : Cardinality(T \ {x}) = n
      BY <2>1, OneLess
    <2>4. T \ {x} \in F
      BY <1>3, <2>2
    <2>5. (T \ {x}) \cup {x} = T
      BY <2>2
    <2> QED BY <2>2, <2>4, <2>5
  <1> HIDE DEF N
  <1>4. \A n \in Nat : n \in N
    BY <1>2, <1>3, NaturalInduction
  <1> QED BY <1>1, <1>4 DEF N

-----------------------------------------------------------------------------
(* The recursive function of a sum                                         *)

PickOne(s) == CHOOSE x \in s : TRUE

SumBody(f, g, s) == IF s = {} THEN 0 ELSE f[PickOne(s)] + g[s \ {PickOne(s)}]

SumsBy(f, S, g) == g = [s \in SUBSET S |-> SumBody(f, g, s)]

(***************************************************************************)
(* The element that the fold takes first belongs to the set.               *)
(***************************************************************************)
LEMMA PickIsIn == \A s : s # {} => PickOne(s) \in s
  BY DEF PickOne

(***************************************************************************)
(* The recursive function by which MapThenFoldSet defines a sum exists on  *)
(* all subsets of a finite set: CHOOSE has something to choose.            *)
(***************************************************************************)
LEMMA SumsExist ==
  ASSUME NEW f, NEW S, IsFiniteSet(S)
  PROVE  \E g : SumsBy(f, S, g)
  <1> DEFINE D(n) == {s \in SUBSET S : Cardinality(s) <= n}
             N == {n \in Nat : \E g : g = [s \in D(n) |-> SumBody(f, g, s)]}
  <1>1. \A s \in SUBSET S : IsFiniteSet(s) /\ Cardinality(s) \in Nat
    BY FS_Subset, FS_CardinalityType
  <1>2. 0 \in N
    <2> DEFINE g == [s \in D(0) |-> 0]
    <2>1. \A s \in D(0) : s = {}
      BY <1>1, FS_EmptySet
    <2>2. g = [s \in D(0) |-> SumBody(f, g, s)]
      BY <2>1 DEF SumBody
    <2> QED BY <2>2
  <1>3. ASSUME NEW n \in Nat, n \in N
        PROVE  n + 1 \in N
    <2>1. PICK g : g = [s \in D(n) |-> SumBody(f, g, s)]
      BY <1>3
    <2> DEFINE h == [s \in D(n + 1) |-> SumBody(f, g, s)]
    <2>2. ASSUME NEW s \in D(n + 1), s # {}
          PROVE  h[s \ {PickOne(s)}] = g[s \ {PickOne(s)}]
      <3> DEFINE t == s \ {PickOne(s)}
      <3>1. Cardinality(t) = Cardinality(s) - 1
        BY <1>1, <2>2, PickIsIn, FS_RemoveElement
      <3>2. t \in D(n) /\ t \in D(n + 1)
        BY <1>1, <3>1
      <3> HIDE DEF t
      <3>3. h[t] = SumBody(f, g, t) /\ g[t] = SumBody(f, g, t)
        BY <2>1, <3>2
      <3> QED BY <3>3 DEF t
    <2>3. \A s \in D(n + 1) : SumBody(f, g, s) = SumBody(f, h, s)
      BY <2>2 DEF SumBody
    <2>4. h = [s \in D(n + 1) |-> SumBody(f, h, s)]
      BY <2>3
    <2> HIDE DEF h
    <2>5. \E k : k = [s \in D(n + 1) |-> SumBody(f, k, s)]
      BY <2>4
    <2>6. n + 1 \in Nat
      OBVIOUS
    <2> HIDE DEF D
    <2> QED BY <2>5, <2>6
  <1>4. Cardinality(S) \in N
    <2> HIDE DEF N
    <2>1. \A n \in Nat : n \in N
      BY <1>2, <1>3, NaturalInduction
    <2> QED BY <1>1, <2>1
  <1>5. D(Cardinality(S)) = SUBSET S
    BY <1>1, FS_Subset
  <1>6. PICK g : g = [s \in D(Cardinality(S)) |-> SumBody(f, g, s)]
    BY <1>4
  <1>7. g = [s \in SUBSET S |-> SumBody(f, g, s)]
    BY <1>5, <1>6
  <1> QED BY <1>7 DEF SumsBy

(***************************************************************************)
(* Two such functions, of a set and of a subset of it, agree on the        *)
(* subset.                                                                 *)
(***************************************************************************)
LEMMA SumsAreUnique ==
  ASSUME NEW f, NEW S, IsFiniteSet(S), NEW T \in SUBSET S,
         NEW g, SumsBy(f, S, g), NEW h, SumsBy(f, T, h)
  PROVE  g[T] = h[T]
  <1> DEFINE N == {n \in Nat :
                     \A s \in SUBSET T : Cardinality(s) = n => g[s] = h[s]}
  <1>1. \A s \in SUBSET T : IsFiniteSet(s) /\ Cardinality(s) \in Nat
    BY FS_Subset, FS_CardinalityType
  <1>2. \A s \in SUBSET T : g[s] = SumBody(f, g, s) /\ h[s] = SumBody(f, h, s)
    BY DEF SumsBy
  <1>3. 0 \in N
    BY <1>1, <1>2, FS_EmptySet DEF SumBody
  <1>4. ASSUME NEW n \in Nat, n \in N
        PROVE  n + 1 \in N
    <2> SUFFICES ASSUME NEW s \in SUBSET T, Cardinality(s) = n + 1
                 PROVE  g[s] = h[s]
      OBVIOUS
    <2>1. s # {}
      BY FS_EmptySet
    <2>2. Cardinality(s \ {PickOne(s)}) = n
      BY <1>1, <2>1, PickIsIn, FS_RemoveElement
    <2>3. g[s \ {PickOne(s)}] = h[s \ {PickOne(s)}]
      BY <1>4, <2>2
    <2> QED BY <1>2, <2>1, <2>3 DEF SumBody
  <1> HIDE DEF N
  <1>5. \A n \in Nat : n \in N
    BY <1>3, <1>4, NaturalInduction
  <1>6. T \in SUBSET T
    OBVIOUS
  <1> QED BY <1>1, <1>5, <1>6 DEF N

(***************************************************************************)
(* A sum is the value of such a function, so that the two lemmas apply.    *)
(***************************************************************************)
LEMMA SumIsASolution ==
  ASSUME NEW f, NEW S, IsFiniteSet(S)
  PROVE  \E g : SumsBy(f, S, g) /\ SumFunctionOnSet(f, S) = g[S]
  <1> DEFINE g == CHOOSE h : h = [s \in SUBSET S |-> SumBody(f, h, s)]
  <1>1. SumFunctionOnSet(f, S) = g[S]
    BY DEF SumFunctionOnSet, FoldFunctionOnSet, MapThenFoldSet, SumBody,
       PickOne
  <1>2. PICK h : h = [s \in SUBSET S |-> SumBody(f, h, s)]
    BY SumsExist DEF SumsBy
  <1>3. g = [s \in SUBSET S |-> SumBody(f, g, s)]
    BY <1>2
  <1> QED BY <1>1, <1>3 DEF SumsBy

-----------------------------------------------------------------------------
(* Sums                                                                    *)

(***************************************************************************)
(* The sum over the empty set is 0.                                        *)
(***************************************************************************)
LEMMA SumOfNothing ==
  ASSUME NEW f
  PROVE  SumFunctionOnSet(f, {}) = 0
  <1>1. PICK g : SumsBy(f, {}, g) /\ SumFunctionOnSet(f, {}) = g[{}]
    BY FS_EmptySet, SumIsASolution
  <1>2. g[{}] = SumBody(f, g, {})
    BY <1>1 DEF SumsBy
  <1> QED BY <1>1, <1>2 DEF SumBody

(***************************************************************************)
(* A sum is the element picked first and the sum of the rest.              *)
(***************************************************************************)
LEMMA SumPicks ==
  ASSUME NEW f, NEW S, IsFiniteSet(S), S # {}
  PROVE  SumFunctionOnSet(f, S)
           = f[PickOne(S)] + SumFunctionOnSet(f, S \ {PickOne(S)})
  <1> DEFINE T == S \ {PickOne(S)}
  <1>1. PICK g : SumsBy(f, S, g) /\ SumFunctionOnSet(f, S) = g[S]
    BY SumIsASolution
  <1>2. IsFiniteSet(T) /\ T \in SUBSET S
    BY FS_Subset
  <1>3. PICK h : SumsBy(f, T, h) /\ SumFunctionOnSet(f, T) = h[T]
    BY <1>2, SumIsASolution
  <1>4. g[S] = f[PickOne(S)] + g[T]
    BY <1>1 DEF SumsBy, SumBody
  <1>5. g[T] = h[T]
    BY <1>1, <1>2, <1>3, SumsAreUnique
  <1> QED BY <1>1, <1>3, <1>4, <1>5

(***************************************************************************)
(* A sum of integers is an integer.                                        *)
(***************************************************************************)
LEMMA SumIsInt ==
  ASSUME NEW S, IsFiniteSet(S), NEW f, \A x \in S : f[x] \in Int
  PROVE  SumFunctionOnSet(f, S) \in Int
  <1> DEFINE N == {n \in Nat : \A T \in SUBSET S :
                     Cardinality(T) = n => SumFunctionOnSet(f, T) \in Int}
  <1>1. \A T \in SUBSET S : IsFiniteSet(T) /\ Cardinality(T) \in Nat
    BY FS_Subset, FS_CardinalityType
  <1>2. 0 \in N
    BY <1>1, FS_EmptySet, SumOfNothing
  <1>3. ASSUME NEW n \in Nat, n \in N
        PROVE  n + 1 \in N
    <2> SUFFICES ASSUME NEW T \in SUBSET S, Cardinality(T) = n + 1
                 PROVE  SumFunctionOnSet(f, T) \in Int
      OBVIOUS
    <2>1. T # {} /\ PickOne(T) \in T /\ Cardinality(T \ {PickOne(T)}) = n
      BY <1>1, OneLess, PickIsIn
    <2>2. SumFunctionOnSet(f, T \ {PickOne(T)}) \in Int
      BY <1>3, <2>1
    <2>3. f[PickOne(T)] \in Int
      BY <2>1
    <2> QED BY <1>1, <2>1, <2>2, <2>3, SumPicks
  <1> HIDE DEF N
  <1>4. \A n \in Nat : n \in N
    BY <1>2, <1>3, NaturalInduction
  <1>5. S \in SUBSET S
    OBVIOUS
  <1> QED BY <1>1, <1>4, <1>5 DEF N

(***************************************************************************)
(* Any element may be summed last.                                         *)
(***************************************************************************)
LEMMA SumWithout ==
  ASSUME NEW S, IsFiniteSet(S), NEW f, \A x \in S : f[x] \in Int, NEW a \in S
  PROVE  SumFunctionOnSet(f, S) = f[a] + SumFunctionOnSet(f, S \ {a})
  <1> DEFINE N == {n \in Nat : \A T \in SUBSET S : Cardinality(T) = n =>
                     \A x \in T : SumFunctionOnSet(f, T)
                                    = f[x] + SumFunctionOnSet(f, T \ {x})}
  <1>1. \A T \in SUBSET S : IsFiniteSet(T) /\ Cardinality(T) \in Nat
    BY FS_Subset, FS_CardinalityType
  <1>2. 0 \in N
    BY <1>1, FS_EmptySet
  <1>3. ASSUME NEW n \in Nat, n \in N
        PROVE  n + 1 \in N
    <2> SUFFICES ASSUME NEW T \in SUBSET S, Cardinality(T) = n + 1, NEW x \in T
                 PROVE  SumFunctionOnSet(f, T)
                          = f[x] + SumFunctionOnSet(f, T \ {x})
      OBVIOUS
    <2> DEFINE c == PickOne(T)
               U == (T \ {c}) \ {x}
    <2>1. T # {} /\ c \in T /\ Cardinality(T \ {c}) = n
      BY <1>1, OneLess, PickIsIn
    <2>2. SumFunctionOnSet(f, T) = f[c] + SumFunctionOnSet(f, T \ {c})
      BY <1>1, <2>1, SumPicks
    <2> HIDE DEF c
    <2>3. CASE x = c
      BY <2>2, <2>3
    <2>4. CASE x # c
      <3>1. /\ T \ {c} \in SUBSET S /\ x \in T \ {c}
            /\ T \ {x} \in SUBSET S /\ c \in T \ {x}
            /\ (T \ {x}) \ {c} = U
        BY <2>1, <2>4
      <3>2. Cardinality(T \ {x}) = n
        BY <1>1, OneLess
      <3>3. SumFunctionOnSet(f, T \ {c}) = f[x] + SumFunctionOnSet(f, U)
        BY <1>3, <2>1, <3>1
      <3>4. SumFunctionOnSet(f, T \ {x}) = f[c] + SumFunctionOnSet(f, U)
        BY <1>3, <3>1, <3>2
      <3>5. SumFunctionOnSet(f, U) \in Int
        <4>1. IsFiniteSet(U)
          BY <1>1
        <4>2. \A y \in U : f[y] \in Int
          OBVIOUS
        <4> QED BY <4>1, <4>2, SumIsInt
      <3>6. f[x] \in Int /\ f[c] \in Int
        BY <2>1
      <3> HIDE DEF U
      <3> QED BY <2>2, <3>3, <3>4, <3>5, <3>6
    <2> QED BY <2>3, <2>4
  <1> HIDE DEF N
  <1>4. \A n \in Nat : n \in N
    BY <1>2, <1>3, NaturalInduction
  <1>5. S \in SUBSET S
    OBVIOUS
  <1> QED BY <1>1, <1>4, <1>5 DEF N

(***************************************************************************)
(* A new element adds its value.                                           *)
(***************************************************************************)
LEMMA SumWith ==
  ASSUME NEW S, NEW T \in SUBSET S, IsFiniteSet(S), NEW f,
         \A x \in S : f[x] \in Int, NEW a \in S \ T
  PROVE  SumFunctionOnSet(f, T \cup {a}) = f[a] + SumFunctionOnSet(f, T)
  <1>1. IsFiniteSet(T \cup {a})
    BY FS_Subset
  <1>2. (T \cup {a}) \ {a} = T
    OBVIOUS
  <1> QED BY <1>1, <1>2, SumWithout

(***************************************************************************)
(* A sum depends only on the values summed.                                *)
(***************************************************************************)
LEMMA SumDependsOnValues ==
  ASSUME NEW S, IsFiniteSet(S), NEW f, NEW g,
         \A x \in S : f[x] \in Int /\ g[x] = f[x]
  PROVE  SumFunctionOnSet(g, S) = SumFunctionOnSet(f, S)
  <1> DEFINE F == {T \in SUBSET S :
                     SumFunctionOnSet(g, T) = SumFunctionOnSet(f, T)}
  <1>1. {} \in F
    BY SumOfNothing
  <1>2. ASSUME NEW T \in SUBSET S, NEW x \in S, T \in F, x \notin T
        PROVE  T \cup {x} \in F
    <2>1. x \in S \ T /\ \A y \in S : f[y] \in Int /\ g[y] \in Int
      BY <1>2
    <2> HIDE DEF F
    <2>2. SumFunctionOnSet(f, T \cup {x}) = f[x] + SumFunctionOnSet(f, T)
      BY <2>1, SumWith
    <2>3. SumFunctionOnSet(g, T \cup {x}) = g[x] + SumFunctionOnSet(g, T)
      BY <2>1, SumWith
    <2>4. SumFunctionOnSet(g, T) = SumFunctionOnSet(f, T)
      BY <1>2 DEF F
    <2>5. SumFunctionOnSet(g, T \cup {x}) = SumFunctionOnSet(f, T \cup {x})
      BY <2>1, <2>2, <2>3, <2>4
    <2> QED BY <2>5 DEF F
  <1>3. S \in F
    <2> HIDE DEF F
    <2> QED BY <1>1, <1>2, FiniteSetInduction
  <1> QED BY <1>3

(***************************************************************************)
(* One value changes.                                                      *)
(***************************************************************************)
LEMMA SumAfterChange ==
  ASSUME NEW S, IsFiniteSet(S), NEW f, NEW g, NEW a \in S,
         \A x \in S : f[x] \in Int /\ g[x] \in Int,
         \A x \in S : x # a => g[x] = f[x]
  PROVE  SumFunctionOnSet(g, S) = SumFunctionOnSet(f, S) - f[a] + g[a]
  <1> DEFINE T == S \ {a}
  <1>1. IsFiniteSet(T)
    BY FS_Subset
  <1>2. SumFunctionOnSet(g, T) = SumFunctionOnSet(f, T)
    BY <1>1, SumDependsOnValues
  <1>3. /\ SumFunctionOnSet(f, S) = f[a] + SumFunctionOnSet(f, T)
        /\ SumFunctionOnSet(g, S) = g[a] + SumFunctionOnSet(g, T)
    BY SumWithout
  <1>4. SumFunctionOnSet(f, T) \in Int
    BY <1>1, SumIsInt
  <1> QED BY <1>2, <1>3, <1>4

(***************************************************************************)
(* What is zero need not be summed.                                        *)
(***************************************************************************)
LEMMA SumSkipsZeros ==
  ASSUME NEW S, IsFiniteSet(S), NEW T \in SUBSET S, NEW f,
         \A x \in S : f[x] \in Int, \A x \in S \ T : f[x] = 0
  PROVE  SumFunctionOnSet(f, S) = SumFunctionOnSet(f, T)
  <1> DEFINE R == S \ T
             F == {U \in SUBSET R :
                     SumFunctionOnSet(f, T \cup U) = SumFunctionOnSet(f, T)}
  <1>1. {} \in F
    <2>1. T \cup {} = T
      OBVIOUS
    <2> QED BY <2>1
  <1>2. ASSUME NEW U \in SUBSET R, NEW x \in R, U \in F, x \notin U
        PROVE  U \cup {x} \in F
    <2>1. T \cup U \in SUBSET S /\ x \in S \ (T \cup U)
      BY <1>2
    <2>2. T \cup (U \cup {x}) = (T \cup U) \cup {x}
      OBVIOUS
    <2>3. SumFunctionOnSet(f, (T \cup U) \cup {x})
            = f[x] + SumFunctionOnSet(f, T \cup U)
      BY <2>1, SumWith
    <2>4. SumFunctionOnSet(f, T) \in Int
      <3>1. IsFiniteSet(T)
        BY FS_Subset
      <3> QED BY <3>1, SumIsInt
    <2>5. f[x] = 0
      BY <1>2
    <2>6. U \cup {x} \in SUBSET R
      OBVIOUS
    <2>7. SumFunctionOnSet(f, T \cup U) = SumFunctionOnSet(f, T)
      BY <1>2
    <2>8. SumFunctionOnSet(f, (T \cup U) \cup {x}) = SumFunctionOnSet(f, T)
      BY <2>3, <2>4, <2>5, <2>7
    <2>9. SumFunctionOnSet(f, T \cup (U \cup {x})) = SumFunctionOnSet(f, T)
      BY <2>2, <2>8, Zenon
    <2> QED BY <2>6, <2>9
  <1>3. R \in F
    <2>1. IsFiniteSet(R)
      BY FS_Subset
    <2> HIDE DEF F, R
    <2> QED BY <1>1, <1>2, <2>1, FiniteSetInduction
  <1>4. T \cup R = S
    OBVIOUS
  <1> HIDE DEF R
  <1> QED BY <1>3, <1>4

(***************************************************************************)
(* A sum of zeros is zero.                                                 *)
(***************************************************************************)
LEMMA SumOfZeros ==
  ASSUME NEW S, IsFiniteSet(S), NEW f, \A x \in S : f[x] = 0
  PROVE  SumFunctionOnSet(f, S) = 0
  <1>1. SumFunctionOnSet(f, S) = SumFunctionOnSet(f, {})
    BY SumSkipsZeros
  <1> QED BY <1>1, SumOfNothing

(***************************************************************************)
(* A sum of natural numbers is a natural number.                           *)
(***************************************************************************)
LEMMA SumIsNat ==
  ASSUME NEW S, IsFiniteSet(S), NEW f, \A x \in S : f[x] \in Nat
  PROVE  SumFunctionOnSet(f, S) \in Nat
  <1> DEFINE F == {T \in SUBSET S : SumFunctionOnSet(f, T) \in Nat}
  <1>1. {} \in F
    BY SumOfNothing
  <1>2. ASSUME NEW T \in SUBSET S, NEW x \in S, T \in F, x \notin T
        PROVE  T \cup {x} \in F
    <2>1. x \in S \ T /\ \A y \in S : f[y] \in Int
      BY <1>2
    <2> HIDE DEF F
    <2>2. SumFunctionOnSet(f, T \cup {x}) = f[x] + SumFunctionOnSet(f, T)
      BY <2>1, SumWith
    <2>3. SumFunctionOnSet(f, T) \in Nat /\ f[x] \in Nat
      BY <1>2 DEF F
    <2>4. SumFunctionOnSet(f, T \cup {x}) \in Nat
      BY <2>2, <2>3
    <2> QED BY <2>4 DEF F
  <1>3. S \in F
    <2> HIDE DEF F
    <2> QED BY <1>1, <1>2, FiniteSetInduction
  <1> QED BY <1>3

-----------------------------------------------------------------------------
(* Arithmetic                                                              *)

(***************************************************************************)
(* Division rounds a natural number down to a natural number, of any       *)
(* integer to an integer.                                                  *)
(***************************************************************************)
LEMMA DivIsNat ==
  ASSUME NEW x \in Nat, NEW d \in Nat \ {0}
  PROVE  x \div d \in Nat
  BY SMT

LEMMA DivIsInt ==
  ASSUME NEW x \in Int, NEW d \in Nat \ {0}
  PROVE  x \div d \in Int
  BY SMT

LEMMA ProductIsNat ==
  ASSUME NEW x \in Nat, NEW y \in Nat
  PROVE  x * y \in Nat
  BY SMT

(***************************************************************************)
(* The three roundings of target * numerator / denominator.                *)
(***************************************************************************)
LEMMA GetPartialIsNat ==
  ASSUME NEW t \in Nat, NEW n \in Nat, NEW d \in Nat \ {0}
  PROVE  GetPartial(t, n, d) \in Nat
  BY ProductIsNat, DivIsNat DEF GetPartial

LEMMA GetPartialIsInt ==
  ASSUME NEW t \in Int, NEW n \in Int, NEW d \in Nat \ {0}
  PROVE  GetPartial(t, n, d) \in Int
  <1>1. t * n \in Int
    OBVIOUS
  <1> QED BY <1>1, DivIsInt DEF GetPartial

LEMMA RoundUpIsInt ==
  ASSUME NEW t \in Int, NEW n \in Int, NEW d \in Nat \ {0}
  PROVE  GetPartialRoundUp(t, n, d) \in Int
  <1>1. t * n - 1 \in Int
    OBVIOUS
  <1>2. (t * n - 1) \div d \in Int
    BY <1>1, DivIsInt
  <1> QED BY <1>2 DEF GetPartialRoundUp

LEMMA RoundUpIsNat ==
  ASSUME NEW t \in Nat, NEW n \in Nat, NEW d \in Nat \ {0}
  PROVE  GetPartialRoundUp(t, n, d) \in Nat
  <1>1. CASE t = 0 \/ n = 0
    BY <1>1 DEF GetPartialRoundUp
  <1>2. CASE t # 0 /\ n # 0
    <2> DEFINE x == t * n
    <2>1. x \in Nat /\ x # 0
      BY <1>2, ProductIsNat
    <2>2. GetPartialRoundUp(t, n, d) = (x - 1) \div d + 1
      BY <1>2 DEF GetPartialRoundUp
    <2> HIDE DEF x
    <2>3. (x - 1) \div d \in Nat
      BY <2>1, DivIsNat
    <2> QED BY <2>2, <2>3
  <1> QED BY <1>1, <1>2

LEMMA RoundHalfUpIsInt ==
  ASSUME NEW t \in Int, NEW n \in Int, NEW d \in Nat \ {0}
  PROVE  GetPartialRoundHalfUp(t, n, d) \in Int
  <1>1. t * n \in Int
    OBVIOUS
  <1>2. (t * n) \div d \in Int
    BY <1>1, DivIsInt
  <1> QED BY <1>2 DEF GetPartialRoundHalfUp

LEMMA RoundHalfUpIsNat ==
  ASSUME NEW t \in Nat, NEW n \in Nat, NEW d \in Nat \ {0}
  PROVE  GetPartialRoundHalfUp(t, n, d) \in Nat
  <1>1. (t * n) \div d \in Nat
    BY ProductIsNat, DivIsNat
  <1> QED BY <1>1 DEF GetPartialRoundHalfUp

LEMMA GetPartialIsMonotonic ==
  ASSUME NEW s \in Nat, NEW t \in Nat, s <= t,
         NEW m \in Nat, NEW n \in Nat, m <= n,
         NEW d \in Nat \ {0}
  PROVE  GetPartial(s, m, d) <= GetPartial(t, n, d)
  <1>1. s * m <= t * n
    <2>1. s * m <= t * m
      OBVIOUS
    <2>2. t * m <= t * n
      OBVIOUS
    <2> QED BY <2>1, <2>2
  <1>2. ASSUME NEW x \in Nat, NEW y \in Nat, x <= y
        PROVE  x \div d <= y \div d
    BY <1>2
  <1> QED BY <1>1, <1>2, ProductIsNat DEF GetPartial

-----------------------------------------------------------------------------

(***************************************************************************)
(* Principal and token amounts convert into one another at a valid index.  *)
(***************************************************************************)
LEMMA IndexFields ==
  ASSUME NEW index \in Indexes
  PROVE  /\ index.borrow \in Nat \ {0}
         /\ index.supply \in Nat \ {0}
         /\ index.lastUpdate \in Nat
  BY MathAssumption DEF Indexes

LEMMA BaseIsPositive == Base \in Nat \ {0}
  BY MathAssumption

LEMMA ParToWeiIsInt ==
  ASSUME NEW par \in Int, NEW index \in Indexes
  PROVE  ParToWei(par, index) \in Int
  <1>0. index.borrow \in Int /\ index.supply \in Int /\ -par \in Int
    BY IndexFields
  <1>1. GetPartialRoundHalfUp(par, index.supply, Base) \in Int
    BY <1>0, RoundHalfUpIsInt, BaseIsPositive
  <1>2. GetPartialRoundHalfUp(-par, index.borrow, Base) \in Int
    BY <1>0, RoundHalfUpIsInt, BaseIsPositive
  <1> QED BY <1>1, <1>2 DEF ParToWei

LEMMA WeiToParIsInt ==
  ASSUME NEW wei \in Int, NEW index \in Indexes
  PROVE  WeiToPar(wei, index) \in Int
  <1>0. /\ index.borrow \in Nat \ {0}
        /\ index.supply \in Nat \ {0}
        /\ Base \in Int
        /\ -wei \in Int
    BY IndexFields, BaseIsPositive
  <1>1. GetPartialRoundHalfUp(wei, Base, index.supply) \in Int
    BY <1>0, RoundHalfUpIsInt
  <1>2. GetPartialRoundHalfUp(-wei, Base, index.borrow) \in Int
    BY <1>0, RoundHalfUpIsInt
  <1> QED BY <1>1, <1>2 DEF WeiToPar

LEMMA TotalsAreNat ==
  ASSUME NEW totalPar \in [borrow : Nat, supply : Nat], NEW index \in Indexes
  PROVE  /\ SupplyWei(totalPar, index) \in Nat
         /\ BorrowWei(totalPar, index) \in Nat
  <1>0. index.supply \in Nat /\ totalPar.supply \in Nat
    BY IndexFields
  <1>1. ParToWei(totalPar.supply, index) \in Nat
    BY <1>0, RoundHalfUpIsNat, BaseIsPositive DEF ParToWei
  <1>2. ParToWei(-totalPar.borrow, index) \in Int
    BY ParToWeiIsInt
  <1> QED BY <1>1, <1>2 DEF SupplyWei, BorrowWei, Abs

-----------------------------------------------------------------------------

(***************************************************************************)
(* The next index of a market, if its casts succeed, is an index: neither  *)
(* part of it falls below the unit, or below what it was.                  *)
(***************************************************************************)
LEMMA SupplyInterestIsNat ==
  ASSUME NEW index \in Indexes, NEW interest \in Nat,
         NEW totalPar \in [borrow : Nat, supply : Nat], NEW earningsRate \in Nat
  PROVE  SupplyInterest(index, interest, totalPar, earningsRate) \in Nat
  <1> DEFINE supplyWei == SupplyWei(totalPar, index)
             borrowWei == BorrowWei(totalPar, index)
             earned    == DecimalMul(interest, earningsRate)
  <1>1. supplyWei \in Nat /\ borrowWei \in Nat
    BY TotalsAreNat
  <1>2. earned \in Nat
    BY GetPartialIsNat, BaseIsPositive DEF DecimalMul
  <1>3. supplyWei # 0 => GetPartial(earned, borrowWei, supplyWei) \in Nat
    BY <1>1, <1>2, GetPartialIsNat
  <1> QED BY <1>1, <1>2, <1>3 DEF SupplyInterest

LEMMA NewIndexIsIndex ==
  ASSUME NEW index \in Indexes, NEW rate \in Nat, NEW time \in Nat,
         index.lastUpdate <= time,
         NEW totalPar \in [borrow : Nat, supply : Nat], NEW earningsRate \in Nat,
         NewIndexIsValid(index, rate, totalPar, earningsRate, time)
  PROVE  LET new == CalculateNewIndex(index, rate, totalPar, earningsRate, time)
         IN  /\ new \in Indexes
             /\ new.lastUpdate = time
             /\ new.borrow >= index.borrow
             /\ new.supply >= index.supply
             /\ index.borrow >= index.supply => new.borrow >= new.supply
  <1>0. /\ index.borrow \in Nat
        /\ index.supply \in Nat
        /\ index.lastUpdate \in Nat
    BY IndexFields
  <1> DEFINE interest == rate * (time - index.lastUpdate)
             earned   == SupplyInterest(index, interest, totalPar, earningsRate)
             new == CalculateNewIndex(index, rate, totalPar, earningsRate, time)
  <1>1. interest \in Nat
    BY <1>0, ProductIsNat
  <1>2. earned \in Nat
    BY <1>1, SupplyInterestIsNat
  <1>3. GetPartial(index.borrow, interest, Base) \in Nat
    BY <1>0, <1>1, GetPartialIsNat, BaseIsPositive
  <1>4. GetPartial(index.supply, earned, Base) \in Nat
    BY <1>0, <1>2, GetPartialIsNat, BaseIsPositive
  <1>5. /\ new.borrow = GetPartial(index.borrow, interest, Base) + index.borrow
        /\ new.supply = GetPartial(index.supply, earned, Base) + index.supply
        /\ new.lastUpdate = time
        /\ new = [borrow |-> new.borrow, supply |-> new.supply,
                  lastUpdate |-> time]
    BY DEF CalculateNewIndex
  <1>6. /\ earned <= interest
        /\ new.borrow <= MaxUint112
        /\ new.supply <= MaxUint112
    BY DEF NewIndexIsValid, FitsUint112
  <1>7. /\ new.borrow \in Base .. MaxUint112
        /\ new.supply \in Base .. MaxUint112
    BY <1>3, <1>4, <1>5, <1>6, MathAssumption DEF Indexes
  <1>8. new \in Indexes
    BY <1>5, <1>7 DEF Indexes
  <1>9. ASSUME index.borrow >= index.supply
        PROVE  new.borrow >= new.supply
    <2>1. GetPartial(index.supply, earned, Base)
            <= GetPartial(index.borrow, interest, Base)
      BY <1>0, <1>1, <1>2, <1>6, <1>9, GetPartialIsMonotonic, BaseIsPositive
    <2> QED BY <1>0, <1>3, <1>4, <1>5, <1>9, <2>1
  <1>10. new.borrow >= index.borrow /\ new.supply >= index.supply
    BY <1>0, <1>3, <1>4, <1>5
  <1> QED BY <1>5, <1>8, <1>9, <1>10

-----------------------------------------------------------------------------
(* Rounding: what the conversions between principal and token amounts keep *)

(***************************************************************************)
(* A quotient and its remainder.                                           *)
(***************************************************************************)
LEMMA DivMod ==
  ASSUME NEW x \in Nat, NEW d \in Nat \ {0}
  PROVE  /\ x \div d \in Nat
         /\ x % d \in 0 .. (d - 1)
         /\ x = (x \div d) * d + (x % d)
  BY SMT

(***************************************************************************)
(* A positive factor can be cancelled.                                     *)
(***************************************************************************)
LEMMA CancelFactor ==
  ASSUME NEW x \in Int, NEW y \in Int, NEW d \in Nat \ {0}, x * d < y * d
  PROVE  x < y
  <1>1. SUFFICES ASSUME x >= y PROVE x * d >= y * d
    BY SMT
  <1>2. PICK e \in Nat : x = y + e
    <2>1. x - y \in Nat /\ x = y + (x - y)
      BY <1>1
    <2> QED BY <2>1
  <1>3. e * d \in Nat
    BY ProductIsNat
  <1>4. x * d = y * d + e * d
    BY <1>2, SMT
  <1> QED BY <1>3, <1>4

LEMMA ScaleUp ==
  ASSUME NEW x \in Nat, NEW y \in Nat, x <= y, NEW d \in Nat
  PROVE  x * d <= y * d
  <1>1. y - x \in Nat /\ (y - x) * d \in Nat
    BY ProductIsNat
  <1>2. y * d = x * d + (y - x) * d
    BY SMT
  <1> QED BY <1>1, <1>2

(***************************************************************************)
(* Rounding half up is within half a unit of the exact quotient, the upper *)
(* bound included.                                                         *)
(***************************************************************************)
LEMMA HalfUpBounds ==
  ASSUME NEW t \in Nat, NEW n \in Nat, NEW d \in Nat \ {0}
  PROVE  LET q == GetPartialRoundHalfUp(t, n, d)
         IN  /\ 2 * (q * d) <= 2 * (t * n) + d
             /\ 2 * (t * n) + d < 2 * (q * d) + 2 * d
  <1> DEFINE r == t * n
             k == r \div d
             e == r % d
             half == (d - 1) \div 2 + 1
             q == GetPartialRoundHalfUp(t, n, d)
  <1>1. r \in Nat
    BY ProductIsNat
  <1>2. q = k + (IF e >= half THEN 1 ELSE 0)
    BY DEF GetPartialRoundHalfUp
  <1>3. half \in Nat /\ d <= 2 * half /\ 2 * half <= d + 1
    BY SMT
  <1> HIDE DEF r, half, q
  <1>4. k \in Nat /\ e \in 0 .. (d - 1) /\ r = k * d + e
    BY <1>1, DivMod
  <1> HIDE DEF k, e
  <1>5. k * d \in Nat /\ (k + 1) * d = k * d + d
    BY <1>4, ProductIsNat
  <1>6. CASE e >= half
    <2>1. q = k + 1
      BY <1>2, <1>6
    <2>2. q * d = k * d + d
      BY <1>5, <2>1
    <2> QED BY <1>3, <1>4, <1>5, <1>6, <2>2 DEF r, q
  <1>7. CASE ~(e >= half)
    <2>1. q = k
      BY <1>2, <1>4, <1>7
    <2>2. q * d = k * d /\ 2 * e < d
      BY <1>3, <1>4, <1>7, <2>1
    <2> QED BY <1>3, <1>4, <1>5, <2>2 DEF r, q
  <1> QED BY <1>6, <1>7

LEMMA HalfUpIsMonotonic ==
  ASSUME NEW s \in Nat, NEW t \in Nat, s <= t, NEW n \in Nat,
         NEW d \in Nat \ {0}
  PROVE  GetPartialRoundHalfUp(s, n, d) <= GetPartialRoundHalfUp(t, n, d)
  <1> DEFINE p == GetPartialRoundHalfUp(s, n, d)
             q == GetPartialRoundHalfUp(t, n, d)
             x == s * n
             y == t * n
  <1>1. p \in Nat /\ q \in Nat /\ p * d \in Nat /\ q * d \in Nat
    BY RoundHalfUpIsNat, ProductIsNat
  <1>2. x \in Nat /\ y \in Nat /\ x <= y
    BY ProductIsNat, ScaleUp
  <1>3. 2 * (p * d) <= 2 * x + d /\ 2 * y + d < 2 * (q * d) + 2 * d
    BY HalfUpBounds
  <1> HIDE DEF p, q, x, y
  <1>4. (q + 1) * d = q * d + d
    BY <1>1
  <1>5. p * d < (q + 1) * d
    BY <1>1, <1>2, <1>3, <1>4
  <1>6. p < q + 1
    BY <1>1, <1>5, CancelFactor
  <1> QED BY <1>1, <1>6 DEF p, q

(***************************************************************************)
(* An amount multiplied by an index of at least one and divided by it      *)
(* again is the same amount, whatever the two roundings lose.              *)
(***************************************************************************)
LEMMA HalfUpRoundTrip ==
  ASSUME NEW p \in Nat, NEW b \in Nat \ {0}, NEW i \in Nat, b <= i
  PROVE  GetPartialRoundHalfUp(GetPartialRoundHalfUp(p, i, b), b, i) = p
  <1> DEFINE w == GetPartialRoundHalfUp(p, i, b)
             v == GetPartialRoundHalfUp(w, b, i)
             wb == w * b
             vi == v * i
             pi == p * i
  <1>1. i \in Nat \ {0}
    OBVIOUS
  <1>2. w \in Nat
    BY <1>1, RoundHalfUpIsNat
  <1>3. 2 * wb <= 2 * pi + b /\ 2 * pi + b < 2 * wb + 2 * b
    BY HalfUpBounds
  <1> HIDE DEF w
  <1>4. v \in Nat
    BY <1>1, <1>2, RoundHalfUpIsNat
  <1>5. 2 * vi <= 2 * wb + i /\ 2 * wb + i < 2 * vi + 2 * i
    BY <1>1, <1>2, HalfUpBounds
  <1> HIDE DEF v
  <1>6. /\ wb \in Nat /\ vi \in Nat /\ pi \in Nat
        /\ (v + 1) * i = vi + i /\ (p + 1) * i = pi + i
    BY <1>2, <1>4, ProductIsNat
  <1>7. p < v + 1
    <2>1. pi < vi + i
      <3> HIDE DEF wb, vi, pi
      <3> QED BY <1>3, <1>5, <1>6
    <2> QED BY <1>1, <1>4, <1>6, <2>1, CancelFactor
  <1>8. v < p + 1
    <2>1. CASE b < i
      <3>1. vi < pi + i
        <4> HIDE DEF wb, vi, pi
        <4> QED BY <1>3, <1>5, <1>6, <2>1
      <3> QED BY <1>1, <1>4, <1>6, <3>1, CancelFactor
    <2>2. CASE b = i
      <3>1. /\ wb = w * i /\ (w + 1) * i = w * i + i /\ w * i \in Nat
        BY <1>2, <2>2, ProductIsNat
      <3>2. w * i < (p + 1) * i /\ v * i < (w + 1) * i
        <4>1. wb < pi + i /\ vi < wb + i
          <5> HIDE DEF wb, vi, pi
          <5> QED BY <1>3, <1>5, <1>6, <2>2
        <4> QED BY <1>6, <3>1, <4>1
      <3>3. w < p + 1 /\ v < w + 1
        BY <1>1, <1>2, <1>4, <3>2, CancelFactor
      <3> QED BY <1>2, <1>4, <3>3
    <2> QED BY <2>1, <2>2
  <1> QED BY <1>4, <1>7, <1>8 DEF v, w

LEMMA HalfUpOfPositive ==
  ASSUME NEW p \in Nat \ {0}, NEW b \in Nat \ {0}, NEW i \in Nat, b <= i
  PROVE  GetPartialRoundHalfUp(p, i, b) > 0
  <1> DEFINE w == GetPartialRoundHalfUp(p, i, b)
  <1>1. w \in Nat
    BY RoundHalfUpIsNat
  <1>2. 2 * (p * i) + b < 2 * (w * b) + 2 * b
    BY HalfUpBounds
  <1> HIDE DEF w
  <1>3. 1 * i <= p * i /\ p * i \in Nat
    BY ScaleUp, ProductIsNat
  <1>4. w * b > 0
    BY <1>1, <1>2, <1>3, ProductIsNat
  <1>5. w # 0
    BY <1>4
  <1> QED BY <1>1, <1>5 DEF w

-----------------------------------------------------------------------------

(***************************************************************************)
(* Conversions keep signs: a debt of any size is worth something, and an   *)
(* amount is not turned into its opposite.                                 *)
(***************************************************************************)
LEMMA IndexIsAtLeastBase ==
  ASSUME NEW index \in Indexes
  PROVE  /\ index.borrow \in Nat \ {0} /\ Base <= index.borrow
         /\ index.supply \in Nat \ {0} /\ Base <= index.supply
  BY MathAssumption DEF Indexes

LEMMA ParToWeiKeepsSign ==
  ASSUME NEW par \in Int, NEW index \in Indexes
  PROVE  /\ par >= 0 => ParToWei(par, index) >= 0
         /\ par > 0 => ParToWei(par, index) > 0
         /\ par < 0 => ParToWei(par, index) < 0
         /\ par <= 0 => ParToWei(par, index) <= 0
  <1> DEFINE w == ParToWei(par, index)
  <1>1. par > 0 => w > 0
    BY IndexIsAtLeastBase, BaseIsPositive, HalfUpOfPositive DEF ParToWei
  <1>2. par >= 0 => w \in Nat
    <2> SUFFICES ASSUME par >= 0 PROVE w \in Nat
      OBVIOUS
    <2>1. par \in Nat /\ index.supply \in Nat /\ Base \in Nat \ {0}
      BY IndexIsAtLeastBase, BaseIsPositive
    <2>2. GetPartialRoundHalfUp(par, index.supply, Base) \in Nat
      BY <2>1, RoundHalfUpIsNat
    <2> QED BY <2>2 DEF ParToWei
  <1>3. par < 0 => w < 0
    <2> SUFFICES ASSUME par < 0 PROVE w < 0
      OBVIOUS
    <2>1. -par \in Nat \ {0}
      OBVIOUS
    <2> DEFINE v == GetPartialRoundHalfUp(-par, index.borrow, Base)
    <2>2. v \in Nat /\ v > 0
      BY <2>1, IndexIsAtLeastBase, BaseIsPositive, HalfUpOfPositive,
         RoundHalfUpIsNat
    <2>3. w = -v
      BY DEF ParToWei
    <2> HIDE DEF v, w
    <2> QED BY <2>2, <2>3
  <1>4. par = 0 => w = 0
    <2> SUFFICES ASSUME par = 0 PROVE w = 0
      OBVIOUS
    <2>1. GetPartialRoundHalfUp(0, index.supply, Base) = 0
      <3> DEFINE q == GetPartialRoundHalfUp(0, index.supply, Base)
      <3>1. q \in Nat /\ q * Base \in Nat
        BY IndexIsAtLeastBase, BaseIsPositive, RoundHalfUpIsNat, ProductIsNat
      <3>2. 2 * (q * Base) <= 2 * (0 * index.supply) + Base
        BY IndexIsAtLeastBase, BaseIsPositive, HalfUpBounds
      <3>3. 0 * index.supply = 0
        BY IndexIsAtLeastBase
      <3> HIDE DEF q
      <3>4. q * Base < 1 * Base
        BY <3>1, <3>2, <3>3, BaseIsPositive
      <3>5. q < 1
        BY <3>1, <3>4, CancelFactor, BaseIsPositive
      <3> QED BY <3>1, <3>5 DEF q
    <2> QED BY <2>1 DEF ParToWei
  <1>5. w \in Int
    BY ParToWeiIsInt
  <1> HIDE DEF w
  <1>6. /\ par >= 0 => w >= 0
        /\ par > 0 => w > 0
        /\ par < 0 => w < 0
        /\ par <= 0 => w <= 0
    BY <1>1, <1>2, <1>3, <1>4, <1>5
  <1> QED BY <1>6 DEF w

LEMMA WeiToParKeepsSign ==
  ASSUME NEW wei \in Int, NEW index \in Indexes
  PROVE  /\ wei >= 0 => WeiToPar(wei, index) >= 0
         /\ wei <= 0 => WeiToPar(wei, index) <= 0
  <1> DEFINE p == GetPartialRoundHalfUp(wei, Base, index.supply)
             q == GetPartialRoundHalfUp(-wei, Base, index.borrow)
  <1>0. /\ index.supply \in Nat \ {0} /\ index.borrow \in Nat \ {0}
        /\ Base \in Nat
    BY IndexIsAtLeastBase, BaseIsPositive
  <1>1. wei >= 0 => p \in Nat
    <2> SUFFICES ASSUME wei >= 0 PROVE p \in Nat
      OBVIOUS
    <2>1. wei \in Nat
      OBVIOUS
    <2> QED BY <1>0, <2>1, RoundHalfUpIsNat
  <1>2. wei <= 0 => q \in Nat
    <2> SUFFICES ASSUME wei <= 0 PROVE q \in Nat
      OBVIOUS
    <2>1. -wei \in Nat
      OBVIOUS
    <2> QED BY <1>0, <2>1, RoundHalfUpIsNat
  <1>3. wei = 0 => p = 0
    <2> SUFFICES ASSUME wei = 0 PROVE p = 0
      OBVIOUS
    <2> DEFINE i == index.supply
    <2>1. i \in Nat \ {0}
      BY IndexIsAtLeastBase
    <2>2. 2 * (p * i) <= 2 * (wei * Base) + i
      BY <2>1, BaseIsPositive, HalfUpBounds
    <2>3. wei * Base = 0 /\ p \in Nat
      BY <1>1, BaseIsPositive
    <2> HIDE DEF p, i
    <2>4. p * i < 1 * i
      BY <2>1, <2>2, <2>3, ProductIsNat
    <2>5. p < 1
      BY <2>1, <2>3, <2>4, CancelFactor
    <2> QED BY <2>3, <2>5
  <1> HIDE DEF p, q
  <1>4. WeiToPar(wei, index) = IF wei >= 0 THEN p ELSE -q
    BY DEF WeiToPar, p, q
  <1> QED BY <1>1, <1>2, <1>3, <1>4

(***************************************************************************)
(* A larger amount is not a smaller principal, nor the other way round.    *)
(***************************************************************************)
LEMMA ParToWeiIsMonotonic ==
  ASSUME NEW x \in Int, NEW y \in Int, x <= y, NEW index \in Indexes
  PROVE  ParToWei(x, index) <= ParToWei(y, index)
  <1>1. ParToWei(x, index) \in Int /\ ParToWei(y, index) \in Int
    BY ParToWeiIsInt
  <1>2. CASE x >= 0
    BY <1>2, IndexIsAtLeastBase, BaseIsPositive, HalfUpIsMonotonic
       DEF ParToWei
  <1>3. CASE y < 0
    <2> DEFINE p == GetPartialRoundHalfUp(-x, index.borrow, Base)
               q == GetPartialRoundHalfUp(-y, index.borrow, Base)
    <2>1. -x \in Nat /\ -y \in Nat /\ -y <= -x
      BY <1>3
    <2>2. p \in Nat /\ q \in Nat /\ q <= p
      BY <2>1, IndexIsAtLeastBase, BaseIsPositive, HalfUpIsMonotonic,
         RoundHalfUpIsNat
    <2>3. ParToWei(x, index) = -p /\ ParToWei(y, index) = -q
      BY <1>3 DEF ParToWei
    <2> HIDE DEF p, q
    <2> QED BY <2>2, <2>3
  <1>4. CASE x < 0 /\ y >= 0
    BY <1>1, <1>4, ParToWeiKeepsSign
  <1> QED BY <1>2, <1>3, <1>4

LEMMA WeiToParIsMonotonic ==
  ASSUME NEW x \in Int, NEW y \in Int, x <= y, NEW index \in Indexes
  PROVE  WeiToPar(x, index) <= WeiToPar(y, index)
  <1>1. WeiToPar(x, index) \in Int /\ WeiToPar(y, index) \in Int
    BY WeiToParIsInt
  <1>2. CASE x >= 0
    BY <1>2, IndexIsAtLeastBase, BaseIsPositive, HalfUpIsMonotonic
       DEF WeiToPar
  <1>3. CASE y < 0
    <2> DEFINE p == GetPartialRoundHalfUp(-x, Base, index.borrow)
               q == GetPartialRoundHalfUp(-y, Base, index.borrow)
    <2>1. -x \in Nat /\ -y \in Nat /\ -y <= -x
      BY <1>3
    <2>2. p \in Nat /\ q \in Nat /\ q <= p
      BY <2>1, IndexIsAtLeastBase, BaseIsPositive, HalfUpIsMonotonic,
         RoundHalfUpIsNat
    <2>3. WeiToPar(x, index) = -p /\ WeiToPar(y, index) = -q
      BY <1>3 DEF WeiToPar
    <2> HIDE DEF p, q
    <2> QED BY <2>2, <2>3
  <1>4. CASE x < 0 /\ y >= 0
    BY <1>1, <1>4, WeiToParKeepsSign
  <1> QED BY <1>2, <1>3, <1>4

(***************************************************************************)
(* Reading a balance in Wei and writing it back changes nothing: the two   *)
(* roundings of Interest.parToWei and weiToPar never drift.                *)
(***************************************************************************)
LEMMA ConversionRoundTrip ==
  ASSUME NEW par \in Int, NEW index \in Indexes
  PROVE  WeiToPar(ParToWei(par, index), index) = par
  <1>1. CASE par >= 0
    <2> DEFINE w == GetPartialRoundHalfUp(par, index.supply, Base)
    <2>0. /\ par \in Nat /\ index.supply \in Nat /\ Base <= index.supply
          /\ Base \in Nat \ {0}
      BY <1>1, IndexIsAtLeastBase, BaseIsPositive
    <2>1. w \in Nat /\ GetPartialRoundHalfUp(w, Base, index.supply) = par
      BY <2>0, RoundHalfUpIsNat, HalfUpRoundTrip
    <2>2. ParToWei(par, index) = w
      BY <1>1 DEF ParToWei
    <2> HIDE DEF w
    <2> QED BY <2>1, <2>2 DEF WeiToPar
  <1>2. CASE par < 0
    <2> DEFINE p == -par
               w == GetPartialRoundHalfUp(p, index.borrow, Base)
    <2>1. p \in Nat \ {0} /\ par = -p
      BY <1>2
    <2> HIDE DEF p
    <2>2. w > 0 /\ w \in Nat
      BY <2>1, IndexIsAtLeastBase, BaseIsPositive, RoundHalfUpIsNat,
         HalfUpOfPositive
    <2>3. GetPartialRoundHalfUp(w, Base, index.borrow) = p
      BY <2>1, IndexIsAtLeastBase, BaseIsPositive, HalfUpRoundTrip
    <2>4. ParToWei(par, index) = -w
      BY <1>2 DEF ParToWei, p
    <2> HIDE DEF w
    <2>5. ~(-w >= 0) /\ -(-w) = w
      BY <2>2
    <2>6. WeiToPar(-w, index) = -p
      BY <2>3, <2>5 DEF WeiToPar
    <2> QED BY <2>1, <2>4, <2>6
  <1> QED BY <1>1, <1>2

(***************************************************************************)
(* What is rounded down is worth no more than the exact quotient, and what *)
(* is rounded up no less.                                                  *)
(***************************************************************************)
LEMMA PartialIsPaid ==
  ASSUME NEW t \in Nat, NEW n \in Nat, NEW d \in Nat \ {0}
  PROVE  /\ GetPartial(t, n, d) * d <= t * n
         /\ t * n <= GetPartialRoundUp(t, n, d) * d
  <1> DEFINE x == t * n
  <1>1. x \in Nat
    BY ProductIsNat
  <1>2. GetPartial(t, n, d) * d <= x
    <2> DEFINE k == x \div d
    <2>1. /\ k \in Nat /\ x % d \in 0 .. (d - 1) /\ x = k * d + (x % d)
      BY <1>1, DivMod
    <2>2. GetPartial(t, n, d) = k
      BY DEF GetPartial
    <2> HIDE DEF k, x
    <2>3. k * d \in Nat
      BY <2>1, ProductIsNat
    <2> QED BY <1>1, <2>1, <2>2, <2>3
  <1>3. CASE t = 0 \/ n = 0
    <2>1. GetPartialRoundUp(t, n, d) = 0 /\ 0 * d = 0
      BY <1>3 DEF GetPartialRoundUp
    <2>2. x = 0
      BY <1>3
    <2> QED BY <1>2, <2>1, <2>2
  <1>4. CASE t # 0 /\ n # 0
    <2> DEFINE y == x - 1
               k == y \div d
    <2>1. y \in Nat
      <3>1. t \in Nat \ {0} /\ n \in Nat \ {0}
        BY <1>4
      <3>2. 1 * n <= t * n
        BY <3>1, ScaleUp
      <3> QED BY <1>1, <3>1, <3>2
    <2>2. GetPartialRoundUp(t, n, d) = k + 1
      BY <1>4 DEF GetPartialRoundUp
    <2> HIDE DEF y
    <2>3. /\ k \in Nat /\ y % d \in 0 .. (d - 1) /\ y = k * d + (y % d)
      BY <2>1, DivMod
    <2> HIDE DEF k
    <2>4. k * d \in Nat /\ (k + 1) * d = k * d + d
      BY <2>3, ProductIsNat
    <2>5. y < (k + 1) * d
      BY <2>1, <2>3, <2>4
    <2>6. x = y + 1
      BY <1>1 DEF y
    <2>7. x <= (k + 1) * d
      BY <1>1, <2>1, <2>3, <2>4, <2>5, <2>6
    <2> QED BY <1>2, <2>2, <2>7
  <1> QED BY <1>3, <1>4

(***************************************************************************)
(* If repaying deltaWei would take more than maxHeld of collateral, then   *)
(* maxHeld pays for no more than deltaWei: rounding the collateral down    *)
(* and the debt up never repays more than was asked for.                   *)
(***************************************************************************)
LEMMA BoundedRepayment ==
  ASSUME NEW deltaWei \in Nat, NEW maxHeld \in Nat,
         NEW owedPrice \in Nat \ {0}, NEW heldPrice \in Nat \ {0},
         GetPartial(deltaWei, owedPrice, heldPrice) > maxHeld
  PROVE  GetPartialRoundUp(maxHeld, heldPrice, owedPrice) \in 0 .. deltaWei
  <1> DEFINE x == deltaWei * owedPrice
             k == x \div heldPrice
             y == maxHeld * heldPrice
             j == (y - 1) \div owedPrice
             up == GetPartialRoundUp(maxHeld, heldPrice, owedPrice)
  <1>1. x \in Nat /\ y \in Nat
    BY ProductIsNat
  <1>2. up = IF maxHeld = 0 THEN 0 ELSE j + 1
    BY DEF GetPartialRoundUp
  <1>3. k > maxHeld
    BY DEF GetPartial
  <1> HIDE DEF x
  <1>4. k \in Nat /\ x >= k * heldPrice
    <2>1. /\ k \in Nat
          /\ x % heldPrice \in 0 .. (heldPrice - 1)
          /\ x = k * heldPrice + (x % heldPrice)
      BY <1>1, DivMod
    <2> HIDE DEF k
    <2>2. k * heldPrice \in Nat
      BY <2>1, ProductIsNat
    <2> QED BY <2>1, <2>2
  <1> HIDE DEF k
  <1>5. y <= k * heldPrice
    BY <1>3, <1>4, ScaleUp
  <1>6. CASE maxHeld = 0
    BY <1>2, <1>6
  <1>7. CASE maxHeld # 0
    <2>1. 1 * heldPrice <= y
      BY <1>7, ScaleUp
    <2>2. y - 1 \in Nat
      BY <1>1, <2>1
    <2> HIDE DEF y
    <2>3. /\ j \in Nat
          /\ (y - 1) % owedPrice \in 0 .. (owedPrice - 1)
          /\ y - 1 = j * owedPrice + ((y - 1) % owedPrice)
      BY <2>2, DivMod
    <2> HIDE DEF j
    <2>4. j * owedPrice \in Nat /\ k * heldPrice \in Nat
      BY <1>4, <2>3, ProductIsNat
    <2>5. j * owedPrice < x
      BY <1>1, <1>4, <1>5, <2>2, <2>3, <2>4
    <2>6. j < deltaWei
      BY <2>3, <2>5, CancelFactor DEF x
    <2> QED BY <1>2, <1>7, <2>3, <2>6
  <1> QED BY <1>6, <1>7
-----------------------------------------------------------------------------
(* Interest: what an accrual credits is covered by what it charges         *)

LEMMA PartialBounds ==
  ASSUME NEW t \in Nat, NEW n \in Nat, NEW d \in Nat \ {0}
  PROVE  LET q == GetPartial(t, n, d)
         IN  q \in Nat /\ q * d <= t * n /\ t * n < q * d + d
  <1> DEFINE x == t * n
  <1>1. x \in Nat
    BY ProductIsNat
  <1> HIDE DEF x
  <1>2. /\ x \div d \in Nat
        /\ x % d \in 0 .. (d - 1)
        /\ x = (x \div d) * d + (x % d)
    BY <1>1, DivMod
  <1>3. (x \div d) * d \in Nat
    BY <1>2, ProductIsNat
  <1> QED BY <1>2, <1>3 DEF GetPartial, x

LEMMA ProductsKeepOrder ==
  ASSUME NEW x \in Int, NEW y \in Int, x <= y, NEW d \in Nat
  PROVE  x * d <= y * d
  <1>1. y - x \in Nat /\ (y - x) * d \in Nat
    BY ProductIsNat
  <1>2. y * d = x * d + (y - x) * d
    BY SMT
  <1>3. x * d \in Int /\ y * d \in Int
    BY SMT
  <1> QED BY <1>1, <1>2, <1>3

(***************************************************************************)
(* A market's borrowers together owe the total rounded half up.            *)
(***************************************************************************)
LEMMA TotalsInWei ==
  ASSUME NEW totalPar \in [borrow : Nat, supply : Nat],
         NEW index, index.borrow \in Nat, index.supply \in Nat
  PROVE  /\ SupplyWei(totalPar, index)
              = GetPartialRoundHalfUp(totalPar.supply, index.supply, Base)
         /\ BorrowWei(totalPar, index)
              = GetPartialRoundHalfUp(totalPar.borrow, index.borrow, Base)
  <1> DEFINE b == totalPar.borrow
             up == GetPartialRoundHalfUp(b, index.borrow, Base)
  <1>1. b \in Nat /\ totalPar.supply \in Nat /\ Base \in Nat \ {0}
    BY BaseIsPositive
  <1>2. SupplyWei(totalPar, index)
          = GetPartialRoundHalfUp(totalPar.supply, index.supply, Base)
    BY <1>1 DEF SupplyWei, ParToWei
  <1>3. up \in Nat
    BY <1>1, RoundHalfUpIsNat
  <1>4. CASE b = 0
    <2>1. /\ GetPartialRoundHalfUp(0, index.supply, Base) = 0
          /\ GetPartialRoundHalfUp(0, index.borrow, Base) = 0
      <3>1. ASSUME NEW n \in Nat PROVE GetPartialRoundHalfUp(0, n, Base) = 0
        <4>1. 0 * n = 0 /\ 0 \div Base = 0 /\ 0 % Base = 0
          BY <1>1, SMT
        <4>2. (Base - 1) \div 2 + 1 > 0
          BY <1>1, SMT
        <4>3. (Base - 1) \div 2 + 1 \in Int
          BY <1>1, SMT
        <4> QED BY <4>1, <4>2, <4>3 DEF GetPartialRoundHalfUp
      <3> QED BY <3>1
    <2>2. -b = 0
      <3>1. -b <= 0 /\ -b >= 0 /\ -b \in Int
        BY <1>1, <1>4
      <3>2. \A z \in Int : z <= 0 /\ z >= 0 => z = 0
        OBVIOUS
      <3> QED BY <3>1, <3>2, Zenon
    <2>3. BorrowWei(totalPar, index) = 0
      BY <2>1, <2>2 DEF BorrowWei, ParToWei, Abs
    <2> QED BY <1>2, <1>4, <2>1, <2>3
  <1>5. CASE b # 0
    <2>1. ~(-b >= 0) /\ -(-b) = b
      BY <1>1, <1>5
    <2>2. ParToWei(-b, index) = -up
      BY <2>1 DEF ParToWei
    <2> HIDE DEF up
    <2>3. BorrowWei(totalPar, index) = Abs(-up)
      BY <2>2 DEF BorrowWei
    <2>4. Abs(-up) = up
      BY <1>3 DEF Abs
    <2> QED BY <1>2, <2>3, <2>4 DEF up
  <1> QED BY <1>4, <1>5

(***************************************************************************)
(* The suppliers' interest, on all that they own, is no more than the      *)
(* borrowers', on all that they owe.                                       *)
(***************************************************************************)
LEMMA SupplyInterestIsEarned ==
  ASSUME NEW index \in Indexes, NEW interest \in Nat,
         NEW totalPar \in [borrow : Nat, supply : Nat],
         NEW earningsRate \in 0 .. Base
  PROVE  LET earned == SupplyInterest(index, interest, totalPar, earningsRate)
         IN  /\ earned \in Nat
             /\ earned <= interest
             /\ earned * SupplyWei(totalPar, index)
                  <= interest * BorrowWei(totalPar, index)
  <1> DEFINE s == SupplyWei(totalPar, index)
             b == BorrowWei(totalPar, index)
             e == DecimalMul(interest, earningsRate)
             r == SupplyInterest(index, interest, totalPar, earningsRate)
  <1>1. s \in Nat /\ b \in Nat
    BY TotalsAreNat
  <1>2. Base \in Nat \ {0} /\ earningsRate \in Nat /\ earningsRate <= Base
    BY BaseIsPositive
  <1>3. e \in Nat /\ e <= interest
    <2>1. e \in Nat /\ e * Base <= interest * earningsRate
      BY <1>2, PartialBounds DEF DecimalMul
    <2> HIDE DEF e
    <2>2. earningsRate * interest <= Base * interest
      BY <1>2, ScaleUp
    <2>3. /\ earningsRate * interest = interest * earningsRate
          /\ Base * interest = interest * Base
      BY <1>2, SMT
    <2>4. e * Base \in Nat /\ interest * earningsRate \in Nat /\ interest * Base \in Nat
      BY <1>2, <2>1, ProductIsNat
    <2>5. ~(interest * Base < e * Base)
      BY <2>1, <2>2, <2>3, <2>4
    <2>6. ~(interest < e)
      <3>1. SUFFICES ASSUME interest < e PROVE interest * Base < e * Base
        BY <2>5
      <3>2. interest + 1 <= e /\ interest + 1 \in Nat
        BY <2>1, <3>1
      <3>3. (interest + 1) * Base <= e * Base
        BY <1>2, <2>1, <3>2, ScaleUp
      <3>4. (interest + 1) * Base = interest * Base + Base
        BY <1>2, SMT
      <3> QED BY <1>2, <2>4, <3>3, <3>4
    <2> QED BY <2>1, <2>6
  <1>4. r = IF s = 0 THEN 0 ELSE IF b < s THEN GetPartial(e, b, s) ELSE e
    BY DEF SupplyInterest
  <1> HIDE DEF s, b, e, r
  <1>5. e * b <= interest * b /\ e * b \in Nat /\ interest * b \in Nat
    BY <1>1, <1>3, ScaleUp, ProductIsNat
  <1>6. CASE s = 0
    BY <1>1, <1>4, <1>5, <1>6 DEF s, b, r
  <1>7. CASE s # 0 /\ b < s
    <2>1. r \in Nat /\ r * s <= e * b
      BY <1>1, <1>3, <1>4, <1>7, PartialBounds
    <2>2. r * s \in Nat /\ e * s \in Nat
      BY <1>1, <1>3, <2>1, ProductIsNat
    <2>3. e * b <= e * s
      <3>1. b * e <= s * e
        BY <1>1, <1>3, <1>7, ScaleUp
      <3> QED BY <1>1, <1>3, <3>1, SMT
    <2>4. ~(e < r)
      <3>1. SUFFICES ASSUME e < r PROVE FALSE
        OBVIOUS
      <3>2. (e + 1) * s <= r * s
        BY <1>1, <1>3, <2>1, <3>1, ScaleUp
      <3>3. (e + 1) * s = e * s + s
        BY <1>1, <1>3, SMT
      <3> QED BY <1>1, <1>7, <2>1, <2>2, <2>3, <1>5, <3>2, <3>3
    <2>5. r * s <= interest * b
      BY <1>5, <2>1, <2>2
    <2> QED BY <1>3, <2>1, <2>4, <2>5 DEF s, b, r
  <1>8. CASE s # 0 /\ ~(b < s)
    <2>1. r = e
      BY <1>4, <1>8
    <2>2. e * s <= e * b
      <3>1. s * e <= b * e
        BY <1>1, <1>3, <1>8, ScaleUp
      <3> QED BY <1>1, <1>3, <3>1, SMT
    <2>3. e * s \in Nat
      BY <1>1, <1>3, ProductIsNat
    <2>4. e * s <= interest * b
      BY <1>5, <2>2, <2>3
    <2> QED BY <1>3, <2>1, <2>4 DEF s, b, r
  <1> QED BY <1>6, <1>7, <1>8

(***************************************************************************)
(* The totals b and s, at indexes B and S that grow by x and y; i and r    *)
(* are the interests, h and k the totals in Wei before and o and p after.  *)
(***************************************************************************)
LEMMA RoundingsOfAnAccrual ==
  ASSUME NEW d \in Nat \ {0},
         NEW b \in Nat, NEW s \in Nat, NEW B \in Nat, NEW S \in Nat,
         NEW i \in Nat, NEW r \in Nat, NEW x \in Nat, NEW y \in Nat,
         NEW h \in Nat, NEW k \in Nat, NEW o \in Nat, NEW p \in Nat,
         B * i < x * d + d,
         y * d <= S * r,
         2 * (h * d) <= 2 * (b * B) + d,
         2 * (s * S) + d < 2 * (k * d) + 2 * d,
         2 * (b * (B + x)) + d < 2 * (o * d) + 2 * d,
         2 * (p * d) <= 2 * (s * (S + y)) + d,
         r <= i, r * k <= i * h
  PROVE  ((o - h) - (p - k)) * d + 2 * d + b + i >= 0
  <1> DEFINE e == (o - h) - (p - k)
             bx == b * x
             sy == s * y
             bB == b * B
             sS == s * S
  <1>0. /\ e \in Int /\ bx \in Nat /\ sy \in Nat /\ bB \in Nat /\ sS \in Nat
        /\ h * d \in Nat /\ k * d \in Nat /\ o * d \in Nat /\ p * d \in Nat
        /\ d \in Nat /\ d \in Int
    BY ProductIsNat
  <1>1. b * (B + x) = bB + bx /\ s * (S + y) = sS + sy
    BY SMT
  <1>2. e * d = (o * d - h * d) - (p * d - k * d)
    BY SMT
  <1> HIDE DEF e, bx, sy, bB, sS
  <1>3. e * d >= bx - sy - 2 * d
    BY <1>0, <1>1, <1>2 DEF bB, sS
  <1> DEFINE u == bx * d
             v == sy * d
             w == d * d
             z == e * d
  <1>4. /\ z \in Int /\ z * d >= u - v - 2 * w
        /\ u \in Nat /\ v \in Nat /\ w \in Nat /\ z * d \in Int
    <2>1. z \in Int
      BY <1>0, SMT
    <2>2. (bx - sy - 2 * d) * d <= z * d
      BY <1>0, <1>3, <2>1, ProductsKeepOrder
    <2>3. (bx - sy - 2 * d) * d = u - v - 2 * w
      BY <1>0, SMT
    <2>4. u \in Nat /\ v \in Nat /\ w \in Nat
      BY <1>0, ProductIsNat
    <2>5. z * d \in Int
      BY <1>0, <2>1, SMT
    <2> QED BY <2>1, <2>2, <2>3, <2>4, <2>5
  <1> HIDE DEF z
  <1> DEFINE Bi == bB * i
             Sr == sS * r
  <1>5. u + b * d >= Bi /\ Bi \in Nat /\ b * d \in Nat
    <2>1. B * i \in Nat /\ x * d \in Nat /\ b * d \in Nat /\ Bi \in Nat
      BY <1>0, ProductIsNat
    <2>2. (B * i) * b <= (x * d + d) * b
      BY <1>0, <2>1, ScaleUp
    <2>3. (B * i) * b = Bi
      BY SMT DEF bB
    <2>4. (x * d + d) * b = u + b * d
      BY <1>0, SMT DEF bx
    <2> QED BY <2>1, <2>2, <2>3, <2>4
  <1>6. v <= Sr /\ Sr \in Nat
    <2>1. S * r \in Nat /\ y * d \in Nat /\ Sr \in Nat
      BY <1>0, ProductIsNat
    <2>2. (y * d) * s <= (S * r) * s
      BY <2>1, ScaleUp
    <2>3. (S * r) * s = Sr
      BY SMT DEF sS
    <2>4. (y * d) * s = v
      BY <1>0, SMT DEF sy
    <2> QED BY <2>1, <2>2, <2>3, <2>4
  <1> HIDE DEF u, v
  <1> DEFINE hi == h * i
             kr == k * r
             m == hi * d
             n == kr * d
  <1>7. 2 * m <= 2 * Bi + i * d /\ m \in Nat /\ i * d \in Nat /\ hi \in Nat
    <2>1. (2 * (h * d)) * i <= (2 * bB + d) * i
      BY <1>0, ScaleUp DEF bB
    <2>2. (2 * (h * d)) * i = 2 * m
      BY <1>0, SMT
    <2>3. (2 * bB + d) * i = 2 * Bi + i * d
      BY <1>0, SMT
    <2>4. hi \in Nat /\ i * d \in Nat
      BY ProductIsNat
    <2>5. m \in Nat
      BY <1>0, <2>4, ProductIsNat
    <2> QED BY <2>1, <2>2, <2>3, <2>4, <2>5
  <1>8. 2 * Sr <= 2 * n + r * d /\ n \in Nat /\ r * d \in Nat /\ kr \in Nat
    <2>1. 2 * sS <= 2 * (k * d) + d
      BY <1>0 DEF sS
    <2>2. (2 * sS) * r <= (2 * (k * d) + d) * r
      BY <1>0, <2>1, ScaleUp
    <2>3. (2 * sS) * r = 2 * Sr
      BY <1>0, SMT
    <2>4. (2 * (k * d) + d) * r = 2 * n + r * d
      BY <1>0, SMT
    <2>5. kr \in Nat /\ r * d \in Nat
      BY ProductIsNat
    <2>6. n \in Nat
      BY <1>0, <2>5, ProductIsNat
    <2> QED BY <2>2, <2>3, <2>4, <2>5, <2>6
  <1>9. n <= m
    <2>1. kr <= hi
      <3>1. r * k = k * r /\ i * h = h * i
        BY SMT
      <3> QED BY <3>1
    <2> HIDE DEF kr, hi
    <2> QED BY <1>0, <1>7, <1>8, <2>1, ScaleUp
  <1>10. r * d <= i * d
    BY <1>0, ScaleUp
  <1> HIDE DEF Bi, Sr, m, n, w
  <1>11. z * d + 2 * w + b * d + i * d >= 0
    BY <1>4, <1>5, <1>6, <1>7, <1>8, <1>9, <1>10
  <1>12. (z + 2 * d + b + i) * d >= 0
    <2>1. (z + 2 * d + b + i) * d = z * d + 2 * w + b * d + i * d
      BY <1>0, <1>4, SMT DEF w
    <2> QED BY <1>11, <2>1
  <1>13. z + 2 * d + b + i \in Int /\ 0 \in Int /\ 0 * d = 0
    BY <1>0, <1>4, SMT
  <1>14. ~(z + 2 * d + b + i < 0)
    <2>1. SUFFICES ASSUME z + 2 * d + b + i < 0 PROVE FALSE
      OBVIOUS
    <2> DEFINE t == z + 2 * d + b + i
    <2>2. t \in Int /\ t * d >= 0 /\ t <= -1
      BY <1>12, <1>13, <2>1
    <2> HIDE DEF t
    <2>3. t * d <= (-1) * d
      BY <1>0, <2>2, ProductsKeepOrder
    <2>4. (-1) * d = -d /\ t * d \in Int
      BY <1>0, <2>2, SMT
    <2> QED BY <2>2, <2>3, <2>4
  <1>15. z + 2 * d + b + i >= 0
    BY <1>13, <1>14
  <1> QED BY <1>15 DEF z, e

(***************************************************************************)
(* What the borrowers owe less what the suppliers own, in Wei, falls with  *)
(* an accrual by no more than its roundings.                               *)
(***************************************************************************)
LEMMA AccrualIsFair ==
  ASSUME NEW index \in Indexes, NEW rate \in Nat, NEW time \in Nat,
         index.lastUpdate <= time,
         NEW totalPar \in [borrow : Nat, supply : Nat],
         NEW earningsRate \in 0 .. Base
  PROVE  LET new == CalculateNewIndex(index, rate, totalPar, earningsRate, time)
             growth == new.borrow - index.borrow
         IN  BorrowWei(totalPar, new) - SupplyWei(totalPar, new)
               >= BorrowWei(totalPar, index) - SupplyWei(totalPar, index)
                    - (2 + (totalPar.borrow + growth) \div Base)
  <1> DEFINE i == rate * (time - index.lastUpdate)
             r == SupplyInterest(index, i, totalPar, earningsRate)
             B == index.borrow
             S == index.supply
             x == GetPartial(B, i, Base)
             y == GetPartial(S, r, Base)
             b == totalPar.borrow
             s == totalPar.supply
             new == CalculateNewIndex(index, rate, totalPar, earningsRate, time)
             h == BorrowWei(totalPar, index)
             k == SupplyWei(totalPar, index)
             o == BorrowWei(totalPar, new)
             p == SupplyWei(totalPar, new)
  <1>1. /\ B \in Nat /\ S \in Nat /\ index.lastUpdate \in Nat
        /\ b \in Nat /\ s \in Nat /\ Base \in Nat \ {0}
    BY IndexFields, BaseIsPositive
  <1>2. i \in Nat
    BY <1>1, ProductIsNat
  <1> HIDE DEF i
  <1>3. r \in Nat /\ r <= i /\ r * k <= i * h
    BY <1>2, SupplyInterestIsEarned
  <1>4. new.borrow = x + B /\ new.supply = y + S
    BY DEF CalculateNewIndex, i
  <1> HIDE DEF new, r
  <1>5. x \in Nat /\ B * i < x * Base + Base
    BY <1>1, <1>2, PartialBounds
  <1>6. y \in Nat /\ y * Base <= S * r
    BY <1>1, <1>3, PartialBounds
  <1> HIDE DEF x, y
  <1>7. new.borrow = B + x /\ new.supply = S + y
    BY <1>1, <1>4, <1>5, <1>6
  <1>8. new.borrow \in Nat /\ new.supply \in Nat
    BY <1>1, <1>5, <1>6, <1>7
  <1>9. /\ k = GetPartialRoundHalfUp(s, S, Base)
        /\ h = GetPartialRoundHalfUp(b, B, Base)
        /\ p = GetPartialRoundHalfUp(s, S + y, Base)
        /\ o = GetPartialRoundHalfUp(b, B + x, Base)
    BY <1>1, <1>7, <1>8, TotalsInWei
  <1>10. S + y \in Nat /\ B + x \in Nat
    BY <1>1, <1>5, <1>6
  <1>11. k \in Nat /\ h \in Nat /\ p \in Nat /\ o \in Nat
    BY <1>1, <1>9, <1>10, RoundHalfUpIsNat
  <1>12. /\ 2 * (h * Base) <= 2 * (b * B) + Base
         /\ 2 * (s * S) + Base < 2 * (k * Base) + 2 * Base
         /\ 2 * (b * (B + x)) + Base < 2 * (o * Base) + 2 * Base
         /\ 2 * (p * Base) <= 2 * (s * (S + y)) + Base
    BY <1>1, <1>9, <1>10, HalfUpBounds
  <1> HIDE DEF h, k, o, p
  <1>13. ((o - h) - (p - k)) * Base + 2 * Base + b + i >= 0
    BY <1>1, <1>2, <1>3, <1>5, <1>6, <1>11, <1>12, RoundingsOfAnAccrual
  <1>14. i <= x
    <2>1. Base <= B
      BY <1>1, MathAssumption DEF Indexes
    <2>2. Base * i <= B * i /\ B * i \in Nat /\ Base * i \in Nat
      BY <1>1, <1>2, <2>1, ScaleUp, ProductIsNat
    <2>3. x * Base + Base = (x + 1) * Base /\ Base * i = i * Base
      BY <1>1, <1>2, <1>5, SMT
    <2>4. i * Base < (x + 1) * Base
      <3>1. x * Base \in Nat
        BY <1>1, <1>5, ProductIsNat
      <3> QED BY <1>1, <1>5, <2>2, <2>3, <3>1
    <2>5. i < x + 1
      BY <1>1, <1>2, <1>5, <2>4, CancelFactor
    <2> QED BY <1>2, <1>5, <2>5
  <1> DEFINE e == (o - h) - (p - k)
             q == (b + x) \div Base
  <1>15. /\ q \in Nat /\ (b + x) % Base \in 0 .. (Base - 1)
         /\ b + x = q * Base + ((b + x) % Base)
    <2>1. b + x \in Nat
      BY <1>1, <1>5
    <2> QED BY <1>1, <2>1, DivMod
  <1>16. e >= -(2 + q)
    <2>1. e \in Int /\ e * Base \in Int
      BY <1>1, <1>11, SMT
    <2>2. e * Base + 2 * Base + b + x >= 0
      BY <1>1, <1>2, <1>5, <1>13, <1>14, <2>1
    <2> HIDE DEF e, q
    <2>3. q * Base \in Nat
      BY <1>1, <1>15, ProductIsNat
    <2>4. e * Base + 3 * Base + q * Base > 0
      BY <1>1, <1>5, <1>15, <2>1, <2>2, <2>3
    <2>5. (e + 3 + q) * Base = e * Base + 3 * Base + q * Base
      BY <1>1, <1>15, <2>1, SMT
    <2>6. 0 * Base < (e + 3 + q) * Base
      BY <1>1, <2>4, <2>5, SMT
    <2>7. 0 < e + 3 + q
      BY <1>1, <1>15, <2>1, <2>6, CancelFactor
    <2> QED BY <1>15, <2>1, <2>7
  <1>17. new.borrow - index.borrow = x
    BY <1>1, <1>5, <1>7
  <1>18. o - p >= h - k - (2 + q)
    BY <1>11, <1>15, <1>16
  <1> QED BY <1>17, <1>18 DEF h, k, o, p, new
=============================================================================

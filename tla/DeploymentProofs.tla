---------------------------- MODULE DeploymentProofs ----------------------------
(***************************************************************************)
(* The migrations leave no contract, link or record without code behind it *)
(* and hand over last, for any networks, any names that are new and any    *)
(* number of crashes, copies and repetitions.                              *)
(***************************************************************************)
EXTENDS Deployment, SequenceTheorems, TLAPS

-----------------------------------------------------------------------------
(* Lists of steps                                                          *)

IsPlan(s) == s \in Seq({s[i] : i \in DOMAIN s})

LEMMA PlanHasSteps ==
  ASSUME NEW s, IsPlan(s)
  PROVE  Len(s) \in Nat /\ DOMAIN s = 1 .. Len(s)
  BY DEF IsPlan

\* s followed by t is u.
Joins(u, s, t) ==
  /\ IsPlan(u) /\ Len(u) = Len(s) + Len(t)
  /\ \A i \in 1 .. Len(s) : u[i] = s[i]
  /\ \A i \in 1 .. Len(t) : u[Len(s) + i] = t[i]

LEMMA PlansJoin ==
  ASSUME NEW s, IsPlan(s), NEW t, IsPlan(t)
  PROVE  Joins(s \o t, s, t)
  <1> DEFINE S == {s[i] : i \in DOMAIN s}
             T == {t[i] : i \in DOMAIN t}
             u == s \o t
  <1>1. s \in Seq(S \cup T) /\ t \in Seq(S \cup T)
    BY DEF IsPlan
  <1>2. /\ u \in Seq(S \cup T)
        /\ Len(u) = Len(s) + Len(t)
        /\ \A i \in 1 .. Len(s) : u[i] = s[i]
        /\ \A i \in 1 .. Len(t) : u[Len(s) + i] = t[i]
    <2> HIDE DEF S, T
    <2> QED BY <1>1
  <1>3. IsPlan(u)
    <2> HIDE DEF S, T, u
    <2> QED BY <1>2 DEF IsPlan
  <1> QED BY <1>2, <1>3 DEF Joins

LEMMA NoStep == IsPlan(<<>>) /\ Len(<<>>) = 0
  BY DEF IsPlan

LEMMA OneStep ==
  ASSUME NEW x
  PROVE  IsPlan(<<x>>) /\ Len(<<x>>) = 1 /\ <<x>>[1] = x
  BY DEF IsPlan

LEMMA TwoSteps ==
  ASSUME NEW x, NEW y
  PROVE  Joins(<<x, y>>, <<x>>, <<y>>)
  <1>1. IsPlan(<<x, y>>)
    BY DEF IsPlan
  <1>2. Len(<<x, y>>) = 2 /\ \A i \in 1 .. 1 : i = 1
    OBVIOUS
  <1>3. /\ \A i \in 1 .. 1 : <<x, y>>[i] = <<x>>[i]
        /\ \A i \in 1 .. 1 : <<x, y>>[1 + i] = <<y>>[i]
    BY <1>2
  <1>4. Len(<<x>>) = 1 /\ Len(<<y>>) = 1
    OBVIOUS
  <1>5. Len(<<x, y>>) = Len(<<x>>) + Len(<<y>>)
    BY <1>2, <1>4
  <1>6. /\ \A i \in 1 .. Len(<<x>>) : <<x, y>>[i] = <<x>>[i]
        /\ \A i \in 1 .. Len(<<y>>) : <<x, y>>[Len(<<x>>) + i] = <<y>>[i]
    BY ONLY <1>3, <1>4
  <1> QED BY <1>1, <1>5, <1>6 DEF Joins

LEMMA ThreeSteps ==
  ASSUME NEW x, NEW y, NEW z
  PROVE  Joins(<<x, y, z>>, <<x>>, <<y, z>>)
  <1>1. IsPlan(<<x, y, z>>) /\ Len(<<y, z>>) = 2
    BY DEF IsPlan
  <1>2. \A i \in 1 .. 2 : <<x, y, z>>[1 + i] = <<y, z>>[i]
    <2>1. \A i \in 1 .. 2 : i = 1 \/ i = 2
      OBVIOUS
    <2> QED BY <2>1
  <1> QED BY <1>1, <1>2, OneStep DEF Joins

-----------------------------------------------------------------------------
(* Plans in order                                                          *)

\* What is linked to a contract or passed to its constructor, on every network.
NeedsOf(x) ==
  IF x = "OperationImpl" THEN ToSet(ActionImpls)
  ELSE IF x = "DolomiteMargin"
  THEN {"AdminImpl", "GettersImpl", "OperationImpl", "AlwaysOnlineOracleSentinel"}
  ELSE IF x \in {"ChainlinkOracleSentinel", "LiquidatorAssetRegistry",
                 "ChainlinkPriceOracleV1", "TransferProxy", "BorrowPositionProxyV1",
                 "BorrowPositionProxyV2", "DepositWithdrawalProxy",
                 "EventEmitterRegistry", "Expiry", "SignedOperationProxy"}
  THEN {"DolomiteMargin"}
  ELSE IF x = "AccountValuesReader" THEN {"DolomiteMargin", "LiquidatorAssetRegistry"}
  ELSE IF x = "GenericTraderProxyV1"
  THEN {"GenericTraderProxyV1Lib", "EventEmitterRegistry", "Expiry", "DolomiteMargin"}
  ELSE IF x \in {"ExpiryProxy", "LiquidatorProxyV1", "LiquidatorProxyV4WithGenericTrader"}
  THEN {"DolomiteMargin", "Expiry", "LiquidatorAssetRegistry"}
  ELSE {}

EarlyKinds ==
  {"deploy", "get", "operator", "trader", "sentinel", "market", "payable", "throw"}

CreatedBefore(s, k, x) ==
  \E i \in 1 .. Len(s) : i < k /\ s[i].do = "deploy" /\ s[i].name = x

Created(s, x) == CreatedBefore(s, Len(s) + 1, x)

\* Where D is deployed before, each step of the plan finds what it needs.
InOrder(s, D) ==
  /\ IsPlan(s)
  /\ \A i \in 1 .. Len(s) :
       /\ s[i].do \in EarlyKinds
       /\ s[i].do = "deploy" =>
            /\ s[i].needs = NeedsOf(s[i].name)
            /\ \A x \in s[i].needs : x \in D \/ CreatedBefore(s, i, x)

\* And E is deployed after.
Brings(s, D, E) == InOrder(s, D) /\ \A x \in E : x \in D \/ Created(s, x)

(***************************************************************************)
(* One plan after another finds what it needs when the first brings it.    *)
(***************************************************************************)
LEMMA JoinedBring ==
  ASSUME NEW D, NEW E, NEW F, NEW G, NEW H, NEW s, NEW t, NEW u,
         Brings(s, D, E), Brings(t, F, G), F \subseteq E, H \subseteq E \cup G,
         Joins(u, s, t)
  PROVE  Brings(u, D, H)
  <1>1. /\ IsPlan(s) /\ IsPlan(t) /\ IsPlan(u)
        /\ Len(s) \in Nat /\ Len(t) \in Nat /\ Len(u) = Len(s) + Len(t)
    BY PlanHasSteps DEF Brings, InOrder, Joins
  <1>2. \A i \in 1 .. Len(u) :
          \/ i \in 1 .. Len(s) /\ u[i] = s[i]
          \/ i - Len(s) \in 1 .. Len(t) /\ u[i] = t[i - Len(s)] /\ i > Len(s)
    <2> TAKE i \in 1 .. Len(u)
    <2>1. CASE i \in 1 .. Len(s)
      BY <2>1 DEF Joins
    <2>2. CASE i > Len(s)
      <3>1. i - Len(s) \in 1 .. Len(t) /\ Len(s) + (i - Len(s)) = i
        BY <1>1, <2>2
      <3> QED BY <2>2, <3>1 DEF Joins
    <2> QED BY <1>1, <2>1, <2>2
  <1>3. \A k \in Nat : \A x : CreatedBefore(s, k, x) => CreatedBefore(u, k, x)
    BY <1>1 DEF CreatedBefore, Joins
  <1>4. \A k \in Nat : \A x : CreatedBefore(t, k, x) => CreatedBefore(u, Len(s) + k, x)
    <2> SUFFICES ASSUME NEW k \in Nat, NEW x, NEW j \in 1 .. Len(t), j < k,
                        t[j].do = "deploy", t[j].name = x
                 PROVE  CreatedBefore(u, Len(s) + k, x)
      BY DEF CreatedBefore
    <2>1. Len(s) + j \in 1 .. Len(u) /\ Len(s) + j < Len(s) + k /\ u[Len(s) + j] = t[j]
      BY <1>1 DEF Joins
    <2> QED BY <2>1 DEF CreatedBefore
  <1>5. \A x : Created(s, x) => \A k \in Nat : k > Len(s) => CreatedBefore(u, k, x)
    BY <1>1 DEF Created, CreatedBefore, Joins
  <1>6. InOrder(u, D)
    <2> SUFFICES ASSUME NEW i \in 1 .. Len(u)
                 PROVE  /\ u[i].do \in EarlyKinds
                        /\ u[i].do = "deploy" =>
                             /\ u[i].needs = NeedsOf(u[i].name)
                             /\ \A x \in u[i].needs : x \in D \/ CreatedBefore(u, i, x)
      BY <1>1 DEF InOrder
    <2>1. CASE i \in 1 .. Len(s) /\ u[i] = s[i]
      BY <1>3, <2>1 DEF Brings, InOrder
    <2>2. CASE i - Len(s) \in 1 .. Len(t) /\ u[i] = t[i - Len(s)] /\ i > Len(s)
      <3> DEFINE j == i - Len(s)
      <3>1. j \in 1 .. Len(t) /\ u[i] = t[j] /\ Len(s) + j = i /\ j \in Nat
        BY <1>1, <2>2
      <3> HIDE DEF j
      <3>2. /\ t[j].do \in EarlyKinds
            /\ t[j].do = "deploy" =>
                 /\ t[j].needs = NeedsOf(t[j].name)
                 /\ \A x \in t[j].needs : x \in F \/ CreatedBefore(t, j, x)
        BY <3>1 DEF Brings, InOrder
      <3>3. \A x \in F : x \in D \/ CreatedBefore(u, i, x)
        BY <1>5, <2>2 DEF Brings
      <3> QED BY <1>4, <3>1, <3>2, <3>3
    <2> QED BY <1>2, <2>1, <2>2
  <1>7. \A x \in H : x \in D \/ Created(u, x)
    <2> TAKE x \in H
    <2>1. CASE x \in E
      BY <1>1, <1>5, <2>1 DEF Brings, Created
    <2>2. CASE x \in G
      <3>1. x \in F \/ CreatedBefore(t, Len(t) + 1, x)
        BY <2>2 DEF Brings, Created
      <3>2. CASE x \in F
        BY <2>1, <3>2
      <3>3. CASE CreatedBefore(t, Len(t) + 1, x)
        <4>1. CreatedBefore(u, Len(s) + (Len(t) + 1), x)
          BY <1>1, <1>4, <3>3
        <4>2. Len(s) + (Len(t) + 1) = Len(u) + 1
          BY <1>1
        <4> QED BY <4>1, <4>2 DEF Created
      <3> QED BY <3>1, <3>2, <3>3
    <2> QED BY <2>1, <2>2
  <1> QED BY <1>6, <1>7 DEF Brings

LEMMA InPlace ==
  ASSUME NEW D, NEW E, NEW G, NEW s, NEW t, NEW u,
         Brings(s, D, E), Brings(t, E, G), Joins(u, s, t)
  PROVE  Brings(u, D, G)
  BY JoinedBring

LEMMA InTurn ==
  ASSUME NEW D, NEW E, NEW G, NEW s, NEW t, Brings(s, D, E), Brings(t, E, G)
  PROVE  Brings(s \o t, D, G)
  <1>1. IsPlan(s) /\ IsPlan(t)
    BY DEF Brings, InOrder
  <1>2. Joins(s \o t, s, t)
    BY <1>1, PlansJoin
  <1> QED BY <1>2, InPlace

LEMMA WhereMoreIs ==
  ASSUME NEW D, NEW E, NEW F, NEW G, NEW s,
         Brings(s, F, E), F \subseteq D, G \subseteq D \cup E
  PROVE  Brings(s, D, G)
  BY DEF Brings, InOrder

(***************************************************************************)
(* The plans that migrations are made of.                                  *)
(***************************************************************************)
LEMMA NoneBring ==
  ASSUME NEW D
  PROVE  Brings(<<>>, D, D)
  BY NoStep DEF Brings, InOrder

LEMMA StepBrings ==
  ASSUME NEW D, NEW x, x.do \in EarlyKinds, x.do # "deploy"
  PROVE  Brings(<<x>>, D, D)
  <1>1. \A i \in 1 .. 1 : i = 1
    OBVIOUS
  <1> QED BY <1>1, OneStep DEF Brings, InOrder

LEMMA DeployBrings ==
  ASSUME NEW D, NEW x, NeedsOf(x) \subseteq D
  PROVE  Brings(<<Deploy(x, NeedsOf(x))>>, D, D \cup {x})
  <1> DEFINE s == Deploy(x, NeedsOf(x))
  <1>1. s.do = "deploy" /\ s.name = x /\ s.needs = NeedsOf(x)
    BY DEF Deploy
  <1> HIDE DEF s
  <1>2. \A i \in 1 .. 1 : i = 1
    OBVIOUS
  <1>3. InOrder(<<s>>, D)
    BY <1>1, <1>2, OneStep DEF InOrder, EarlyKinds
  <1>4. Created(<<s>>, x)
    BY <1>1, OneStep DEF Created, CreatedBefore
  <1>5. Brings(<<s>>, D, D \cup {x})
    BY <1>3, <1>4 DEF Brings
  <1> QED BY <1>5 DEF s

LEMMA AllBring ==
  ASSUME NEW D, NEW E, NEW needs, needs \subseteq D, NEW names, IsPlan(names),
         \A i \in 1 .. Len(names) : NeedsOf(names[i]) = needs,
         \A x \in E : x \in D \/ \E i \in 1 .. Len(names) : names[i] = x
  PROVE  Brings(DeployAll(names, needs), D, E)
  <1> DEFINE s == DeployAll(names, needs)
  <1>1. Len(names) \in Nat /\ DOMAIN names = 1 .. Len(names)
    BY PlanHasSteps
  <1>2. s = [i \in 1 .. Len(names) |-> Deploy(names[i], needs)]
    BY <1>1 DEF DeployAll
  <1>3. IsPlan(s) /\ Len(s) = Len(names)
    BY <1>1, <1>2 DEF IsPlan
  <1>4. \A i \in 1 .. Len(s) :
          /\ s[i].do = "deploy" /\ s[i].name = names[i]
          /\ s[i].needs = needs
    BY <1>2, <1>3 DEF Deploy
  <1> HIDE DEF s
  <1>5. InOrder(s, D)
    BY <1>3, <1>4 DEF InOrder, EarlyKinds
  <1>6. \A x \in E : x \in D \/ Created(s, x)
    BY <1>1, <1>3, <1>4 DEF Created, CreatedBefore
  <1>7. Brings(s, D, E)
    BY <1>5, <1>6 DEF Brings
  <1> QED BY <1>7 DEF s

LEMMA SettingsBring ==
  ASSUME NEW D, NEW what \in EarlyKinds \ {"deploy"}, NEW names, IsPlan(names)
  PROVE  Brings(SetAll(what, names), D, D)
  <1> DEFINE s == SetAll(what, names)
  <1>1. Len(names) \in Nat /\ DOMAIN names = 1 .. Len(names)
    BY PlanHasSteps
  <1>2. s = [i \in 1 .. Len(names) |-> Set(what, names[i])]
    BY <1>1 DEF SetAll
  <1>3. IsPlan(s) /\ Len(s) = Len(names)
    BY <1>1, <1>2 DEF IsPlan
  <1>4. \A i \in 1 .. Len(s) : s[i].do = what
    BY <1>2, <1>3 DEF Set
  <1> HIDE DEF s
  <1>5. InOrder(s, D)
    BY <1>3, <1>4 DEF InOrder
  <1>6. Brings(s, D, D)
    BY <1>5 DEF Brings
  <1> QED BY <1>6 DEF s

-----------------------------------------------------------------------------
(* The migrations of a network                                             *)

Impls ==
  {"CallImpl", "DepositImpl", "LiquidateOrVaporizeImpl", "TradeImpl",
   "TransferImpl", "WithdrawalImpl"}
Libraries == Impls \cup {"AdminImpl", "GettersImpl"}
CoreLibraries == Libraries \cup {"OperationImpl", "AlwaysOnlineOracleSentinel"}

LEMMA ImplsAreListed ==
  /\ IsPlan(ActionImpls) /\ Len(ActionImpls) = 6
  /\ \A i \in 1 .. 6 : ActionImpls[i] \in Impls
  /\ \A x \in Impls : \E i \in 1 .. 6 : ActionImpls[i] = x
  /\ ToSet(ActionImpls) = Impls
  <1>1. IsPlan(ActionImpls) /\ Len(ActionImpls) = 6
    BY DEF ActionImpls, IsPlan
  <1>2. \A i \in 1 .. 6 : i = 1 \/ i = 2 \/ i = 3 \/ i = 4 \/ i = 5 \/ i = 6
    OBVIOUS
  <1>3. \A i \in 1 .. 6 : ActionImpls[i] \in Impls
    BY <1>2 DEF ActionImpls, Impls
  <1>4. \A x \in Impls : \E i \in 1 .. 6 : ActionImpls[i] = x
    BY DEF ActionImpls, Impls
  <1>5. DOMAIN ActionImpls = 1 .. 6
    BY <1>1, PlanHasSteps
  <1>6. ToSet(ActionImpls) = Impls
    BY <1>3, <1>4, <1>5 DEF ToSet
  <1> QED BY <1>1, <1>3, <1>4, <1>6

LEMMA ActionLibrariesBring ==
  ASSUME NEW D
  PROVE  Brings(DeployActionLibraries, D, Libraries)
  <1> DEFINE more == <<"AdminImpl", "GettersImpl">>
             names == ActionImpls \o more
  <1>1. /\ IsPlan(more) /\ Len(more) = 2 /\ more[1] = "AdminImpl" /\ more[2] = "GettersImpl"
        /\ \A i \in 1 .. 2 : i = 1 \/ i = 2
    BY DEF IsPlan
  <1> HIDE DEF more
  <1>2. Joins(names, ActionImpls, more)
    BY <1>1, ImplsAreListed, PlansJoin
  <1> HIDE DEF names
  <1>3. /\ IsPlan(names) /\ Len(names) = 8
        /\ \A i \in 1 .. 6 : names[i] = ActionImpls[i]
        /\ \A i \in 1 .. 2 : names[6 + i] = more[i]
    BY <1>1, <1>2, ImplsAreListed DEF Joins
  <1>4. names[7] = "AdminImpl" /\ names[8] = "GettersImpl"
    BY <1>1, <1>3
  <1>5. \A i \in 1 .. 8 : i \in 1 .. 6 \/ i = 7 \/ i = 8
    OBVIOUS
  <1>6. \A i \in 1 .. 8 : names[i] \in Libraries
    BY <1>3, <1>4, <1>5, ImplsAreListed DEF Libraries
  <1>7. \A x \in Libraries : \E i \in 1 .. 8 : names[i] = x
    BY <1>3, <1>4, ImplsAreListed DEF Libraries
  <1>8. \A x \in Libraries : NeedsOf(x) = {}
    BY DEF Libraries, Impls, NeedsOf
  <1>9. Brings(DeployAll(names, {}), D, Libraries)
    BY <1>3, <1>6, <1>7, <1>8, AllBring
  <1> QED BY <1>9 DEF DeployActionLibraries, names, more

LEMMA CoreLibrariesBring == Brings(DeployCoreLibraries, Libraries, CoreLibraries)
  <1> DEFINE g == Get(ToSet(ActionImpls))
             a == Deploy("OperationImpl", ToSet(ActionImpls))
             b == Deploy("AlwaysOnlineOracleSentinel", {})
             D == Libraries \cup {"OperationImpl"}
  <1>1. /\ NeedsOf("OperationImpl") = ToSet(ActionImpls)
        /\ NeedsOf("AlwaysOnlineOracleSentinel") = {}
    BY DEF NeedsOf
  <1>2. ToSet(ActionImpls) \subseteq Libraries
    BY ImplsAreListed DEF Libraries
  <1>3. Brings(<<a>>, Libraries, D)
    BY <1>1, <1>2, DeployBrings
  <1>4. Brings(<<b>>, D, D \cup {"AlwaysOnlineOracleSentinel"})
    BY <1>1, DeployBrings
  <1>9. g.do = "get"
    BY DEF Get
  <1>5. Brings(<<g>>, Libraries, Libraries)
    <2> HIDE DEF g
    <2> QED BY <1>9, StepBrings DEF EarlyKinds
  <1> HIDE DEF g, a, b
  <1>6. D \cup {"AlwaysOnlineOracleSentinel"} = CoreLibraries
    BY DEF CoreLibraries
  <1> HIDE DEF D
  <1>7. Brings(<<a, b>>, Libraries, CoreLibraries)
    BY <1>3, <1>4, <1>6, TwoSteps, InPlace
  <1>8. Brings(<<g, a, b>>, Libraries, CoreLibraries)
    BY <1>5, <1>7, ThreeSteps, InPlace
  <1> QED BY <1>8 DEF DeployCoreLibraries, g, a, b

GetBrings(D) == \A names : Brings(<<Get(names)>>, D, D)

LEMMA GetsBring == \A D : GetBrings(D)
  <1> SUFFICES ASSUME NEW D, NEW names
               PROVE  Brings(<<Get(names)>>, D, D)
    BY DEF GetBrings
  <1> DEFINE g == Get(names)
  <1>1. g.do = "get"
    BY DEF Get
  <1> HIDE DEF g
  <1>2. Brings(<<g>>, D, D)
    BY <1>1, StepBrings DEF EarlyKinds
  <1> QED BY <1>2 DEF g

LEMMA SetBrings ==
  ASSUME NEW D, NEW what \in EarlyKinds \ {"deploy"}, NEW name
  PROVE  Brings(<<Set(what, name)>>, D, D)
  <1> DEFINE s == Set(what, name)
  <1>1. s.do = what
    BY DEF Set
  <1> HIDE DEF s
  <1>2. Brings(<<s>>, D, D)
    BY <1>1, StepBrings
  <1> QED BY <1>2 DEF s

\* A deployment that needs what it should.
LEMMA LinkedBrings ==
  ASSUME NEW D, NEW x, NEW needs, NeedsOf(x) = needs, needs \subseteq D,
         NEW E, E \subseteq D \cup {x}
  PROVE  Brings(<<Deploy(x, needs)>>, D, E)
  BY DeployBrings, WhereMoreIs

Core == CoreLibraries \cup {"DolomiteMargin"}

LEMMA CoreBrings ==
  ASSUME NEW n
  PROVE  Brings(DeployCore(n), CoreLibraries, Core)
  <1> DEFINE needs == {"AdminImpl", "GettersImpl", "OperationImpl",
                       "AlwaysOnlineOracleSentinel"}
             g == Get(needs)
             d == Deploy("DolomiteMargin", needs)
             s == Deploy("ChainlinkOracleSentinel", {"DolomiteMargin"})
             w == Set("sentinel", "ChainlinkOracleSentinel")
             more == CASE Feed(n) = "feed"  -> <<s, w>>
                       [] Feed(n) = "throw" -> <<Set("throw", "")>>
                       [] OTHER             -> <<>>
  <1>1. Brings(<<g>>, CoreLibraries, CoreLibraries)
    BY GetsBring DEF GetBrings
  <1>2. needs \subseteq CoreLibraries /\ NeedsOf("DolomiteMargin") = needs
    BY DEF CoreLibraries, Libraries, NeedsOf
  <1>3. Brings(<<d>>, CoreLibraries, Core)
    BY <1>2, LinkedBrings DEF Core
  <1>4. Brings(<<s>>, Core, Core)
    <2>1. NeedsOf("ChainlinkOracleSentinel") = {"DolomiteMargin"}
      BY DEF NeedsOf
    <2>2. {"DolomiteMargin"} \subseteq Core
      BY DEF Core
    <2> QED BY <2>1, <2>2, LinkedBrings
  <1>5. Brings(<<w>>, Core, Core)
    BY SetBrings DEF EarlyKinds
  <1>6. Brings(<<Set("throw", "")>>, Core, Core)
    BY SetBrings DEF EarlyKinds
  <1>7. DeployCore(n) = <<g, d>> \o more
    BY DEF DeployCore
  <1>8. Feed(n) \in {"feed", "throw", "none"}
    BY DEF Feed
  <1> HIDE DEF g, d, s, w
  <1>9. Brings(<<g, d>>, CoreLibraries, Core)
    BY <1>1, <1>3, TwoSteps, InPlace
  <1>10. Brings(<<s, w>>, Core, Core)
    BY <1>4, <1>5, TwoSteps, InPlace
  <1>11. Brings(more, Core, Core)
    BY <1>6, <1>8, <1>10, NoneBring
  <1> HIDE DEF more
  <1> QED BY <1>7, <1>9, <1>11, InTurn

WithRegistry == Core \cup {"LiquidatorAssetRegistry"}

LEMMA MultiCallBrings ==
  ASSUME NEW n
  PROVE  Brings(DeployMultiCall(n), Core, WithRegistry)
  <1> DEFINE g == Get({"DolomiteMargin"})
             name == IF n = "arbitrum_one" THEN "ArbitrumMultiCall" ELSE "MultiCall"
             a == Deploy(name, {})
             b == Deploy("LiquidatorAssetRegistry", {"DolomiteMargin"})
             c == Deploy("AccountValuesReader", {"DolomiteMargin", "LiquidatorAssetRegistry"})
             more == IF n = "arbitrum_one" THEN <<c>> ELSE <<>>
  <1>1. Brings(<<g>>, Core, Core)
    BY GetsBring DEF GetBrings
  <1>2. Brings(<<a>>, Core, Core)
    <2>1. NeedsOf(name) = {}
      BY DEF NeedsOf
    <2> QED BY <2>1, LinkedBrings
  <1>3. Brings(<<b>>, Core, WithRegistry)
    <2>1. NeedsOf("LiquidatorAssetRegistry") = {"DolomiteMargin"}
      BY DEF NeedsOf
    <2>2. {"DolomiteMargin"} \subseteq Core
      BY DEF Core
    <2> QED BY <2>1, <2>2, LinkedBrings DEF WithRegistry
  <1>4. Brings(<<c>>, WithRegistry, WithRegistry)
    <2>1. NeedsOf("AccountValuesReader") = {"DolomiteMargin", "LiquidatorAssetRegistry"}
      BY DEF NeedsOf
    <2>2. {"DolomiteMargin", "LiquidatorAssetRegistry"} \subseteq WithRegistry
      BY DEF Core, WithRegistry
    <2> QED BY <2>1, <2>2, LinkedBrings
  <1>5. DeployMultiCall(n) = <<g, a, b>> \o more
    BY DEF DeployMultiCall
  <1> HIDE DEF g, a, b, c, name
  <1>6. Brings(<<a, b>>, Core, WithRegistry)
    BY <1>2, <1>3, TwoSteps, InPlace
  <1>7. Brings(<<g, a, b>>, Core, WithRegistry)
    BY <1>1, <1>6, ThreeSteps, InPlace
  <1>8. Brings(more, WithRegistry, WithRegistry)
    BY <1>4, NoneBring
  <1> HIDE DEF more
  <1> QED BY <1>5, <1>7, <1>8, InTurn

LEMMA InterestSettersBring ==
  ASSUME NEW D
  PROVE  Brings(DeployInterestSetters, D, D)
  <1> DEFINE names ==
        <<"AAVECopyCatAltCoinInterestSetter", "AAVECopyCatStableCoinInterestSetter",
          "AlwaysZeroInterestSetter", "DoubleExponentInterestSetter">>
  <1>1. IsPlan(names) /\ Len(names) = 4
    BY DEF IsPlan
  <1>2. \A i \in 1 .. 4 : i = 1 \/ i = 2 \/ i = 3 \/ i = 4
    OBVIOUS
  <1>3. \A i \in 1 .. 4 : NeedsOf(names[i]) = {}
    BY <1>2 DEF NeedsOf
  <1> HIDE DEF names
  <1>4. Brings(DeployAll(names, {}), D, D)
    BY <1>1, <1>3, AllBring
  <1> QED BY <1>4 DEF DeployInterestSetters, names

LEMMA PriceOraclesBring ==
  ASSUME NEW D, "DolomiteMargin" \in D
  PROVE  Brings(DeployPriceOracles, D, D)
  <1> DEFINE g == Get({"DolomiteMargin"})
             d == Deploy("ChainlinkPriceOracleV1", {"DolomiteMargin"})
  <1>1. Brings(<<g>>, D, D)
    BY GetsBring DEF GetBrings
  <1>2. Brings(<<d>>, D, D)
    <2>1. NeedsOf("ChainlinkPriceOracleV1") = {"DolomiteMargin"}
      BY DEF NeedsOf
    <2> QED BY <2>1, LinkedBrings
  <1>3. DeployPriceOracles = <<g, d>>
    BY DEF DeployPriceOracles
  <1> HIDE DEF g, d
  <1> QED BY <1>1, <1>2, <1>3, TwoSteps, InPlace

WithExpiry == WithRegistry \cup {"EventEmitterRegistry", "Expiry"}

LEMMA SecondLayerBrings == Brings(DeploySecondLayer, WithRegistry, WithExpiry)
  <1> DEFINE g == Get({"DolomiteMargin"})
             names == <<"TransferProxy", "BorrowPositionProxyV1", "BorrowPositionProxyV2",
                        "DepositWithdrawalProxy", "EventEmitterRegistry", "Expiry">>
             a == Deploy("GenericTraderProxyV1Lib", {})
             b == Deploy("GenericTraderProxyV1",
                         {"GenericTraderProxyV1Lib", "EventEmitterRegistry", "Expiry",
                          "DolomiteMargin"})
             c == Deploy("SignedOperationProxy", {"DolomiteMargin"})
             operators == <<"BorrowPositionProxyV1", "BorrowPositionProxyV2",
                            "DepositWithdrawalProxy", "Expiry",
                            "GenericTraderProxyV1", "TransferProxy">>
             WithLib == WithExpiry \cup {"GenericTraderProxyV1Lib"}
  <1>1. Brings(<<g>>, WithRegistry, WithRegistry)
    BY GetsBring DEF GetBrings
  <1>2. Brings(DeployAll(names, {"DolomiteMargin"}), WithRegistry, WithExpiry)
    <2>1. IsPlan(names) /\ Len(names) = 6
      BY DEF IsPlan
    <2>2. \A i \in 1 .. 6 : i = 1 \/ i = 2 \/ i = 3 \/ i = 4 \/ i = 5 \/ i = 6
      OBVIOUS
    <2>3. \A i \in 1 .. 6 : NeedsOf(names[i]) = {"DolomiteMargin"}
      BY <2>2 DEF NeedsOf
    <2>4. names[5] = "EventEmitterRegistry" /\ names[6] = "Expiry"
      OBVIOUS
    <2> HIDE DEF names
    <2>5. {"DolomiteMargin"} \subseteq WithRegistry
      BY DEF WithRegistry, Core
    <2>6. \A x \in WithExpiry :
            x \in WithRegistry \/ \E i \in 1 .. Len(names) : names[i] = x
      BY <2>1, <2>4 DEF WithExpiry
    <2> QED BY <2>1, <2>3, <2>5, <2>6, AllBring
  <1>3. Brings(<<a>>, WithExpiry, WithLib)
    <2>1. NeedsOf("GenericTraderProxyV1Lib") = {}
      BY DEF NeedsOf
    <2> QED BY <2>1, LinkedBrings
  <1>4. Brings(<<b>>, WithLib, WithLib)
    <2>1. NeedsOf("GenericTraderProxyV1")
            = {"GenericTraderProxyV1Lib", "EventEmitterRegistry", "Expiry", "DolomiteMargin"}
      BY DEF NeedsOf
    <2>2. {"GenericTraderProxyV1Lib", "EventEmitterRegistry", "Expiry", "DolomiteMargin"}
            \subseteq WithLib
      BY DEF WithExpiry, WithRegistry, Core
    <2> QED BY <2>1, <2>2, LinkedBrings
  <1>5. Brings(<<c>>, WithLib, WithExpiry)
    <2>1. NeedsOf("SignedOperationProxy") = {"DolomiteMargin"}
      BY DEF NeedsOf
    <2>2. {"DolomiteMargin"} \subseteq WithLib
      BY DEF WithExpiry, WithRegistry, Core
    <2>3. WithExpiry \subseteq WithLib \cup {"SignedOperationProxy"}
      OBVIOUS
    <2> HIDE DEF WithLib
    <2> QED BY <2>1, <2>2, <2>3, LinkedBrings
  <1>6. Brings(SetAll("operator", operators), WithExpiry, WithExpiry)
    <2>1. IsPlan(operators)
      BY DEF IsPlan
    <2>2. "operator" \in EarlyKinds \ {"deploy"}
      BY DEF EarlyKinds
    <2> HIDE DEF operators
    <2> QED BY <2>1, <2>2, SettingsBring
  <1>7. DeploySecondLayer
          = ((<<g>> \o DeployAll(names, {"DolomiteMargin"})) \o <<a, b, c>>)
              \o SetAll("operator", operators)
    BY DEF DeploySecondLayer
  <1> HIDE DEF g, names, a, b, c, operators, WithLib
  <1>8. Brings(<<b, c>>, WithLib, WithExpiry)
    BY <1>4, <1>5, TwoSteps, InPlace
  <1>9. Brings(<<a, b, c>>, WithExpiry, WithExpiry)
    BY <1>3, <1>8, ThreeSteps, InPlace
  <1>10. Brings(<<g>> \o DeployAll(names, {"DolomiteMargin"}), WithRegistry, WithExpiry)
    BY <1>1, <1>2, InTurn
  <1>11. Brings((<<g>> \o DeployAll(names, {"DolomiteMargin"})) \o <<a, b, c>>,
                WithRegistry, WithExpiry)
    BY <1>9, <1>10, InTurn
  <1>12. Brings(((<<g>> \o DeployAll(names, {"DolomiteMargin"})) \o <<a, b, c>>)
                  \o SetAll("operator", operators), WithRegistry, WithExpiry)
    BY <1>6, <1>11, InTurn
  <1> QED BY <1>7, <1>12

LEMMA LiquidatorsBring == Brings(DeployLiquidators, WithExpiry, WithExpiry)
  <1> DEFINE needs == {"DolomiteMargin", "Expiry", "LiquidatorAssetRegistry"}
             g == Get(needs)
  <1>1. Brings(<<g>>, WithExpiry, WithExpiry)
    BY GetsBring DEF GetBrings
  <1>2. IsPlan(Liquidators) /\ Len(Liquidators) = 3
    BY DEF Liquidators, IsPlan
  <1>3. \A i \in 1 .. 3 : NeedsOf(Liquidators[i]) = needs
    <2>1. \A i \in 1 .. 3 : i = 1 \/ i = 2 \/ i = 3
      OBVIOUS
    <2> QED BY <2>1 DEF NeedsOf, Liquidators
  <1>4. needs \subseteq WithExpiry
    BY DEF WithExpiry, WithRegistry, Core
  <1>5. "operator" \in EarlyKinds \ {"deploy"}
    BY DEF EarlyKinds
  <1>6. DeployLiquidators
          = (<<g>> \o DeployAll(Liquidators, needs)) \o SetAll("operator", Liquidators)
    BY DEF DeployLiquidators
  <1> HIDE DEF g, needs
  <1>7. Brings(DeployAll(Liquidators, needs), WithExpiry, WithExpiry)
    BY <1>2, <1>3, <1>4, AllBring
  <1>8. Brings(<<g>> \o DeployAll(Liquidators, needs), WithExpiry, WithExpiry)
    BY <1>1, <1>7, InTurn
  <1>9. Brings(SetAll("operator", Liquidators), WithExpiry, WithExpiry)
    BY <1>2, <1>5, SettingsBring
  <1> QED BY <1>6, <1>8, <1>9, InTurn

LEMMA SetupBrings ==
  ASSUME NEW n, NEW D
  PROVE  Brings(SetupProtocol(n), D, D)
  <1> DEFINE g == Get({"Expiry", "DolomiteMargin"})
             t == Set("trader", "Expiry")
             h == Get({"ChainlinkPriceOracleV1", "AlwaysZeroInterestSetter"})
             k == Get({"DepositWithdrawalProxy"})
             p == Set("payable", "WETH")
             markets == SetAll("market", Tokens(n))
             more == IF Tokens(n) = <<>> THEN <<>> ELSE (<<h>> \o markets) \o <<k, p>>
  <1>1. Brings(<<g>>, D, D) /\ Brings(<<h>>, D, D) /\ Brings(<<k>>, D, D)
    BY GetsBring DEF GetBrings
  <1>2. Brings(<<t>>, D, D) /\ Brings(<<p>>, D, D)
    BY SetBrings DEF EarlyKinds
  <1>3. Brings(markets, D, D)
    <2>1. IsPlan(Tokens(n))
      <3>1. /\ IsPlan(<<"WETH", "DAI", "USDC", "LINK", "WBTC", "USDT">>)
            /\ IsPlan(<<"WETH">>) /\ IsPlan(<<>>)
        BY NoStep, OneStep DEF IsPlan
      <3> QED BY <3>1 DEF Tokens
    <2>2. "market" \in EarlyKinds \ {"deploy"}
      BY DEF EarlyKinds
    <2> QED BY <2>1, <2>2, SettingsBring
  <1>4. SetupProtocol(n) = <<g, t>> \o more
    BY DEF SetupProtocol
  <1> HIDE DEF g, t, h, k, p, markets
  <1>5. Brings(<<g, t>>, D, D) /\ Brings(<<k, p>>, D, D)
    BY <1>1, <1>2, TwoSteps, InPlace
  <1>6. Brings(<<h>> \o markets, D, D)
    BY <1>1, <1>3, InTurn
  <1>7. Brings((<<h>> \o markets) \o <<k, p>>, D, D)
    BY <1>5, <1>6, InTurn
  <1>8. Brings(more, D, D)
    BY <1>7, NoneBring
  <1> HIDE DEF more
  <1> QED BY <1>4, <1>5, <1>8, InTurn

LEMMA LayersBring ==
  ASSUME NEW n
  PROVE  Brings(Layers(n), {}, WithExpiry)
  <1> DEFINE m == Deploy("Migrations", {})
  <1>1. Brings(<<m>>, {}, {})
    <2>1. NeedsOf("Migrations") = {}
      BY DEF NeedsOf
    <2> QED BY <2>1, LinkedBrings
  <1>2. Brings(DeployActionLibraries, {}, Libraries)
    BY ActionLibrariesBring
  <1>3. /\ Brings(DeployInterestSetters, WithRegistry, WithRegistry)
        /\ Brings(DeployPriceOracles, WithRegistry, WithRegistry)
    BY InterestSettersBring, PriceOraclesBring DEF WithRegistry, Core
  <1>4. Layers(n)
          = (((((((<<m>> \o DeployActionLibraries) \o DeployCoreLibraries)
                   \o DeployCore(n)) \o DeployMultiCall(n)) \o DeployInterestSetters)
                \o DeployPriceOracles) \o DeploySecondLayer) \o DeployLiquidators
    BY DEF Layers
  <1> HIDE DEF m
  <1>5. Brings((<<m>> \o DeployActionLibraries) \o DeployCoreLibraries, {}, CoreLibraries)
    BY <1>1, <1>2, CoreLibrariesBring, InTurn
  <1>6. Brings(((<<m>> \o DeployActionLibraries) \o DeployCoreLibraries)
                 \o DeployCore(n), {}, Core)
    BY <1>5, CoreBrings, InTurn
  <1>7. Brings((((<<m>> \o DeployActionLibraries) \o DeployCoreLibraries)
                  \o DeployCore(n)) \o DeployMultiCall(n), {}, WithRegistry)
    BY <1>6, MultiCallBrings, InTurn
  <1>8. Brings((((((<<m>> \o DeployActionLibraries) \o DeployCoreLibraries)
                   \o DeployCore(n)) \o DeployMultiCall(n)) \o DeployInterestSetters)
                 \o DeployPriceOracles, {}, WithRegistry)
    BY <1>3, <1>7, InTurn
  <1>9. Brings(((((((<<m>> \o DeployActionLibraries) \o DeployCoreLibraries)
                    \o DeployCore(n)) \o DeployMultiCall(n)) \o DeployInterestSetters)
                  \o DeployPriceOracles) \o DeploySecondLayer, {}, WithExpiry)
    BY <1>8, SecondLayerBrings, InTurn
  <1> QED BY <1>4, <1>9, LiquidatorsBring, InTurn

\* Every deployment comes after those it needs, and the transfer of ownership
\* after everything else.
WellPlanned(s) ==
  /\ IsPlan(s) /\ Len(s) >= 1
  /\ \A i \in 1 .. Len(s) :
       /\ s[i].do \in EarlyKinds \cup {"owner"}
       /\ s[i].do = "owner" => i = Len(s)
       /\ s[i].do = "deploy" =>
            /\ s[i].needs = NeedsOf(s[i].name)
            /\ \A x \in s[i].needs : CreatedBefore(s, i, x)

(***************************************************************************)
(* The migrations of every network, also of those the code has no names    *)
(* for, are in an order in which nothing is missing.                       *)
(***************************************************************************)
LEMMA MigrationsAreWellPlanned == \A n : WellPlanned(Migrations(n))
  <1> TAKE n
  <1> DEFINE p == Layers(n) \o SetupProtocol(n)
             t == Ownership(n)
             u == p \o t
  <1>1. Brings(p, {}, WithExpiry)
    BY LayersBring, SetupBrings, InTurn
  <1>2. /\ IsPlan(t)
        /\ \A i \in 1 .. Len(t) :
             /\ t[i].do \in {"get", "owner"}
             /\ t[i].do = "owner" => i = Len(t)
    <2> DEFINE g == Get({"DolomiteMargin"})
               o == Set("owner", "DelayedMultiSig")
    <2>1. g.do = "get" /\ o.do = "owner"
      BY DEF Get, Set
    <2>2. t \in {<<>>, <<g, o>>}
      BY DEF Ownership
    <2> HIDE DEF g, o, t
    <2>3. CASE t = <<>>
      BY <2>3, NoStep
    <2>4. CASE t = <<g, o>>
      <3>1. IsPlan(t) /\ Len(t) = 2 /\ t[1] = g /\ t[2] = o
        BY <2>4 DEF IsPlan
      <3>2. \A i \in 1 .. 2 : i = 1 \/ i = 2
        OBVIOUS
      <3> QED BY <2>1, <3>1, <3>2
    <2> QED BY <2>2, <2>3, <2>4
  <1>3. Migrations(n) = u
    BY DEF Migrations
  <1> HIDE DEF p, t
  <1>4. InOrder(p, {}) /\ IsPlan(p) /\ Created(p, "Expiry")
    BY <1>1 DEF Brings, InOrder, WithExpiry
  <1>5. Joins(u, p, t)
    BY <1>2, <1>4, PlansJoin
  <1>6. Len(p) \in Nat /\ Len(p) >= 1 /\ Len(t) \in Nat
    BY <1>2, <1>4, PlanHasSteps DEF Created, CreatedBefore
  <1> HIDE DEF u
  <1>7. IsPlan(u) /\ Len(u) = Len(p) + Len(t)
    BY <1>5 DEF Joins
  <1>8. ASSUME NEW i \in 1 .. Len(u)
        PROVE  /\ u[i].do \in EarlyKinds \cup {"owner"}
               /\ u[i].do = "owner" => i = Len(u)
               /\ u[i].do = "deploy" =>
                    /\ u[i].needs = NeedsOf(u[i].name)
                    /\ \A x \in u[i].needs : CreatedBefore(u, i, x)
    <2>1. CASE i \in 1 .. Len(p)
      <3>1. u[i] = p[i]
        BY <1>5, <2>1 DEF Joins
      <3>2. \A x : CreatedBefore(p, i, x) => CreatedBefore(u, i, x)
        BY <1>5, <1>6, <1>7 DEF Joins, CreatedBefore
      <3>3. /\ p[i].do \in EarlyKinds
            /\ p[i].do = "deploy" =>
                 /\ p[i].needs = NeedsOf(p[i].name)
                 /\ \A x \in p[i].needs : CreatedBefore(p, i, x)
        BY <1>4, <2>1 DEF InOrder
      <3>4. "owner" \notin EarlyKinds
        BY DEF EarlyKinds
      <3> QED BY <3>1, <3>2, <3>3, <3>4
    <2>2. CASE i > Len(p)
      <3> DEFINE j == i - Len(p)
      <3>1. j \in 1 .. Len(t) /\ i = Len(p) + j
        BY <1>6, <1>7, <2>2
      <3>2. u[i] = t[j]
        BY <1>5, <3>1 DEF Joins
      <3>3. t[j].do \in {"get", "owner"} /\ (t[j].do = "owner" => j = Len(t))
        BY <1>2, <3>1
      <3> HIDE DEF j
      <3>4. u[i].do = "owner" => i = Len(u)
        BY <1>7, <3>1, <3>2, <3>3
      <3> QED BY <3>2, <3>3, <3>4 DEF EarlyKinds
    <2> QED BY <1>6, <2>1, <2>2
  <1> QED BY <1>3, <1>6, <1>7, <1>8 DEF WellPlanned

-----------------------------------------------------------------------------
(* The invariant                                                           *)

Settings == {"operator", "trader", "sentinel", "market"}

IsDone(step, has, set) ==
  /\ step.do = "deploy" => step.name \in has
  /\ step.do \in Settings => step.name \in set[step.do]

DoneBefore(s, k, has, set) ==
  \A i \in 1 .. Len(s) : i < k => IsDone(s[i], has, set)

RecordsHold(records, has) ==
  /\ records \in [Names -> {"absent", "listed", "recorded"}]
  /\ \A x \in Names : records[x] = "recorded" => x \in has

SettingsOf(s) ==
  LET those == SUBSET {s[i].name : i \in 1 .. Len(s)}
  IN  [operator : those, trader : those, sentinel : those, market : those,
       payable : those, owner : those]

\* What has code, and what a crash has left behind, is linked to what has code.
Linked(has, coming) == \A x \in has \cup coming : NeedsOf(x) \subseteq has

DeploymentIsSound(s, k, where, read, has) ==
  where # "start" =>
    /\ k # 0 /\ s[k].do = "deploy"
    /\ RecordsHold(read, has)
    /\ where \in {"mined", "found"} => s[k].name \in has

HandedOverLast(s, has, set) ==
  set.owner # {} => s[Len(s)].do = "owner" /\ DoneBefore(s, Len(s), has, set)

(***************************************************************************)
(* Whatever the run has passed is done, records and copies of them are of  *)
(* what has code, and ownership has gone only where all was done.          *)
(***************************************************************************)
DeploymentInv ==
  /\ network \in Networks
  /\ at \in 0 .. Len(Steps)
  /\ margin \in SettingsOf(Steps)
  /\ RecordsHold(json, code)
  /\ copy = NoCopy \/ RecordsHold(copy, code)
  /\ Linked(code, pool)
  /\ DeploymentIsSound(Steps, at, phase, file, code)
  /\ DoneBefore(Steps, at, code, margin)
  /\ HandedOverLast(Steps, code, margin)

LEMMA StepsAreWellPlanned ==
  ASSUME network \in Networks
  PROVE  WellPlanned(Steps) /\ Len(Steps) \in Nat /\ Len(Steps) >= 1
  <1>1. Steps = Migrations(network)
    BY DEF Steps, StepsOf
  <1> QED BY <1>1, MigrationsAreWellPlanned, PlanHasSteps DEF WellPlanned

LEMMA InvInitially ==
  ASSUME Init
  PROVE  DeploymentInv
  <1>1. network \in Networks /\ at = 0 /\ phase = "start" /\ copy = NoCopy
    BY DEF Init
  <1>2. Len(Steps) \in Nat
    BY <1>1, StepsAreWellPlanned
  <1>3. RecordsHold(json, code)
    <2>1. PICK new \in NewNames :
            json = [x \in Names |-> IF x \in new THEN "absent" ELSE "listed"]
      BY DEF Init
    <2> QED BY <2>1 DEF RecordsHold
  <1>4. margin \in SettingsOf(Steps) /\ margin.owner = {}
    BY DEF Init, SettingsOf
  <1>5. Linked(code, pool)
    BY DEF Init, Linked
  <1> QED BY <1>1, <1>2, <1>3, <1>4, <1>5
       DEF DeploymentInv, DeploymentIsSound, DoneBefore, HandedOverLast

\* What has code keeps it, and what is set stays set.
LEMMA DoneStays ==
  ASSUME NEW s, NEW k, NEW has, NEW set, NEW more, NEW grown,
         DoneBefore(s, k, has, set), has \subseteq more,
         \A x \in Settings : set[x] \subseteq grown[x]
  PROVE  DoneBefore(s, k, more, grown)
  BY DEF DoneBefore, IsDone

LEMMA RecordsStay ==
  ASSUME NEW records, NEW has, NEW more, RecordsHold(records, has), has \subseteq more
  PROVE  RecordsHold(records, more)
  BY DEF RecordsHold

-----------------------------------------------------------------------------
(* The steps                                                               *)

LEMMA StepIsPlanned ==
  ASSUME DeploymentInv, Running
  PROVE  /\ at \in 1 .. Len(Steps) /\ Len(Steps) \in Nat /\ Step = Steps[at]
         /\ WellPlanned(Steps)
         /\ Step.name \in {Steps[i].name : i \in 1 .. Len(Steps)}
  BY StepsAreWellPlanned DEF DeploymentInv, Running, Step

(***************************************************************************)
(* A run that goes on leaves a step done.                                  *)
(***************************************************************************)
LEMMA GoOnKeeps ==
  ASSUME DeploymentInv, Running, GoOn, network' = network, code' = code,
         IsDone(Step, code, margin'),
         \A x \in Settings : margin[x] \subseteq margin'[x]
  PROVE  /\ at' \in 0 .. Len(Steps)
         /\ DoneBefore(Steps, at', code, margin')
  <1>1. DoneBefore(Steps, at, code, margin')
    BY DoneStays DEF DeploymentInv
  <1>2. CASE at = Len(Steps)
    <2>1. at' = 0
      BY <1>2 DEF GoOn
    <2> QED BY <2>1, StepIsPlanned DEF DoneBefore
  <1>3. CASE at # Len(Steps)
    <2>1. at' = at + 1
      BY <1>3 DEF GoOn
    <2> QED BY <1>1, <1>3, <2>1, StepIsPlanned DEF DoneBefore
  <1> QED BY <1>2, <1>3

LEMMA RunKeeps ==
  ASSUME DeploymentInv, Run
  PROVE  DeploymentInv'
  <1>1. UNCHANGED <<network, json, code, margin, pool, file, copy>> /\ at' = 1
        /\ phase' = "start" /\ Steps' = Steps
    BY DEF Run, Steps
  <1>2. Len(Steps) \in Nat /\ Len(Steps) >= 1
    BY StepsAreWellPlanned DEF DeploymentInv
  <1>3. DoneBefore(Steps, 1, code, margin)
    BY DEF DoneBefore
  <1>4. DeploymentIsSound(Steps, 1, "start", file, code)
    BY DEF DeploymentIsSound
  <1> QED BY <1>1, <1>2, <1>3, <1>4 DEF DeploymentInv

\* A run that goes on or stops, and has written nothing but settings.
LEMMA EndsKeep ==
  ASSUME DeploymentInv, network' = network, code' = code, pool' = pool, copy' = copy,
         RecordsHold(json', code), margin' \in SettingsOf(Steps),
         HandedOverLast(Steps, code, margin'), phase' = "start",
         at' \in 0 .. Len(Steps), DoneBefore(Steps, at', code, margin')
  PROVE  DeploymentInv'
  <1>1. Steps' = Steps
    BY DEF Steps
  <1>2. DeploymentIsSound(Steps, at', phase', file', code)
    BY DEF DeploymentIsSound
  <1> QED BY <1>1, <1>2 DEF DeploymentInv

LEMMA StopKeeps ==
  ASSUME DeploymentInv, NEW why, Stop(why),
         UNCHANGED <<network, json, code, margin, pool, copy>>
  PROVE  DeploymentInv'
  <1>1. at' = 0 /\ phase' = "start"
    BY DEF Stop
  <1>2. at' \in 0 .. Len(Steps) /\ DoneBefore(Steps, at', code, margin')
    BY <1>1, StepsAreWellPlanned DEF DeploymentInv, DoneBefore
  <1> QED BY <1>1, <1>2, EndsKeep DEF DeploymentInv

LEMMA PassKeeps ==
  ASSUME DeploymentInv, Running, GoOn, IsDone(Step, code, margin),
         RecordsHold(json', code), UNCHANGED <<network, code, margin, pool, copy>>
  PROVE  DeploymentInv'
  <1>1. at' \in 0 .. Len(Steps) /\ DoneBefore(Steps, at', code, margin')
    BY GoOnKeeps
  <1>2. phase' = "start"
    BY DEF GoOn
  <1> QED BY <1>1, <1>2, EndsKeep DEF DeploymentInv

LEMMA BeginDeployKeeps ==
  ASSUME DeploymentInv, BeginDeploy
  PROVE  DeploymentInv'
  <1>1. Running /\ Step.do = "deploy"
        /\ UNCHANGED <<network, json, code, margin, copy>>
    BY DEF BeginDeploy
  <1>2. CASE Recorded(Step.name)
    <2>1. GoOn /\ pool' = pool
      BY <1>2 DEF BeginDeploy
    <2>2. Step.name \in Names
      <3>1. at \in DOMAIN StepsOf[network] /\ StepsOf[network][at].do = "deploy"
            /\ Step.name = StepsOf[network][at].name /\ network \in Networks
        BY <1>1, StepIsPlanned, PlanHasSteps DEF Steps, Step, DeploymentInv, WellPlanned
      <3>2. Step.name \in NamesOf[network]
        BY <3>1 DEF NamesOf
      <3> QED BY <3>1, <3>2 DEF Names
    <2>3. IsDone(Step, code, margin)
      BY <1>1, <1>2, <2>2 DEF Recorded, DeploymentInv, RecordsHold, IsDone, Settings
    <2>4. RecordsHold(json', code)
      BY <1>1 DEF DeploymentInv
    <2> QED BY <1>1, <2>1, <2>3, <2>4, PassKeeps
  <1>3. CASE ~Recorded(Step.name)
    <2>1. /\ file' = json /\ at' = at /\ pool' = pool
          /\ phase' = (IF Step.name \in code THEN "found" ELSE "sent")
      BY <1>3 DEF BeginDeploy
    <2>2. Steps' = Steps
      BY <1>1 DEF Steps
    <2>3. DeploymentIsSound(Steps, at, phase', json, code)
      BY <1>1, <2>1 DEF DeploymentIsSound, DeploymentInv, Running, Step
    <2> QED BY <1>1, <2>1, <2>2, <2>3 DEF DeploymentInv
  <1> QED BY <1>2, <1>3

(***************************************************************************)
(* What a step deploys is linked to what the steps before have deployed.   *)
(***************************************************************************)
LEMMA NeedsAreMet ==
  ASSUME DeploymentInv, Running, Step.do = "deploy"
  PROVE  NeedsOf(Step.name) \subseteq code
  <1>1. /\ Step.needs = NeedsOf(Step.name)
        /\ \A x \in Step.needs : CreatedBefore(Steps, at, x)
    BY StepIsPlanned DEF WellPlanned
  <1>2. DoneBefore(Steps, at, code, margin)
    BY DEF DeploymentInv
  <1> QED BY <1>1, <1>2 DEF CreatedBefore, DoneBefore, IsDone

\* More code, with what it is linked to.
LEMMA MoreCodeKeeps ==
  ASSUME DeploymentInv, NEW x, NeedsOf(x) \subseteq code, code' = code \cup {x},
         UNCHANGED <<network, json, margin, copy>>, at' = at, pool' \subseteq pool,
         DeploymentIsSound(Steps, at, phase', file', code')
  PROVE  DeploymentInv'
  <1>1. Steps' = Steps
    BY DEF Steps
  <1>2. RecordsHold(json, code') /\ (copy = NoCopy \/ RecordsHold(copy, code'))
    BY RecordsStay DEF DeploymentInv
  <1>3. Linked(code', pool')
    BY DEF DeploymentInv, Linked
  <1>4. DoneBefore(Steps, at, code', margin)
    BY DoneStays DEF DeploymentInv
  <1>5. HandedOverLast(Steps, code', margin)
    BY DoneStays DEF DeploymentInv, HandedOverLast
  <1> QED BY <1>1, <1>2, <1>3, <1>4, <1>5 DEF DeploymentInv

LEMMA Create3DeployKeeps ==
  ASSUME DeploymentInv, Create3Deploy
  PROVE  DeploymentInv'
  <1>1. Running /\ phase = "sent" /\ UNCHANGED <<network, json, margin, pool, copy>>
    BY DEF Create3Deploy
  <1>2. Step.do = "deploy" /\ RecordsHold(file, code)
    BY <1>1 DEF DeploymentInv, DeploymentIsSound, Step
  <1>3. CASE Step.name \in code
    BY <1>1, <1>3, StopKeeps DEF Create3Deploy
  <1>4. CASE Step.name \notin code
    <2>1. code' = code \cup {Step.name} /\ phase' = "mined" /\ at' = at /\ file' = file
      BY <1>4 DEF Create3Deploy
    <2>2. NeedsOf(Step.name) \subseteq code
      BY <1>1, <1>2, NeedsAreMet
    <2>3. RecordsHold(file, code')
      BY <1>2, <2>1, RecordsStay
    <2>4. DeploymentIsSound(Steps, at, phase', file', code')
      BY <1>1, <1>2, <2>1, <2>3 DEF DeploymentIsSound, Running, Step
    <2> QED BY <1>1, <2>1, <2>2, <2>4, MoreCodeKeeps
  <1> QED BY <1>3, <1>4

LEMMA RecordKeeps ==
  ASSUME DeploymentInv, Record
  PROVE  DeploymentInv'
  <1>1. /\ Running /\ Step.do = "deploy" /\ phase \in {"mined", "found"}
        /\ UNCHANGED <<network, code, margin, pool, copy>>
    BY DEF Record, MayRecord
  <1>2. RecordsHold(file, code) /\ Step.name \in code
    BY <1>1 DEF DeploymentInv, DeploymentIsSound, Step
  <1>3. CASE HasEntry(Step.name)
    <2>1. json' = [file EXCEPT ![Step.name] = "recorded"] /\ GoOn
      BY <1>3 DEF Record
    <2>2. RecordsHold(json', code)
      BY <1>2, <2>1 DEF RecordsHold
    <2>3. IsDone(Step, code, margin)
      BY <1>1, <1>2 DEF IsDone, Settings
    <2> QED BY <1>1, <2>1, <2>2, <2>3, PassKeeps
  <1>4. CASE ~HasEntry(Step.name)
    BY <1>1, <1>4, StopKeeps DEF Record
  <1> QED BY <1>3, <1>4

LEMMA GetContractKeeps ==
  ASSUME DeploymentInv, GetContract
  PROVE  DeploymentInv'
  <1>1. /\ Running /\ Step.do = "get" /\ UNCHANGED <<network, json, code, margin, pool, copy>>
        /\ (GoOn \/ Stop("threw"))
    BY DEF GetContract
  <1>2. IsDone(Step, code, margin) /\ RecordsHold(json', code)
    BY <1>1 DEF IsDone, Settings, DeploymentInv
  <1> QED BY <1>1, <1>2, PassKeeps, StopKeeps

LEMMA ThrowKeeps ==
  ASSUME DeploymentInv, Throw
  PROVE  DeploymentInv'
  BY StopKeeps DEF Throw

(***************************************************************************)
(* Ownership is transferred in the last step, past all the others.         *)
(***************************************************************************)
LEMMA ConfigureKeeps ==
  ASSUME DeploymentInv, Configure
  PROVE  DeploymentInv'
  <1>1. /\ Running /\ Step.do \in Settings \cup {"owner"}
        /\ UNCHANGED <<network, json, code, pool, copy>>
    BY DEF Configure, Settings
  <1>2. RecordsHold(json', code)
    BY <1>1 DEF DeploymentInv
  <1>3. CASE ~NeedsSetting(Step.do)
    <2>1. GoOn /\ margin' = margin
      BY <1>3 DEF Configure
    <2>2. IsDone(Step, code, margin)
      BY <1>1, <1>3 DEF NeedsSetting, IsSet, IsDone, Settings
    <2> QED BY <1>1, <1>2, <2>1, <2>2, PassKeeps
  <1>4. CASE NeedsSetting(Step.do) /\ ~IsOwner
    BY <1>1, <1>4, StopKeeps DEF Configure
  <1>5. CASE NeedsSetting(Step.do) /\ IsOwner
    <2>1. margin' = [margin EXCEPT ![Step.do] = @ \cup {Step.name}] /\ GoOn
      BY <1>5 DEF Configure
    <2>2. Step.name \in {Steps[i].name : i \in 1 .. Len(Steps)}
      BY <1>1, StepIsPlanned
    <2>3. margin \in SettingsOf(Steps)
      BY DEF DeploymentInv
    <2>4. /\ margin' \in SettingsOf(Steps)
          /\ Step.name \in margin'[Step.do]
          /\ \A x \in Settings : margin[x] \subseteq margin'[x]
          /\ Step.do # "owner" => margin'.owner = margin.owner
      BY <1>1, <2>1, <2>2, <2>3 DEF SettingsOf, Settings
    <2>5. IsDone(Step, code, margin')
      BY <1>1, <2>4 DEF IsDone, Settings
    <2>6. at' \in 0 .. Len(Steps) /\ DoneBefore(Steps, at', code, margin')
      BY <1>1, <2>1, <2>4, <2>5, GoOnKeeps
    <2>7. HandedOverLast(Steps, code, margin')
      <3>1. DoneBefore(Steps, at, code, margin')
        BY <2>4, DoneStays DEF DeploymentInv
      <3>2. CASE Step.do = "owner"
        <4>1. at = Len(Steps)
          BY <1>1, <3>2, StepIsPlanned DEF WellPlanned
        <4> QED BY <3>1, <3>2, <4>1 DEF HandedOverLast, Step
      <3>3. CASE Step.do # "owner"
        BY <1>5, <2>4, <3>3 DEF HandedOverLast, IsOwner
      <3> QED BY <3>2, <3>3
    <2>8. phase' = "start"
      BY <2>1 DEF GoOn
    <2> QED BY <1>1, <1>2, <2>4, <2>6, <2>7, <2>8, EndsKeep
  <1> QED BY <1>3, <1>4, <1>5

LEMMA PayableKeeps ==
  ASSUME DeploymentInv, InitializePayableMarket
  PROVE  DeploymentInv'
  <1>1. /\ Running /\ Step.do = "payable" /\ GoOn
        /\ UNCHANGED <<network, json, code, pool, copy>>
        /\ margin' \in {margin, [margin EXCEPT !.payable = {Step.name}]}
    BY DEF InitializePayableMarket
  <1>2. Step.name \in {Steps[i].name : i \in 1 .. Len(Steps)}
    BY <1>1, StepIsPlanned
  <1>3. margin \in SettingsOf(Steps)
    BY DEF DeploymentInv
  <1>4. /\ margin' \in SettingsOf(Steps)
        /\ \A x \in Settings : margin[x] = margin'[x]
        /\ margin'.owner = margin.owner
    BY <1>1, <1>2, <1>3 DEF SettingsOf, Settings
  <1>5. IsDone(Step, code, margin')
    BY <1>1 DEF IsDone, Settings
  <1>6. at' \in 0 .. Len(Steps) /\ DoneBefore(Steps, at', code, margin')
    BY <1>1, <1>4, <1>5, GoOnKeeps
  <1>7. HandedOverLast(Steps, code, margin')
    BY <1>4, DoneStays DEF HandedOverLast, DeploymentInv
  <1>8. phase' = "start" /\ RecordsHold(json', code)
    BY <1>1 DEF GoOn, DeploymentInv
  <1> QED BY <1>1, <1>4, <1>6, <1>7, <1>8, EndsKeep

LEMMA CrashKeeps ==
  ASSUME DeploymentInv, Crash
  PROVE  DeploymentInv'
  <1>1. /\ Running /\ at' = 0 /\ phase' = "start"
        /\ UNCHANGED <<network, json, code, margin, copy>>
        /\ pool' = (IF phase = "sent" /\ Step.name \notin code THEN {Step.name} ELSE pool)
    BY DEF Crash, Stop
  <1>2. Steps' = Steps /\ Len(Steps) \in Nat
    BY <1>1, StepsAreWellPlanned DEF Steps, DeploymentInv
  <1>3. Linked(code, pool')
    <2>1. CASE phase = "sent" /\ Step.name \notin code
      <3>1. Step.do = "deploy"
        BY <2>1 DEF DeploymentInv, DeploymentIsSound, Step
      <3>2. NeedsOf(Step.name) \subseteq code
        BY <1>1, <3>1, NeedsAreMet
      <3> QED BY <1>1, <2>1, <3>2 DEF DeploymentInv, Linked
    <2>2. CASE ~(phase = "sent" /\ Step.name \notin code)
      BY <1>1, <2>2 DEF DeploymentInv
    <2> QED BY <2>1, <2>2
  <1>4. DoneBefore(Steps, 0, code, margin)
    BY <1>2 DEF DoneBefore
  <1>5. DeploymentIsSound(Steps, 0, "start", file', code)
    BY DEF DeploymentIsSound
  <1> QED BY <1>1, <1>2, <1>3, <1>4, <1>5 DEF DeploymentInv

LEMMA MineLateKeeps ==
  ASSUME DeploymentInv, NEW name \in pool, MineLate(name)
  PROVE  DeploymentInv'
  <1>1. /\ pool' = pool \ {name} /\ code' = code \cup {name}
        /\ UNCHANGED <<network, json, margin, copy>> /\ at' = at /\ phase' = phase
        /\ file' = file
    BY DEF MineLate
  <1>2. NeedsOf(name) \subseteq code
    BY DEF DeploymentInv, Linked
  <1>3. DeploymentIsSound(Steps, at, phase', file', code')
    BY <1>1, RecordsStay DEF DeploymentInv, DeploymentIsSound
  <1> QED BY <1>1, <1>2, <1>3, MoreCodeKeeps

\* The copy was right when it was made, and code does not go away.
LEMMA OtherKeeps ==
  ASSUME DeploymentInv, OtherStep
  PROVE  DeploymentInv'
  <1>1. /\ UNCHANGED <<network, code, margin, pool, at, phase, file>>
        /\ Steps' = Steps
    BY DEF OtherStep, OtherReads, OtherRecords, Steps
  <1>2. RecordsHold(json', code) /\ (copy' = NoCopy \/ RecordsHold(copy', code))
    <2>1. CASE OtherReads
      BY <2>1 DEF OtherReads, DeploymentInv
    <2>2. ASSUME NEW name \in Names, OtherRecords(name)
          PROVE  RecordsHold(json', code) /\ copy' = NoCopy
      <3>1. RecordsHold(copy, code)
        BY <2>2 DEF OtherRecords, DeploymentInv
      <3>2. json' = [copy EXCEPT ![name] = IF @ = "absent" THEN "listed" ELSE @]
        BY <2>2 DEF OtherRecords
      <3>3. RecordsHold(json', code)
        BY <3>1, <3>2 DEF RecordsHold
      <3> QED BY <2>2, <3>3 DEF OtherRecords
    <2> QED BY <2>1, <2>2 DEF OtherStep
  <1> QED BY <1>1, <1>2 DEF DeploymentInv

LEMMA InvIsKept ==
  ASSUME DeploymentInv, [Next]_vars
  PROVE  DeploymentInv'
  <1>1. CASE RunStep
    BY <1>1, BeginDeployKeeps, Create3DeployKeeps, RecordKeeps, GetContractKeeps,
       ConfigureKeeps, PayableKeeps, ThrowKeeps DEF RunStep
  <1>2. CASE UNCHANGED vars
    <2>1. Steps' = Steps
      BY <1>2 DEF vars, Steps
    <2> QED BY <1>2, <2>1 DEF vars, DeploymentInv
  <1> QED BY <1>1, <1>2, RunKeeps, CrashKeeps, MineLateKeeps, OtherKeeps DEF Next

-----------------------------------------------------------------------------
(* What holds                                                              *)

(***************************************************************************)
(* What a run has passed is done, whatever has crashed, was mined late or  *)
(* was written over: the invariant behind the next two theorems.           *)
(***************************************************************************)
THEOREM DeploymentIsInductive == Spec => []DeploymentInv
  <1>1. Init => DeploymentInv
    BY InvInitially
  <1>2. DeploymentInv /\ [Next]_vars => DeploymentInv'
    BY InvIsKept
  <1> QED BY <1>1, <1>2, PTL DEF Spec

(***************************************************************************)
(* When the multisig owns DolomiteMargin, every contract of the network is *)
(* deployed and every setting that only the deployer could make is made.   *)
(***************************************************************************)
THEOREM HandOverIsLast == Spec => []OwnershipComesLast
  <1>1. DeploymentInv => OwnershipComesLast
    <2> SUFFICES ASSUME DeploymentInv, margin.owner # {}
                 PROVE  /\ NamesOf[network] \subseteq code
                        /\ \A i \in DOMAIN Steps :
                             Steps[i].do \in Settings =>
                               Steps[i].name \in margin[Steps[i].do]
      BY DEF OwnershipComesLast, Settings
    <2>1. /\ Steps[Len(Steps)].do = "owner"
          /\ DoneBefore(Steps, Len(Steps), code, margin)
      BY DEF DeploymentInv, HandedOverLast
    <2>2. network \in Networks /\ Len(Steps) \in Nat /\ DOMAIN Steps = 1 .. Len(Steps)
      BY StepsAreWellPlanned, PlanHasSteps DEF DeploymentInv, WellPlanned
    <2>3. \A i \in DOMAIN Steps : Steps[i].do \notin Settings \cup {"deploy"}
                                    \/ IsDone(Steps[i], code, margin)
      BY <2>1, <2>2 DEF DoneBefore, Settings
    <2>4. NamesOf[network] \subseteq code
      <3>1. NamesOf[network]
              = {Steps[i].name : i \in {j \in DOMAIN Steps : Steps[j].do = "deploy"}}
        BY <2>2 DEF NamesOf, Steps
      <3> QED BY <2>3, <3>1 DEF IsDone
    <2> QED BY <2>3, <2>4 DEF IsDone
  <1> QED BY <1>1, DeploymentIsInductive, PTL

(***************************************************************************)
(* No record and no link is ever to an address without code.               *)
(***************************************************************************)
THEOREM ReferencesHold == Spec => []NothingRefersToNothing
  <1>1. DeploymentInv => NothingRefersToNothing
    <2> SUFFICES ASSUME DeploymentInv
                 PROVE  NothingRefersToNothing
      OBVIOUS
    <2>1. WellPlanned(Steps) /\ DOMAIN Steps = 1 .. Len(Steps)
      BY StepsAreWellPlanned, PlanHasSteps DEF DeploymentInv, WellPlanned
    <2>2. \A i \in DOMAIN Steps :
            Steps[i].do = "deploy" => Steps[i].needs = NeedsOf(Steps[i].name)
      BY <2>1 DEF WellPlanned
    <2> QED BY <2>2 DEF DeploymentInv, RecordsHold, Linked, NothingRefersToNothing
  <1> QED BY <1>1, DeploymentIsInductive, PTL
=============================================================================

----------------------------- MODULE MarketSets -----------------------------
(***************************************************************************)
(* How the markets of accounts and of an operation are kept: an array and  *)
(* a map of indexes (EnumerableSet.sol), bitmaps whose least significant   *)
(* bits are taken one by one (Bits.sol, initializeCache of Storage.sol),   *)
(* and an array that is searched by halves (Cache.sol).                    *)
(*                                                                         *)
(* A bitmap is the set of its bits.  Arrays start at 1.                    *)
(***************************************************************************)
EXTENDS Integers, FiniteSets, SequencesExt

CONSTANTS
  Holders,    \* the accounts
  MaxMarkets, \* a bound
  MaxNamed,   \* a bound on the markets that an operation names
  WordBits,   \* 256, a power of 2
  Halves      \* 128, 64, ... 1

ASSUME MarketSetsAssumption ==
  /\ MaxMarkets \in Nat \ {0} /\ MaxNamed \in Nat
  /\ WordBits \in Nat \ {0, 1}
  /\ Halves \in Seq(Nat) /\ Halves # <<>>
  /\ \A i \in DOMAIN Halves :
       Halves[i] * 2 = IF i = 1 THEN WordBits ELSE Halves[i - 1]
  /\ Last(Halves) = 1

VARIABLES
  values, indexOf, \* per account its set: the array and the map
  numMarkets,
  cache,           \* the cache of the operation that runs
  loading,         \* the markets its preprocessing has still to look at
  answer           \* the last call and what it returned

marketSetsVars == <<values, indexOf, numMarkets, cache, loading, answer>>

AllMarkets == 0 .. MaxMarkets - 1
NotFound == -1
NoAnswer == <<>>
NoCache == [markets |-> <<>>, marketBitmaps |-> <<>>, marketsLength |-> 0]

MarketSetsInit ==
  /\ values = [a \in Holders |-> <<>>]
  /\ indexOf = [a \in Holders |-> [m \in AllMarkets |-> 0]]
  /\ numMarkets = 1
  /\ cache = NoCache
  /\ loading = <<>>
  /\ answer = NoAnswer

-----------------------------------------------------------------------------
(* EnumerableSet.sol, as setPar calls it and otherwise.                    *)

HasValue(a, m) == indexOf[a][m] # 0

AddMarketTo(a, m) ==
  /\ IF HasValue(a, m) THEN UNCHANGED <<values, indexOf>>
     ELSE /\ values' = [values EXCEPT ![a] = Append(@, m)]
          /\ indexOf' = [indexOf EXCEPT ![a][m] = Len(values[a]) + 1]
  /\ answer' = <<"add", a, m, ~HasValue(a, m)>>
  /\ UNCHANGED <<numMarkets, cache, loading>>

\* A fault: the value that fills the hole keeps its index.
MapWithoutMove(a, m) == [indexOf[a] EXCEPT ![m] = 0]

\* The last value fills the hole; it may be the value removed itself.
MapWithout(a, m) == [indexOf[a] EXCEPT ![Last(values[a])] = indexOf[a][m], ![m] = 0]

RemoveMarketFrom(a, m) ==
  /\ IF ~HasValue(a, m) THEN UNCHANGED <<values, indexOf>>
     ELSE /\ values' = [values EXCEPT ![a] =
                          LET filled == [values[a] EXCEPT
                                           ![indexOf[a][m]] = Last(values[a])]
                          IN  Front(filled)]
          /\ indexOf' = [indexOf EXCEPT ![a] = MapWithout(a, m)]
  /\ answer' = <<"remove", a, m, HasValue(a, m)>>
  /\ UNCHANGED <<numMarkets, cache, loading>>

-----------------------------------------------------------------------------
(* Bits.sol.                                                               *)

CreateBitmaps(maxLength) == [i \in 1 .. maxLength \div WordBits + 1 |-> {}]
HasBit(bitmaps, m) == m % WordBits \in bitmaps[m \div WordBits + 1]
SetBit(bitmaps, m) == [bitmaps EXCEPT ![m \div WordBits + 1] = @ \cup {m % WordBits}]
MarketIdFromBit(i, bit) == WordBits * (i - 1) + bit

\* One half of the word at a time: the answer shrinks, or the bits are shifted.
LeastSignificantBit(bitmap) ==
  FoldLeft(LAMBDA s, half :
             IF \E bit \in s.x : bit < half THEN [s EXCEPT !.lsb = @ - half]
             ELSE [s EXCEPT !.x = {bit - half : bit \in s.x}],
           [x |-> bitmap, lsb |-> WordBits - 1], Halves).lsb

\* The loop of initializeCache over one bitmap.
MarketsInWord(bitmaps, i) ==
  LET rest[bitmap \in SUBSET (0 .. WordBits - 1)] ==
        IF bitmap = {} THEN <<>>
        ELSE LET bit == LeastSignificantBit(bitmap)
             IN  <<MarketIdFromBit(i, bit)>> \o rest[bitmap \ {bit}]
  IN  rest[bitmaps[i]]

-----------------------------------------------------------------------------
(* Cache.sol.                                                              *)

Create == [NoCache EXCEPT !.marketBitmaps = CreateBitmaps(numMarkets)]
HasMarket(m) == HasBit(cache.marketBitmaps, m)

CacheSet(c, m) ==
  [c EXCEPT !.marketBitmaps = SetBit(@, m), !.marketsLength = @ + 1]

\* The search by halves, in what is left of the array.
Search(markets, m) ==
  LET get[part \in BoundedSeq(AllMarkets, Len(markets))] ==
        LET mid == Len(part) \div 2 + 1
        IN  IF part = <<>> \/ (Len(part) = 1 /\ part[1] # m) THEN NotFound
            ELSE IF m < part[mid] THEN get[SubSeq(part, 1, mid - 1)]
            ELSE IF m > part[mid] THEN get[SubSeq(part, mid + 1, Len(part))]
            ELSE part[mid]
  IN  get[markets]

-----------------------------------------------------------------------------
(* OperationImpl.sol and Storage.sol.                                      *)

Running == cache # NoCache

\* What an operation names, then the balances of its accounts.
RunPreprocessing(named, accounts) ==
  /\ ~Running
  /\ cache' = Create
  /\ loading' = FoldLeft(LAMBDA s, a : s \o values[a], named, accounts)
  /\ answer' = <<"operate", Range(named), Range(accounts)>>
  /\ UNCHANGED <<values, indexOf, numMarkets>>

UpdateMarket ==
  /\ loading # <<>>
  /\ cache' = IF HasMarket(Head(loading)) THEN cache
              ELSE CacheSet(cache, Head(loading))
  /\ loading' = Tail(loading)
  /\ UNCHANGED <<values, indexOf, numMarkets, answer>>

\* It asserts that the bitmaps hold as many markets as were counted.
InitializeCache ==
  LET words == cache.marketBitmaps
      found == FlattenSeq([i \in DOMAIN words |-> MarketsInWord(words, i)])
  IN  /\ Running
      /\ loading = <<>> /\ cache.markets = <<>>
      /\ Len(found) = cache.marketsLength
      /\ cache' = [cache EXCEPT !.markets = found]
      /\ answer' = NoAnswer
      /\ UNCHANGED <<values, indexOf, numMarkets, loading>>

GetMarketInfo(m) ==
  /\ cache.markets # <<>>
  /\ answer' = <<"get", m, Search(cache.markets, m)>>
  /\ UNCHANGED <<values, indexOf, numMarkets, cache, loading>>

OperationReturns ==
  /\ Running /\ loading = <<>>
  /\ cache' = NoCache
  /\ answer' = NoAnswer
  /\ UNCHANGED <<values, indexOf, numMarkets, loading>>

ListMarket ==
  /\ ~Running
  /\ numMarkets < MaxMarkets
  /\ numMarkets' = numMarkets + 1
  /\ UNCHANGED <<values, indexOf, cache, loading, answer>>

\* Balances change once the cache is made, which reads them no more: here they
\* change between operations.
MarketSetsNext ==
  \/ /\ ~Running
     /\ \E a \in Holders, m \in 0 .. numMarkets - 1 :
          AddMarketTo(a, m) \/ RemoveMarketFrom(a, m)
  \/ \E named \in SeqOf(0 .. numMarkets - 1, MaxNamed),
        accounts \in {<<>>} \cup {<<a>> : a \in Holders} :
       RunPreprocessing(named, accounts)
  \/ \E m \in AllMarkets : GetMarketInfo(m)
  \/ UpdateMarket \/ InitializeCache \/ OperationReturns \/ ListMarket

MarketSetsSpec == MarketSetsInit /\ [][MarketSetsNext]_marketSetsVars

-----------------------------------------------------------------------------
(* Properties.                                                             *)

\* The arrays, maps, bitmaps and searches do what sets of markets would do:
\* every account's set is what has been added and not removed, whatever hole the
\* last value was moved into, and an operation finds each market that it names
\* or its accounts have a balance in, and no other, across words of bits.
AM == INSTANCE AccountMarkets WITH
  MarketIds <- AllMarkets,
  held   <- [a \in Holders |-> Range(values[a])],
  wanted <- IF Running
            THEN {m \in AllMarkets : m < numMarkets /\ HasMarket(m)} \cup Range(loading)
            ELSE {},
  known  <- Range(cache.markets)
ImplementsAccountMarkets == AM!Spec
=============================================================================

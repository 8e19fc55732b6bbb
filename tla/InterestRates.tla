---------------------------- MODULE InterestRates ----------------------------
(***************************************************************************)
(* The client's own arithmetic next to the contracts': the interest rates  *)
(* of Helpers.ts and Interest.ts and the interest setters under            *)
(* external/interestsetters, the conversions of DolomiteMarginMath.ts and  *)
(* those of MarginMath.                                                    *)
(*                                                                         *)
(* A BigNumber of the client is written in units of 1/Base: maxAPR, an     *)
(* index and a rate are integers here, as they are on chain.  Where the    *)
(* client keeps more decimals the number is a fraction.  A setter packs    *)
(* its coefficients into bytes and stops at the last one that is not zero. *)
(***************************************************************************)
EXTENDS MarginMath, SequencesExt

CONSTANTS
  Year,                 \* ONE_YEAR_IN_SECONDS
  InterestConstants,    \* interest-constants.json: per network, its earnings
                        \* rate and a model per market, at least for market 0
  NetworkIds,           \* the networks the client is used on
  MarketIds,            \* the markets it asks for
  ExtraData,            \* the models callers pass or compute with
  QuotedAmounts,        \* the totals lent and borrowed
  QuotedIndexes         \* the indexes amounts are converted with

ASSUME RatesAssumption ==
  /\ Year \in Nat \ {0}
  /\ \A network \in DOMAIN InterestConstants :
       0 \in DOMAIN InterestConstants[network].markets

VARIABLE figure \* what has been computed, by the client and by the contracts

NoFigure == [kind |-> "none"]
Thrown == [kind |-> "thrown"]
RatesInit == figure = NoFigure

-----------------------------------------------------------------------------
(* The client: Helpers.ts.                                                 *)

Percent == 100
Byte == 256

CoefficientsToString(coefficients) ==
  FoldRight(LAMBDA c, packed : packed * Byte + c, coefficients, 0)

\* What share of maxAPR, out of 100 * Base, a second costs.
PerSecond(result, maxAPR) == (result * maxAPR) \div (Year * Base * Percent)

\* Interest.ts does not use this one.
GetInterestPerSecondForPolynomial(maxAPR, coefficients, borrowed, supply) ==
  LET Add(s, c) ==
        [result |-> s.result + s.polynomial * c,
         polynomial |-> GetPartial(s.polynomial, borrowed, supply)]
  IN  IF borrowed = 0 THEN 0
      ELSE PerSecond(
             IF borrowed > supply THEN Base * Percent
             ELSE FoldLeft(Add, [result |-> 0, polynomial |-> Base],
                           coefficients).result,
             maxAPR)

\* A fault: the powers of the utilization grow by one, as in a polynomial.
DoubleExponentFromZero(maxAPR, coefficients, borrowed, supply) ==
  GetInterestPerSecondForPolynomial(maxAPR, coefficients, borrowed, supply)

GetInterestPerSecondForDoubleExponent(maxAPR, coefficients, borrowed, supply) ==
  LET Add(s, c) ==
        [result |-> s.result + s.polynomial * c,
         polynomial |-> GetPartial(s.polynomial, s.polynomial, Base)]
  IN  IF borrowed = 0 THEN 0
      ELSE PerSecond(
             IF borrowed > supply THEN Base * Percent
             ELSE FoldLeft(Add,
                    [result |-> Base * Head(coefficients),
                     polynomial |-> GetPartial(Base, borrowed, supply)],
                    Tail(coefficients)).result,
             maxAPR)

Tenth == Base \div 10
NinetyPercent == 9 * Tenth
InitialGoal(isStableCoin) == (Base * (IF isStableCoin THEN 4 ELSE 7)) \div 100

\* The progress to 100% is not rounded before it is added.
GetInterestPerSecondForAAVECopyCat(isStableCoin, borrowed, supply) ==
  LET goal == InitialGoal(isStableCoin)
      utilization == GetPartial(Base, borrowed, supply)
  IN  IF borrowed = 0 THEN 0
      ELSE IF supply = 0 THEN Base \div Year
      ELSE IF utilization >= Base THEN Base \div Year
      ELSE IF utilization > NinetyPercent
           THEN ((Base - goal) * (utilization - NinetyPercent) + goal * Tenth)
                  \div (Tenth * Year)
      ELSE GetPartial(goal, utilization, NinetyPercent) \div Year

(***************************************************************************)
(* The client: Interest.ts.  A market without constants has those of       *)
(* market 0, a network without constants throws.                           *)
(***************************************************************************)
GetMarketConstants(network, market) ==
  LET markets == InterestConstants[network].markets
  IN  markets[IF market \in DOMAIN markets THEN market ELSE 0]

GetEarningsRate(network) == InterestConstants[network].earningsRate

BorrowInterestRate(model, borrowed, supply) ==
  CASE model.interestRateModel = "DoubleExponent" ->
         GetInterestPerSecondForDoubleExponent(
           model.maxAPR, model.coefficients, borrowed, supply)
    [] model.interestRateModel = "AAVECopyCat" ->
         GetInterestPerSecondForAAVECopyCat(model.isStableCoin, borrowed, supply)
    [] model.interestRateModel = "AlwaysZero" -> 0

\* For any other model the rate stays undefined, and its `times` throws.
HasBorrowInterestRate(model) ==
  model.interestRateModel \in {"DoubleExponent", "AAVECopyCat", "AlwaysZero"}

\* As a fraction, in units of 1/Base: the client rounds nothing here.
SupplyInterestRate(borrowRate, earningsRate, borrowed, supply) ==
  IF borrowed < supply
  THEN [numerator |-> borrowRate * earningsRate * borrowed,
        denominator |-> Base * supply]
  ELSE [numerator |-> borrowRate * earningsRate, denominator |-> Base]

GetInterestPerSecondByMarket(network, model, borrowed, supply) ==
  IF ~(network \in DOMAIN InterestConstants /\ HasBorrowInterestRate(model))
  THEN Thrown
  ELSE LET rate == BorrowInterestRate(model, borrowed, supply)
       IN  [borrowInterestRate |-> rate,
            supplyInterestRate |->
              SupplyInterestRate(rate, GetEarningsRate(network), borrowed, supply)]

-----------------------------------------------------------------------------
(* The contracts: the setter that is deployed for a model.                 *)

OutOfGas == -1

\* The loop of PolynomialInterestSetter.
PolynomialSum(packed, borrowWei, supplyWei) ==
  LET sum[c \in Nat, polynomial \in Nat] ==
        (c % Byte) * polynomial
          + IF c < Byte THEN 0
            ELSE sum[c \div Byte, (polynomial * borrowWei) \div supplyWei]
  IN  sum[packed, Base]

\* The loop of DoubleExponentInterestSetter, which looks for a last coefficient
\* after the first one and never ends when there is none.
DoubleExponentSum(packed, borrowWei, supplyWei) ==
  LET sum[c \in Nat, polynomial \in Nat] ==
        (c % Byte) * polynomial
          + IF c < Byte THEN 0
            ELSE sum[c \div Byte, (polynomial * polynomial) \div Base]
  IN  (packed % Byte) * Base
        + sum[packed \div Byte, (Base * borrowWei) \div supplyWei]

EndsAtACoefficient(model, packed) ==
  model.interestRateModel = "DoubleExponent" => packed >= Byte

CoefficientsRate(model, borrowWei, supplyWei) ==
  LET packed == CoefficientsToString(model.coefficients)
      result == IF model.interestRateModel = "DoubleExponent"
                THEN DoubleExponentSum(packed, borrowWei, supplyWei)
                ELSE PolynomialSum(packed, borrowWei, supplyWei)
  IN  IF borrowWei = 0 THEN 0
      ELSE IF borrowWei >= supplyWei THEN model.maxAPR \div Year
      ELSE IF EndsAtACoefficient(model, packed)
           THEN (result * model.maxAPR) \div (Year * Base * Percent)
      ELSE OutOfGas

AAVECopyCatRate(isStableCoin, borrowWei, supplyWei) ==
  LET start == InitialGoal(isStableCoin)
      utilization == (borrowWei * Base) \div supplyWei
      interestToAdd ==
        ((Base - start) * (utilization - NinetyPercent)) \div Tenth
  IN  CASE borrowWei = 0 -> 0
        [] borrowWei > 0 /\ supplyWei = 0 -> Base \div Year
        [] borrowWei > 0 /\ supplyWei > 0 ->
             IF utilization >= Base THEN Base \div Year
             ELSE IF utilization > NinetyPercent
                  THEN (interestToAdd + start) \div Year
             ELSE ((start * utilization) \div NinetyPercent) \div Year

GetInterestRate(model, borrowWei, supplyWei) ==
  CASE model.interestRateModel \in {"DoubleExponent", "Polynomial"} ->
         CoefficientsRate(model, borrowWei, supplyWei)
    [] model.interestRateModel = "AAVECopyCat" ->
         AAVECopyCatRate(model.isStableCoin, borrowWei, supplyWei)
    [] model.interestRateModel = "AlwaysZero" -> 0

-----------------------------------------------------------------------------
(* The client: DolomiteMarginMath.ts, which takes a sign along.            *)

Signed(target, result) == IF target < 0 THEN -result ELSE result

ClientRoundHalfUp(target, numerator, denominator) ==
  LET value == Abs(target) * numerator
      halfUp == IF value % denominator >= (denominator - 1) \div 2 + 1
                THEN 1 ELSE 0
  IN  Signed(target, value \div denominator + halfUp)

\* dividedToIntegerBy rounds towards zero: (0 - 1) / 2 is 0, and 1 is added.
ClientRoundUp(target, numerator, denominator) ==
  LET value == Abs(target) * numerator - 1
  IN  Signed(target,
             (IF value < 0 THEN -(1 \div denominator) ELSE value \div denominator)
               + 1)

ClientWeiToPar(valueWei, index) ==
  IF valueWei < 0 THEN -ClientRoundHalfUp(-valueWei, Base, index.borrow)
  ELSE ClientRoundHalfUp(valueWei, Base, index.supply)

ClientParToWei(valuePar, index) ==
  IF valuePar < 0 THEN -ClientRoundHalfUp(-valuePar, index.borrow, Base)
  ELSE ClientRoundHalfUp(valuePar, index.supply, Base)

-----------------------------------------------------------------------------
(* What is computed: the rates of a market, a polynomial, or an amount     *)
(* converted.                                                              *)

Quote(network, model, borrowed, supply) ==
  figure' =
    [kind |-> "rate", model |-> model, borrowed |-> borrowed, supply |-> supply,
     network |-> network,
     quoted |-> GetInterestPerSecondByMarket(network, model, borrowed, supply),
     charged |-> GetInterestRate(model, borrowed, supply)]

QuoteMarket(network, market, borrowed, supply) ==
  /\ network \in DOMAIN InterestConstants
  /\ Quote(network, GetMarketConstants(network, market), borrowed, supply)

\* Of Helpers.ts, by a caller who knows the setter of the market.
QuotePolynomial(model, borrowed, supply) ==
  /\ model.interestRateModel = "Polynomial"
  /\ figure' =
       [kind |-> "polynomial",
        quoted |-> GetInterestPerSecondForPolynomial(
                     model.maxAPR, model.coefficients, borrowed, supply),
        charged |-> GetInterestRate(model, borrowed, supply)]

Convert(amount, index) ==
  figure' = [kind |-> "amount", amount |-> amount, index |-> index,
             toWei |-> ClientParToWei(amount, index),
             toPar |-> ClientWeiToPar(amount, index),
             roundedUp |-> ClientRoundUp(amount, index.supply, Base)]

RatesNext ==
  /\ figure = NoFigure
  /\ \/ \E network \in NetworkIds, borrowed, supply \in QuotedAmounts :
          \/ \E market \in MarketIds :
               QuoteMarket(network, market, borrowed, supply)
          \/ \E model \in ExtraData : Quote(network, model, borrowed, supply)
     \/ \E model \in ExtraData, borrowed, supply \in QuotedAmounts :
          QuotePolynomial(model, borrowed, supply)
     \/ \E amount \in QuotedAmounts, index \in QuotedIndexes :
          Convert(amount, index) \/ Convert(-amount, index)

-----------------------------------------------------------------------------
(* Properties.                                                             *)

\* What the contracts pay a second of suppliers' deposits: SupplyInterest, with
\* the totals already in Wei.
ChargedSupplyRate(rate, earningsRate, borrowed, supply) ==
  LET index == [borrow |-> Base, supply |-> Base, lastUpdate |-> 0]
  IN  SupplyInterest(index, rate, [borrow |-> borrowed, supply |-> supply],
                     earningsRate)

\* The rate a client shows for a market is the one the market's setter charges,
\* to the last unit, and the rate for suppliers is what they are paid before the
\* contract's two roundings.  The client may show none, and the setter may fail
\* to answer.
RatesAgree ==
  figure.kind = "rate" /\ figure.quoted # Thrown /\ figure.charged # OutOfGas =>
    /\ figure.quoted.borrowInterestRate = figure.charged
    /\ figure.supply > 0 =>
         LET shown == figure.quoted.supplyInterestRate
             paid == ChargedSupplyRate(figure.charged,
                       GetEarningsRate(figure.network),
                       figure.borrowed, figure.supply)
         IN  /\ paid * shown.denominator <= shown.numerator
             /\ shown.numerator < (paid + 2) * shown.denominator

\* Interest.ts shows no rate for the market of a polynomial setter; the function
\* of Helpers.ts computes the one that is charged.
PolynomialsAgree ==
  figure.kind = "polynomial" => figure.quoted = figure.charged

\* An amount the client converts between Par and Wei, or rounds up, is the amount
\* the contracts make of it, whatever its sign.
AmountsAgree ==
  figure.kind = "amount" =>
    /\ figure.toWei = ParToWei(figure.amount, figure.index)
    /\ figure.toPar = WeiToPar(figure.amount, figure.index)
    /\ figure.amount # 0 =>
         figure.roundedUp =
           Signed(figure.amount,
                  GetPartialRoundUp(Abs(figure.amount), figure.index.supply, Base))

\* The client computes as the contracts do.
ClientComputesAsContracts == RatesAgree /\ PolynomialsAgree /\ AmountsAgree
=============================================================================

----------------------------- MODULE MarginMath -----------------------------
(***************************************************************************)
(* The fixed-point arithmetic of DolomiteMargin: DolomiteMarginMath.sol,   *)
(* Decimal.sol and Interest.sol.  A decimal, an interest rate and an index *)
(* are integers scaled by Base (10**18 in the code).                       *)
(*                                                                         *)
(* A Par (principal) and a Wei (token amount) are a sign and a value in    *)
(* the code; here they are one integer.  Types.equals, isNegative,         *)
(* isPositive and isZero identify the two zeros, so no zero is lost.       *)
(*                                                                         *)
(* Products are not truncated: the code multiplies 128-bit values in 256   *)
(* bits under SafeMath.  The narrowing casts to128 and to112 are modelled  *)
(* by the predicates FitsUint128 and FitsUint112.                          *)
(***************************************************************************)
EXTENDS Integers

CONSTANTS
  Base,        \* the fixed-point unit: Interest.BASE and Decimal.BASE
  MaxUint128,  \* the largest value of a uint128
  MaxUint112   \* the largest value of a uint112

ASSUME MathAssumption ==
  /\ Base \in Nat \ {0}
  /\ MaxUint128 \in Nat
  /\ MaxUint112 \in Nat
  /\ Base <= MaxUint112

Abs(x) == IF x < 0 THEN -x ELSE x

FitsUint128(x) == Abs(x) <= MaxUint128
FitsUint112(x) == x <= MaxUint112

(***************************************************************************)
(* target * numerator / denominator, rounded down, up, and half up.        *)
(***************************************************************************)
GetPartial(target, numerator, denominator) ==
  (target * numerator) \div denominator

GetPartialRoundUp(target, numerator, denominator) ==
  IF target = 0 \/ numerator = 0
  THEN 0
  ELSE (target * numerator - 1) \div denominator + 1

GetPartialRoundHalfUp(target, numerator, denominator) ==
  LET result == target * numerator
      half   == (denominator - 1) \div 2 + 1
  IN  result \div denominator + (IF result % denominator >= half THEN 1 ELSE 0)

DecimalMul(target, d) == GetPartial(target, d, Base)
DecimalDiv(target, d) == GetPartial(target, Base, d)
OnePlus(d)            == d + Base

-----------------------------------------------------------------------------

(***************************************************************************)
(* A market's index: how much one unit of principal, lent or borrowed, is  *)
(* worth now.                                                              *)
(***************************************************************************)
Indexes == [borrow : Base .. MaxUint112, supply : Base .. MaxUint112,
            lastUpdate : Nat]

ParToWei(par, index) ==
  IF par >= 0 THEN GetPartialRoundHalfUp(par, index.supply, Base)
              ELSE -GetPartialRoundHalfUp(-par, index.borrow, Base)

WeiToPar(wei, index) ==
  IF wei >= 0 THEN GetPartialRoundHalfUp(wei, Base, index.supply)
              ELSE -GetPartialRoundHalfUp(-wei, Base, index.borrow)

SupplyWei(totalPar, index) == ParToWei(totalPar.supply, index)
BorrowWei(totalPar, index) == Abs(ParToWei(-totalPar.borrow, index))

NewIndex(time) == [borrow |-> Base, supply |-> Base, lastUpdate |-> time]

(***************************************************************************)
(* The share of the borrowers' interest that each unit of supply earns.    *)
(***************************************************************************)
\* A fault: suppliers earn as if all they supply were lent out.
SupplyInterestIgnoringUse(index, borrowInterest, totalPar, earningsRate) ==
  DecimalMul(borrowInterest, earningsRate)

SupplyInterest(index, borrowInterest, totalPar, earningsRate) ==
  LET supplyWei == SupplyWei(totalPar, index)
      borrowWei == BorrowWei(totalPar, index)
      earned    == DecimalMul(borrowInterest, earningsRate)
  IN  IF supplyWei = 0 THEN 0
      ELSE IF borrowWei < supplyWei
           THEN GetPartial(earned, borrowWei, supplyWei)
           ELSE earned

\* A fault: the two interests are swapped.
CalculateNewIndexSwapped(index, rate, totalPar, earningsRate, time) ==
  LET borrowInterest == rate * (time - index.lastUpdate)
      supplyInterest ==
        SupplyInterest(index, borrowInterest, totalPar, earningsRate)
  IN  [borrow     |-> GetPartial(index.borrow, supplyInterest, Base) + index.borrow,
       supply     |-> GetPartial(index.supply, borrowInterest, Base) + index.supply,
       lastUpdate |-> time]

CalculateNewIndex(index, rate, totalPar, earningsRate, time) ==
  LET borrowInterest == rate * (time - index.lastUpdate)
      supplyInterest ==
        SupplyInterest(index, borrowInterest, totalPar, earningsRate)
  IN  [borrow     |-> GetPartial(index.borrow, borrowInterest, Base) + index.borrow,
       supply     |-> GetPartial(index.supply, supplyInterest, Base) + index.supply,
       lastUpdate |-> time]

(***************************************************************************)
(* The assertion on the two interests and the casts of the new index.      *)
(***************************************************************************)
\* A fault: the new indexes are cast without a check.
NewIndexIsUnchecked(index, rate, totalPar, earningsRate, time) == TRUE

NewIndexIsValid(index, rate, totalPar, earningsRate, time) ==
  LET borrowInterest == rate * (time - index.lastUpdate)
      new == CalculateNewIndex(index, rate, totalPar, earningsRate, time)
  IN  /\ SupplyInterest(index, borrowInterest, totalPar, earningsRate)
           <= borrowInterest
      /\ FitsUint112(new.borrow)
      /\ FitsUint112(new.supply)
=============================================================================

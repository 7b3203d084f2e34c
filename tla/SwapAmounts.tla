---------------------------- MODULE SwapAmounts ----------------------------
(* The amounts of a swap: what SwapsHelper computes from the amount a user   *)
(* asks for or transfers, and what the Quantity class keeps of it.           *)
(*                                                                           *)
(* An amount is a number of grains, a grain being so small that the base     *)
(* unit of both tokens is a whole number of them: with 6 decimals on one     *)
(* side and 9 on the other, SourceUnit = 1000 and DestinationUnit = 1.       *)
(* BigNumber multiplies exactly, so the fee before rounding is the fraction  *)
(* amount * FeeNum / FeeDen; only Quantity.toString (toFixed under           *)
(* ROUND_DOWN) loses something, and it is modelled by what it loses.         *)
EXTENDS Integers

CONSTANTS FeeNum, FeeDen,       \* bridge.swapFee is the fraction FeeNum / FeeDen
          SourceUnit,           \* grains in 10^(-sourceToken.decimals)
          DestinationUnit,      \* grains in 10^(-destinationToken.decimals)
          MinSwapAmount,        \* sourceToken.minSwapAmount, in grains
          MaxSwapAmount         \* sourceToken.maxSwapAmount, in grains

\* The configuration schema admits every swapFee from 0 to 1, both included.
ASSUME SwapFeeAssumption ==
  FeeDen \in Nat \ {0} /\ FeeNum \in 0..FeeDen

\* Token decimals are non-negative, so both units are positive.
ASSUME UnitAssumption ==
  SourceUnit \in Nat \ {0} /\ DestinationUnit \in Nat \ {0}

\* The columns of the token table that hold the limits are checked to be >= 0.
ASSUME LimitAssumption ==
  MinSwapAmount \in Nat /\ MaxSwapAmount \in Nat

-----------------------------------------------------------------------------
\* Mutant: Quantity rounds up.
ToFixedUp(num, unit) ==
  unit * ((num + FeeDen * unit - 1) \div (FeeDen * unit))

(* new Quantity(num / FeeDen, decimals).toString(): the multiples of unit    *)
(* that are not above num / FeeDen, num / FeeDen being in grains.            *)
ToFixed(num, unit) == unit * (num \div (FeeDen * unit))

\* The exact fee is ExactFee(amount) / FeeDen grains.
ExactFee(amount) == amount * FeeNum

\* Mutant: the fee is not subtracted.
ExactDestinationWithFee(amount) == amount * FeeDen

\* The exact destination amount is ExactDestination(amount) / FeeDen grains.
ExactDestination(amount) == amount * FeeDen - ExactFee(amount)

\* What the swap row keeps of them.
StoredSource(amount) == ToFixed(amount * FeeDen, SourceUnit)
StoredFee(amount) == ToFixed(ExactFee(amount), SourceUnit)
StoredDestination(amount) == ToFixed(ExactDestination(amount), DestinationUnit)

\* createSwap refuses an amount outside the limits of the source token.
Acceptable(amount) == amount >= MinSwapAmount /\ amount <= MaxSwapAmount

\* recalculateSwap throws on every other amount.
Recalculable(amount) ==
  /\ amount > 0
  /\ Acceptable(amount)
  /\ ExactFee(amount) > 0

-----------------------------------------------------------------------------
(* Properties of the amounts, for one amount.                                *)

\* What toFixed under ROUND_DOWN means: the greatest multiple of the unit that is
\* not above the exact value (Quantity.toString keeps no more of it).
RoundsDown(num, unit) ==
  /\ ToFixed(num, unit) * FeeDen <= num
  /\ num < (ToFixed(num, unit) + unit) * FeeDen
  /\ ToFixed(num, unit) % unit = 0

\* The fee and the destination amount computed from an amount do not exceed it, and
\* what is rounded off is less than a base unit of either token.
NothingCreated(amount) ==
  LET kept == StoredFee(amount) + StoredDestination(amount)
  IN  /\ kept <= amount
      /\ amount < kept + SourceUnit + DestinationUnit

\* They exceed the rounded amount by less than one source unit.
OverpaidBelowUnit(amount) ==
  StoredFee(amount) + StoredDestination(amount)
    < StoredSource(amount) + SourceUnit

\* An amount that recalculateSwap takes is more than what is paid for it.
ChargedOnce(amount) == Recalculable(amount) => StoredDestination(amount) < amount

(* Every amount that createSwap or recalculateSwap accepts, and those below, *)
(* down to parts of a base unit.                                             *)
Amounts == 0..MaxSwapAmount
=============================================================================

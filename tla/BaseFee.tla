------------------------------- MODULE BaseFee -------------------------------
(***************************************************************************)
(* The base fee rule of BerachainChainSpec (src/chainspec/mod.rs).         *)
(*                                                                         *)
(* The fee of a block is a function of its parent's header alone: both the *)
(* change denominator and the floor are looked up at the PARENT's          *)
(* timestamp, so that a fork's floor first binds the block after the fork  *)
(* block.                                                                  *)
(***************************************************************************)
EXTENDS Hardforks

CONSTANTS
  GasLimit,               \* gas limit of every block (no gas-limit voting)
  Elasticity,             \* elasticity_multiplier, the same under every fork
  LondonDenominator,      \* max_change_denominator before Prague1
  Prague1Denominator,     \* base_fee_change_denominator of the genesis file
  Prague1MinimumBaseFee,  \* floors, each from its fork's genesis section
  Prague2MinimumBaseFee,
  Osaka1MinimumBaseFee

\* The genesis parser refuses a zero denominator; a gas limit below the
\* elasticity would make the gas target zero (the header's minimum is 5000).
ASSUME FeeAssumption ==
  /\ Elasticity \in Nat \ {0}
  /\ GasLimit \in Nat /\ GasLimit >= Elasticity
  /\ LondonDenominator \in Nat \ {0}
  /\ Prague1Denominator \in Nat \ {0}
  /\ Prague1MinimumBaseFee \in Nat
  /\ Prague2MinimumBaseFee \in Nat
  /\ Osaka1MinimumBaseFee \in Nat

AtLeast(a, b) == IF a < b THEN b ELSE a

\* The last entry of base_fee_params whose fork is active; Prague2's entry
\* repeats Prague1's denominator.
MaxChangeDenominator(s, t) ==
  IF IsPrague1Active(s, t) \/ IsPrague2Active(s, t)
    THEN Prague1Denominator
    ELSE LondonDenominator

(***************************************************************************)
(* The EIP-1559 rule (alloy's calc_next_block_base_fee): up by at least    *)
(* one when more than the target was used, down by a rounded-down share    *)
(* when less was.                                                          *)
(***************************************************************************)
CalcNextBlockBaseFee(gasUsed, gasLimit, baseFee, denominator) ==
  LET target == gasLimit \div Elasticity
      share(excess) == (baseFee * excess) \div (target * denominator)
  IN  CASE gasUsed = target -> baseFee
        [] gasUsed > target -> baseFee + AtLeast(1, share(gasUsed - target))
        [] gasUsed < target -> AtLeast(0, baseFee - share(target - gasUsed))

\* Later forks supersede earlier ones; Prague3, Prague4 and Osaka keep
\* Prague2's floor, and there is none before Prague1.
MinimumBaseFee(s, t) ==
  CASE IsOsaka1Active(s, t) -> Osaka1MinimumBaseFee
    [] IsPrague2Active(s, t) /\ ~IsOsaka1Active(s, t) -> Prague2MinimumBaseFee
    [] IsPrague1Active(s, t) /\ ~IsPrague2Active(s, t) /\ ~IsOsaka1Active(s, t)
         -> Prague1MinimumBaseFee
    [] OTHER -> 0

NextBlockBaseFee(s, parent) ==
  AtLeast(CalcNextBlockBaseFee(parent.gasUsed, GasLimit, parent.baseFee,
                               MaxChangeDenominator(s, parent.timestamp)),
          MinimumBaseFee(s, parent.timestamp))
=============================================================================

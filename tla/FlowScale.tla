----------------------------- MODULE FlowScale -----------------------------
(***************************************************************************)
(* How coarse the motion estimation is and how far it searches             *)
(* (flow_scale.h): the divisor of the flow grid, and the radius of the     *)
(* coarse search, from the measured period of the source.  A period counts *)
(* thousandths of the period of 60 frames per second, and a reach counts   *)
(* thousandths of a source pixel, so that the code's floating-point        *)
(* quotients are quotients of whole numbers; 0 is a period not yet known.  *)
(***************************************************************************)
EXTENDS Integers

FlowScales == {"automatic", "quality", "performance", "ultra_performance"}

\* 2560 x 1440, kAutomaticFlowScalePixelThreshold.
AutomaticThreshold == 2560 * 1440

Divisors == {4, 8, 16}

\* Performance mode.
Switch == {"on", "off"}

Thousand == 1000

ReferenceReachPixels == 64
MaximumReachPixels == 128
MinimumCoarseRadius == 2
MaximumCoarseRadius == MaximumReachPixels \div (2 * 4)

FixedDivisor == [quality |-> 4, performance |-> 8, ultra_performance |-> 16]

(* Source pixels for each fine cell along an axis.                         *)
ResolveFlowScaleDivisor(scale, pixels) ==
    IF scale = "automatic"
    THEN IF pixels <= AutomaticThreshold THEN 4 ELSE 8
    ELSE FixedDivisor[scale]

(* The displacement to search for: the reference at 60 frames per second,  *)
(* longer for a slower source, half of it in performance mode.             *)
TargetReach(period, fast) ==
    LET reference == IF fast = "on" THEN ReferenceReachPixels \div 2 ELSE ReferenceReachPixels
        reach == reference * (IF period > 0 THEN period ELSE Thousand)
    IN  IF reach > MaximumReachPixels * Thousand
        THEN MaximumReachPixels * Thousand ELSE reach

Clamped(x, low, high) == IF x < low THEN low ELSE IF x > high THEN high ELSE x

(* A coarse cell spans twice the divisor; the quotient is rounded half up. *)
CellsFor(reach, divisor) ==
    LET cell == 2 * divisor * Thousand IN (2 * reach + cell) \div (2 * cell)

ResolveCoarseSearchRadius(period, divisor, fast) ==
    Clamped(CellsFor(TargetReach(period, fast), divisor),
            MinimumCoarseRadius, MaximumCoarseRadius)

(* What the radius reaches, in source pixels.                              *)
CoarseSearchPixels(radius, divisor) ==
    (IF radius < 0 THEN 0 ELSE radius) * divisor * 2
=============================================================================

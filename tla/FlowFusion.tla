------------------------------ MODULE FlowFusion ------------------------------
(****************************************************************************)
(* How one pixel of a generated frame is made out of two real frames and the  *)
(* flow between them: the pixel shader of src/src/motion_interpolator.cpp.      *)
(*                                                                          *)
(* Colours are one channel; everything counts thousandths.  What is sampled   *)
(* is given: the pixel in both frames, both frames warped to the time t, and  *)
(* the flow and its reverse at both ends.                                    *)
(****************************************************************************)
EXTENDS Integers

One == 1000
SceneCutThreshold == 280
ConfidenceFloor == 35
StaticLow == 6
StaticHigh == 30
StaticMotion == 2000
FusionSelectivity == 5
AutoMaskLow == 550
AutoMaskHigh == 850

Size(x) == IF x < 0 THEN -x ELSE x
Clamp(low, x, high) == IF x < low THEN low ELSE IF x > high THEN high ELSE x
Saturate(x) == Clamp(0, x, One)

SmoothStep(low, high, x) ==
    LET t == Saturate((One * (x - low)) \div (high - low)) IN (t * t * (3 * One - 2 * t)) \div (One * One)

\* a at 0, b at One.
Lerp(a, b, t) == (a * (One - t) + b * t) \div One

\* How well a flow and the reverse flow at its end undo each other.
FlowConsistency(flow, reverse) ==
    LET tolerance == 1500 + Size(flow) \div 4 IN
    One - SmoothStep(tolerance, (5 * tolerance) \div 2, Size(flow + reverse))

\* The support of a warped end: its confidence, its consistency, and whether it lies in
\* the frame.
Quality(warp) ==
    IF warp.inside THEN (warp.confidence * FlowConsistency(warp.flow, warp.reverse)) \div One ELSE 0

\* The warps, drawn toward the better supported one as far as they disagree.
Reconstructed(p) ==
    LET previous_weight == ((One - p.time) * Quality(p.previous)) \div One
        current_weight == (p.time * Quality(p.current)) \div One
        weight == previous_weight + current_weight
        disagreement == Size(p.previous.warped - p.current.warped)
        selectivity == Lerp(One, FusionSelectivity * One, SmoothStep(20, 200, disagreement))
        share == (One * previous_weight) \div weight
        biased == Saturate(One \div 2 + ((share - One \div 2) * selectivity) \div One)
    IN  IF weight >= ConfidenceFloor THEN Lerp(p.current.warped, p.previous.warped, biased)
        ELSE Lerp(p.previous.raw, p.current.raw, p.time)

\* How still the pixel is: the frames agree, and no trusted motion passes it.
StaticProtection(p) ==
    LET Motion(warp) == (Size(warp.flow) * warp.confidence) \div One
        motion == IF Motion(p.previous) > Motion(p.current) THEN Motion(p.previous)
                                                            ELSE Motion(p.current)
    IN  ((One - SmoothStep(StaticLow, StaticHigh, Size(p.previous.raw - p.current.raw)))
           * (One - Saturate((One * motion) \div StaticMotion))) \div One

\* AutoMaskFromScore beside the regions of the user.
Mask(p) ==
    LET detected == IF p.auto THEN SmoothStep(AutoMaskLow, AutoMaskHigh, p.score) ELSE 0 IN
    IF detected > p.region THEN detected ELSE p.region

\* The pixel shader's main, without the debug views.
Fused(p) ==
    IF p.scene >= SceneCutThreshold THEN p.current.raw
    ELSE LET fallback == Lerp(p.previous.raw, p.current.raw, p.time)
             drawn == Lerp(Reconstructed(p), fallback, StaticProtection(p))
         IN  Lerp(drawn, p.current.raw, Mask(p))
==============================================================================

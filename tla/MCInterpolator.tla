---------------------------- MODULE MCInterpolator ----------------------------
(****************************************************************************)
(* The interpolator in three parts that do not act on each other's state: the *)
(* shader cache it is created from, before there is a first frame; the pairs  *)
(* of the renderer, with a history of two frames and two queries; and the     *)
(* cells of its overlay detector, three in a row, in a scene that all of them *)
(* see move or not.  A behaviour is one of the three.                         *)
(****************************************************************************)
EXTENDS MotionPair, FlowScale, ShaderCache, OverlayDetector, MotionField, TLC

CONSTANTS small, large, luma, fusion, launcher, pipeline

MCSizes == {small, large}
MCRequests == <<luma, fusion>>
MCProcesses == {launcher, pipeline}
MCNear == [c \in Cells |-> {n \in Cells : n \in (c - 1)..(c + 1)}]
MCScenes == {[c \in Cells |-> m] : m \in Motions}

Symmetry == Permutations(MCSizes)

VARIABLE part    \* Which of the three this behaviour is of.

MCInit ==
    /\ Init /\ CacheInit /\ DetectorInit
    /\ part \in {"pairs", "cache", "detector"}
    /\ part # "pairs" => ~motion_enabled /\ ~interpolator.auto
    /\ part # "cache" => broken = {}

MCNext ==
    \/ part = "pairs" /\ Next /\ UNCHANGED <<cache_vars, detector_vars, part>>
    \/ part = "cache" /\ CacheNext /\ UNCHANGED <<vars, detector_vars, part>>
    \/ part = "detector" /\ DetectorNext /\ UNCHANGED <<vars, cache_vars, part>>

MCSpec == MCInit /\ [][MCNext]_<<vars, cache_vars, detector_vars, part>>

Distance(radius, divisor, reach) ==
    LET off == CoarseSearchPixels(radius, divisor) * Thousand - reach IN
    IF off < 0 THEN -off ELSE off

(****************************************************************************)
(* The search radius, against a definition of it that does not compute it: of *)
(* the radii allowed, the one that reaches nearest to the target.             *)
(****************************************************************************)
ASSUME RadiusIsNearest ==
    \A divisor \in Divisors, fast \in Switch, step \in 0..60 :
        LET period == 100 * step
            reach == TargetReach(period, fast)
            radius == ResolveCoarseSearchRadius(period, divisor, fast)
        IN  \A other \in MinimumCoarseRadius..MaximumCoarseRadius :
                Distance(radius, divisor, reach) <= Distance(other, divisor, reach)
==============================================================================

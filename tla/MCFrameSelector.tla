--------------------------- MODULE MCFrameSelector ---------------------------
(****************************************************************************)
(* A frame selector for TLC at the code's own constants in milliseconds,     *)
(* with time moving in steps of a fast frame, a slow frame and a stall, and   *)
(* rates counted per 100 ms: a target of 12 is 120 FPS.                       *)
(****************************************************************************)
EXTENDS FrameSelector, TLC

CONSTANTS small, large

MCSteps == {60, 110}

\* A frame, and a silence long enough to hide the overlay.
MCLongSteps == {60, 1010}

MCSizes == {small, large}
MCFloors == {0, 31}
MCDelays == {0, 8}

\* The two sizes are interchangeable.
Symmetry == Permutations(MCSizes)
==============================================================================

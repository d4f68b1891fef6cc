------------------------- MODULE SoftwareInterpolator -------------------------
(****************************************************************************)
(* The interpolator of the portable build                                     *)
(* (src/src/platform/software_interpolator.cpp): one translation for the whole  *)
(* picture, searched on a sparse grid and again on a denser one around the    *)
(* best, and frames drawn by pulling both ends along it.                      *)
(*                                                                          *)
(* A frame is one row of grey pixels: the second axis and the colours repeat  *)
(* what the first and the luma do.  A mask gives each pixel its coverage of   *)
(* 0..255, or is NoMask.  Scores and weights are compared and rounded as the  *)
(* quotients of whole numbers they are.                                      *)
(****************************************************************************)
EXTENDS Integers, Sequences, FiniteSetsExt

SearchRadius == 48
SearchStep == 2
SampleStride == 8
RefineReach == 8
SceneCutMeanLumaDelta == 72
NoMask == <<>>

Absolute(x) == IF x < 0 THEN -x ELSE x

\* The pixels the search and the scene-cut test leave out.
Masked(mask, x) == mask # NoMask /\ mask[x + 1] >= 128

\* Pixel x of a frame, counted from 0.
At(frame, x) == frame[x + 1]

SceneCut(previous, current, mask) ==
    LET probes == {x \in 0 .. Len(previous) - 1 : x % SampleStride = 0 /\ ~Masked(mask, x)}
        delta == MapThenSumSet(LAMBDA x : Absolute(At(previous, x) - At(current, x)), probes)
    IN  probes # {} /\ delta > SceneCutMeanLumaDelta * Cardinality(probes)

\* The grid keeps one stride from the border; what the displacement takes out of
\* the frame is not compared.
Evaluate(previous, current, mask, dx, stride) ==
    LET compared == {x \in 0 .. Len(previous) - 1 :
                        /\ x > 0 /\ x % stride = 0 /\ x + stride < Len(previous)
                        /\ ~Masked(mask, x)
                        /\ x + dx \in 0 .. Len(current) - 1}
    IN  [error |-> MapThenSumSet(LAMBDA x : Absolute(At(previous, x) - At(current, x + dx)),
                                 compared),
         compared |-> Cardinality(compared),
         length |-> Absolute(dx)]

\* The mean error, and half a hundredth for each pixel of displacement.  Nothing
\* compared is the worst there is.
Better(a, b) ==
    /\ a.compared > 0
    /\ b.compared > 0 =>
           (200 * a.error + a.length * a.compared) * b.compared
               < (200 * b.error + b.length * b.compared) * a.compared

\* The first of the best displacements, in the order of the scan.
Best(previous, current, mask, candidates, stride, otherwise) ==
    LET score == [dx \in candidates |-> Evaluate(previous, current, mask, dx, stride)]
        best == {dx \in candidates : /\ score[dx].compared > 0
                                     /\ \A other \in candidates : ~Better(score[other], score[dx])}
    IN  IF best = {} THEN otherwise ELSE Min(best)

Offsets(centre, reach) ==
    {dx \in centre - reach .. centre + reach :
        (dx - centre) % SearchStep = 0 /\ dx \in -SearchRadius .. SearchRadius}

\* The second grid is as dense as the size of the picture allows.
RefineStride(width, height) ==
    CASE width * height > 4000000 -> 16
      [] width * height <= 4000000 /\ (width > 1920 \/ height > 1920) -> 8
      [] OTHER -> 4

Motion(previous, current, mask) ==
    LET coarse == Best(previous, current, mask, Offsets(0, SearchRadius), 2 * SampleStride, 0)
        stride == RefineStride(Len(previous), 1)
    IN  Best(previous, current, mask, Offsets(coarse, RefineReach), stride, coarse)

\* Prepare for two frames of one size; of any others nothing is drawn.
Prepare(mode, mask, previous, current) ==
    LET cut == SceneCut(previous, current, mask)
    IN  [mode |-> mode, mask |-> mask, previous |-> previous, current |-> current,
         scene_cut |-> cut,
         motion |-> IF mode = "motion" /\ ~cut THEN Motion(previous, current, mask) ELSE 0]

\* a weighted n - k and b weighted k, of n: rounded to the nearest.
Mix(a, b, k, n) == (2 * (a * (n - k) + b * k) + n) \div (2 * n)

\* A frame at place / n, held within the frame.
Sample(frame, place, n) ==
    LET last == (Len(frame) - 1) * n
        clamped == IF place < 0 THEN 0 ELSE IF place > last THEN last ELSE place
        x0 == clamped \div n
        x1 == IF x0 + 1 < Len(frame) THEN x0 + 1 ELSE x0
    IN  Mix(At(frame, x0), At(frame, x1), clamped % n, n)

\* Both ends pulled to the time k / n along the motion; the motion is the
\* displacement from the previous frame to the current one.
Warped(p, x, k, n) ==
    Mix(Sample(p.previous, n * x - p.motion * k, n),
        Sample(p.current, n * x + p.motion * (n - k), n), k, n)

Blended(p, x, k, n) == Mix(At(p.previous, x), At(p.current, x), k, n)

\* Render at k / n; coverage keeps the newest frame.
Render(p, k, n) ==
    IF p.scene_cut THEN p.current
    ELSE [i \in 1 .. Len(p.current) |->
            LET made == IF p.mode = "blend" THEN Blended(p, i - 1, k, n)
                                            ELSE Warped(p, i - 1, k, n)
            IN  IF p.mask = NoMask THEN made ELSE Mix(made, p.current[i], p.mask[i], 255)]
==============================================================================

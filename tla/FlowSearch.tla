------------------------------ MODULE FlowSearch ------------------------------
(****************************************************************************)
(* How one cell of the flow field gets its vector: the shaders EstimateCoarse,*)
(* RefineFlow and FilterFlow of src/src/motion_interpolator.cpp, and the scene  *)
(* measure beside them.                                                      *)
(*                                                                          *)
(* A cell is its error function: how badly the patch matches at each          *)
(* displacement, in thousandths (PatchError), NoEvidence where the patch      *)
(* leaves the frame or is masked.  Displacements lie on one axis and count    *)
(* 32nds of the coarse step; the second axis repeats the first.               *)
(****************************************************************************)
EXTENDS Integers, Sequences, SequencesExt, FiniteSetsExt

CoarseScale == 32
FineStep == 8                 \* refinement_step at the fine level.
NoEvidence == 4000
Regularization == 6
PriorConfidence == 300

Magnitude(x) == IF x < 0 THEN -x ELSE x
Within(low, x, high) == IF x < low THEN low ELSE IF x > high THEN high ELSE x

\* The error of a patch from its taps, each a difference and the weight the masks
\* leave it: less than three quarters of a tap is no evidence.
PatchError(taps) ==
    LET weight == FoldLeft(LAMBDA sum, tap : sum + tap.weight, 0, taps)
        error == FoldLeft(LAMBDA sum, tap : sum + tap.weight * tap.difference, 0, taps)
    IN  IF weight < 750 THEN NoEvidence ELSE error \div weight

\* Selection cost, times the scale.
MotionCost(error, motion, anchor, scale) ==
    error * scale + Regularization * Magnitude(motion - anchor)

\* How well the match explains the patch, and how much better than the runner-up.
FlowConfidence(best_error, second_error, contrast) ==
    LET scale == Max({contrast, 25})
        ambiguity == Max({second_error, best_error})
        appearance == Within(0, 1000 - (1000 * best_error) \div scale, 1000)
        uniqueness == Within(0, (2000 * (ambiguity - best_error)) \div Max({ambiguity, 2}), 1000)
    IN  (appearance * (250 + (3 * uniqueness) \div 4)) \div 1000

\* No candidate yet; at the worst error none wins.
Searching(origin, scale) ==
    [cost |-> NoEvidence * scale, error |-> NoEvidence, motion |-> origin,
     second_cost |-> NoEvidence * scale, second_error |-> NoEvidence]

Wins(search, cost, error, motion) ==
    [cost |-> cost, error |-> error, motion |-> motion,
     second_cost |-> search.cost, second_error |-> search.error]

\* A candidate of the grid: the best so far, the runner-up, or neither.
Considered(err, search, motion, anchor, scale) ==
    LET cost == MotionCost(err[motion], motion, anchor, scale) IN
    IF cost < search.cost THEN Wins(search, cost, err[motion], motion)
    ELSE IF cost < search.second_cost
         THEN [search EXCEPT !.second_cost = cost, !.second_error = err[motion]]
         ELSE search

\* A candidate of the prior, which is dropped unless it wins.
Seeded(err, search, motion) ==
    LET cost == MotionCost(err[motion], motion, 0, CoarseScale) IN
    IF cost < search.cost THEN Wins(search, cost, err[motion], motion) ELSE search

\* The grid around an origin, in the order of the scan.
Grid(origin, radius, step) == [k \in 1 .. 2 * radius + 1 |-> origin + (k - 1 - radius) * step]

\* The best neighbour at this step, or the place itself; the runner-up stays.
RefineNeighbourhood(err, search, step, anchor, scale) ==
    LET Better(s, motion) ==
            LET cost == MotionCost(err[motion], motion, anchor, scale) IN
            IF cost < s.cost THEN [s EXCEPT !.cost = cost, !.error = err[motion], !.motion = motion]
            ELSE s
    IN  FoldLeft(Better, search, <<search.motion - step, search.motion + step>>)

\* The most confident of the fine cells around; the first of them on a tie.
Seed(ring) ==
    FoldLeft(LAMBDA best, cell : IF cell.confidence > best.confidence THEN cell ELSE best,
             [motion |-> 0, confidence |-> 0], ring)

\* sign is flow_prior_sign; ring the previous pair's cells when it is not 0.
EstimateCoarse(err, radius, sign, ring, contrast) ==
    LET window == FoldLeft(LAMBDA s, m : Considered(err, s, m, 0, CoarseScale),
                           Searching(0, CoarseScale), Grid(0, radius, CoarseScale))
        seed == sign * Seed(ring).motion
        seeded == IF /\ sign # 0
                     /\ Seed(ring).confidence >= PriorConfidence
                     /\ 4 * Magnitude(seed) > CoarseScale
                  THEN FoldLeft(LAMBDA s, m : Seeded(err, s, m), window, Grid(seed, 1, CoarseScale))
                  ELSE window
        refined == RefineNeighbourhood(err, seeded, CoarseScale \div 2, 0, CoarseScale)
    IN  [motion |-> refined.motion, error |-> refined.error,
         confidence |-> FlowConfidence(refined.error, refined.second_error, contrast)]

\* The vertex of a parabola through three errors, to the nearest place.
SubPixelVertex(err, motion, step) ==
    LET curvature == err[motion - step] - 2 * err[motion] + err[motion + step]
        slope == err[motion - step] - err[motion + step]
        reach == 85 * step * curvature
        shift == Within(-reach, 50 * slope * step, reach)     \* 100 * curvature of them.
    IN  IF curvature > 0 THEN motion + (shift + 50 * curvature) \div (100 * curvature) ELSE motion

\* One search at the fine level, seeded at origin: a grid, two halvings, the vertex.
SearchFrom(err, origin) ==
    LET grid == FoldLeft(LAMBDA s, m : Considered(err, s, m, origin, FineStep),
                         Searching(origin, FineStep), Grid(origin, 2, FineStep))
        halved == RefineNeighbourhood(err, grid, FineStep \div 2, origin, FineStep)
        quartered == RefineNeighbourhood(err, halved, FineStep \div 4, origin, FineStep)
        vertex == SubPixelVertex(err, quartered.motion, FineStep \div 8)
    IN  [motion |-> vertex, error |-> err[vertex], second_error |-> grid.second_error]

\* From the coarse prediction, and unless in performance mode again from zero.
RefineFlow(err, predicted, performance_mode, contrast) ==
    LET from_coarse == SearchFrom(err, predicted)
        from_zero == SearchFrom(err, 0)
        Cost(c) == MotionCost(c.error, c.motion, 0, FineStep)
        best == IF /\ ~performance_mode
                   /\ Magnitude(predicted) > FineStep
                   /\ Cost(from_zero) < Cost(from_coarse)
                THEN from_zero ELSE from_coarse
    IN  [motion |-> best.motion, error |-> best.error,
         confidence |-> FlowConfidence(best.error, best.second_error, contrast)]

\* A cell whose centre is masked has no vector.
MaskedCell == [motion |-> 0, error |-> NoEvidence, confidence |-> 0]

--------------------------------------------------------------------------------
\* Vectors of a finished field, in hundredths of a source pixel.
AgreePixels == 250
IsolatedNeighbours == 1

\* The nine cells around a place, row by row; the frame repeats its border.
Neighbourhood(field, x, y, width, height) ==
    [k \in 1..9 |-> field[<<Within(1, x + ((k - 1) % 3) - 1, width),
                            Within(1, y + ((k - 1) \div 3) - 1, height)>>]]

Agreeing(cells) ==
    LET radius == Max({4 * AgreePixels, Magnitude(cells[5].motion)}) IN
    Cardinality({k \in (1..9) \ {5} : 4 * Magnitude(cells[k].motion - cells[5].motion) <= radius})

\* The first of the nine with the least distance to all of them.
Median(cells) ==
    LET total == [k \in 1..9 |->
                     MapThenSumSet(LAMBDA j : Magnitude(cells[k].motion - cells[j].motion), 1..9)]
    IN  cells[Min({k \in 1..9 : \A j \in 1..9 : total[k] <= total[j]})]

FilterFlow(cells) ==
    IF Agreeing(cells) > IsolatedNeighbours THEN cells[5]
    ELSE [Median(cells) EXCEPT !.error = cells[5].error]

\* MeasureScene: the mean difference over a grid of probes, each with the weight the
\* masks leave it; a sixteenth of the probes counts at least.
SceneDifference(probes) ==
    LET weight == FoldLeft(LAMBDA sum, probe : sum + probe.weight, 0, probes)
        sum == FoldLeft(LAMBDA d, probe : d + probe.weight * probe.difference, 0, probes)
        least == 1000 * (Len(probes) \div 16)
    IN  sum \div Max({weight, least})
==============================================================================

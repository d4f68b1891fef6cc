----------------------------- MODULE MotionField ------------------------------
(****************************************************************************)
(* The shaders of the motion interpolator against definitions that do not     *)
(* compute what they compute: where the data of a pair flows, which vector a  *)
(* cell of known contents gets, and what becomes of a pixel.                  *)
(****************************************************************************)
EXTENDS Integers, Sequences

(****************************************************************************)
(* The passes of three pairs, against the flow of data the comments of        *)
(* PreparePair describe.  Frames are numbered; pair k goes from frame k to    *)
(* k + 1 and is prepared and drawn with the same settings.                    *)
(****************************************************************************)
Passes == INSTANCE FlowPasses

Nothing == <<"none">>
Frame(k) == <<"frame", k>>
Luma(k) == <<"levels", <<"luma", Frame(k)>>>>

\* What the detector knows at pair k: what pair k - 1 found in its unfiltered
\* forward field, and no field of pair k.
RECURSIVE DetectorAt(_, _), Refined(_, _, _), Backward(_, _)
DetectorAt(s, k) ==
    IF k = 1 THEN <<"cleared">>
    ELSE <<"score", Luma(k - 1), Luma(k), Refined(s, k - 1, TRUE), DetectorAt(s, k - 1)>>

Excluded(s, k) == <<IF s.mask THEN <<"mask">> ELSE Nothing,
                    IF s.auto THEN DetectorAt(s, k) ELSE Nothing>>

\* Both coarse searches of a pair are seeded by the backward field of the pair before,
\* against its direction and along it.
Refined(s, k, forward) ==
    LET a == IF forward THEN Luma(k) ELSE Luma(k + 1)
        b == IF forward THEN Luma(k + 1) ELSE Luma(k)
        prior == IF s.prior /\ k > 1 /\ k # s.break
                 THEN <<"prior", IF forward THEN -1 ELSE 1, Backward(s, k - 1)>> ELSE Nothing
    IN  <<"refined", a, b, Excluded(s, k), <<"coarse", a, b, Excluded(s, k), prior>> >>

Backward(s, k) == <<"filtered", Refined(s, k, FALSE)>>

Expected(s, k) ==
    <<Frame(k), Frame(k + 1), <<"filtered", Refined(s, k, TRUE)>>, Backward(s, k),
      <<"scene", Frame(k), Frame(k + 1), Excluded(s, k)>>, <<"mask">>,
      IF s.auto THEN DetectorAt(s, k) ELSE Nothing>>

RECURSIVE Prepared(_, _)
Prepared(s, k) ==
    LET before == IF k = 1 THEN Passes!NewContext(s.mask, s.auto, s.prior)
                  ELSE Passes!UnbindAfterDraw(Passes!BindForDraw(Prepared(s, k - 1)))
    IN  Passes!PreparePair(IF k = s.break THEN Passes!Reset(before) ELSE before,
                           Frame(k), Frame(k + 1), TRUE)

\* No pass reads what it writes, what a later pass of the pair overwrites is read before,
\* and the loop between detector and field stays open: what is drawn is computed
\* from the pair, the pair before it and the settings as the comments say.
ASSUME PassesFollowTheData ==
    \A s \in [mask : BOOLEAN, auto : BOOLEAN, prior : BOOLEAN, break : 1..3], k \in 1..3 :
        /\ Passes!Drawn(Prepared(s, k)) = Expected(s, k)
        /\ Prepared(s, k).inputs = Passes!Nulls(8)
        /\ Prepared(s, k).outputs = Passes!Nulls(3)

--------------------------------------------------------------------------------
(****************************************************************************)
(* The search of one cell: a patch that matches nowhere else than at place,    *)
(* one that repeats with a period, and one without structure.  Places are on  *)
(* both sides of what the window of radius 4 reaches.                         *)
(****************************************************************************)
Search == INSTANCE FlowSearch

Landscape == -320..320
Gap(x) == IF x < 0 THEN -x ELSE x
Flat(error) == [d \in Landscape |-> error]
Valley(place) ==
    [d \in Landscape |-> IF Gap(d - place) < 100 THEN 3 * Gap(d - place) ELSE 300]
Grating(place, period) ==
    [d \in Landscape |-> LET off == (d - place) % period IN
                         3 * (IF 2 * off < period THEN off ELSE period - off)]

\* One of the cells around had this vector, the others rested.
Ring(motion, confidence) ==
    [k \in 1..16 |-> IF k = 7 THEN [motion |-> motion, confidence |-> confidence]
                              ELSE [motion |-> 0, confidence |-> 250]]

Coarse(err, sign, motion, confidence) ==
    Search!EstimateCoarse(err, 4, sign, Ring(motion, confidence), 400)

Found(err, coarse, fast) == Search!RefineFlow(err, coarse.motion, fast, 400).motion

\* Where every displacement matches alike the cell rests, whatever the pair before it
\* says; without any match it claims nothing.
ASSUME TieGoesToRest ==
    \A error \in {0, 40, 3900, Search!NoEvidence}, sign \in {-1, 0, 1},
       seed \in {-200, 0, 5, 100}, confidence \in {299, 300} :
        LET cell == Coarse(Flat(error), sign, seed, confidence) IN
        /\ cell.motion = 0 /\ Found(Flat(error), cell, FALSE) = 0
        /\ error = Search!NoEvidence => cell.confidence = 0

\* The steps of coarse, half, fine, half, quarter and vertex leave no gap: a match inside
\* the window is found to a 32nd of the coarse step.
ASSUME MatchIsFound ==
    \A place \in -136..136, fast \in BOOLEAN :
        Gap(Found(Valley(place), Coarse(Valley(place), 0, 0, 0), fast) - place) <= 1

\* Where the errors are those of a smooth patch the vertex is the match itself.
ASSUME VertexIsExact ==
    \A place \in -130..130 :
        LET bowl == [d \in Landscape |-> IF Gap(d - place) < 60 THEN Gap(d - place) * Gap(d - place)
                                         ELSE 3600]
        IN  Found(bowl, Coarse(bowl, 0, 0, 0), FALSE) = place

\* A second place that matches as well costs the cell its confidence, wherever the two lie.
ASSUME TwinsAreAmbiguous ==
    \A a \in -4..4, b \in -4..4 :
        LET err == [d \in Landscape |-> IF Gap(d - 32 * a) < Gap(d - 32 * b)
                                        THEN Valley(32 * a)[d] ELSE Valley(32 * b)[d]]
        IN  Coarse(err, 0, 0, 0).confidence = IF a = b THEN 1000 ELSE 250

\* Beyond the window it is found from a trusted vector of the pair before it that is
\* within one coarse step.
ASSUME SeedIsFollowed ==
    \A place \in {21 * k : k \in -12..12}, off \in {-32, -20, 0, 15, 32}, sign \in {-1, 1} :
        Gap(Found(Valley(place), Coarse(Valley(place), sign, sign * (place + off), 300), FALSE)
              - place) <= 1

\* A seed on a displacement the window has tried changes nothing, the confidence included.
ASSUME DuplicateSeedIsIgnored ==
    \A place \in {5 * k : k \in -20..20}, cells \in -3..3, sign \in {-1, 1} :
        \A err \in {Valley(place), Flat(40)} :
            Coarse(err, sign, 32 * cells, 900) = Coarse(err, 0, 0, 0)

\* Where a texture repeats and moved less than a third of its period, the second search
\* brings a prediction that is whole periods off back to the motion.
ASSUME SmallestPeriodWins ==
    \A period \in {24, 36, 48}, place \in -15..15, predicted \in {16 * k : k \in (-8..8) \ {0}} :
        3 * Gap(place) < period =>
            Gap(Search!RefineFlow(Grating(place, period), predicted, FALSE, 400).motion - place) <= 1

--------------------------------------------------------------------------------
(****************************************************************************)
(* The filter on fields of two vectors.  The corners are left out: the border *)
(* repeats a corner three times, so a lone vector there agrees with itself.    *)
(****************************************************************************)
Vector(motion) == [motion |-> motion, error |-> 20, confidence |-> 700]

Filtered(field, width, height) ==
    [c \in (1..width) \X (1..height) |->
        Search!FilterFlow(Search!Neighbourhood(field, c[1], c[2], width, height))]

Differ(center, other) ==
    /\ Gap(center - other) > Search!AgreePixels
    /\ 4 * Gap(center - other) > Gap(center)

ASSUME LoneVectorIsRemoved ==
    \A body \in {-900, 0, 400, 2400}, lone \in {-3000, -400, 0, 900, 3000},
       at \in ((1..4) \X (1..3)) \ ({1, 4} \X {1, 3}) :
        LET Field(vector) == [c \in (1..4) \X (1..3) |-> IF c = at THEN vector ELSE Vector(body)] IN
        Differ(lone, body) => Filtered(Field(Vector(lone)), 4, 3) = Field(Vector(body))

\* A region keeps its border and its corners.
ASSUME BoundaryIsKept ==
    \A inner \in {-900, 0, 400, 2400}, outer \in {-3000, 0, 900}, edge \in 1..4, depth \in 1..3 :
        LET field == [c \in (1..4) \X (1..3) |->
                         Vector(IF c[1] <= edge /\ c[2] <= depth THEN inner ELSE outer)]
        IN  Filtered(field, 4, 3) = field

\* What is masked does not vote for a cut, and a few probes left over do not make one.
ASSUME CutsNeedEvidence ==
    \A covered \in 0..32, hidden \in {0, 1000} :
        LET probes == [k \in 1..32 |-> IF k <= covered THEN [weight |-> 0, difference |-> hidden]
                                                       ELSE [weight |-> 1000, difference |-> 300]]
        IN  IF covered <= 30 THEN Search!SceneDifference(probes) = 300
                             ELSE Search!SceneDifference(probes) <= 150

--------------------------------------------------------------------------------
(****************************************************************************)
(* One pixel, with every kind of support at either end.                       *)
(****************************************************************************)
Fusion == INSTANCE FlowFusion

Ends == [raw : {0, 520}, warped : {0, 530, 1000}, flow : {-4000, 0, 500}, reverse : {0, 4000},
         confidence : {0, 40, 900}, inside : BOOLEAN]

Pixel(previous, current, time, region, scene) ==
    [previous |-> previous, current |-> current, time |-> time, region |-> region,
     auto |-> FALSE, score |-> 1000, scene |-> scene]

Supported(end) == end.inside /\ end.confidence > 0

\* Without support at both ends the pixel is the crossfade; with it, it lies between what
\* was sampled.  Neither frame is favoured: played backward the picture is the same to a
\* fortieth.  A cut and a region of the user show the newer frame unchanged.
ASSUME FusionIsSound ==
    \A p \in Ends, c \in Ends, time \in {300, 500} :
        LET drawn == Fusion!Fused(Pixel(p, c, time, 0, 279))
            reversed == Fusion!Fused(Pixel(c, p, 1000 - time, 0, 279))
            sampled == {p.raw, c.raw, p.warped, c.warped}
        IN  /\ IF Supported(p) \/ Supported(c)
               THEN (\E x \in sampled : x - 2 <= drawn) /\ (\E x \in sampled : drawn <= x)
               ELSE drawn - Fusion!Lerp(p.raw, c.raw, time) \in -2..2
            /\ drawn - reversed \in -25..25
            /\ Fusion!Fused(Pixel(p, c, time, 0, 280)) = c.raw
            /\ Fusion!Fused(Pixel(p, c, time, 1000, 0)) = c.raw

\* What only one of the frames has seen is taken from that frame, at any time between.
ASSUME SeenSideIsTaken ==
    \A p \in Ends, c \in Ends, time \in {200, 500, 800} :
        p.raw # c.raw /\ ~Supported(c) /\ p.inside /\ p.confidence = 900 /\ p.flow = 0 /\ p.reverse = 0
        => /\ Gap(Fusion!Fused(Pixel(p, c, time, 0, 0)) - p.warped) <= 2
           /\ Gap(Fusion!Fused(Pixel(c, p, time, 0, 0)) - p.warped) <= 2

\* An object narrower than its displacement: the frames agree on the pixel it crosses and
\* both warps show it.  It is drawn if the vectors can be trusted, however little the
\* pixel itself changed; without motion the pixel is.
ASSUME CrossingIsDrawn ==
    \A raw \in {0, 500}, warped \in {0, 530, 1000}, flow \in {-4000, 0, 2300}, time \in {200, 500} :
        LET End(motion) == [raw |-> raw, warped |-> warped, flow |-> motion, reverse |-> -motion,
                            confidence |-> 900, inside |-> TRUE]
            drawn == Fusion!Fused(Pixel(End(flow), End(-flow), time, 0, 0))
        IN  Gap(drawn - (IF flow = 0 THEN raw ELSE warped)) <= 2
==============================================================================

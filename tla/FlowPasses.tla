------------------------------ MODULE FlowPasses ------------------------------
(****************************************************************************)
(* The passes that make up one pair on the GPU (src/src/motion_interpolator.cpp,*)
(* PreparePair and BindForDraw): what each binds, reads and overwrites, in    *)
(* the order the context executes them.                                      *)
(*                                                                          *)
(* A texture holds the term of what was computed into it, so that what is     *)
(* drawn tells what it was computed from.  A context keeps a binding until it *)
(* is replaced or cleared; a texture that is bound for writing cannot be      *)
(* read, nor have its lower levels generated.                                *)
(****************************************************************************)
EXTENDS Integers, Sequences, SequencesExt

None == <<"none">>

\* ui_persistence_[index]
Persistence(index) == IF index = 0 THEN "persistence 0" ELSE "persistence 1"

Surfaces == {"previous", "current", "ui mask", "previous luma", "current luma", "scene",
             "forward coarse", "backward coarse", "forward fine", "backward fine",
             "forward filtered", "backward filtered", "persistence 0", "persistence 1"}

Nulls(n) == [k \in 1..n |-> "null"]

\* A new interpolator, with what SetUiMask, SetAutoUiMaskEnabled and
\* SetTemporalPriorEnabled left.
NewContext(mask, auto, temporal_prior) ==
    [holds |-> [t \in Surfaces |->
                   IF t = "ui mask" THEN <<"mask">>
                   ELSE IF t \in {Persistence(0), Persistence(1)} THEN <<"cleared">> ELSE None],
     inputs |-> Nulls(8), outputs |-> Nulls(3), drawing |-> Nulls(7),
     sign |-> 0, index |-> 0, pending |-> FALSE, prior_available |-> FALSE,
     mask |-> mask, auto |-> auto, temporal_prior |-> temporal_prior]

Bound(slots) == ToSet(slots) \ {"null"}

\* CSSetShaderResources from slot 0: the slots beyond keep what they have.
BindInputs(c, views) ==
    [c EXCEPT !.inputs = [k \in 1..8 |->
        IF k > Len(views) THEN @[k]
        ELSE IF views[k] \in Bound(c.outputs) THEN "null" ELSE views[k]]]

\* CSSetUnorderedAccessViews from slot 0, which takes the texture from every input.
BindOutputs(c, views) ==
    LET outputs == [k \in 1..3 |-> IF k > Len(views) THEN c.outputs[k] ELSE views[k]]
        Released(slots) == [k \in DOMAIN slots |->
                               IF slots[k] \in Bound(outputs) THEN "null" ELSE slots[k]]
    IN  [c EXCEPT !.outputs = outputs, !.inputs = Released(@), !.drawing = Released(@)]

Read(c, slots, k) == IF slots[k] = "null" THEN None ELSE c.holds[slots[k]]
Input(c, k) == Read(c, c.inputs, k)

\* MaskAt: the regions of the user and the detector's.
Masks(c) == <<IF c.mask THEN Input(c, 4) ELSE None, IF c.auto THEN Input(c, 5) ELSE None>>

\* What the entry points compute, by output slot.
Computed(c, shader) ==
    CASE shader = "BuildLuma" -> <<None, <<"luma", Input(c, 1)>>, <<"luma", Input(c, 2)>>>>
      [] shader = "MeasureScene" -> << <<"scene", Input(c, 1), Input(c, 2), Masks(c)>> >>
      [] shader = "EstimateCoarse" ->
             << <<"coarse", Input(c, 6), Input(c, 7), Masks(c),
                  IF c.sign = 0 THEN None ELSE <<"prior", c.sign, Input(c, 8)>> >> >>
      [] shader = "RefineFlow" ->
             << <<"refined", Input(c, 6), Input(c, 7), Masks(c), Input(c, 3)>> >>
      [] shader = "FilterFlow" -> << <<"filtered", Input(c, 3)>> >>
      [] shader = "UpdateUiPersistence" ->
             << <<"score", Input(c, 6), Input(c, 7), Input(c, 3), Input(c, 5)>> >>

Dispatch(c, shader) ==
    [c EXCEPT !.holds = [t \in Surfaces |->
        IF \E k \in 1..3 : c.outputs[k] = t
        THEN Computed(c, shader)[CHOOSE k \in 1..3 : c.outputs[k] = t] ELSE @[t]]]

\* GenerateMips of a texture whose first level is no longer bound for writing.
GenerateMips(c, texture) ==
    IF texture \in Bound(c.outputs) THEN c
    ELSE [c EXCEPT !.holds[texture] = <<"levels", @>>]

\* The shape of every pass: bind, dispatch, clear what was bound.
Pass(c, shader, inputs, outputs) ==
    LET done == Dispatch(BindOutputs(BindInputs(c, inputs), outputs), shader)
    IN  BindInputs(BindOutputs(done, Nulls(Len(outputs))), Nulls(8))

Detector(c) == Persistence(c.index)

DispatchLumaPyramids(c) ==
    LET built == Pass(c, "BuildLuma",
                      <<"previous", "current", "null", "ui mask", Detector(c), "null", "null">>,
                      <<"null", "previous luma", "current luma">>)
    IN  GenerateMips(GenerateMips(built, "previous luma"), "current luma")

DispatchSceneMetrics(c) ==
    Pass(c, "MeasureScene",
         <<"previous", "current", "null", "ui mask", Detector(c), "previous luma",
           "current luma">>, <<"scene">>)

LumaOf(frame) == IF frame = "previous" THEN "previous luma" ELSE "current luma"

\* From frame a to frame b.
DispatchFlow(c, shader, a, b, coarse, prior, output) ==
    Pass(c, shader, <<a, b, coarse, "ui mask", Detector(c), LumaOf(a), LumaOf(b), prior>>,
         <<output>>)

DispatchFlowFilter(c, source, destination) ==
    Pass(c, "FilterFlow",
         <<"null", "null", source, "ui mask", Detector(c), "previous luma", "current luma">>,
         <<destination>>)

\* From the detector's state into the other one, which the next pair publishes.
DispatchUiPersistence(c) ==
    [Pass(c, "UpdateUiPersistence",
          <<"previous", "current", "forward fine", "ui mask", Detector(c), "previous luma",
            "current luma">>, <<Persistence(1 - c.index)>>) EXCEPT !.pending = TRUE]

\* The fine fields, forward and backward, each out of its coarse one.
Estimated(c, use_prior) ==
    LET prior == IF use_prior THEN "backward filtered" ELSE "null"
        Signed(d, sign) == [d EXCEPT !.sign = IF use_prior THEN sign ELSE 0]
        c1 == DispatchFlow(Signed(c, -1), "EstimateCoarse", "previous", "current", "null",
                           prior, "forward coarse")
        c2 == DispatchFlow(Signed(c1, 1), "EstimateCoarse", "current", "previous", "null",
                           prior, "backward coarse")
        c3 == DispatchFlow(c2, "RefineFlow", "previous", "current", "forward coarse", "null",
                           "forward fine")
    IN  DispatchFlow(c3, "RefineFlow", "current", "previous", "backward coarse", "null",
                     "backward fine")

\* PreparePair, after the checks and the resources.
PreparePair(c, previous, current, continues) ==
    LET use_prior == c.temporal_prior /\ continues /\ c.prior_available
        published == [c EXCEPT !.index = IF c.pending THEN 1 - @ ELSE @, !.pending = FALSE,
                               !.holds["previous"] = previous, !.holds["current"] = current]
        measured == DispatchSceneMetrics(DispatchLumaPyramids(published))
        estimated == Estimated(measured, use_prior)
        filtered == DispatchFlowFilter(
                        DispatchFlowFilter(estimated, "forward fine", "forward filtered"),
                        "backward fine", "backward filtered")
        detected == IF c.auto THEN DispatchUiPersistence(filtered) ELSE filtered
    IN  [detected EXCEPT !.prior_available = TRUE, !.inputs = Nulls(8), !.outputs[1] = "null"]

\* Reset, between pairs that do not belong together.
Reset(c) == [c EXCEPT !.prior_available = FALSE]

BindForDraw(c) ==
    LET views == <<"previous", "current", "forward filtered", "backward filtered", "scene",
                   "ui mask", Detector(c)>>
    IN  [c EXCEPT !.drawing =
            [k \in 1..7 |-> IF views[k] \in Bound(c.outputs) THEN "null" ELSE views[k]]]

UnbindAfterDraw(c) == [c EXCEPT !.drawing = Nulls(7)]

\* What the pixel shader sees; it has no use for the detector that is switched off.
Drawn(c) ==
    LET b == BindForDraw(c) IN
    [k \in 1..7 |-> IF k = 7 /\ ~c.auto THEN None ELSE Read(b, b.drawing, k)]
==============================================================================

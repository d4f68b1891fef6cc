----------------------------- MODULE MCSelectors -----------------------------
(****************************************************************************)
(* The frame selector in both programs that drive it: the loop of main.cpp,   *)
(* which FrameSelector's Next abstracts, and the loop of portable_main.cpp.   *)
(* The reader of the picture files is checked beside them.                    *)
(****************************************************************************)
EXTENDS MCFrameSelector, PortableLoop, PngReader

VARIABLE portable    \* Which of the two programs this behaviour is of.

MCInit == Init /\ PortableInit /\ portable \in BOOLEAN

MCNext ==
    \/ ~portable /\ Next /\ UNCHANGED <<portable, portable_vars>>
    \/ portable /\ PortableNext /\ UNCHANGED portable

MCSpec == MCInit /\ [][MCNext]_<<vars, portable_vars, portable>>

------------------------------------------------------------------------------
\* What RunLive draws with, over the pictures of portable_backend_tests.cpp: one
\* row of a box on a background.
Picture == INSTANCE SoftwareInterpolator
Mask == INSTANCE UiMask WITH NotANumber <- -1

Row == 1 .. 96
Box(at) == [i \in Row |-> IF i - 1 \in at .. at + 15 THEN 190 ELSE 24]
White == [i \in Row |-> 255]
Ramp == [i \in Row |-> 2 * i]
Pairs == {<<Box(20), Box(28)>>, <<Box(28), Box(20)>>, <<Box(40), Box(40)>>,
          <<Ramp, [i \in Row |-> 100 - (i \div 2)]>>, <<Ramp, Ramp>>}
Kept == [i \in Row |-> IF i \in 21 .. 36 THEN 255 ELSE 0]

Within(v, a, b) == (a <= v /\ v <= b) \/ (b <= v /\ v <= a)

\* The translation of the self-test is recovered in both directions, and a picture
\* at rest is not moved.
ASSUME TranslationFound ==
    /\ Picture!Prepare("motion", <<>>, Box(20), Box(28)).motion \in 6 .. 10
    /\ Picture!Prepare("motion", <<>>, Box(28), Box(20)).motion \in -10 .. -6
    /\ \A frame \in {Box(40), Ramp, White} :
          Picture!Prepare("motion", <<>>, frame, frame).motion = 0

\* A blend runs from the previous frame to the current one and leaves neither's range;
\* what the mask keeps is the current frame's at every time; a cut shows it whole.
ASSUME RenderIsSound ==
    /\ \A pair \in Pairs : \A mode \in {"motion", "blend"} : \A k \in 0 .. 4 :
          LET p == Picture!Prepare(mode, <<>>, pair[1], pair[2])
              kept == Picture!Prepare("blend", Kept, pair[1], pair[2])
              picture == Picture!Render(p, k, 4)
              both == {pair[1][i] : i \in Row} \cup {pair[2][i] : i \in Row}
          IN  /\ ~p.scene_cut
              /\ mode = "blend" /\ k = 0 => picture = pair[1]
              /\ mode = "blend" /\ k = 4 => picture = pair[2]
              /\ \A i \in Row : \E a \in both, b \in both : Within(picture[i], a, b)
              /\ \A i \in 21 .. 36 : Picture!Render(kept, k, 4)[i] = pair[2][i]
    /\ \A k \in 0 .. 4 :
          Picture!Render(Picture!Prepare("motion", <<>>, Box(20), White), k, 4) = White

\* Coordinates of a mask, in hundred-thousandths of a pixel or of the frame.
Coordinates == {0, 1, 24999, 25000, 50001, 100000}
Rects == {[left |-> l, top |-> 0, right |-> r, bottom |-> b, pixels |-> p] :
              l \in Coordinates, r \in Coordinates, b \in Coordinates, p \in BOOLEAN}

\* A mask covers exactly the pixels any part of which it touches, so that no region
\* that is written, however thin, covers nothing; and it never leaves the frame.
ASSUME MaskCoversWhatItTouches ==
    \A rect \in {r \in Rects : r.right > r.left /\ r.bottom > 0} :
    \A width \in {1, 3, 8}, height \in {1, 4} :
        LET scale(v, extent) == IF rect.pixels THEN v ELSE v * extent
            touched == {<<x, y>> \in (0 .. width - 1) \X (0 .. height - 1) :
                           /\ scale(rect.left, width) < (x + 1) * Mask!Unit
                           /\ scale(rect.right, width) > x * Mask!Unit
                           /\ scale(rect.bottom, height) > y * Mask!Unit}
        IN  Mask!RasterizeUiMask(<<rect>>, width, height) = touched

------------------------------------------------------------------------------
Monitor == INSTANCE PacingMonitor

\* What happens to a pacing monitor: presents at a time, and resets.
Reset_ == -1
Histories == UNION {[1 .. n -> {Reset_} \cup 0 .. 3] : n \in 0 .. 5}
Recorded(history) ==
    FoldLeft(LAMBDA m, e : IF e = Reset_ THEN Monitor!Reset(m) ELSE Monitor!RecordPresent(m, e),
             Monitor!NewMonitor(2), history)

\* The report is of the time from a present to the next, the last few of them: neither
\* a gap across a reset nor one that goes back is among them, and the one after either
\* is counted from where it left off.
ASSUME IntervalsAreTheGaps ==
    \A history \in Histories :
        LET emptied == {k \in DOMAIN history : history[k] = Reset_}
            gaps == {k \in 2 .. Len(history) :
                        /\ \A j \in emptied : j < k - 1
                        /\ history[k - 1] <= history[k]}
            counted == {k \in gaps : Cardinality({j \in gaps : j > k}) < 2}
            latest == SetToSortSeq(counted, <)
        IN  Recorded(history).intervals
              = [n \in DOMAIN latest |-> history[latest[n]] - history[latest[n] - 1]]

\* A percentile is the least sample that enough samples do not exceed; on time means
\* within the tolerance on either side.
ASSUME ReportIsOfTheSamples ==
    \A samples \in UNION {[1 .. n -> {0, 85, 100, 116}] : n \in 1 .. 4} :
        LET report == Monitor!Summarize([intervals |-> samples], 100)
            AtMost(v) == Cardinality({k \in DOMAIN samples : samples[k] <= v})
            Enough(percent) == {v \in ToSet(samples) : 100 * AtMost(v) >= percent * Len(samples)}
        IN  /\ report.p50 = Min(Enough(50)) /\ report.p95 = Min(Enough(95))
            /\ report.maximum = Max(Enough(100))
            /\ report.on_time = Cardinality({k \in DOMAIN samples : samples[k] \in {85, 100}})

==============================================================================

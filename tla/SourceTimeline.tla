--------------------------- MODULE SourceTimeline ---------------------------
(****************************************************************************)
(* The history of distinct source frames (src/src/adaptive_scheduler.cpp,       *)
(* class SourceTimeline): what the frame selector may choose from, how fast   *)
(* the source runs, and whether it has gone quiet.                            *)
(*                                                                          *)
(* A frame is its unique sequence number, its media time, its arrival time    *)
(* and its size; sizes are model values.  The period estimate is rounded down *)
(* to whole ticks.  The raw and duplicate counters, the capture-delay average *)
(* and the latency window feed only telemetry and are left out.               *)
(****************************************************************************)
EXTENDS Integers, Sequences

CONSTANTS
    MaxHistory,      \* maximum_history_, at least 2.
    MinPeriod,       \* kMinimumPeriodSeconds, in ticks.
    MaxPeriod,       \* kMaximumPeriodSeconds.
    DefaultPeriod,   \* kDefaultPeriodSeconds.
    StallPeriod,     \* kStallPeriodSeconds.
    PeriodWeight,    \* kPeriodSampleWeight, in percent.
    Sizes            \* Sizes a source frame may have.

ASSUME TimelineAssumption ==
    /\ MaxHistory \in Nat /\ MaxHistory >= 2
    /\ MinPeriod \in Nat \ {0}
    /\ MaxPeriod \in Nat /\ MinPeriod <= MaxPeriod
    /\ DefaultPeriod \in MinPeriod .. MaxPeriod
    /\ StallPeriod \in Nat \ {0}
    /\ PeriodWeight \in 0 .. 100

VARIABLES
    frames,           \* frames_, oldest first.
    has_period,       \* has_period_sample_
    period,           \* source_period_seconds_, in ticks.
    unique_count,     \* unique_frame_count_
    discontinuities   \* discontinuity_count_

timeline == <<frames, has_period, period, unique_count, discontinuities>>

Frame == [seq : Nat \ {0}, media : Int, arrival : Int, size : Sizes]

Newest == frames[Len(frames)]

\* The sequence numbers a selection may name.
Resident == {frames[i].seq : i \in DOMAIN frames}

TimelineInit ==
    /\ frames = <<>>
    /\ has_period = FALSE
    /\ period = DefaultPeriod
    /\ unique_count = 0
    /\ discontinuities = 0

\* Mutation of Breaks that lets a frame of another size join the history.
BreaksOnTimeOnly(media, size) ==
    /\ frames # <<>>
    /\ media <= Newest.media

\* A frame of another size, or one that is not later than its predecessor,
\* cannot be interpolated with it: the history starts over.
Breaks(media, size) ==
    /\ frames # <<>>
    /\ (Newest.size # size \/ media <= Newest.media)

\* The period after a gap between two consecutive frames.
PeriodAfter(sample) ==
    IF has_period
    THEN ((100 - PeriodWeight) * period + PeriodWeight * sample) \div 100
    ELSE sample

\* Mutation of Trimmed that lets the history grow by one more frame.
TrimmedLate(s) == IF Len(s) > MaxHistory + 1 THEN Tail(s) ELSE s

\* The last MaxHistory of a history that grew by one.
Trimmed(s) == IF Len(s) > MaxHistory THEN Tail(s) ELSE s

\* Ingest of a frame that is not a duplicate; a duplicate changes only the
\* counters left out above.
Ingest(media, arrival, size) ==
    LET kept == IF Breaks(media, size) THEN <<>> ELSE frames
        sample == IF kept = <<>> THEN 0 ELSE media - Newest.media
        measured == sample \in MinPeriod .. MaxPeriod
    IN  /\ discontinuities' =
               IF Breaks(media, size) THEN discontinuities + 1 ELSE discontinuities
        /\ period' = IF measured THEN PeriodAfter(sample) ELSE period
        /\ has_period' = (measured \/ (has_period /\ ~Breaks(media, size)))
        /\ unique_count' = unique_count + 1
        /\ frames' = Trimmed(Append(kept,
               [seq |-> unique_count + 1, media |-> media,
                arrival |-> arrival, size |-> size]))

\* The capture was restarted.  Sequence numbers are not rewound.
ResetHistory ==
    /\ frames' = <<>>
    /\ has_period' = FALSE
    /\ period' = DefaultPeriod
    /\ discontinuities' = discontinuities + 1
    /\ UNCHANGED unique_count

\* The source is too slow to interpolate, or has been silent for too long.
IsStalled(t) ==
    /\ frames # <<>>
    /\ \/ has_period /\ period >= StallPeriod
       \/ /\ t - Newest.arrival >= StallPeriod
          /\ t - Newest.arrival >= 3 * period

TimelineTypeOK ==
    /\ frames \in Seq(Frame)
    /\ Len(frames) <= MaxHistory
    /\ has_period \in BOOLEAN
    /\ period \in MinPeriod .. MaxPeriod
    /\ unique_count \in Nat
    /\ discontinuities \in Nat

\* The history is a run of consecutive sequence numbers ending at the latest
\* one given out, with strictly increasing media times and a single size, so
\* every two neighbours are a pair that can be interpolated.
TimelineOrdered ==
    \A i \in DOMAIN frames :
        /\ frames[i].seq = unique_count - Len(frames) + i
        /\ i > 1 => /\ frames[i - 1].media < frames[i].media
                    /\ frames[i - 1].size = frames[i].size

==============================================================================

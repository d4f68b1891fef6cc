---------------------------- MODULE PacingMonitor ----------------------------
(***************************************************************************)
(* The pacing report (class PacingMonitor of adaptive_scheduler.cpp): the  *)
(* last intervals between presents, in ticks, and what is said of them.    *)
(* A monitor is a record and its operations are functions on it; fractions *)
(* of the report are numerators over the number of samples.                *)
(***************************************************************************)
EXTENDS Integers, Sequences, SequencesExt, FiniteSetsExt

OnTimePercent == 15   \* kOnTimeTolerance

NoPresent == -1       \* has_last_present_ is false.

NewMonitor(window) == [window |-> Max({2, window}), intervals |-> <<>>, last |-> NoPresent]

Recent(s, n) == SubSeq(s, Max({1, Len(s) - n + 1}), Len(s))

RecordPresent(m, when) ==
    IF m.last = NoPresent \/ when < m.last THEN [m EXCEPT !.last = when]
    ELSE [m EXCEPT !.last = when,
                   !.intervals = Recent(Append(@, when - m.last), m.window)]

Reset(m) == [m EXCEPT !.intervals = <<>>, !.last = NoPresent]

PercentileSeconds(samples, percent) ==
    LET ordered == SortSeq(samples, <)
        rank == (percent * Len(samples) + 99) \div 100
    IN  IF samples = <<>> THEN 0 ELSE ordered[Max({1, rank})]

Summarize(m, period) ==
    LET Error(i) == IF i < period THEN period - i ELSE i - period
        OnTime(i) == 100 * Error(i) <= OnTimePercent * period
    IN  [p50 |-> PercentileSeconds(m.intervals, 50),
         p95 |-> PercentileSeconds(m.intervals, 95),
         maximum |-> Max(ToSet(m.intervals) \cup {0}),
         on_time |-> Len(SelectSeq(m.intervals, OnTime)),
         absolute_error |-> FoldLeft(LAMBDA sum, i : sum + Error(i), 0, m.intervals),
         samples |-> Len(m.intervals)]
==============================================================================

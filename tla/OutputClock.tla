----------------------------- MODULE OutputClock -----------------------------
(****************************************************************************)
(* The output clock of src/src/adaptive_scheduler.cpp: the deadline grid that   *)
(* decides when a frame is owed to the display.                               *)
(*                                                                          *)
(* Slot k is due at epoch + k * SlotTicks / SlotParts clock ticks, rounded to  *)
(* the nearest tick; the quotient is the exact rational period the code gets  *)
(* from FrameRate.  The caller polls with the current time, receives at most   *)
(* one slot per poll, and reports the slots it could not fill.  Under vsync    *)
(* it also feeds vblank timestamps to a servo that moves the epoch.           *)
(*                                                                          *)
(* issued, skipped, rejected and sample are history variables: the code keeps *)
(* only their totals.  Time is a bounded natural number of ticks.             *)
(****************************************************************************)
EXTENDS Integers, FiniteSets

CONSTANTS
    SlotTicks,          \* Numerator of the slot period, in ticks.
    SlotParts,          \* Denominator of the slot period.
    GainDivisor,        \* 1 / kPhaseCorrectionGain.
    MaximumCorrection,  \* kMaximumPhaseCorrection, in ticks.
    TolerancePercent,   \* kCommensurateTolerance, in percent.
    Steps,              \* How far time may move between two calls.
    Refreshes,          \* Refresh periods a display may report (0: unknown).
    Leads,              \* Leads the caller may ask for.
    VblankAges,         \* How old a vblank timestamp may be when it is used.
    MaxTime,            \* Bound on the time modelled.
    MaxRejected,        \* Bound on the submissions reported missed.
    MaxCorrections      \* Bound on the servo steps taken.

\* A slot lasts a tick or more: SetRate refuses more than 1000 frames a second, and
\* the clock counts nanoseconds.
ASSUME ClockAssumption ==
    /\ SlotTicks \in Nat \ {0}
    /\ SlotParts \in Nat \ {0}
    /\ SlotParts <= SlotTicks
    /\ GainDivisor \in Nat \ {0}
    /\ MaximumCorrection \in Nat
    /\ TolerancePercent \in Nat
    /\ Steps \subseteq Nat
    /\ Refreshes \subseteq Nat
    /\ Leads \subseteq Nat
    /\ VblankAges \subseteq Nat
    /\ MaxTime \in Nat
    /\ MaxRejected \in Nat
    /\ MaxCorrections \in Nat

VARIABLES
    now,                \* The caller's clock.
    started,            \* started_
    epoch,              \* epoch_
    next_slot,          \* next_slot_
    missed_deadlines,   \* missed_deadlines_
    phase_corrections,  \* phase_corrections_
    issued,             \* Slots handed to the caller since Start.
    skipped,            \* Slots passed over since Start.
    rejected,           \* Submissions the caller reported missed since Start.
    sample              \* Arguments of the latest PhaseAlignToVblank.

history == <<issued, skipped, rejected>>
vars == <<now, started, epoch, next_slot, missed_deadlines,
          phase_corrections, issued, skipped, rejected, sample>>

Sample == [vblank : Int, refresh : Nat, lead : Nat]

------------------------------------------------------------------------------
(****************************************************************************)
(* The grid.                                                                *)
(****************************************************************************)

\* Ticks from the epoch to a slot: std::round of an exact rational.
DurationForRateSlot(slot) ==
    (2 * slot * SlotTicks + SlotParts) \div (2 * SlotParts)

DeadlineForSlot(slot) == epoch + DurationForRateSlot(slot)

NextDeadline == DeadlineForSlot(next_slot)

\* Mutation of LatestSlot without std::max: the quotient may name the slot before.
LatestSlotUnclamped(t) == ((t - epoch) * SlotParts) \div SlotTicks

\* Mutation of LatestSlot that takes the oldest slot due.
OldestSlot(t) == next_slot

\* The slot whose period contains time t, never one already handed out: the
\* rounded deadline of next_slot may lie a fraction of a tick before its exact
\* position, and then the quotient still names the slot before it.
LatestSlot(t) ==
    LET elapsed == IF t > epoch THEN t - epoch ELSE 0
        slot == (elapsed * SlotParts) \div SlotTicks
    IN  IF slot > next_slot THEN slot ELSE next_slot

------------------------------------------------------------------------------
(****************************************************************************)
(* The phase servo.                                                          *)
(****************************************************************************)

\* a/b is within the tolerance of a whole number of at least one.
Commensurate(a, b) ==
    LET nearest == (2 * a + b) \div (2 * b)
        gap == a - nearest * b
    IN  /\ nearest >= 1
        /\ 100 * gap <= TolerancePercent * nearest * b
        /\ -100 * gap <= TolerancePercent * nearest * b

Alignable(refresh) ==
    \/ Commensurate(refresh * SlotParts, SlotTicks)
    \/ Commensurate(SlotTicks, refresh * SlotParts)

\* How far the grid sits ahead of the vblank raster, folded modulo the refresh
\* period into (-refresh/2, refresh/2].
Phase(vblank, refresh, lead) ==
    LET offset == (epoch + lead - vblank) % refresh
    IN  IF 2 * offset > refresh THEN offset - refresh ELSE offset

\* Mutation of Correction that moves the epoch along with the phase.
CorrectionForward(phase) ==
    LET magnitude == (IF phase < 0 THEN -phase ELSE phase) \div GainDivisor
        capped == IF magnitude > MaximumCorrection
                  THEN MaximumCorrection ELSE magnitude
    IN  IF phase < 0 THEN -capped ELSE capped

\* A fraction of the phase, truncated to whole ticks, negated and capped.
Correction(phase) ==
    LET magnitude == (IF phase < 0 THEN -phase ELSE phase) \div GainDivisor
        capped == IF magnitude > MaximumCorrection
                  THEN MaximumCorrection ELSE magnitude
    IN  IF phase < 0 THEN capped ELSE -capped

------------------------------------------------------------------------------
Init ==
    /\ now = 0
    /\ started = FALSE
    /\ epoch = 0
    /\ next_slot = 0
    /\ missed_deadlines = 0
    /\ phase_corrections = 0
    /\ issued = {}
    /\ skipped = {}
    /\ rejected = 0
    /\ sample = [vblank |-> 0, refresh |-> 0, lead |-> 0]

\* Time passes between two calls of the loop that owns the clock.
Advance ==
    /\ \E d \in Steps :
        /\ now + d <= MaxTime
        /\ now' = now + d
    /\ UNCHANGED <<started, epoch, next_slot, missed_deadlines,
                   phase_corrections, history, sample>>

Start ==
    /\ started' = TRUE
    /\ epoch' = now
    /\ next_slot' = 0
    /\ missed_deadlines' = 0
    /\ phase_corrections' = 0
    /\ issued' = {}
    /\ skipped' = {}
    /\ rejected' = 0
    /\ UNCHANGED <<now, sample>>

Reset ==
    /\ started' = FALSE
    /\ epoch' = 0
    /\ next_slot' = 0
    /\ missed_deadlines' = 0
    /\ phase_corrections' = 0
    /\ issued' = {}
    /\ skipped' = {}
    /\ rejected' = 0
    /\ UNCHANGED <<now, sample>>

\* Mutations of TakeLatestDue: it leaves the slot it handed out as the next one,
\* or it counts that slot as missed.
TakeWithoutAdvance ==
    /\ started
    /\ now >= NextDeadline
    /\ LET latest == LatestSlot(now) IN
        /\ missed_deadlines' = missed_deadlines + (latest - next_slot)
        /\ next_slot' = latest
        /\ issued' = issued \union {latest}
        /\ skipped' = skipped \union next_slot .. (latest - 1)
    /\ UNCHANGED <<now, started, epoch, phase_corrections, rejected, sample>>

TakeCountsItself ==
    /\ started
    /\ now >= NextDeadline
    /\ LET latest == LatestSlot(now) IN
        /\ missed_deadlines' = missed_deadlines + (latest + 1 - next_slot)
        /\ next_slot' = latest + 1
        /\ issued' = issued \union {latest}
        /\ skipped' = skipped \union next_slot .. (latest - 1)
    /\ UNCHANGED <<now, started, epoch, phase_corrections, rejected, sample>>

\* A poll that finds a slot due hands out the latest one due and counts the
\* ones before it as missed.
TakeLatestDue ==
    /\ started
    /\ now >= NextDeadline
    /\ LET latest == LatestSlot(now) IN
        /\ missed_deadlines' = missed_deadlines + (latest - next_slot)
        /\ next_slot' = latest + 1
        /\ issued' = issued \union {latest}
        /\ skipped' = skipped \union next_slot .. (latest - 1)
    /\ UNCHANGED <<now, started, epoch, phase_corrections, rejected, sample>>

\* The caller could not submit the frame of a slot it was handed.
RecordMissedSubmission ==
    /\ rejected < MaxRejected
    /\ rejected < Cardinality(issued)
    /\ missed_deadlines' = missed_deadlines + 1
    /\ rejected' = rejected + 1
    /\ UNCHANGED <<now, started, epoch, next_slot, phase_corrections,
                   issued, skipped, sample>>

\* One servo step towards the vblank raster.  Only the epoch moves.
PhaseAlignToVblank(vblank, refresh, lead) ==
    LET correction == Correction(Phase(vblank, refresh, lead)) IN
    /\ started
    /\ phase_corrections < MaxCorrections
    /\ refresh > 0
    /\ Alignable(refresh)
    /\ correction # 0
    /\ epoch' = epoch + correction
    /\ phase_corrections' = phase_corrections + 1
    /\ sample' = [vblank |-> vblank, refresh |-> refresh, lead |-> lead]
    /\ UNCHANGED <<now, started, next_slot, missed_deadlines, history>>

Align ==
    \E age \in VblankAges, refresh \in Refreshes, lead \in Leads :
        PhaseAlignToVblank(now - age, refresh, lead)

Next ==
    \/ Advance
    \/ Start
    \/ Reset
    \/ TakeLatestDue
    \/ RecordMissedSubmission
    \/ Align

Spec == Init /\ [][Next]_vars

------------------------------------------------------------------------------
(****************************************************************************)
(* Properties.                                                               *)
(****************************************************************************)

\* Every variable has its type; a clock that is not started holds no history.
TypeOK ==
    /\ now \in Nat
    /\ started \in BOOLEAN
    /\ epoch \in Int
    /\ next_slot \in Nat
    /\ missed_deadlines \in Nat
    /\ phase_corrections \in Nat
    /\ issued \subseteq Nat
    /\ skipped \subseteq Nat
    /\ rejected \in Nat
    /\ sample \in Sample

\* Every slot below next_slot was either handed out or skipped, never both,
\* and no other slot was: TakeLatestDue neither loses nor repeats a slot, even
\* after a late poll and after the servo moved the epoch under it.
SlotsPartitioned ==
    /\ issued \union skipped = 0 .. (next_slot - 1)
    /\ issued \intersect skipped = {}

\* The missed count is exactly the slots TakeLatestDue passed over plus the
\* submissions the caller reported: nothing is counted twice or forgotten.
MissedIsAccounted ==
    missed_deadlines = Cardinality(skipped) + rejected

\* However late the poll, taking the latest due slot catches up: at most the
\* one slot whose deadline was rounded down onto this very tick is still due.
CatchesUp ==
    [][next_slot' > next_slot => DeadlineForSlot(next_slot' + 1) > now]_vars

Distance(x, y) == IF x > y THEN x - y ELSE y - x

\* Distance from a grid with epoch e to the nearest point of the vblank raster.
RasterDistance(e, s) ==
    LET offset == (e + s.lead - s.vblank) % s.refresh
    IN  IF 2 * offset > s.refresh THEN s.refresh - offset ELSE offset

\* A servo step brings the grid strictly closer to the raster the sample
\* describes, never past it, and never moves it by more than the cap.
ServoConverges ==
    [][phase_corrections' > phase_corrections =>
         /\ RasterDistance(epoch', sample') < RasterDistance(epoch, sample')
         /\ Distance(epoch', epoch) <= MaximumCorrection]_vars

==============================================================================

-------------------------- MODULE OutputClockProofs --------------------------
(*****************************************************************************)
(* The output clock for every slot period, servo and bound: type correctness,*)
(* the partition of the slots, and the account of the missed deadlines.      *)
(*****************************************************************************)
EXTENDS OutputClock, FiniteSetTheorems, TLAPS

\* The grid has a tick for every slot, and the slot that a poll takes is a
\* natural number no smaller than the next one (DeadlineForSlot and
\* TakeLatestDue): whatever the division rounds to, no slot is handed out twice.
LEMMA GridType ==
    ASSUME NEW slot \in Nat
    PROVE  DurationForRateSlot(slot) \in Nat
BY ClockAssumption DEF ClockAssumption, DurationForRateSlot

LEMMA LatestSlotIsNext ==
    ASSUME TypeOK
    PROVE  LatestSlot(now) \in Nat /\ LatestSlot(now) >= next_slot
<1> DEFINE elapsed == IF now > epoch THEN now - epoch ELSE 0
<1>1. elapsed \in Nat
  BY DEF TypeOK
<1>2. (elapsed * SlotParts) \div SlotTicks \in Nat
  <2>1. elapsed * SlotParts \in Nat
    BY <1>1, ClockAssumption DEF ClockAssumption
  <2> QED
    BY <2>1, ClockAssumption DEF ClockAssumption
<1> QED
  BY <1>2 DEF LatestSlot, TypeOK

\* A servo step is a whole number of ticks, no longer than the cap
\* (PhaseAlignToVblank).
LEMMA CorrectionBounded ==
    ASSUME NEW phase \in Int
    PROVE  /\ Correction(phase) \in Int
           /\ Correction(phase) <= MaximumCorrection
           /\ -MaximumCorrection <= Correction(phase)
<1> DEFINE magnitude == (IF phase < 0 THEN -phase ELSE phase) \div GainDivisor
<1>1. magnitude \in Nat
  BY ClockAssumption DEF ClockAssumption
<1> QED
  BY <1>1, ClockAssumption DEF ClockAssumption, Correction

LEMMA PhaseType ==
    ASSUME NEW vblank \in Int, NEW refresh \in Nat, refresh > 0, NEW lead \in Nat, TypeOK
    PROVE  Phase(vblank, refresh, lead) \in Int
<1>1. (epoch + lead - vblank) % refresh \in Int
  BY DEF TypeOK
<1> QED
  BY <1>1 DEF Phase

------------------------------------------------------------------------------
\* Type correctness of the clock.
THEOREM TypeCorrect == Spec => []TypeOK
<1>1. Init => TypeOK
  <2> SUFFICES ASSUME Init
               PROVE  TypeOK
    OBVIOUS
  <2>1. started \in BOOLEAN
    BY Zenon DEF Init
  <2> QED
    BY <2>1 DEF Init, TypeOK, Sample
<1>2. TypeOK /\ [Next]_vars => TypeOK'
  <2> SUFFICES ASSUME TypeOK, [Next]_vars
               PROVE  TypeOK'
    OBVIOUS
  <2>1. CASE Advance
    BY <2>1, ClockAssumption DEF Advance, TypeOK, history, ClockAssumption
  <2>2. CASE Start
    BY <2>2 DEF Start, TypeOK
  <2>3. CASE Reset
    <3>1. started' \in BOOLEAN
      BY <2>3, Zenon DEF Reset
    <3> QED
      BY <2>3, <3>1 DEF Reset, TypeOK
  <2>4. CASE TakeLatestDue
    <3> DEFINE latest == LatestSlot(now)
    <3> HIDE DEF latest
    <3>1. latest \in Nat /\ latest >= next_slot
      BY LatestSlotIsNext DEF latest
    <3>2. /\ missed_deadlines' = missed_deadlines + (latest - next_slot)
          /\ next_slot' = latest + 1
          /\ issued' = issued \union {latest}
          /\ skipped' = skipped \union next_slot .. (latest - 1)
          /\ UNCHANGED <<now, started, epoch, phase_corrections, rejected, sample>>
      BY <2>4 DEF TakeLatestDue, latest
    <3>3. next_slot .. (latest - 1) \subseteq Nat
      BY <3>1 DEF TypeOK
    <3> QED
      BY <3>1, <3>2, <3>3 DEF TypeOK
  <2>5. CASE RecordMissedSubmission
    BY <2>5 DEF RecordMissedSubmission, TypeOK
  <2>6. CASE Align
    <3> PICK age \in VblankAges, refresh \in Refreshes, lead \in Leads :
               PhaseAlignToVblank(now - age, refresh, lead)
      BY <2>6 DEF Align
    <3>1. age \in Nat /\ refresh \in Nat /\ refresh > 0 /\ lead \in Nat
      BY ClockAssumption DEF ClockAssumption, PhaseAlignToVblank
    <3>2. now - age \in Int
      BY <3>1 DEF TypeOK
    <3>3. Correction(Phase(now - age, refresh, lead)) \in Int
      BY <3>1, <3>2, PhaseType, CorrectionBounded
    <3> QED
      BY <3>1, <3>2, <3>3 DEF PhaseAlignToVblank, TypeOK, Sample, history
  <2>7. CASE UNCHANGED vars
    BY <2>7 DEF vars, history, TypeOK
  <2> QED
    BY <2>1, <2>2, <2>3, <2>4, <2>5, <2>6, <2>7 DEF Next
<1> QED
  BY <1>1, <1>2, PTL DEF Spec

------------------------------------------------------------------------------
\* The slots below next_slot are handed out or skipped, and never both.  The
\* invariant is inductive: a poll adds the one slot it takes and exactly the
\* slots between, and the servo moves no slot.
THEOREM SlotsArePartitioned == Spec => []SlotsPartitioned
<1>1. Init => SlotsPartitioned
  BY DEF Init, SlotsPartitioned
<1>2. TypeOK /\ SlotsPartitioned /\ [Next]_vars => SlotsPartitioned'
  <2> SUFFICES ASSUME TypeOK, SlotsPartitioned, [Next]_vars
               PROVE  SlotsPartitioned'
    OBVIOUS
  <2>1. CASE Start \/ Reset
    BY <2>1 DEF Start, Reset, SlotsPartitioned
  <2>2. CASE TakeLatestDue
    <3> DEFINE latest == LatestSlot(now)
    <3> HIDE DEF latest
    <3>1. latest \in Nat /\ latest >= next_slot
      BY LatestSlotIsNext DEF latest
    <3>2. /\ next_slot' = latest + 1
          /\ issued' = issued \union {latest}
          /\ skipped' = skipped \union next_slot .. (latest - 1)
      BY <2>2 DEF TakeLatestDue, latest
    <3>3. issued \union skipped = 0 .. (next_slot - 1) /\ issued \intersect skipped = {}
      BY DEF SlotsPartitioned
    <3>4. next_slot \in Nat
      BY DEF TypeOK
    <3>5. (issued \union {latest}) \union (skipped \union next_slot .. (latest - 1))
            = 0 .. latest
      BY <3>1, <3>3, <3>4
    <3>6. (issued \union {latest}) \intersect (skipped \union next_slot .. (latest - 1)) = {}
      BY <3>1, <3>3, <3>4
    <3> QED
      BY <3>1, <3>2, <3>5, <3>6 DEF SlotsPartitioned
  <2>3. CASE UNCHANGED <<next_slot, issued, skipped>>
    BY <2>3 DEF SlotsPartitioned
  <2> QED
    BY <2>1, <2>2, <2>3
    DEF Next, vars, history, Advance, RecordMissedSubmission, Align, PhaseAlignToVblank
<1> QED
  BY <1>1, <1>2, TypeCorrect, PTL DEF Spec

------------------------------------------------------------------------------
\* The slots skipped are finitely many, as they lie below next_slot.
LEMMA SkippedFinite ==
    ASSUME TypeOK, SlotsPartitioned
    PROVE  IsFiniteSet(skipped) /\ Cardinality(skipped) \in Nat
<1>1. IsFiniteSet(0 .. (next_slot - 1))
  BY FS_Interval DEF TypeOK
<1>2. skipped \in SUBSET (0 .. (next_slot - 1))
  BY DEF SlotsPartitioned
<1> QED
  BY <1>1, <1>2, FS_Subset, FS_CardinalityType

\* A run of slots counts as many missed deadlines as it has members.
LEMMA SkippingCounts ==
    ASSUME TypeOK, SlotsPartitioned, NEW latest \in Nat, latest >= next_slot
    PROVE  Cardinality(skipped \union next_slot .. (latest - 1))
             = Cardinality(skipped) + (latest - next_slot)
<1> DEFINE run == next_slot .. (latest - 1)
<1>1. next_slot \in Int /\ latest - 1 \in Int
  BY DEF TypeOK
<1>2. /\ IsFiniteSet(run)
      /\ Cardinality(run)
           = IF next_slot > latest - 1 THEN 0 ELSE (latest - 1) - next_slot + 1
  BY <1>1, FS_Interval
<1>3. skipped \intersect run = {}
  BY DEF SlotsPartitioned, TypeOK
<1> HIDE DEF run
<1>4. Cardinality(run) = latest - next_slot
  BY <1>1, <1>2
<1>5. Cardinality(skipped \union run) = Cardinality(skipped) + Cardinality(run) - 0
  BY <1>2, <1>3, SkippedFinite, FS_Union, FS_EmptySet
<1> QED
  BY <1>1, <1>4, <1>5, SkippedFinite DEF run

\* The missed count is the slots passed over plus the submissions reported.  The
\* partition is what makes the count right: a slot that was skipped already
\* could be counted again, were it passed over twice.
THEOREM MissedAccounted == Spec => []MissedIsAccounted
<1>1. Init => MissedIsAccounted
  BY FS_EmptySet DEF Init, MissedIsAccounted
<1>2. TypeOK /\ SlotsPartitioned /\ MissedIsAccounted /\ [Next]_vars => MissedIsAccounted'
  <2> SUFFICES ASSUME TypeOK, SlotsPartitioned, MissedIsAccounted, [Next]_vars
               PROVE  MissedIsAccounted'
    OBVIOUS
  <2>1. CASE Start \/ Reset
    BY <2>1, FS_EmptySet DEF Start, Reset, MissedIsAccounted
  <2>2. CASE TakeLatestDue
    <3> DEFINE latest == LatestSlot(now)
    <3> HIDE DEF latest
    <3>1. latest \in Nat /\ latest >= next_slot
      BY LatestSlotIsNext DEF latest
    <3>2. /\ missed_deadlines' = missed_deadlines + (latest - next_slot)
          /\ skipped' = skipped \union next_slot .. (latest - 1)
          /\ rejected' = rejected
      BY <2>2 DEF TakeLatestDue, latest
    <3>3. Cardinality(skipped')
            = Cardinality(skipped) + (latest - next_slot)
      BY <3>1, <3>2, SkippingCounts
    <3> QED
      BY <3>1, <3>2, <3>3, SkippedFinite DEF MissedIsAccounted, TypeOK
  <2>3. CASE RecordMissedSubmission
    BY <2>3, SkippedFinite DEF RecordMissedSubmission, MissedIsAccounted, TypeOK
  <2>4. CASE UNCHANGED <<missed_deadlines, skipped, rejected>>
    BY <2>4 DEF MissedIsAccounted
  <2> QED
    BY <2>1, <2>2, <2>3, <2>4
    DEF Next, vars, history, Advance, Align, PhaseAlignToVblank
<1> QED
  BY <1>1, <1>2, TypeCorrect, SlotsArePartitioned, PTL DEF Spec

------------------------------------------------------------------------------
(****************************************************************************)
(* What a step may never do.                                                 *)
(****************************************************************************)

\* Rounding down to a multiple.
LEMMA Quotient ==
    ASSUME NEW a \in Int, NEW b \in Nat \ {0}
    PROVE  a \div b \in Int /\ b * (a \div b) <= a /\ a < b * (a \div b) + b
OBVIOUS

\* A product is no smaller for a larger factor.
LEMMA Products ==
    ASSUME NEW b \in Nat, NEW x \in Int, NEW y \in Int, x <= y
    PROVE  b * x \in Int /\ b * y \in Int /\ b * x <= b * y
OBVIOUS

\* The deadline of the slot after the one that follows the slot of a time is later
\* than that time, although deadlines are rounded to the tick (DeadlineForSlot,
\* LatestSlot): it is two periods after a slot that began no later than a period ago.
LEMMA NextIsLater ==
    ASSUME TypeOK
    PROVE  DeadlineForSlot(LatestSlot(now) + 2) > now
<1> DEFINE elapsed == IF now > epoch THEN now - epoch ELSE 0
           slot == (elapsed * SlotParts) \div SlotTicks
           latest == LatestSlot(now)
           twice == 2 * SlotParts
           exact == 2 * (latest + 2) * SlotTicks
           ticks == DurationForRateSlot(latest + 2)
<1>1. /\ SlotTicks \in Nat \ {0} /\ SlotParts \in Nat \ {0} /\ SlotParts <= SlotTicks
      /\ now \in Nat /\ epoch \in Int
  BY ClockAssumption DEF ClockAssumption, TypeOK
<1>2. elapsed \in Nat /\ now - epoch <= elapsed
  BY <1>1
<1>3. latest \in Nat /\ slot <= latest
  <2>1. slot \in Int
    BY <1>1, <1>2
  <2> QED
    BY <2>1, LatestSlotIsNext DEF LatestSlot, TypeOK
<1> HIDE DEF elapsed
<1>4. elapsed * SlotParts < SlotTicks * (latest + 1)
  <2>1. elapsed * SlotParts \in Int
    BY <1>1, <1>2
  <2>2. slot \in Int /\ elapsed * SlotParts < SlotTicks * slot + SlotTicks
    BY <1>1, <2>1, Quotient
  <2> HIDE DEF slot, latest
  <2>3. SlotTicks * slot <= SlotTicks * latest /\ SlotTicks * latest \in Int
    BY <1>1, <1>3, <2>2, Products
  <2>4. SlotTicks * (latest + 1) = SlotTicks * latest + SlotTicks
    BY <1>1, <1>3
  <2> QED
    BY <1>1, <2>1, <2>2, <2>3, <2>4
<1> HIDE DEF latest
<1>5. /\ exact + SlotParts \in Int /\ twice \in Nat \ {0}
      /\ ticks = (exact + SlotParts) \div twice
  BY <1>1, <1>3 DEF DurationForRateSlot
<1>6. ticks \in Int /\ exact + SlotParts < twice * ticks + twice
  BY <1>5, Quotient
<1>7. exact = 2 * (SlotTicks * (latest + 1)) + 2 * SlotTicks
  BY <1>1, <1>3
<1>8. SlotTicks * (latest + 1) \in Int /\ elapsed * SlotParts \in Int
  BY <1>1, <1>2, <1>3
<1>9. twice * elapsed = 2 * (elapsed * SlotParts)
  BY <1>1, <1>2
<1> HIDE DEF exact, ticks
<1>10. twice * elapsed < twice * ticks
  <2> DEFINE a == SlotTicks * (latest + 1)
             b == elapsed * SlotParts
             c == twice * ticks
  <2>1. a \in Int /\ b \in Int /\ c \in Int /\ b < a
    BY <1>1, <1>4, <1>6, <1>8
  <2>2. 2 * a + 2 * SlotTicks + SlotParts < c + 2 * SlotParts
    BY <1>6, <1>7
  <2>3. twice * elapsed = 2 * b
    BY <1>9
  <2> HIDE DEF a, b, c
  <2>4. 2 * b < c
    BY <1>1, <2>1, <2>2
  <2> QED
    BY <2>3, <2>4 DEF c
<1>11. elapsed < ticks
  <2> SUFFICES ASSUME ticks <= elapsed
               PROVE  FALSE
    BY <1>2, <1>6
  <2> HIDE DEF twice
  <2>1. twice * ticks <= twice * elapsed /\ twice * ticks \in Int /\ twice * elapsed \in Int
    BY <1>2, <1>5, <1>6, Products
  <2> QED
    BY <1>10, <2>1
<1> QED
  BY <1>1, <1>2, <1>3, <1>6, <1>11 DEF DeadlineForSlot, ticks, latest

\* A poll catches up however late it is (TakeLatestDue).
THEOREM PollCatchesUp == Spec => CatchesUp
<1>1. TypeOK /\ [Next]_vars
        => [next_slot' > next_slot => DeadlineForSlot(next_slot' + 1) > now]_vars
  <2> SUFFICES ASSUME TypeOK, [Next]_vars, next_slot' > next_slot
               PROVE  DeadlineForSlot(next_slot' + 1) > now
    BY Zenon
  <2>1. CASE Start \/ Reset
    BY <2>1 DEF Start, Reset, TypeOK
  <2>2. CASE TakeLatestDue
    <3>1. next_slot' = LatestSlot(now) + 1 /\ LatestSlot(now) \in Nat
      BY <2>2, LatestSlotIsNext DEF TakeLatestDue
    <3>2. next_slot' + 1 = LatestSlot(now) + 2
      BY <3>1
    <3> QED
      BY <3>2, NextIsLater, Zenon
  <2>3. CASE UNCHANGED next_slot
    BY <2>3 DEF TypeOK
  <2> QED
    BY <2>1, <2>2, <2>3
    DEF Next, vars, Advance, RecordMissedSubmission, Align, PhaseAlignToVblank
<1> QED
  BY <1>1, TypeCorrect, PTL DEF Spec, CatchesUp

------------------------------------------------------------------------------
\* What is left after rounding down, however far away the multiple is.
LEMMA Remainder ==
    ASSUME NEW a \in Int, NEW b \in Nat \ {0}
    PROVE  /\ a % b \in Int /\ 0 <= a % b /\ a % b < b
           /\ a = b * (a \div b) + (a % b)
OBVIOUS

\* There is one multiple within reach.
LEMMA RemainderIsUnique ==
    ASSUME NEW a \in Int, NEW b \in Nat \ {0}, NEW q \in Int, NEW o \in Int,
           a = b * q + o, 0 <= o, o < b
    PROVE  a % b = o
<1> DEFINE d == a \div b  m == a % b
<1>1. d \in Int /\ m \in Int /\ 0 <= m /\ m < b /\ a = b * d + m
  BY Remainder
<1> HIDE DEF d, m
<1>2. ~(q + 1 <= d)
  <2> SUFFICES ASSUME q + 1 <= d
               PROVE  FALSE
    OBVIOUS
  <2>1. b * (q + 1) <= b * d /\ b * (q + 1) \in Int /\ b * d \in Int
    BY <1>1, Products
  <2>2. b * (q + 1) = b * q + b /\ b * q \in Int
    OBVIOUS
  <2> QED
    BY <1>1, <2>1, <2>2
<1>3. ~(d + 1 <= q)
  <2> SUFFICES ASSUME d + 1 <= q
               PROVE  FALSE
    OBVIOUS
  <2>1. b * (d + 1) <= b * q /\ b * (d + 1) \in Int /\ b * q \in Int
    BY <1>1, Products
  <2>2. b * (d + 1) = b * d + b /\ b * d \in Int
    BY <1>1
  <2> QED
    BY <1>1, <2>1, <2>2
<1>4. d = q
  BY <1>1, <1>2, <1>3
<1>5. b * q \in Int
  OBVIOUS
<1>6. m = o
  BY <1>1, <1>4, <1>5
<1> QED
  BY <1>6 DEF m

\* A shift that does not leave the period shifts the remainder.
LEMMA RemainderShifts ==
    ASSUME NEW a \in Int, NEW b \in Nat \ {0}, NEW c \in Int,
           0 <= (a % b) + c, (a % b) + c < b
    PROVE  (a + c) % b = (a % b) + c
<1> DEFINE d == a \div b  m == a % b
<1>1. d \in Int /\ m \in Int /\ a = b * d + m /\ 0 <= m + c /\ m + c < b
  BY Remainder
<1> HIDE DEF d, m
<1>2. a + c \in Int /\ b * d \in Int /\ m + c \in Int
  BY <1>1
<1>3. a + c = b * d + (m + c)
  BY <1>1, <1>2
<1>4. (a + c) % b = m + c
  BY <1>1, <1>2, <1>3, RemainderIsUnique
<1> QED
  BY <1>4 DEF m

\* A correction has the sign that brings the phase to zero, and does not overshoot.
LEMMA CorrectionOpposes ==
    ASSUME NEW phase \in Int, Correction(phase) # 0
    PROVE  /\ Correction(phase) \in Int
           /\ \/ phase > 0 /\ Correction(phase) < 0 /\ phase + Correction(phase) >= 0
              \/ phase < 0 /\ Correction(phase) > 0 /\ phase + Correction(phase) <= 0
<1> DEFINE size == IF phase < 0 THEN -phase ELSE phase
           magnitude == size \div GainDivisor
           capped == IF magnitude > MaximumCorrection THEN MaximumCorrection ELSE magnitude
<1>1. GainDivisor \in Nat \ {0} /\ MaximumCorrection \in Nat
  BY ClockAssumption DEF ClockAssumption
<1>2. size \in Nat /\ (size = 0 <=> phase = 0)
  OBVIOUS
<1>3. magnitude \in Nat /\ magnitude <= size
  <2> HIDE DEF size
  <2>1. /\ magnitude \in Int /\ GainDivisor * magnitude <= size
        /\ size < GainDivisor * magnitude + GainDivisor
    BY <1>1, <1>2, Quotient
  <2> HIDE DEF magnitude
  <2>2. magnitude >= 0
    <3> SUFFICES ASSUME magnitude <= -1
                 PROVE  FALSE
      BY <2>1
    <3>1. GainDivisor * magnitude <= GainDivisor * (-1) /\ GainDivisor * magnitude \in Int
      BY <1>1, <2>1, Products
    <3>2. GainDivisor * (-1) = -GainDivisor
      BY <1>1
    <3> QED
      BY <1>1, <1>2, <2>1, <3>1, <3>2
  <2>3. magnitude * 1 <= magnitude * GainDivisor /\ magnitude * GainDivisor \in Int
    BY <1>1, <2>1, <2>2, Products
  <2>4. magnitude * GainDivisor = GainDivisor * magnitude /\ magnitude * 1 = magnitude
    BY <1>1, <2>1
  <2> QED
    BY <1>2, <2>1, <2>2, <2>3, <2>4
<1>4. Correction(phase) = IF phase < 0 THEN capped ELSE -capped
  BY DEF Correction
<1> HIDE DEF magnitude
<1>5. capped \in Nat /\ capped <= size
  BY <1>1, <1>2, <1>3
<1> HIDE DEF capped
<1> QED
  BY <1>2, <1>4, <1>5

\* One servo step towards the raster (PhaseAlignToVblank): the phase is folded into
\* half a refresh on either side, so the shorter way is the one that is taken.
LEMMA AlignConverges ==
    ASSUME TypeOK, NEW vblank \in Int, NEW refresh \in Nat, NEW lead \in Nat,
           PhaseAlignToVblank(vblank, refresh, lead)
    PROVE  /\ RasterDistance(epoch', sample') < RasterDistance(epoch, sample')
           /\ Distance(epoch', epoch) <= MaximumCorrection
<1> DEFINE x == epoch + lead - vblank
           offset == x % refresh
           phase == Phase(vblank, refresh, lead)
           c == Correction(phase)
           next == (x + c) % refresh
<1>1. /\ refresh \in Nat \ {0} /\ epoch \in Int /\ x \in Int /\ c # 0 /\ epoch' = epoch + c
      /\ sample' = [vblank |-> vblank, refresh |-> refresh, lead |-> lead]
  BY DEF PhaseAlignToVblank, TypeOK
<1>2. offset \in Int /\ 0 <= offset /\ offset < refresh
  BY <1>1, Remainder
<1>3. phase = IF 2 * offset > refresh THEN offset - refresh ELSE offset
  BY DEF Phase
<1> HIDE DEF offset
<1>4. phase \in Int
  BY <1>1, <1>2, <1>3
<1> HIDE DEF phase
<1>5. /\ c \in Int /\ c <= MaximumCorrection /\ -MaximumCorrection <= c
      /\ \/ phase > 0 /\ c < 0 /\ phase + c >= 0
         \/ phase < 0 /\ c > 0 /\ phase + c <= 0
  BY <1>1, <1>4, CorrectionBounded, CorrectionOpposes
<1> HIDE DEF c
<1>6. Distance(epoch', epoch) <= MaximumCorrection
  BY <1>1, <1>5, ClockAssumption DEF Distance, ClockAssumption
<1>7. epoch' + lead - vblank = x + c
  BY <1>1, <1>5
<1>8. /\ RasterDistance(epoch, sample')
           = IF 2 * offset > refresh THEN refresh - offset ELSE offset
      /\ RasterDistance(epoch', sample')
           = IF 2 * next > refresh THEN refresh - next ELSE next
  BY <1>1, <1>7 DEF RasterDistance, offset
<1> HIDE DEF x
<1>9. CASE offset + c < refresh /\ 0 <= offset + c
  <2>1. next = offset + c
    BY <1>1, <1>5, <1>9, RemainderShifts DEF offset
  <2> HIDE DEF next
  <2> QED
    BY <1>1, <1>2, <1>3, <1>5, <1>6, <1>8, <2>1
<1>10. CASE ~(offset + c < refresh /\ 0 <= offset + c)
  <2>1. phase < 0 /\ offset + c = refresh
    BY <1>1, <1>2, <1>3, <1>5, <1>10
  <2>2. x = refresh * (x \div refresh) + offset /\ x \div refresh \in Int
    BY <1>1, Remainder, Quotient DEF offset
  <2> DEFINE q == x \div refresh
  <2> HIDE DEF q
  <2>3. x + c = refresh * (q + 1) + 0 /\ q + 1 \in Int /\ x + c \in Int
    BY <1>1, <1>2, <1>5, <2>1, <2>2 DEF q
  <2>4. next = 0
    <3>1. refresh \in Nat \ {0} /\ 0 \in Int /\ 0 <= 0 /\ 0 < refresh
      BY <1>1
    <3> QED
      BY <2>3, <3>1, RemainderIsUnique, Zenon
  <2> HIDE DEF next
  <2> QED
    BY <1>1, <1>2, <1>3, <1>6, <1>8, <2>1, <2>4
<1> QED
  BY <1>9, <1>10

\* The servo only ever comes closer to the raster, and never by more than the cap.
THEOREM ServoOnlyConverges == Spec => ServoConverges
<1>1. TypeOK /\ [Next]_vars
        => [phase_corrections' > phase_corrections =>
              /\ RasterDistance(epoch', sample') < RasterDistance(epoch, sample')
              /\ Distance(epoch', epoch) <= MaximumCorrection]_vars
  <2> SUFFICES ASSUME TypeOK, [Next]_vars, phase_corrections' > phase_corrections
               PROVE  /\ RasterDistance(epoch', sample') < RasterDistance(epoch, sample')
                      /\ Distance(epoch', epoch) <= MaximumCorrection
    BY Zenon
  <2>1. CASE Start \/ Reset
    BY <2>1 DEF Start, Reset, TypeOK
  <2>2. CASE Align
    <3> PICK age \in VblankAges, refresh \in Refreshes, lead \in Leads :
               PhaseAlignToVblank(now - age, refresh, lead)
      BY <2>2 DEF Align
    <3>1. age \in Nat /\ refresh \in Nat /\ lead \in Nat
      BY ClockAssumption DEF ClockAssumption
    <3>2. now - age \in Int
      BY <3>1 DEF TypeOK
    <3> QED
      BY <3>1, <3>2, AlignConverges
  <2>3. CASE UNCHANGED phase_corrections
    BY <2>3 DEF TypeOK
  <2> QED
    BY <2>1, <2>2, <2>3
    DEF Next, vars, Advance, RecordMissedSubmission, TakeLatestDue
<1> QED
  BY <1>1, TypeCorrect, PTL DEF Spec, ServoConverges

==============================================================================

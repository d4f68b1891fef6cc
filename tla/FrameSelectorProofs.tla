------------------------ MODULE FrameSelectorProofs ------------------------
(*****************************************************************************)
(* The frame selector for every value of its constants.                      *)
(*                                                                           *)
(* The inductive invariant joins the type invariant, the order of the        *)
(* timeline, the equation between delay and budget, the link between the     *)
(* last update and the delay, and the gate's bounds.  They lean on one       *)
(* another: the equation holds for the frame the delay was derived from, and *)
(* no later frame may pass for that one; the media time of a slot is a       *)
(* number only because the delay is engaged whenever its update may be       *)
(* skipped.  Both need the newest frame of the timeline to carry the latest  *)
(* sequence number.                                                          *)
(*****************************************************************************)
EXTENDS PortableLoop, SequenceTheorems, WellFoundedInduction, TLAPS

IInv ==
    /\ TypeOK
    /\ TimelineOrdered
    /\ DelayEngaged
    /\ DelayCarriesBudget
    /\ NoSlotBanked

------------------------------------------------------------------------------
(****************************************************************************)
(* The timeline, for every history length, period range and weight: what      *)
(* Ingest and ResetHistory preserve.                                          *)
(****************************************************************************)

\* A product with a fixed factor keeps the order.
LEMMA Scaling ==
    ASSUME NEW a \in Nat, NEW x \in Int, NEW y \in Int, x <= y
    PROVE  a * x <= a * y
OBVIOUS

\* The period estimate of Ingest stays within the plausible range: a weighted
\* mean of two periods in it is in it, and rounding down does not leave it.
LEMMA PeriodInRange ==
    ASSUME TimelineTypeOK, NEW sample \in MinPeriod .. MaxPeriod
    PROVE  PeriodAfter(sample) \in MinPeriod .. MaxPeriod
<1> DEFINE w == PeriodWeight
           v == 100 - PeriodWeight
           sum == v * period + w * sample
<1>1. /\ w \in Nat /\ v \in Nat /\ v + w = 100
      /\ MinPeriod \in Nat /\ MaxPeriod \in Nat
      /\ period \in Nat /\ sample \in Nat
      /\ MinPeriod <= period /\ period <= MaxPeriod
      /\ MinPeriod <= sample /\ sample <= MaxPeriod
  BY TimelineAssumption DEF TimelineAssumption, TimelineTypeOK
<1> HIDE DEF w, v
<1>2. /\ v * MinPeriod <= v * period /\ v * period <= v * MaxPeriod
      /\ w * MinPeriod <= w * sample /\ w * sample <= w * MaxPeriod
  BY <1>1, Scaling
<1>3. /\ v * MinPeriod + w * MinPeriod = 100 * MinPeriod
      /\ v * MaxPeriod + w * MaxPeriod = 100 * MaxPeriod
  BY <1>1
<1>4. v * period \in Int /\ w * sample \in Int /\ v * MinPeriod \in Int
      /\ w * MinPeriod \in Int /\ v * MaxPeriod \in Int /\ w * MaxPeriod \in Int
  BY <1>1
<1>5. sum \in Int /\ 100 * MinPeriod <= sum /\ sum <= 100 * MaxPeriod
  BY <1>1, <1>2, <1>3, <1>4
<1> HIDE DEF sum
<1>6. sum \div 100 \in MinPeriod .. MaxPeriod
  BY <1>1, <1>5
<1> QED
  BY <1>6 DEF PeriodAfter, sum, v, w

------------------------------------------------------------------------------
\* A frame that is no duplicate joins the history or starts it over.  The
\* history stays a run of consecutive sequence numbers, ordered by media time
\* and of one size, and as long as the bound allows.
LEMMA IngestKeepsTimeline ==
    ASSUME TimelineTypeOK, TimelineOrdered,
           NEW media \in Int, NEW arrival \in Int, NEW size \in Sizes,
           Ingest(media, arrival, size)
    PROVE  TimelineTypeOK' /\ TimelineOrdered'
<1> DEFINE kept == IF Breaks(media, size) THEN <<>> ELSE frames
           sample == IF kept = <<>> THEN 0 ELSE media - Newest.media
           new == [seq |-> unique_count + 1, media |-> media,
                   arrival |-> arrival, size |-> size]
           grown == Append(kept, new)
<1>1. new \in Frame
  BY DEF Frame, TimelineTypeOK
<1>2. kept \in Seq(Frame) /\ Len(kept) <= MaxHistory
  BY TimelineAssumption DEF TimelineTypeOK, TimelineAssumption
<1>3. \A i \in 1 .. Len(kept) :
        /\ kept[i] = frames[i]
        /\ kept[i].seq = unique_count - Len(kept) + i
        /\ i > 1 => kept[i - 1].media < kept[i].media /\ kept[i - 1].size = kept[i].size
        /\ i = Len(kept) => kept[i].media < media /\ kept[i].size = size
  <2>1. CASE Breaks(media, size)
    BY <2>1
  <2>2. CASE ~Breaks(media, size)
    <3>1. kept = frames
      BY <2>2
    <3>2. DOMAIN frames = 1 .. Len(frames) /\ Len(frames) \in Nat
      BY DEF TimelineTypeOK
    <3>3. frames # <<>> => Newest.size = size /\ Newest.media < media
      <4>1. frames # <<>> => Newest \in Frame
        BY DEF Newest, TimelineTypeOK
      <4> QED
        BY <2>2, <4>1 DEF Breaks, Frame
    <3>4. \A i \in 1 .. Len(frames) :
            /\ frames[i].seq = unique_count - Len(frames) + i
            /\ i > 1 => /\ frames[i - 1].media < frames[i].media
                        /\ frames[i - 1].size = frames[i].size
      BY <3>2 DEF TimelineOrdered
    <3>5. \A i \in 1 .. Len(frames) :
            i = Len(frames) => frames[i].media < media /\ frames[i].size = size
      BY <3>2, <3>3 DEF Newest
    <3> QED
      BY <3>1, <3>4, <3>5
  <2> QED
    BY <2>1, <2>2
<1> HIDE DEF kept
<1>4. /\ grown \in Seq(Frame) /\ Len(grown) = Len(kept) + 1 /\ Len(kept) \in Nat
      /\ grown # <<>>
      /\ \A i \in 1 .. Len(kept) : grown[i] = kept[i]
      /\ grown[Len(kept) + 1] = new
  BY <1>1, <1>2, AppendProperties, LenProperties
<1>5. unique_count \in Nat /\ MaxHistory \in Nat /\ MaxHistory >= 2
  BY TimelineAssumption DEF TimelineAssumption, TimelineTypeOK
<1>6. \A i \in 1 .. Len(grown) :
        /\ grown[i].seq = unique_count + 1 - Len(grown) + i
        /\ i > 1 => grown[i - 1].media < grown[i].media /\ grown[i - 1].size = grown[i].size
  <2> SUFFICES ASSUME NEW i \in 1 .. Len(grown)
               PROVE  /\ grown[i].seq = unique_count + 1 - Len(grown) + i
                      /\ i > 1 => /\ grown[i - 1].media < grown[i].media
                                  /\ grown[i - 1].size = grown[i].size
    OBVIOUS
  <2>1. CASE i <= Len(kept)
    <3>1. i \in 1 .. Len(kept) /\ (i > 1 => i - 1 \in 1 .. Len(kept))
      BY <1>4, <2>1
    <3> QED
      BY <1>3, <1>4, <1>5, <3>1
  <2>2. CASE i = Len(kept) + 1
    <3>1. i > 1 => i - 1 \in 1 .. Len(kept) /\ i - 1 = Len(kept)
      BY <1>4, <2>2
    <3>2. grown[i] = new
      BY <1>4, <2>2
    <3>3. i > 1 => grown[i - 1].media < media /\ grown[i - 1].size = size
      BY <1>3, <1>4, <3>1
    <3> QED
      BY <1>4, <1>5, <2>2, <3>2, <3>3
  <2> QED
    BY <1>4, <2>1, <2>2
<1>7. /\ frames' = Trimmed(grown)
      /\ unique_count' = unique_count + 1
  BY DEF Ingest, kept
<1>8. /\ frames' \in Seq(Frame) /\ Len(frames') <= MaxHistory /\ Len(frames') \in Nat
      /\ \A i \in 1 .. Len(frames') :
            /\ frames'[i].seq = unique_count + 1 - Len(frames') + i
            /\ i > 1 => /\ frames'[i - 1].media < frames'[i].media
                        /\ frames'[i - 1].size = frames'[i].size
  <2> HIDE DEF grown
  <2>1. CASE Len(grown) > MaxHistory
    <3>1. frames' = Tail(grown)
      BY <1>7, <2>1 DEF Trimmed
    <3>2. /\ Tail(grown) \in Seq(Frame) /\ Len(Tail(grown)) = Len(grown) - 1
          /\ \A i \in 1 .. Len(Tail(grown)) : Tail(grown)[i] = grown[i + 1]
      BY <1>4, HeadTailProperties
    <3>3. Len(grown) \in Nat /\ Len(grown) = MaxHistory + 1
      BY <1>2, <1>4, <1>5, <2>1
    <3>4. /\ frames' \in Seq(Frame) /\ Len(frames') = MaxHistory
          /\ \A i \in 1 .. Len(frames') : frames'[i] = grown[i + 1]
      BY <1>5, <3>1, <3>2, <3>3
    <3>5. ASSUME NEW i \in 1 .. Len(frames')
          PROVE  /\ frames'[i].seq = unique_count + 1 - Len(frames') + i
                 /\ i > 1 => /\ frames'[i - 1].media < frames'[i].media
                             /\ frames'[i - 1].size = frames'[i].size
      <4>1. i + 1 \in 1 .. Len(grown) /\ i + 1 > 1 /\ (i + 1) - 1 = i
        BY <1>5, <3>3, <3>4
      <4>2. grown[i + 1].seq = unique_count + 1 - Len(grown) + (i + 1)
        BY <1>6, <4>1
      <4>3. grown[i].media < grown[i + 1].media /\ grown[i].size = grown[i + 1].size
        BY <1>6, <4>1
      <4>4. frames'[i] = grown[i + 1]
        BY <3>4
      <4>5. i > 1 => frames'[i - 1] = grown[i]
        BY <1>5, <3>4
      <4>6. unique_count + 1 - Len(grown) + (i + 1) = unique_count + 1 - Len(frames') + i
        BY <1>5, <3>3, <3>4
      <4>7. frames'[i].seq = unique_count + 1 - Len(frames') + i
        BY <4>2, <4>4, <4>6
      <4> QED
        BY <4>3, <4>4, <4>5, <4>7
    <3>6. /\ frames' \in Seq(Frame) /\ Len(frames') <= MaxHistory
          /\ Len(frames') \in Nat
      BY <1>5, <3>4
    <3> QED
      BY <3>5, <3>6, Zenon
  <2>2. CASE ~(Len(grown) > MaxHistory)
    BY <1>4, <1>5, <1>6, <1>7, <2>2 DEF Trimmed
  <2> QED
    BY <2>1, <2>2
<1>9. TimelineOrdered'
  <2>1. DOMAIN frames' = 1 .. Len(frames')
    BY <1>8
  <2> SUFFICES ASSUME NEW i \in DOMAIN frames'
               PROVE  /\ frames'[i].seq = unique_count' - Len(frames') + i
                      /\ i > 1 => /\ frames'[i - 1].media < frames'[i].media
                                  /\ frames'[i - 1].size = frames'[i].size
    BY DEF TimelineOrdered
  <2>2. i \in 1 .. Len(frames')
    BY <2>1
  <2>3. unique_count' = unique_count + 1
    BY <1>7
  <2>4. /\ frames'[i].seq = unique_count + 1 - Len(frames') + i
        /\ i > 1 => /\ frames'[i - 1].media < frames'[i].media
                    /\ frames'[i - 1].size = frames'[i].size
    BY <1>8, <2>2, Zenon
  <2> QED
    BY <1>5, <1>8, <2>2, <2>3, <2>4
<1>10. has_period' \in BOOLEAN /\ discontinuities' \in Nat
  BY DEF Ingest, TimelineTypeOK
<1>11. period' \in MinPeriod .. MaxPeriod
  <2>1. \/ sample \in MinPeriod .. MaxPeriod /\ period' = PeriodAfter(sample)
        \/ period' = period
    BY DEF Ingest, kept
  <2> QED
    BY <2>1, PeriodInRange DEF TimelineTypeOK
<1> QED
  BY <1>5, <1>7, <1>8, <1>9, <1>10, <1>11 DEF TimelineTypeOK

\* A restarted capture leaves an empty history, which is in order.
LEMMA ResetKeepsTimeline ==
    ASSUME TimelineTypeOK, ResetHistory
    PROVE  TimelineTypeOK' /\ TimelineOrdered'
<1>1. frames' \in Seq(Frame) /\ Len(frames') = 0
  BY EmptySeq DEF ResetHistory
<1>2. has_period' \in BOOLEAN
  BY Zenon DEF ResetHistory
<1> QED
  BY <1>1, <1>2, TimelineAssumption
  DEF ResetHistory, TimelineTypeOK, TimelineOrdered, TimelineAssumption

\* The last frame of a history that is not empty is a frame, and its sequence
\* number is the latest one given out.
LEMMA NewestFrame ==
    ASSUME TimelineTypeOK, TimelineOrdered, frames # <<>>
    PROVE  /\ Newest \in Frame
           /\ Newest.seq = unique_count
           /\ Len(frames) \in DOMAIN frames
<1>1. Len(frames) \in DOMAIN frames /\ Len(frames) \in Nat
  BY DEF TimelineTypeOK
<1> QED
  BY <1>1 DEF TimelineTypeOK, TimelineOrdered, Newest

------------------------------------------------------------------------------
(****************************************************************************)
(* The gate.                                                                  *)
(****************************************************************************)

\* A gate that banks less than one slot.
Rationed(g) ==
    /\ g \in Gate
    /\ g.credit < TargetRate
    /\ g.even_initialized => g.even_slot < g.even_interval

LEMMA FreshIsRationed == Rationed(FreshGate)
<1>1. FreshGate \in Gate
  BY DEF FreshGate, Gate
<1> QED
  BY <1>1, TargetAssumption DEF Rationed, FreshGate, TargetAssumption

\* The interval of the even cadence is at least one slot.
LEMMA IntervalPositive ==
    ASSUME NEW allowed \in Nat \ {0}
    PROVE  Interval(allowed) \in Nat \ {0}
<1> DEFINE x == TargetRate + allowed - 1
           q == x \div allowed
<1>1. x \in Nat /\ x >= allowed /\ allowed \in Nat /\ allowed > 0
  BY TargetAssumption DEF TargetAssumption
<1> HIDE DEF x
<1>2. q \in Int /\ x < allowed * q + allowed
  BY <1>1
<1>3. q >= 1
  <2> HIDE DEF q
  <2>1. SUFFICES ASSUME q <= 0 PROVE FALSE
    BY <1>2
  <2>2. allowed * q <= allowed * 0
    BY <1>1, <1>2, <2>1, Scaling
  <2> QED
    BY <1>1, <1>2, <2>2
<1> QED
  BY <1>2, <1>3 DEF Interval, x

\* Asking the gate keeps it rationed, whatever rate it is asked with.
LEMMA SpreadIsRationed ==
    ASSUME NEW g, Rationed(g), NEW allowed \in Nat
    PROVE  Rationed(AfterSpread(g, allowed))
<1>1. TargetRate \in Nat \ {0} /\ g.credit \in Nat /\ g.credit < TargetRate
  BY TargetAssumption DEF TargetAssumption, Rationed, Gate
<1>2. CASE Unbound(allowed)
  <2>1. AfterSpread(g, allowed) = [g EXCEPT !.credit = 0, !.initialized = FALSE]
    BY <1>2 DEF AfterSpread
  <2>2. /\ AfterSpread(g, allowed).credit = 0
        /\ AfterSpread(g, allowed).even_initialized = g.even_initialized
        /\ AfterSpread(g, allowed).even_slot = g.even_slot
        /\ AfterSpread(g, allowed).even_interval = g.even_interval
    BY <2>1 DEF Rationed, Gate
  <2>3. \A b \in BOOLEAN : [g EXCEPT !.credit = 0, !.initialized = b] \in Gate
    BY DEF Rationed, Gate
  <2>4. AfterSpread(g, allowed) \in Gate
    BY <2>1, <2>3, Zenon
  <2> QED
    BY <1>1, <2>2, <2>4 DEF Rationed
<1>4. CASE ~Unbound(allowed) /\ allowed <= 0
  BY <1>4 DEF Rationed, AfterSpread
<1>3. CASE ~Unbound(allowed) /\ allowed > 0
  <2> DEFINE credit == CreditFor(g, allowed)
             left == IF credit < TargetRate THEN credit
                     ELSE IF credit - TargetRate > TargetRate THEN TargetRate
                     ELSE credit - TargetRate
  <2>1. credit \in Nat /\ credit < 2 * TargetRate
    BY <1>1, <1>3 DEF CreditFor, Unbound
  <2>2. left \in Nat /\ left < TargetRate
    <3> HIDE DEF credit
    <3> QED
      BY <1>1, <2>1
  <2>3. AfterSpread(g, allowed) = [g EXCEPT !.credit = left, !.initialized = TRUE]
    BY <1>3 DEF AfterSpread
  <2> HIDE DEF left
  <2> QED
    BY <2>2, <2>3 DEF Rationed, Gate
<1> QED
  BY <1>2, <1>3, <1>4

LEMMA EvenIsRationed ==
    ASSUME NEW g, Rationed(g), NEW allowed \in Nat
    PROVE  Rationed(AfterEven(g, allowed))
<1>1. CASE Unbound(allowed) \/ allowed <= 0
  BY <1>1 DEF Rationed, Gate, AfterEven
<1>2. CASE ~Unbound(allowed) /\ allowed > 0
  <2>1. Interval(allowed) \in Nat \ {0}
    BY <1>2, IntervalPositive
  <2>2. EvenSlot(g, allowed) \in Nat
    BY DEF EvenSlot, Rationed, Gate
  <2> DEFINE slot == (EvenSlot(g, allowed) + 1) % Interval(allowed)
  <2>3. slot \in 0 .. Interval(allowed) - 1
    BY <2>1, <2>2
  <2>4. AfterEven(g, allowed) =
          [g EXCEPT !.even_slot = slot, !.even_interval = Interval(allowed),
                    !.even_initialized = TRUE]
    BY <1>2 DEF AfterEven
  <2> HIDE DEF slot
  <2> QED
    <3>1. /\ AfterEven(g, allowed).credit = g.credit
          /\ AfterEven(g, allowed).even_slot = slot
          /\ AfterEven(g, allowed).even_interval = Interval(allowed)
      BY <2>4 DEF Rationed, Gate
    <3>2. TRUE \in BOOLEAN
      OBVIOUS
    <3>3. slot \in Nat /\ Interval(allowed) \in Nat /\ slot < Interval(allowed)
      BY <2>1, <2>3
    <3>4. AfterEven(g, allowed) \in Gate
      BY <2>4, <3>2, <3>3 DEF Rationed, Gate
    <3> QED
      BY <3>1, <3>3, <3>4 DEF Rationed
<1> QED
  BY <1>1, <1>2

------------------------------------------------------------------------------
(****************************************************************************)
(* The selection.                                                             *)
(****************************************************************************)

\* The order of the natural numbers has no infinite descent (the library's
\* theorem, for the order written as a set of pairs).
NatOrder == {pair \in Nat \X Nat : pair[1] < pair[2]}

LEMMA NatOrderWellFounded == IsWellFoundedOn(NatOrder, Nat)
<1>1. OpToRel(<, Nat) = NatOrder
  BY DEF OpToRel, NatOrder
<1> QED
  BY <1>1, NatLessThanWellFounded, Zenon

\* A media time between the first and the newest frame has a frame after it and
\* one before it: the first later frame exists and is not the first of the
\* history, so SelectImpl never reads before the beginning.
LEMMA UpperIsInside ==
    ASSUME TypeOK, NEW m \in Int, Len(frames) >= 2,
           m < Newest.media, frames[1].media < m
    PROVE  /\ Upper(m) \in DOMAIN frames
           /\ Upper(m) - 1 \in DOMAIN frames
           /\ frames[Upper(m)].media > m
           /\ frames[Upper(m) - 1].media <= m
<1> DEFINE Later == {i \in DOMAIN frames : frames[i].media > m}
<1>1. /\ DOMAIN frames = 1 .. Len(frames)
      /\ Len(frames) \in Nat
      /\ \A i \in DOMAIN frames : frames[i] \in Frame
  BY DEF TypeOK, TimelineTypeOK
<1>2. Len(frames) \in Later
  BY <1>1 DEF Newest
<1>3. PICK first \in Later : \A j \in Later : ~(<<j, first>> \in NatOrder)
  <2>1. Later \subseteq Nat
    BY <1>1
  <2> HIDE DEF Later
  <2> QED
    BY <1>2, <2>1, NatOrderWellFounded, WFMin
<1>4. ASSUME NEW j \in Later
      PROVE  first <= j
  <2>1. j \in Nat /\ first \in Nat
    BY <1>1
  <2>2. j < first => <<j, first>> \in NatOrder
    BY <2>1 DEF NatOrder
  <2> QED
    BY <1>3, <2>1, <2>2
<1>5. /\ Upper(m) \in DOMAIN frames
      /\ frames[Upper(m)].media > m
      /\ \A j \in DOMAIN frames : frames[j].media > m => Upper(m) <= j
  BY <1>3, <1>4 DEF Upper
<1>6. Upper(m) # 1
  BY <1>1, <1>5 DEF Frame
<1>7. Upper(m) - 1 \in DOMAIN frames
  BY <1>1, <1>5, <1>6
<1>8. frames[Upper(m) - 1].media <= m
  <2> DEFINE u == Upper(m)
  <2>1. u \in Int /\ u - 1 \in DOMAIN frames
    BY <1>1, <1>5, <1>7
  <2>2. frames[u - 1].media > m => u <= u - 1
    BY <1>5, <2>1, Zenon
  <2>3. frames[u - 1].media \in Int
    BY <1>1, <2>1 DEF Frame
  <2>4. frames[u - 1].media <= m
    <3> HIDE DEF u
    <3> QED
      BY <2>1, <2>2, <2>3
  <2> QED
    BY <2>4
<1> QED
  BY <1>5, <1>7, <1>8, Zenon

\* Every way out of SelectImpl returns a selection.
LEMMA WholeIsSelection ==
    ASSUME NEW f \in Frame, NEW m \in Int, NEW mode \in Modes
    PROVE  Whole(f, m, mode) \in Selection
<1>1. \A b \in BOOLEAN :
        [mode |-> mode, media |-> m, previous |-> f.seq, current |-> f.seq,
         num |-> 1, den |-> 1, submit |-> b] \in Selection
  BY DEF Selection, Frame
<1>2. TRUE \in BOOLEAN
  BY Zenon
<1> QED
  BY <1>1, <1>2, Zenon DEF Whole

LEMMA RealIsSelection ==
    ASSUME NEW f \in Frame, NEW mode \in Modes
    PROVE  /\ Real(f, mode) \in Selection
           /\ [Real(f, mode) EXCEPT !.submit = FALSE] \in Selection
<1>1. Real(f, mode) \in Selection
  BY WholeIsSelection DEF Real, Frame
<1>2. \A b \in BOOLEAN : [Real(f, mode) EXCEPT !.submit = b] \in Selection
  BY <1>1 DEF Selection
<1>3. FALSE \in BOOLEAN
  BY Zenon
<1> QED
  BY <1>1, <1>2, <1>3, Zenon

LEMMA BetweenIsSelection ==
    ASSUME TypeOK, NEW m \in Int, Len(frames) >= 2,
           m < Newest.media, frames[1].media < m
    PROVE  Between(m) \in Selection
<1> DEFINE current == frames[Upper(m)]
           previous == frames[Upper(m) - 1]
           blend(b) == [mode |-> "interpolate", media |-> m, previous |-> previous.seq,
                        current |-> current.seq, num |-> m - previous.media,
                        den |-> current.media - previous.media, submit |-> b]
<1>1. current \in Frame /\ previous \in Frame
  BY UpperIsInside DEF TypeOK, TimelineTypeOK
<1>2. /\ Real(current, "real_frame") \in Selection
      /\ Real(previous, "real_frame") \in Selection
      /\ Whole(current, m, "real_frame") \in Selection
      /\ Whole(previous, m, "real_frame") \in Selection
  BY <1>1, RealIsSelection, WholeIsSelection DEF Modes
<1>3. blend(TRUE) \in Selection
  <2>1. \A b \in BOOLEAN : blend(b) \in Selection
    <3> HIDE DEF current, previous
    <3> QED
      BY <1>1 DEF Selection, Frame, Modes
  <2>2. TRUE \in BOOLEAN
    BY Zenon
  <2> HIDE DEF blend
  <2> QED
    BY <2>1, <2>2, Zenon
<1>4. Between(m) \in {Real(current, "real_frame"), Real(previous, "real_frame"), blend(TRUE),
                      Whole(current, m, "real_frame"), Whole(previous, m, "real_frame")}
  BY Zenon DEF Between, Lower
<1> HIDE DEF current, previous, blend
<1> QED
  BY <1>2, <1>3, <1>4

------------------------------------------------------------------------------
(****************************************************************************)
(* The queue delay.                                                           *)
(****************************************************************************)

\* The rate the ceiling allows is a whole number of frames in the window.
LEMMA AllowedRateType ==
    ASSUME TypeOK
    PROVE  AllowedRate \in Nat
<1>1. SourceRate \in Nat
  <2>1. RateWindow \in Nat /\ period \in Nat /\ period > 0
    BY SelectorAssumption, TimelineAssumption
    DEF SelectorAssumption, TimelineAssumption, TypeOK, TimelineTypeOK
  <2> QED
    BY <2>1 DEF SourceRate
<1>2. SourceRate * MaxMultiplier \in Nat
  BY <1>1, SelectorAssumption DEF SelectorAssumption
<1> QED
  BY <1>1, <1>2, TargetAssumption DEF AllowedRate, Smaller, TargetAssumption

\* The delay derived for a budget is a delay.
LEMMA DelayForBudget ==
    ASSUME TypeOK, NEW budget \in Nat
    PROVE  /\ DelayFor(budget) \in Nat
           /\ DelayFor(budget) # NoDelay
<1>1. lookahead \in Nat
  BY SelectorAssumption DEF SelectorAssumption, lookahead
<1>2. /\ MinPeriod \in Nat /\ MinPeriod >= 1 /\ MaxPeriod \in Nat
      /\ period \in MinPeriod .. MaxPeriod
  BY TimelineAssumption DEF TimelineAssumption, TypeOK, TimelineTypeOK
<1>3. DelayFor(budget) = period + budget + lookahead
  BY <1>2 DEF DelayFor, Larger
<1> QED
  BY <1>1, <1>2, <1>3, SelectorAssumption DEF SelectorAssumption

\* The budget a call leaves, with or without an underrun, is within its bounds.
LEMMA BudgetBounded ==
    ASSUME TypeOK, DelayCarriesBudget
    PROVE  /\ CurrentBudget \in buffer_floor .. MaxBudget
           /\ IncreasedBudget \in buffer_floor .. MaxBudget
           /\ buffer_floor \in Nat
<1>1. /\ buffer_floor \in Nat /\ MaxBudget \in Nat /\ buffer_floor <= MaxBudget
      /\ BudgetIncrease \in Nat /\ BudgetDecrease \in Nat
      /\ jitter_budget \in buffer_floor .. MaxBudget
  BY SelectorAssumption DEF SelectorAssumption, TypeOK, DelayCarriesBudget
<1>2. CurrentBudget \in buffer_floor .. MaxBudget
  BY <1>1 DEF CurrentBudget, Larger
<1> QED
  BY <1>1, <1>2 DEF IncreasedBudget, Smaller

\* When there are two frames, the delay that the slot's media time is computed
\* from is engaged: either this call updates it, or the newest frame was seen by
\* an earlier update that nothing has undone.
LEMMA DelayIsThere ==
    ASSUME IInv, Len(frames) >= 2
    PROVE  CurrentDelay \in Nat
<1>1. frames # <<>>
  BY DEF IInv, TypeOK, TimelineTypeOK
<1>2. Newest \in Frame
  BY <1>1, NewestFrame DEF IInv, TypeOK
<1>3. CASE Updates
  BY <1>3, BudgetBounded, DelayForBudget DEF CurrentDelay, IInv
<1>4. CASE ~Updates
  <2>1. last_update = Newest.seq
    BY <1>4 DEF Updates
  <2>2. queue_delay # NoDelay
    BY <1>2, <2>1 DEF Frame, IInv, DelayEngaged
  <2> QED
    BY <1>4, <2>2 DEF CurrentDelay, IInv, TypeOK
<1> QED
  BY <1>3, <1>4

\* What a call that did not run the queue dry leaves of the delay.
LEMMA KeptDelay ==
    ASSUME IInv, KeepsDelay,
           last_update' = IF Updates THEN Newest.seq ELSE last_update,
           UNCHANGED <<timeline, configuration>>
    PROVE  /\ queue_delay' \in Nat \union {NoDelay}
           /\ jitter_budget' \in Nat
           /\ last_update' \in Nat
           /\ DelayEngaged'
           /\ DelayCarriesBudget'
<1>1. UNCHANGED <<unique_count, buffer_floor, lookahead, frames, period>>
  BY DEF timeline, configuration, lookahead
<1>2. buffer_floor \in Nat /\ CurrentBudget \in buffer_floor .. MaxBudget /\ MaxBudget \in Nat
  BY BudgetBounded, SelectorAssumption DEF IInv, SelectorAssumption
<1>3. CASE Updates
  <2>1. queue_delay' = DelayFor(CurrentBudget) /\ jitter_budget' = CurrentBudget
    BY <1>3 DEF KeepsDelay, CurrentDelay
  <2>2. frames # <<>>
    BY <1>3 DEF Updates, IInv, TypeOK, TimelineTypeOK
  <2>3. Newest.seq = unique_count /\ Newest.seq \in Nat
    BY <2>2, NewestFrame DEF IInv, TypeOK, Frame
  <2>4. DelayFor(CurrentBudget) \in Nat /\ DelayFor(CurrentBudget) # NoDelay
    BY <1>2, DelayForBudget DEF IInv
  <2>5. DelayFor(jitter_budget)' = queue_delay'
    BY <1>1, <2>1 DEF DelayFor
  <2> QED
    BY <1>1, <1>2, <1>3, <2>1, <2>3, <2>4, <2>5 DEF DelayEngaged, DelayCarriesBudget
<1>4. CASE ~Updates
  <2>1. ~Recovered
    BY <1>4, Zenon DEF Updates, Recovered
  <2>2. UNCHANGED <<queue_delay, jitter_budget, last_update>>
    BY <1>4, <2>1, Zenon DEF KeepsDelay, CurrentDelay, CurrentBudget
  <2>3. DelayEngaged'
    BY <1>1, <2>2 DEF DelayEngaged, IInv
  <2>4. DelayCarriesBudget'
    BY <1>1, <2>2 DEF DelayCarriesBudget, DelayFor, Newest, IInv
  <2> QED
    BY <2>2, <2>3, <2>4 DEF IInv, TypeOK
<1> QED
  BY <1>3, <1>4

\* What a call that ran the queue dry leaves of the delay.
LEMMA GrownDelay ==
    ASSUME IInv, Len(frames) >= 2,
           jitter_budget' = IncreasedBudget,
           queue_delay' = DelayFor(IncreasedBudget),
           last_update' = IF Updates THEN Newest.seq ELSE last_update,
           UNCHANGED <<timeline, configuration>>
    PROVE  /\ queue_delay' \in Nat \union {NoDelay}
           /\ jitter_budget' \in Nat
           /\ last_update' \in Nat
           /\ DelayEngaged'
           /\ DelayCarriesBudget'
<1>1. UNCHANGED <<unique_count, buffer_floor, lookahead, frames, period>>
  BY DEF timeline, configuration, lookahead
<1>2. buffer_floor \in Nat /\ IncreasedBudget \in buffer_floor .. MaxBudget /\ MaxBudget \in Nat
  BY BudgetBounded, SelectorAssumption DEF IInv, SelectorAssumption
<1>3. frames # <<>>
  BY DEF IInv, TypeOK, TimelineTypeOK
<1>4. Newest.seq = unique_count /\ Newest.seq \in Nat
  BY <1>3, NewestFrame DEF IInv, TypeOK, Frame
<1>5. last_update' \in Nat /\ last_update' <= unique_count
  BY <1>4 DEF IInv, TypeOK, DelayEngaged
<1>6. /\ queue_delay' \in Nat /\ queue_delay' # NoDelay
      /\ queue_delay' = DelayFor(jitter_budget)'
  <2>1. IncreasedBudget \in Nat
    BY <1>2
  <2> QED
    BY <1>1, <2>1, DelayForBudget DEF IInv, DelayFor
<1> QED
  BY <1>1, <1>2, <1>5, <1>6 DEF DelayEngaged, DelayCarriesBudget

\* A disengaged delay needs no budget but the floor.
LEMMA ForgottenDelay ==
    ASSUME IInv, queue_delay' = NoDelay, jitter_budget' = buffer_floor, last_update' = 0,
           UNCHANGED configuration, unique_count' \in Nat
    PROVE  /\ queue_delay' \in Nat \union {NoDelay}
           /\ jitter_budget' \in Nat
           /\ last_update' \in Nat
           /\ DelayEngaged'
           /\ DelayCarriesBudget'
<1>1. buffer_floor \in Nat /\ buffer_floor \in buffer_floor .. MaxBudget
  BY SelectorAssumption DEF SelectorAssumption, IInv, TypeOK
<1> QED
  BY <1>1 DEF DelayEngaged, DelayCarriesBudget, configuration

\* The gate after a call is rationed.
LEMMA GateStaysRationed ==
    ASSUME IInv, NEW enforce_ceiling
    PROVE  Rationed(GateAfter(enforce_ceiling))
<1>1. Rationed(gate)
  BY DEF IInv, TypeOK, NoSlotBanked, Rationed
<1>2. AllowedRate \in Nat
  BY AllowedRateType DEF IInv
<1> QED
  BY <1>1, <1>2, SpreadIsRationed, EvenIsRationed, Zenon DEF GateAfter

------------------------------------------------------------------------------
(****************************************************************************)
(* The steps.                                                                 *)
(****************************************************************************)

\* The parts of the invariant that a call to SelectImpl does not touch at all.
UnselectedTypes ==
    /\ now \in Nat
    /\ hidden \in BOOLEAN
    /\ last_unique_arrival \in Nat
    /\ buffer_floor \in BufferFloors
    /\ pacing_mode \in {"paced", "queued", "unpaced"}
    /\ ceiling_pacing \in {"spread", "even"}
    /\ generation_enabled \in BOOLEAN
    /\ resets \in Nat
    /\ TimelineTypeOK
    /\ TimelineOrdered

\* The parts it may change.
SelectedTypes ==
    /\ queue_delay \in Nat \union {NoDelay}
    /\ jitter_budget \in Nat
    /\ last_update \in Nat
    /\ gate \in Gate
    /\ recovering \in BOOLEAN
    /\ recovery_seq \in Nat
    /\ sel \in Selection
    /\ owed \in Nat
    /\ DelayEngaged
    /\ DelayCarriesBudget
    /\ NoSlotBanked

LEMMA InvariantParts ==
    ASSUME UnselectedTypes, SelectedTypes, last_deadline \in Int
    PROVE  IInv
BY Zenon DEF UnselectedTypes, SelectedTypes, IInv, TypeOK

LEMMA InvariantHasParts ==
    ASSUME IInv
    PROVE  UnselectedTypes /\ SelectedTypes /\ last_deadline \in Int
BY Zenon DEF UnselectedTypes, SelectedTypes, IInv, TypeOK

\* A step that leaves the timeline and the configuration alone keeps them typed
\* and in order.
LEMMA UnselectedKept ==
    ASSUME UnselectedTypes,
           UNCHANGED <<timeline, now, overlay, configuration, generation_enabled, resets>>
    PROVE  UnselectedTypes'
<1>1. TimelineTypeOK' /\ TimelineOrdered'
  BY DEF UnselectedTypes, timeline, TimelineTypeOK, TimelineOrdered
<1> QED
  BY <1>1 DEF UnselectedTypes, overlay, configuration

\* The history ends with a frame that was not there before.
NewestIsNew == Newest'.seq = unique_count + 1

\* It does after an ingest, by the order of the timeline.
LEMMA IngestedIsNew ==
    ASSUME TimelineTypeOK', TimelineOrdered', frames' # <<>>, unique_count' = unique_count + 1
    PROVE  NewestIsNew
<1>1. Len(frames') \in DOMAIN frames' /\ Len(frames') \in Nat
  BY DEF TimelineTypeOK
<1> QED
  BY <1>1 DEF TimelineTypeOK, TimelineOrdered, Newest, NewestIsNew

\* An ingest leaves a frame, for a history holds at least two.
LEMMA IngestLeavesFrame ==
    ASSUME TimelineTypeOK, NEW media \in Int, NEW arrival \in Int, NEW size \in Sizes,
           Ingest(media, arrival, size)
    PROVE  frames' # <<>>
<1> DEFINE kept == IF Breaks(media, size) THEN <<>> ELSE frames
           new == [seq |-> unique_count + 1, media |-> media,
                   arrival |-> arrival, size |-> size]
           grown == Append(kept, new)
<1>1. new \in Frame
  BY DEF Frame, TimelineTypeOK
<1>2. kept \in Seq(Frame)
  BY EmptySeq DEF TimelineTypeOK
<1>3. frames' = Trimmed(grown)
  BY DEF Ingest
<1> HIDE DEF kept, new
<1>4. grown \in Seq(Frame) /\ grown # <<>> /\ Len(grown) \in Nat
  BY <1>1, <1>2, AppendProperties, LenProperties
<1> HIDE DEF grown
<1>5. CASE Len(grown) > MaxHistory
  <2>1. Len(grown) >= 2
    BY <1>4, <1>5, TimelineAssumption DEF TimelineAssumption
  <2>2. Tail(grown) \in Seq(Frame) /\ Len(Tail(grown)) = Len(grown) - 1
    BY <1>4, HeadTailProperties
  <2> DEFINE rest == Tail(grown)
  <2>3. rest \in Seq(Frame) /\ Len(rest) >= 1
    BY <1>4, <2>1, <2>2
  <2> HIDE DEF rest
  <2>4. Len(<<>>) = 0 /\ \A q : q = <<>> => Len(q) = Len(<<>>)
    BY EmptySeq
  <2>5. rest # <<>>
    BY <2>3, <2>4
  <2> QED
    BY <1>3, <1>5, <2>5 DEF Trimmed, rest
<1>6. CASE ~(Len(grown) > MaxHistory)
  BY <1>3, <1>4, <1>6 DEF Trimmed
<1> QED
  BY <1>5, <1>6

\* A step that makes no selection of its own keeps the selector's part, whether it
\* leaves the history alone or adds a frame to it.
LEMMA SelectionKept ==
    ASSUME SelectedTypes, UNCHANGED <<delay, gate, recovery, owed, pacing_mode, buffer_floor>>,
           unique_count' \in Nat, unique_count \in Nat, unique_count <= unique_count',
           UNCHANGED <<frames, period>> \/ NewestIsNew, sel' \in Selection
    PROVE  SelectedTypes'
<1>1. UNCHANGED <<queue_delay, jitter_budget, last_update, recovering, recovery_seq, lookahead>>
  BY DEF delay, recovery, lookahead
<1>2. DelayEngaged'
  BY <1>1 DEF SelectedTypes, DelayEngaged
<1>3. DelayCarriesBudget'
  <2>1. CASE UNCHANGED <<frames, period>>
    BY <1>1, <2>1 DEF SelectedTypes, DelayCarriesBudget, DelayFor, Newest
  <2>2. CASE NewestIsNew
    <3>1. last_update' # Newest'.seq
      BY <1>1, <2>2 DEF SelectedTypes, DelayEngaged, NewestIsNew
    <3> QED
      BY <1>1, <3>1 DEF SelectedTypes, DelayCarriesBudget
  <2> QED
    BY <2>1, <2>2
<1> QED
  BY <1>1, <1>2, <1>3 DEF SelectedTypes, NoSlotBanked

LEMMA NoFrameIsSelection == NoFrame \in Selection
<1>1. \A b \in BOOLEAN :
        [mode |-> "no_frame", media |-> 0, previous |-> 0, current |-> 0,
         num |-> 1, den |-> 1, submit |-> b] \in Selection
  BY DEF Selection, Modes
<1>2. FALSE \in BOOLEAN
  BY Zenon
<1> QED
  BY <1>1, <1>2, Zenon DEF NoFrame

\* What the part every late way out of SelectImpl shares keeps.
LEMMA PreparedKeeps ==
    ASSUME IInv, NEW deadline, NEW enforce_ceiling, Prepared(deadline, enforce_ceiling)
    PROVE  /\ UnselectedTypes'
           /\ recovering' \in BOOLEAN /\ recovery_seq' \in Nat
           /\ gate' \in Gate /\ NoSlotBanked'
           /\ Newest \in Frame
           /\ frames # <<>>
           /\ last_update' = IF Updates THEN Newest.seq ELSE last_update
           /\ UNCHANGED <<timeline, configuration>>
<1>1. UnselectedTypes /\ SelectedTypes
  BY InvariantHasParts
<1>2. UnselectedTypes'
  BY <1>1, UnselectedKept DEF Prepared
<1>3. recovering' \in BOOLEAN
  BY Zenon DEF Prepared
<1>4. recovery_seq' \in Nat
  BY <1>1 DEF Prepared, SelectedTypes
<1>5. gate' \in Gate /\ NoSlotBanked'
  <2>1. gate' = GateAfter(enforce_ceiling)
    BY DEF Prepared
  <2>2. Rationed(gate')
    BY <2>1, GateStaysRationed
  <2> QED
    BY <2>2 DEF Rationed, NoSlotBanked
<1>6. frames # <<>>
  BY DEF Prepared
<1>7. Newest \in Frame
  BY <1>6, NewestFrame DEF IInv, TypeOK
<1> QED
  BY <1>2, <1>3, <1>4, <1>5, <1>6, <1>7 DEF Prepared

\* Every way out of SelectImpl keeps the invariant.
LEMMA SelectImplStep ==
    ASSUME IInv, NEW deadline \in Int, NEW enforce_ceiling \in BOOLEAN,
           SelectImpl(deadline, enforce_ceiling)
    PROVE  UnselectedTypes' /\ SelectedTypes'
<1> USE InvariantHasParts
<1>0. TypeOK /\ unique_count \in Nat /\ owed \in Nat /\ (enforce_ceiling => AllowedRate \in Nat)
  BY AllowedRateType DEF IInv, TypeOK, TimelineTypeOK
<1>1. CASE SelectNoFrame
  <2>1. UnselectedTypes'
    BY <1>1, UnselectedKept DEF SelectNoFrame, selector
  <2>2. SelectedTypes'
    BY <1>0, <1>1, SelectionKept, NoFrameIsSelection
    DEF SelectNoFrame, selector, timeline, configuration
  <2> QED
    BY <2>1, <2>2
<1>2. CASE SelectStalled(deadline)
  <2>1. UnselectedTypes'
    BY <1>2, UnselectedKept DEF SelectStalled
  <2>2. frames # <<>>
    BY <1>2 DEF SelectStalled, IsStalled
  <2>3. Newest \in Frame /\ Newest.seq \in Nat
    BY <2>2, NewestFrame DEF IInv, TypeOK, Frame
  <2>4. sel' \in Selection
    BY <1>2, <2>3, RealIsSelection DEF SelectStalled, Modes
  <2>5. recovering' \in BOOLEAN
    BY <1>2, Zenon DEF SelectStalled
  <2>6. /\ queue_delay' \in Nat \union {NoDelay} /\ jitter_budget' \in Nat /\ last_update' \in Nat
        /\ DelayEngaged' /\ DelayCarriesBudget'
    BY <1>0, <1>2, ForgottenDelay DEF SelectStalled, timeline
  <2>7. gate' \in Gate /\ NoSlotBanked' /\ owed' \in Nat /\ recovery_seq' \in Nat
    BY <1>2, <2>3 DEF SelectStalled, SelectedTypes, NoSlotBanked
  <2> QED
    BY <2>1, <2>4, <2>5, <2>6, <2>7 DEF SelectedTypes
<1>3. CASE SelectRecovering(deadline)
  <2>1. UnselectedTypes'
    BY <1>3, UnselectedKept DEF SelectRecovering, selector
  <2>2. Newest \in Frame
    BY <1>3, NewestFrame DEF SelectRecovering, IInv, TypeOK
  <2>3. sel' \in Selection
    BY <1>3, <2>2, RealIsSelection DEF SelectRecovering, Modes
  <2>4. SelectedTypes'
    BY <1>0, <1>3, <2>3, SelectionKept DEF SelectRecovering, selector, timeline, configuration
  <2> QED
    BY <2>1, <2>4
<1>4. CASE enforce_ceiling /\ SelectDeclined(deadline)
  <2>1. Prepared(deadline, TRUE) /\ KeepsDelay
    BY <1>4 DEF SelectDeclined
  <2>2. sel' \in Selection
    BY <1>4, <2>1, PreparedKeeps, RealIsSelection DEF SelectDeclined, Modes
  <2>3. owed' \in Nat
    BY <1>0, <1>4 DEF SelectDeclined
  <2> QED
    BY <2>1, <2>2, <2>3, PreparedKeeps, KeptDelay DEF SelectedTypes
<1>5. CASE SelectNewest(deadline, enforce_ceiling)
  <2>1. Prepared(deadline, enforce_ceiling) /\ KeepsDelay
    BY <1>5 DEF SelectNewest
  <2>2. sel' \in Selection
    BY <1>5, <2>1, PreparedKeeps, RealIsSelection DEF SelectNewest, Modes
  <2>3. owed' \in Nat
    BY <1>0, <1>5 DEF SelectNewest
  <2> QED
    BY <2>1, <2>2, <2>3, PreparedKeeps, KeptDelay DEF SelectedTypes
<1>6. CASE SelectByMediaTime(deadline, enforce_ceiling)
  <2> DEFINE media == deadline - CurrentDelay
  <2>1. /\ Prepared(deadline, enforce_ceiling) /\ KeepsDelay
        /\ Len(frames) >= 2 /\ media < Newest.media
        /\ owed' = IF enforce_ceiling THEN 0 ELSE owed
        /\ sel' = IF media <= frames[1].media THEN Real(frames[1], "cold_start")
                                              ELSE Between(media)
    BY <1>6 DEF SelectByMediaTime
  <2>2. media \in Int
    BY <2>1, DelayIsThere
  <2>3. frames[1] \in Frame /\ frames[1].media \in Int
    <3>1. frames \in Seq(Frame) /\ Len(frames) >= 2
      BY <1>0, <2>1 DEF TypeOK, TimelineTypeOK
    <3>2. frames[1] \in Frame
      BY <3>1
    <3> QED
      BY <3>2 DEF Frame
  <2> HIDE DEF media
  <2>4. Real(frames[1], "cold_start") \in Selection
    BY <2>3, RealIsSelection DEF Modes
  <2>5. ~(media <= frames[1].media) => Between(media) \in Selection
    BY <1>0, <2>1, <2>2, <2>3, BetweenIsSelection
  <2>6. sel' \in Selection
    BY <2>1, <2>4, <2>5
  <2>7. owed' \in Nat
    BY <1>0, <2>1
  <2> QED
    BY <2>1, <2>6, <2>7, PreparedKeeps, KeptDelay DEF SelectedTypes
<1>7. CASE SelectUnderrun(deadline, enforce_ceiling)
  <2>1. /\ Prepared(deadline, enforce_ceiling) /\ Len(frames) >= 2
        /\ jitter_budget' = IncreasedBudget
        /\ queue_delay' = DelayFor(IncreasedBudget)
    BY <1>7 DEF SelectUnderrun
  <2>2. sel' \in Selection
    BY <1>7, <2>1, PreparedKeeps, RealIsSelection DEF SelectUnderrun, Modes
  <2>3. owed' \in Nat
    BY <1>0, <1>7 DEF SelectUnderrun
  <2> QED
    BY <2>1, <2>2, <2>3, PreparedKeeps, GrownDelay DEF SelectedTypes
<1> QED
  BY <1>1, <1>2, <1>3, <1>4, <1>5, <1>6, <1>7 DEF SelectImpl

\* FrameSelector::Reset leaves a disengaged delay and a fresh gate.
LEMMA ResetKeeps ==
    ASSUME IInv, Reset, UNCHANGED configuration, unique_count' \in Nat, sel' \in Selection
    PROVE  SelectedTypes'
<1>1. recovering' \in BOOLEAN
  BY Zenon DEF Reset
<1>2. Rationed(gate')
  BY FreshIsRationed DEF Reset
<1>3. /\ queue_delay' \in Nat \union {NoDelay} /\ jitter_budget' \in Nat /\ last_update' \in Nat
      /\ DelayEngaged' /\ DelayCarriesBudget'
  BY ForgottenDelay DEF Reset
<1> QED
  BY <1>1, <1>2, <1>3 DEF Reset, SelectedTypes, Rationed, NoSlotBanked

\* The invariant is inductive: initially it holds, and every step of the loop
\* keeps it.
LEMMA InvariantInitially == Init => IInv
<1> SUFFICES ASSUME Init
             PROVE  IInv
  OBVIOUS
<1>1. TimelineTypeOK
  <2>1. has_period \in BOOLEAN
    BY Zenon DEF Init, TimelineInit
  <2>2. frames \in Seq(Frame) /\ Len(frames) = 0
    BY EmptySeq DEF Init, TimelineInit
  <2> QED
    BY <2>1, <2>2, TimelineAssumption
    DEF Init, TimelineInit, TimelineTypeOK, TimelineAssumption
<1>2. TimelineOrdered
  BY DEF Init, TimelineInit, TimelineOrdered
<1>3. buffer_floor \in Nat /\ buffer_floor <= MaxBudget
  BY SelectorAssumption DEF SelectorAssumption, Init
<1>4. hidden \in BOOLEAN /\ generation_enabled \in BOOLEAN /\ recovering \in BOOLEAN
  BY Zenon DEF Init
<1>5. Rationed(gate)
  BY FreshIsRationed DEF Init
<1>6. TypeOK
  BY <1>1, <1>3, <1>4, <1>5, NoFrameIsSelection DEF Init, TypeOK, Rationed
<1>7. DelayEngaged
  BY DEF Init, TimelineInit, DelayEngaged
<1>8. DelayCarriesBudget
  BY <1>3, SelectorAssumption DEF Init, DelayCarriesBudget, SelectorAssumption
<1>9. NoSlotBanked
  BY <1>5 DEF Rationed, NoSlotBanked
<1> QED
  BY <1>2, <1>6, <1>7, <1>8, <1>9 DEF IInv

\* Serving a deadline keeps the invariant.
LEMMA ServeStep ==
    ASSUME IInv, NEW deadline \in Int, NEW enforce_ceiling \in BOOLEAN,
           Serve(deadline, enforce_ceiling)
    PROVE  IInv'
<1>1. SelectImpl(deadline, enforce_ceiling) /\ last_deadline' \in Int
  BY DEF Serve
<1>2. UnselectedTypes' /\ SelectedTypes'
  BY <1>1, SelectImplStep
<1> QED
  BY <1>1, <1>2, Zenon DEF UnselectedTypes, SelectedTypes, IInv, TypeOK

LEMMA InvariantStep ==
    ASSUME IInv, [Next]_vars
    PROVE  IInv'
<1>0. /\ UnselectedTypes /\ SelectedTypes /\ last_deadline \in Int
      /\ now \in Int /\ now \in Nat /\ unique_count \in Nat /\ resets \in Nat
      /\ TimelineTypeOK /\ TimelineOrdered
  BY InvariantHasParts DEF UnselectedTypes, TimelineTypeOK
<1>1. CASE Advance
  <2>1. /\ now' \in Nat /\ sel' = NoFrame
        /\ UNCHANGED <<timeline, overlay, configuration, selector, last_deadline, owed, resets>>
    BY <1>0, <1>1, SelectorAssumption DEF Advance, SelectorAssumption
  <2>2. TimelineTypeOK' /\ TimelineOrdered'
    BY <1>0, <2>1 DEF timeline, TimelineTypeOK, TimelineOrdered
  <2>3. UnselectedTypes'
    BY <1>0, <2>1, <2>2 DEF UnselectedTypes, overlay, configuration, selector
  <2>4. SelectedTypes'
    BY <1>0, <2>1, SelectionKept, NoFrameIsSelection DEF selector, configuration, timeline
  <2> QED
    BY <1>0, <2>1, <2>3, <2>4, Zenon DEF UnselectedTypes, SelectedTypes, IInv, TypeOK
<1>2. ASSUME NEW age \in CaptureDelays, NEW size \in Sizes, IngestFrame(now - age, size)
      PROVE  IInv'
  <2>1. now - age \in Int
    BY <1>0, SelectorAssumption DEF SelectorAssumption
  <2>2. Ingest(now - age, now, size)
    BY <1>2 DEF IngestFrame
  <2>3. TimelineTypeOK' /\ TimelineOrdered'
    BY <1>0, <2>1, <2>2, IngestKeepsTimeline
  <2>4. unique_count' = unique_count + 1 /\ NewestIsNew
    <3>1. unique_count' = unique_count + 1
      BY <2>2 DEF Ingest
    <3>2. frames' # <<>>
      BY <1>0, <2>1, <2>2, IngestLeavesFrame
    <3> QED
      BY <2>3, <3>1, <3>2, IngestedIsNew
  <2>5. /\ last_unique_arrival' = now /\ sel' = NoFrame
        /\ UNCHANGED <<now, hidden, configuration, last_deadline>>
        /\ \/ Reset /\ resets' = resets + 1
           \/ UNCHANGED <<selector, owed, resets>>
    BY <1>2 DEF IngestFrame
  <2>6. UnselectedTypes'
    BY <1>0, <2>3, <2>5 DEF UnselectedTypes, Reset, configuration, selector
  <2>7. SelectedTypes'
    <3>1. CASE Reset
      BY <1>0, <2>4, <2>5, <3>1, ResetKeeps, NoFrameIsSelection
    <3>2. CASE UNCHANGED <<selector, owed, resets>>
      BY <1>0, <2>4, <2>5, <3>2, SelectionKept, NoFrameIsSelection DEF selector, configuration
    <3> QED
      BY <2>5, <3>1, <3>2
  <2> QED
    BY <1>0, <2>5, <2>6, <2>7, Zenon DEF UnselectedTypes, SelectedTypes, IInv, TypeOK
<1>3. CASE Restart
  <2>1. ResetHistory /\ Reset
    BY <1>3 DEF Restart
  <2>2. TimelineTypeOK' /\ TimelineOrdered' /\ unique_count' \in Nat
    BY <1>0, <2>1, ResetKeepsTimeline DEF TimelineTypeOK
  <2>3. /\ last_unique_arrival' = now /\ sel' = NoFrame /\ resets' = resets + 1
        /\ UNCHANGED <<now, hidden, configuration, last_deadline, generation_enabled>>
    BY <1>3 DEF Restart, Reset
  <2>4. UnselectedTypes'
    BY <1>0, <2>2, <2>3 DEF UnselectedTypes, configuration
  <2>5. SelectedTypes'
    BY <2>1, <2>2, <2>3, ResetKeeps, NoFrameIsSelection
  <2> QED
    BY <1>0, <2>3, <2>4, <2>5, Zenon DEF UnselectedTypes, SelectedTypes, IInv, TypeOK
<1>4. CASE Hide
  <2>1. /\ sel' = NoFrame /\ resets' = resets + 1
        /\ UNCHANGED <<timeline, now, last_unique_arrival, configuration, selector,
                       last_deadline, owed>>
    BY <1>4 DEF Hide
  <2>2. hidden' \in BOOLEAN
    BY <1>4, Zenon DEF Hide
  <2>3. TimelineTypeOK' /\ TimelineOrdered'
    BY <1>0, <2>1 DEF timeline, TimelineTypeOK, TimelineOrdered
  <2>4. UnselectedTypes'
    BY <1>0, <2>1, <2>2, <2>3 DEF UnselectedTypes, configuration, selector
  <2>5. SelectedTypes'
    BY <1>0, <2>1, SelectionKept, NoFrameIsSelection DEF selector, configuration, timeline
  <2> QED
    BY <1>0, <2>1, <2>4, <2>5, Zenon DEF UnselectedTypes, SelectedTypes, IInv, TypeOK
<1>5. CASE Reveal
  <2>1. /\ sel' = NoFrame /\ Reset /\ generation_enabled' = generation_enabled
        /\ UNCHANGED <<timeline, now, last_unique_arrival, configuration, last_deadline, resets>>
    BY <1>5 DEF Reveal, Reset
  <2>2. hidden' \in BOOLEAN
    BY <1>5, Zenon DEF Reveal
  <2>3. TimelineTypeOK' /\ TimelineOrdered'
    BY <1>0, <2>1 DEF timeline, TimelineTypeOK, TimelineOrdered
  <2>4. UnselectedTypes'
    BY <1>0, <2>1, <2>2, <2>3 DEF UnselectedTypes, configuration
  <2>5. SelectedTypes'
    BY <1>0, <2>1, <2>3, ResetKeeps, NoFrameIsSelection DEF TimelineTypeOK
  <2> QED
    BY <1>0, <2>1, <2>4, <2>5, Zenon DEF UnselectedTypes, SelectedTypes, IInv, TypeOK
<1>6. CASE Toggle
  <2>1. /\ sel' = NoFrame /\ resets' = resets + 1 /\ owed' = 0 /\ gate' = FreshGate
        /\ UNCHANGED <<timeline, now, overlay, configuration, delay, recovery, last_deadline>>
    BY <1>6 DEF Toggle
  <2>2. generation_enabled' \in BOOLEAN
    BY <1>6, Zenon DEF Toggle
  <2>3. TimelineTypeOK' /\ TimelineOrdered'
    BY <1>0, <2>1 DEF timeline, TimelineTypeOK, TimelineOrdered
  <2>4. UnselectedTypes'
    BY <1>0, <2>1, <2>2, <2>3 DEF UnselectedTypes, configuration, overlay
  <2>5. Rationed(gate')
    BY <2>1, FreshIsRationed
  <2>6. UNCHANGED <<queue_delay, jitter_budget, last_update, recovering, recovery_seq,
                    lookahead, unique_count, buffer_floor, frames, period>>
    BY <2>1 DEF delay, recovery, configuration, timeline, lookahead
  <2>7. DelayCarriesBudget'
    BY <1>0, <2>6 DEF SelectedTypes, DelayCarriesBudget, DelayFor, Newest
  <2>8. SelectedTypes'
    BY <1>0, <2>1, <2>5, <2>6, <2>7, NoFrameIsSelection
    DEF SelectedTypes, DelayEngaged, NoSlotBanked, Rationed
  <2> QED
    BY <1>0, <2>1, <2>4, <2>8, Zenon DEF UnselectedTypes, SelectedTypes, IInv, TypeOK
<1>7. CASE Select
  <2>1. TRUE \in BOOLEAN
    BY Zenon
  <2>2. now + SlotTicks \in Int
    BY <1>0, SelectorAssumption DEF SelectorAssumption
  <2>3. Serve(now, TRUE) \/ Serve(now + SlotTicks, TRUE)
    BY <1>7 DEF Select
  <2> QED
    BY <1>0, <2>1, <2>2, <2>3, ServeStep, Zenon
<1>8. CASE SelectNow
  <2>1. FALSE \in BOOLEAN
    BY Zenon
  <2> QED
    BY <1>0, <1>8, <2>1, ServeStep, Zenon DEF SelectNow
<1>9. CASE UNCHANGED vars
  <2>1. UNCHANGED <<now, timeline, overlay, configuration, selector, last_deadline, sel, owed, resets>>
    BY <1>9 DEF vars
  <2>2. TimelineTypeOK' /\ TimelineOrdered'
    BY <1>0, <2>1 DEF timeline, TimelineTypeOK, TimelineOrdered
  <2>3. UnselectedTypes'
    BY <1>0, <2>1, <2>2 DEF UnselectedTypes, overlay, configuration, selector
  <2>4. sel' \in Selection
    BY <1>0, <2>1 DEF SelectedTypes
  <2>5. SelectedTypes'
    BY <1>0, <2>1, <2>4, SelectionKept DEF selector, configuration, timeline
  <2> QED
    BY <1>0, <2>1, <2>3, <2>5, Zenon DEF UnselectedTypes, SelectedTypes, IInv, TypeOK
<1> QED
  BY <1>1, <1>2, <1>3, <1>4, <1>5, <1>6, <1>7, <1>8, <1>9 DEF Next

\* The inductive invariant holds in every reachable state.
THEOREM InvariantHolds == Spec => []IInv
BY InvariantInitially, InvariantStep, PTL DEF Spec

\* Type correctness of the selector and its timeline; in particular every
\* selection is one, whatever frames arrived and however the budget moved.
THEOREM TypeCorrect == Spec => []TypeOK
<1>1. IInv => TypeOK
  BY DEF IInv
<1> QED
  BY <1>1, InvariantHolds, PTL

\* The history is always a run of consecutive, strictly later frames of one size
\* (SourceTimeline::Ingest and ResetHistory).
THEOREM TimelineStaysOrdered == Spec => []TimelineOrdered
<1>1. IInv => TimelineOrdered
  BY DEF IInv
<1> QED
  BY <1>1, InvariantHolds, PTL

\* SelectImpl never dereferences a disengaged queue delay.
THEOREM DelayIsEngaged == Spec => []DelayEngaged
<1>1. IInv => DelayEngaged
  BY DEF IInv
<1> QED
  BY <1>1, InvariantHolds, PTL

\* The queue delay always carries the jitter budget (UpdateQueueDelay and
\* IncreaseQueueDelay).
THEOREM DelayAlwaysCarriesBudget == Spec => []DelayCarriesBudget
<1>1. IInv => DelayCarriesBudget
  BY DEF IInv
<1> QED
  BY <1>1, InvariantHolds, PTL

\* The gate never banks a whole slot (TargetSlotGate::Allow and AllowEven).
THEOREM NoSlotIsBanked == Spec => []NoSlotBanked
<1>1. IInv => NoSlotBanked
  BY DEF IInv
<1> QED
  BY <1>1, InvariantHolds, PTL

------------------------------------------------------------------------------
(****************************************************************************)
(* The slots the gate withholds.                                              *)
(****************************************************************************)

\* What bounds the shares withheld in a row.  The spread gate has banked at least
\* what it withheld.
SpreadBound(g, o) == o <= g.credit

\* The even gate has denied every slot of the present interval but the first; each
\* of them was worth at most the target rate less one, divided by the slots that a
\* whole interval denies.
Denied(g) == IF g.even_slot = 0 THEN g.even_interval - 1 ELSE g.even_slot - 1

EvenBound(g, o) ==
    IF g.even_initialized
    THEN /\ g.even_interval >= 2
         /\ (g.even_interval - 1) * o <= Denied(g) * (TargetRate - 1)
    ELSE o = 0

WithheldBound ==
    IF ceiling_pacing = "spread" THEN SpreadBound(gate, owed) ELSE EvenBound(gate, owed)

\* The spread gate banks the share of a slot it denies.
LEMMA SpreadWithholds ==
    ASSUME NEW g, Rationed(g), NEW allowed \in Nat, NEW o \in Nat, SpreadBound(g, o)
    PROVE  /\ AllowSpread(g, allowed) => SpreadBound(AfterSpread(g, allowed), 0)
           /\ ~AllowSpread(g, allowed) => SpreadBound(AfterSpread(g, allowed), o + allowed)
<1>1. /\ TargetRate \in Nat \ {0} /\ g.credit \in Nat /\ g.credit < TargetRate /\ o <= g.credit
      /\ g.initialized \in BOOLEAN /\ g \in Gate
  BY TargetAssumption DEF TargetAssumption, Rationed, Gate, SpreadBound
<1>2. AfterSpread(g, allowed).credit \in Nat
  BY SpreadIsRationed DEF Rationed, Gate
<1>3. CASE AllowSpread(g, allowed)
  BY <1>2, <1>3 DEF SpreadBound
<1>4. CASE ~AllowSpread(g, allowed)
  <2>1. ~Unbound(allowed)
    BY <1>4 DEF AllowSpread
  <2>2. CASE allowed = 0
    <3>1. AfterSpread(g, allowed) = g
      BY <2>1, <2>2 DEF AfterSpread
    <3> QED
      BY <1>1, <1>4, <2>2, <3>1 DEF SpreadBound
  <2>3. CASE allowed > 0
    <3>1. CreditFor(g, allowed) < TargetRate /\ CreditFor(g, allowed) \in Int
      BY <1>1, <1>4, <2>1, <2>3 DEF AllowSpread, CreditFor, Unbound
    <3>2. CreditFor(g, allowed) = g.credit + allowed
      BY <1>1, <3>1 DEF CreditFor
    <3>3. AfterSpread(g, allowed) =
            [g EXCEPT !.credit = CreditFor(g, allowed), !.initialized = TRUE]
      BY <2>1, <2>3, <3>1 DEF AfterSpread
    <3>4. AfterSpread(g, allowed).credit = CreditFor(g, allowed)
      BY <1>1, <3>3 DEF Gate
    <3> QED
      BY <1>1, <1>4, <3>2, <3>4 DEF SpreadBound
  <2> QED
    BY <2>2, <2>3
<1> QED
  BY <1>3, <1>4

\* An interval is at least two slots, and the slots it denies are worth less than
\* one slot together.
LEMMA IntervalShares ==
    ASSUME NEW allowed \in Nat \ {0}, ~Unbound(allowed)
    PROVE  /\ Interval(allowed) \in Nat /\ Interval(allowed) >= 2
           /\ (Interval(allowed) - 1) * allowed <= TargetRate - 1
<1> DEFINE x == TargetRate + allowed - 1
           q == Interval(allowed)
<1>1. /\ TargetRate \in Nat /\ allowed \in Nat /\ allowed > 0 /\ allowed < TargetRate
      /\ x \in Nat
  BY TargetAssumption DEF TargetAssumption, Unbound
<1>2. q \in Int /\ allowed * q <= x /\ x < allowed * q + allowed
  BY <1>1 DEF Interval
<1> HIDE DEF q
<1>3. q >= 2
  <2>1. SUFFICES ASSUME q <= 1 PROVE FALSE
    BY <1>2
  <2>2. allowed * q <= allowed * 1
    BY <1>1, <1>2, <2>1, Scaling
  <2> QED
    BY <1>1, <1>2, <2>2
<1>4. (q - 1) * allowed = allowed * q - allowed
  BY <1>1, <1>2
<1>5. allowed * q \in Int
  BY <1>1, <1>2
<1>6. (q - 1) * allowed <= TargetRate - 1
  BY <1>1, <1>2, <1>4, <1>5
<1> QED
  BY <1>2, <1>3, <1>6 DEF q

LEMMA EvenWithholds ==
    ASSUME NEW g, Rationed(g), NEW allowed \in Nat, NEW o \in Nat, EvenBound(g, o)
    PROVE  /\ AllowEven(g, allowed) => EvenBound(AfterEven(g, allowed), 0)
           /\ ~AllowEven(g, allowed) => EvenBound(AfterEven(g, allowed), o + allowed)
<1> DEFINE after == AfterEven(g, allowed)
           interval == Interval(allowed)
           slot == EvenSlot(g, allowed)
<1>1. /\ TargetRate \in Nat \ {0} /\ g \in Gate
      /\ g.even_slot \in Nat /\ g.even_interval \in Nat /\ g.even_initialized \in BOOLEAN
      /\ g.even_initialized => g.even_slot < g.even_interval
  BY TargetAssumption DEF TargetAssumption, Rationed, Gate
<1>2. CASE Unbound(allowed)
  <2>1. AllowEven(g, allowed) /\ ~after.even_initialized
    BY <1>1, <1>2 DEF AllowEven, AfterEven, Gate
  <2> QED
    BY <2>1 DEF EvenBound
<1>3. CASE ~Unbound(allowed) /\ allowed = 0
  <2>1. ~AllowEven(g, allowed) /\ after = g /\ o + allowed = o
    BY <1>3 DEF AllowEven, AfterEven
  <2> QED
    BY <2>1
<1>4. CASE ~Unbound(allowed) /\ allowed > 0
  <2>1. /\ interval \in Nat /\ interval >= 2
        /\ (interval - 1) * allowed <= TargetRate - 1
    BY <1>4, IntervalShares
  <2>2. /\ after.even_interval = interval
        /\ after.even_initialized = TRUE
        /\ after.even_slot = (slot + 1) % interval
    BY <1>1, <1>4 DEF AfterEven, Gate
  <2>3. slot \in 0 .. interval - 1
    BY <1>1, <2>1 DEF EvenSlot
  <2>4. AllowEven(g, allowed) <=> slot = 0
    BY <1>4 DEF AllowEven
  <2> HIDE DEF after, interval, slot
  <2>5. CASE slot = 0
    <3>1. after.even_slot = 1
      BY <2>1, <2>2, <2>5
    <3>2. Denied(after) = 0
      BY <3>1 DEF Denied
    <3>3. (after.even_interval - 1) * 0 <= Denied(after) * (TargetRate - 1)
      BY <1>1, <2>1, <2>2, <3>2
    <3> QED
      BY <2>1, <2>2, <2>4, <2>5, <3>3 DEF EvenBound, after
  <2>6. CASE slot # 0
    <3>1. g.even_initialized /\ g.even_interval = interval /\ g.even_slot = slot
      BY <2>6 DEF EvenSlot, slot, interval
    <3>2. (interval - 1) * o <= (slot - 1) * (TargetRate - 1)
      BY <2>6, <3>1 DEF EvenBound, Denied
    <3>3. Denied(after) = slot
      <4>1. CASE slot = interval - 1
        BY <2>1, <2>2, <2>3, <4>1 DEF Denied
      <4>2. CASE slot < interval - 1
        <5>1. (slot + 1) % interval = slot + 1
          BY <2>1, <2>3, <4>2
        <5> QED
          BY <2>2, <2>3, <5>1 DEF Denied
      <4> QED
        BY <2>1, <2>3, <4>1, <4>2
    <3>4. (interval - 1) * (o + allowed) = (interval - 1) * o + (interval - 1) * allowed
      BY <2>1
    <3>5. (slot - 1) * (TargetRate - 1) + (TargetRate - 1) = slot * (TargetRate - 1)
      BY <1>1, <2>1, <2>3
    <3>6. /\ (interval - 1) * o \in Int /\ (interval - 1) * allowed \in Int
          /\ (slot - 1) * (TargetRate - 1) \in Int /\ TargetRate - 1 \in Int
      BY <1>1, <2>1, <2>3
    <3>7. (interval - 1) * (o + allowed) <= slot * (TargetRate - 1)
      BY <2>1, <3>2, <3>4, <3>5, <3>6
    <3> QED
      BY <2>1, <2>2, <2>4, <2>6, <3>3, <3>7 DEF EvenBound, after
  <2> QED
    BY <2>5, <2>6
<1> QED
  BY <1>2, <1>3, <1>4

\* Either bound keeps the shares below one slot.
LEMMA BoundIsBelowSlot ==
    ASSUME NEW g, Rationed(g), NEW o \in Nat, SpreadBound(g, o) \/ EvenBound(g, o)
    PROVE  o < TargetRate
<1>1. /\ TargetRate \in Nat \ {0} /\ g.credit \in Nat /\ g.credit < TargetRate
      /\ g.even_slot \in Nat /\ g.even_interval \in Nat
      /\ g.even_initialized => g.even_slot < g.even_interval
  BY TargetAssumption DEF TargetAssumption, Rationed, Gate
<1>2. CASE SpreadBound(g, o)
  BY <1>1, <1>2 DEF SpreadBound
<1>3. CASE EvenBound(g, o) /\ ~g.even_initialized
  BY <1>1, <1>3 DEF EvenBound
<1>4. CASE EvenBound(g, o) /\ g.even_initialized
  <2> DEFINE k == g.even_interval - 1
             d == Denied(g)
             t == TargetRate - 1
  <2>1. k \in Nat /\ k >= 1 /\ d \in Nat /\ d <= k /\ t \in Nat /\ k * o <= d * t
    BY <1>1, <1>4 DEF EvenBound, Denied
  <2> HIDE DEF k, d
  <2>2. t * d <= t * k
    BY <2>1, Scaling
  <2>3. SUFFICES ASSUME t + 1 <= o PROVE FALSE
    BY <1>1
  <2>4. k * (t + 1) <= k * o
    BY <2>1, <2>3, Scaling
  <2>5. k * (t + 1) = k * t + k /\ t * k = k * t /\ t * d = d * t
    BY <2>1
  <2>6. k * t \in Int /\ d * t \in Int /\ k * o \in Int
    BY <2>1
  <2> HIDE DEF t
  <2> QED
    BY <2>1, <2>2, <2>4, <2>5, <2>6
<1> QED
  BY <1>2, <1>3, <1>4

\* A call that asks the gate keeps the bound, whatever the verdict is, and a call
\* that does not ask changes neither the gate nor the shares.
LEMMA AskedKeepsBound ==
    ASSUME IInv, WithheldBound, NEW enforce_ceiling \in BOOLEAN,
           gate' = GateAfter(enforce_ceiling), UNCHANGED ceiling_pacing,
           owed' = IF ~enforce_ceiling THEN owed
                   ELSE IF SlotAllowed(enforce_ceiling) THEN 0 ELSE owed + AllowedRate
    PROVE  WithheldBound'
<1>1. Rationed(gate) /\ AllowedRate \in Nat /\ owed \in Nat
  BY AllowedRateType DEF IInv, TypeOK, NoSlotBanked, Rationed
<1>2. ceiling_pacing \in {"spread", "even"}
  BY DEF IInv, TypeOK
<1>3. CASE ~enforce_ceiling
  BY <1>3 DEF GateAfter, WithheldBound
<1>4. CASE enforce_ceiling /\ ceiling_pacing = "spread"
  <2>1. gate' = AfterSpread(gate, AllowedRate) /\ SpreadBound(gate, owed)
    BY <1>4 DEF GateAfter, WithheldBound
  <2>2. SlotAllowed(enforce_ceiling) <=> AllowSpread(gate, AllowedRate)
    BY <1>4 DEF SlotAllowed
  <2>3. SpreadBound(gate', owed')
    BY <1>1, <1>4, <2>1, <2>2, SpreadWithholds
  <2> QED
    BY <1>4, <2>3 DEF WithheldBound
<1>5. CASE enforce_ceiling /\ ceiling_pacing = "even"
  <2>1. gate' = AfterEven(gate, AllowedRate) /\ EvenBound(gate, owed)
    BY <1>5 DEF GateAfter, WithheldBound
  <2>2. SlotAllowed(enforce_ceiling) <=> AllowEven(gate, AllowedRate)
    BY <1>5 DEF SlotAllowed
  <2>3. EvenBound(gate', owed')
    BY <1>1, <1>5, <2>1, <2>2, EvenWithholds
  <2> QED
    BY <1>5, <2>3 DEF WithheldBound
<1> QED
  BY <1>2, <1>3, <1>4, <1>5

LEMMA FreshBound ==
    ASSUME gate' = FreshGate, owed' = 0
    PROVE  WithheldBound'
BY DEF WithheldBound, SpreadBound, EvenBound, FreshGate

LEMMA WithheldKept ==
    ASSUME WithheldBound, UNCHANGED <<gate, owed, ceiling_pacing>>
    PROVE  WithheldBound'
BY DEF WithheldBound

LEMMA SelectImplWithholds ==
    ASSUME IInv, WithheldBound, NEW deadline, NEW enforce_ceiling \in BOOLEAN,
           SelectImpl(deadline, enforce_ceiling)
    PROVE  WithheldBound'
<1>1. CASE SelectNoFrame \/ SelectStalled(deadline) \/ SelectRecovering(deadline)
  BY <1>1, WithheldKept DEF SelectNoFrame, SelectStalled, SelectRecovering, configuration, selector
<1>2. CASE enforce_ceiling /\ SelectDeclined(deadline)
  BY <1>2, AskedKeepsBound DEF SelectDeclined, Prepared, configuration
<1>3. CASE SelectNewest(deadline, enforce_ceiling)
  BY <1>3, AskedKeepsBound DEF SelectNewest, Prepared, configuration
<1>4. CASE SelectByMediaTime(deadline, enforce_ceiling)
  <2>1. /\ Prepared(deadline, enforce_ceiling) /\ SlotAllowed(enforce_ceiling)
        /\ owed' = IF enforce_ceiling THEN 0 ELSE owed
    BY <1>4 DEF SelectByMediaTime
  <2> QED
    BY <2>1, AskedKeepsBound DEF Prepared, configuration
<1>5. CASE SelectUnderrun(deadline, enforce_ceiling)
  BY <1>5, AskedKeepsBound DEF SelectUnderrun, Prepared, configuration
<1> QED
  BY <1>1, <1>2, <1>3, <1>4, <1>5 DEF SelectImpl

LEMMA WithheldStep ==
    ASSUME IInv, WithheldBound, [Next]_vars
    PROVE  WithheldBound'
<1>1. CASE Advance
  BY <1>1, WithheldKept DEF Advance, configuration, selector
<1>2. ASSUME NEW age \in CaptureDelays, NEW size \in Sizes, IngestFrame(now - age, size)
      PROVE  WithheldBound'
  <2>1. Reset \/ UNCHANGED <<gate, owed>>
    BY <1>2 DEF IngestFrame, selector
  <2> QED
    BY <1>2, <2>1, FreshBound, WithheldKept DEF IngestFrame, Reset, configuration
<1>3. CASE Restart
  BY <1>3, FreshBound DEF Restart, Reset
<1>4. CASE Hide
  BY <1>4, WithheldKept DEF Hide, configuration, selector
<1>5. CASE Reveal
  BY <1>5, FreshBound DEF Reveal, Reset
<1>6. CASE Toggle
  BY <1>6, FreshBound DEF Toggle
<1>7. ASSUME NEW deadline, NEW enforce_ceiling \in BOOLEAN, Serve(deadline, enforce_ceiling)
      PROVE  WithheldBound'
  BY <1>7, SelectImplWithholds DEF Serve
<1>8. CASE Select \/ SelectNow
  <2>1. TRUE \in BOOLEAN /\ FALSE \in BOOLEAN
    BY Zenon
  <2> QED
    BY <1>7, <1>8, <2>1, Zenon DEF Select, SelectNow
<1>9. CASE UNCHANGED vars
  BY <1>9, WithheldKept DEF vars, selector, configuration
<1> QED
  BY <1>1, <1>2, <1>3, <1>4, <1>5, <1>6, <1>8, <1>9 DEF Next

\* The gate never withholds a whole slot either, under both policies and however
\* the allowed rate changes between the slots it denies (TargetSlotGate::Allow and
\* AllowEven).
THEOREM NoSlotIsWithheld == Spec => []NoSlotWithheld
<1>1. Init => WithheldBound
  BY DEF Init, WithheldBound, SpreadBound, EvenBound, FreshGate
<1>2. IInv /\ WithheldBound /\ [Next]_vars => WithheldBound'
  BY WithheldStep
<1>3. IInv /\ WithheldBound => NoSlotWithheld
  BY BoundIsBelowSlot
  DEF IInv, TypeOK, NoSlotBanked, Rationed, WithheldBound, NoSlotWithheld
<1> QED
  BY <1>1, <1>2, <1>3, InvariantHolds, PTL DEF Spec

------------------------------------------------------------------------------
(****************************************************************************)
(* The end of a recovery.                                                     *)
(****************************************************************************)

\* A source that stalled and is not recovering has got two frames since.
RecoveryCounted == recovering \/ recovery_seq = 0 \/ recovery_seq + 2 <= unique_count

LEMMA PreparedRecovers ==
    ASSUME IInv, RecoveryCounted, NEW deadline, NEW enforce_ceiling,
           Prepared(deadline, enforce_ceiling)
    PROVE  RecoveryCounted'
<1>0. unique_count \in Nat /\ recovery_seq \in Nat
  BY DEF IInv, TypeOK, TimelineTypeOK
<1>1. frames # <<>> /\ UNCHANGED <<recovery_seq, unique_count>>
  BY DEF Prepared, timeline
<1>2. Newest.seq = unique_count
  BY <1>1, NewestFrame DEF IInv, TypeOK
<1>3. recovering => recovery_seq + 2 <= unique_count
  BY <1>0, <1>2 DEF Prepared, Recovered
<1> QED
  BY <1>1, <1>3 DEF RecoveryCounted, Prepared

LEMMA SelectImplRecovers ==
    ASSUME IInv, RecoveryCounted, NEW deadline, NEW enforce_ceiling,
           SelectImpl(deadline, enforce_ceiling)
    PROVE  RecoveryCounted'
<1>1. CASE SelectNoFrame \/ SelectRecovering(deadline)
  BY <1>1 DEF SelectNoFrame, SelectRecovering, selector, recovery, timeline, RecoveryCounted
<1>2. CASE SelectStalled(deadline)
  BY <1>2 DEF SelectStalled, RecoveryCounted
<1>3. CASE \/ enforce_ceiling /\ SelectDeclined(deadline)
           \/ SelectNewest(deadline, enforce_ceiling)
           \/ SelectByMediaTime(deadline, enforce_ceiling)
           \/ SelectUnderrun(deadline, enforce_ceiling)
  BY <1>3, PreparedRecovers
  DEF SelectDeclined, SelectNewest, SelectByMediaTime, SelectUnderrun
<1> QED
  BY <1>1, <1>2, <1>3 DEF SelectImpl

LEMMA RecoveryStep ==
    ASSUME IInv, RecoveryCounted, [Next]_vars
    PROVE  RecoveryCounted'
<1>0. unique_count \in Nat /\ recovery_seq \in Nat
  BY DEF IInv, TypeOK, TimelineTypeOK
<1>1. ASSUME UNCHANGED recovery, unique_count' \in Nat, unique_count <= unique_count'
      PROVE  RecoveryCounted'
  BY <1>0, <1>1 DEF recovery, RecoveryCounted
<1>2. ASSUME Reset
      PROVE  RecoveryCounted'
  BY <1>2 DEF Reset, RecoveryCounted
<1>3. ASSUME NEW age \in CaptureDelays, NEW size \in Sizes, IngestFrame(now - age, size)
      PROVE  RecoveryCounted'
  <2>1. Reset \/ UNCHANGED recovery
    BY <1>3 DEF IngestFrame, selector
  <2>2. unique_count' = unique_count + 1
    BY <1>3 DEF IngestFrame, Ingest
  <2> QED
    BY <1>0, <1>1, <1>2, <2>1, <2>2
<1>4. CASE Restart \/ Reveal
  BY <1>2, <1>4 DEF Restart, Reveal
<1>5. CASE Advance \/ Hide \/ Toggle \/ UNCHANGED vars
  BY <1>0, <1>1, <1>5 DEF Advance, Hide, Toggle, vars, selector, timeline
<1>7. ASSUME NEW deadline, NEW enforce_ceiling, Serve(deadline, enforce_ceiling)
      PROVE  RecoveryCounted'
  BY <1>7, SelectImplRecovers DEF Serve
<1>8. CASE Select \/ SelectNow
  BY <1>7, <1>8, Zenon DEF Select, SelectNow
<1> QED
  BY <1>3, <1>4, <1>5, <1>8 DEF Next

------------------------------------------------------------------------------
(****************************************************************************)
(* What a call returns.                                                       *)
(****************************************************************************)

\* One captured frame of the history is a sound selection.
LEMMA WholeIsSound ==
    ASSUME NEW i \in DOMAIN frames, NEW m, NEW mode \in Modes \ {"interpolate"}, NEW s,
           s.mode = mode, s.previous = frames[i].seq, s.current = frames[i].seq
    PROVE  Sound(s)
<1>1. {j \in DOMAIN frames : frames[j].seq = s.previous} # {}
  OBVIOUS
<1>2. s.current \in Resident
  BY DEF Resident
<1> QED
  BY <1>1, <1>2, Zenon DEF Sound

LEMMA RealIsSound ==
    ASSUME NEW i \in DOMAIN frames, NEW m, NEW mode \in Modes \ {"interpolate"}
    PROVE  /\ Sound(Whole(frames[i], m, mode))
           /\ Sound(Real(frames[i], mode))
           /\ Sound([Real(frames[i], mode) EXCEPT !.submit = FALSE])
<1>1. Sound(Whole(frames[i], m, mode))
  BY WholeIsSound DEF Whole
<1>2. Sound(Real(frames[i], mode))
  BY WholeIsSound DEF Whole, Real
<1>3. Sound([Real(frames[i], mode) EXCEPT !.submit = FALSE])
  BY WholeIsSound DEF Whole, Real
<1> QED
  BY <1>1, <1>2, <1>3

\* A blend by media time is of two neighbours that strictly enclose it.
LEMMA BetweenIsSound ==
    ASSUME TypeOK, TimelineOrdered, NEW m \in Int, Len(frames) >= 2,
           m < Newest.media, frames[1].media < m
    PROVE  /\ Sound(Between(m))
           /\ Between(m).mode = "interpolate" => Between(m).media = m
<1> DEFINE u == Upper(m)
           current == frames[u]
           previous == frames[u - 1]
           num == m - previous.media
           den == current.media - previous.media
           blend == [mode |-> "interpolate", media |-> m, previous |-> previous.seq,
                     current |-> current.seq, num |-> num, den |-> den, submit |-> TRUE]
<1>1. /\ u \in DOMAIN frames /\ u - 1 \in DOMAIN frames
      /\ current.media > m /\ previous.media <= m
  BY UpperIsInside
<1>2. /\ DOMAIN frames = 1 .. Len(frames) /\ Len(frames) \in Nat
      /\ unique_count \in Nat
      /\ \A i \in DOMAIN frames : frames[i] \in Frame
      /\ \A i \in DOMAIN frames : frames[i].seq = unique_count - Len(frames) + i
  BY DEF TypeOK, TimelineTypeOK, TimelineOrdered
<1>3. /\ Sound(Real(current, "real_frame")) /\ Real(current, "real_frame").mode # "interpolate"
      /\ Sound(Real(previous, "real_frame")) /\ Real(previous, "real_frame").mode # "interpolate"
      /\ Sound(Whole(current, m, "real_frame"))
      /\ Whole(current, m, "real_frame").mode # "interpolate"
      /\ Sound(Whole(previous, m, "real_frame"))
      /\ Whole(previous, m, "real_frame").mode # "interpolate"
  <2>1. "real_frame" \in Modes \ {"interpolate"}
    BY DEF Modes
  <2> HIDE DEF u
  <2> QED
    BY <1>1, <2>1, RealIsSound DEF Whole, Real
<1>4. previous.media # m => Sound(blend)
  <2>1. {i \in DOMAIN frames : frames[i].seq = previous.seq} = {u - 1}
    <3> HIDE DEF u
    <3> QED
      BY <1>1, <1>2
  <2>2. (CHOOSE i \in {u - 1} : TRUE) = u - 1
    OBVIOUS
  <2>3. u - 1 + 1 = u
    BY <1>1, <1>2
  <2>4. current.seq \in Resident
    BY <1>1 DEF Resident
  <2>5. current.seq = previous.seq + 1
    <3> HIDE DEF u
    <3> QED
      BY <1>1, <1>2
  <2>6. previous.media \in Int
    BY <1>1, <1>2 DEF Frame
  <2> HIDE DEF u
  <2> QED
    BY <1>1, <2>1, <2>2, <2>3, <2>4, <2>5, <2>6 DEF Sound
<1>5. \/ Between(m) = blend /\ ~(num * AlphaResolution <= den)
      \/ Between(m) \in {Real(current, "real_frame"), Real(previous, "real_frame"),
                         Whole(current, m, "real_frame"), Whole(previous, m, "real_frame")}
  BY Zenon DEF Between, Lower
<1>6. previous.media = m => num * AlphaResolution <= den
  <2>1. previous.media \in Int /\ current.media \in Int
    BY <1>1, <1>2 DEF Frame
  <2> HIDE DEF u
  <2> QED
    BY <1>1, <2>1, SelectorAssumption DEF SelectorAssumption
<1>7. blend.media = m
  OBVIOUS
<1> HIDE DEF current, previous, blend, num, den
<1> QED
  BY <1>3, <1>4, <1>5, <1>6, <1>7

\* The answer to a slot: sound, and a blend only of a source that has not stalled
\* at the deadline, and only two frames after it last did.
LEMMA AnswerIsSound ==
    ASSUME IInv, RecoveryCounted, NEW deadline \in Int, NEW enforce_ceiling,
           SelectImpl(deadline, enforce_ceiling)
    PROVE  /\ Sound(sel')
           /\ sel'.mode = "interpolate" =>
                /\ ~IsStalled(sel'.media + queue_delay')
                /\ Newest.seq >= recovery_seq + 2
<1>2. frames # <<>> => Len(frames) \in DOMAIN frames
  BY NewestFrame DEF IInv, TypeOK
<1>3. \A mode \in Modes \ {"interpolate"} : frames # <<>> =>
        /\ Sound(Real(Newest, mode)) /\ Real(Newest, mode).mode # "interpolate"
        /\ Sound([Real(Newest, mode) EXCEPT !.submit = FALSE])
        /\ [Real(Newest, mode) EXCEPT !.submit = FALSE].mode # "interpolate"
  BY <1>2, RealIsSound DEF Newest, Real, Whole
<1>4. CASE SelectNoFrame
  <2>1. sel' = NoFrame
    BY <1>4 DEF SelectNoFrame
  <2> QED
    BY <2>1 DEF NoFrame, Sound
<1>5. CASE SelectStalled(deadline)
  BY <1>3, <1>5 DEF SelectStalled, IsStalled, Modes
<1>6. CASE SelectRecovering(deadline)
  BY <1>3, <1>6 DEF SelectRecovering, Modes
<1>7. CASE SelectDeclined(deadline)
  BY <1>3, <1>7 DEF SelectDeclined, Prepared, Modes
<1>8. CASE SelectNewest(deadline, enforce_ceiling)
  BY <1>3, <1>8 DEF SelectNewest, Prepared, Modes
<1>9. CASE SelectUnderrun(deadline, enforce_ceiling)
  BY <1>3, <1>9 DEF SelectUnderrun, Prepared, Modes
<1>10. CASE SelectByMediaTime(deadline, enforce_ceiling)
  <2> DEFINE media == deadline - CurrentDelay
  <2>1. /\ Prepared(deadline, enforce_ceiling) /\ Len(frames) >= 2
        /\ media < Newest.media /\ queue_delay' = CurrentDelay
        /\ sel' = IF media <= frames[1].media THEN Real(frames[1], "cold_start")
                                              ELSE Between(media)
    BY <1>10 DEF SelectByMediaTime, KeepsDelay
  <2>2. CurrentDelay \in Nat /\ media \in Int /\ media + CurrentDelay = deadline
    BY <2>1, DelayIsThere
  <2>3. frames # <<>> /\ ~IsStalled(deadline) /\ (recovering => Recovered)
    BY <2>1 DEF Prepared
  <2>4. 1 \in DOMAIN frames /\ frames[1] \in Frame /\ Newest.seq = unique_count
    <3>1. frames \in Seq(Frame)
      BY DEF IInv, TypeOK, TimelineTypeOK
    <3>2. Newest.seq = unique_count
      BY <2>3, NewestFrame DEF IInv, TypeOK
    <3> QED
      BY <2>1, <3>1, <3>2
  <2>5. Newest.seq >= recovery_seq + 2
    <3>1. /\ unique_count \in Nat /\ recovery_seq \in Nat /\ Len(frames) \in Nat
          /\ frames[1].seq \in Nat \ {0}
          /\ frames[1].seq = unique_count - Len(frames) + 1
      BY <2>4 DEF IInv, TypeOK, TimelineTypeOK, TimelineOrdered, Frame
    <3>2. recovering => Newest.seq >= recovery_seq + 2
      BY <2>3 DEF Recovered
    <3> QED
      BY <2>1, <2>4, <3>1, <3>2 DEF RecoveryCounted
  <2>6. CASE media <= frames[1].media
    <3>1. "cold_start" \in Modes \ {"interpolate"}
      BY DEF Modes
    <3>2. Sound(sel') /\ sel'.mode # "interpolate"
      BY <2>1, <2>4, <2>6, <3>1, RealIsSound DEF Real, Whole
    <3> QED
      BY <3>2
  <2>7. CASE ~(media <= frames[1].media)
    <3>1. frames[1].media \in Int
      BY <2>4 DEF Frame
    <3> HIDE DEF media
    <3>2. sel' = Between(media) /\ frames[1].media < media
      BY <2>1, <2>2, <2>7, <3>1
    <3>3. Sound(sel') /\ (sel'.mode = "interpolate" => sel'.media = media)
      BY <2>1, <2>2, <3>2, BetweenIsSound DEF IInv
    <3> QED
      BY <2>1, <2>2, <2>3, <2>5, <3>3
  <2> QED
    BY <2>6, <2>7
<1> QED
  BY <1>4, <1>5, <1>6, <1>7, <1>8, <1>9, <1>10 DEF SelectImpl

LEMMA SelectIsSound ==
    ASSUME IInv, RecoveryCounted, Select \/ SelectNow
    PROVE  /\ Sound(sel')
           /\ sel'.mode = "interpolate" =>
                /\ ~IsStalled(sel'.media + queue_delay')
                /\ Newest.seq >= recovery_seq + 2
<1>1. now \in Int /\ now + SlotTicks \in Int
  BY SelectorAssumption DEF SelectorAssumption, IInv, TypeOK
<1>2. Serve(now, TRUE) \/ Serve(now + SlotTicks, TRUE) \/ Serve(now, FALSE)
  BY DEF Select, SelectNow
<1> QED
  BY <1>1, <1>2, AnswerIsSound DEF Serve

\* Outside recovery, no recovery was started that two frames have not answered
\* (recovery_started_at_sequence_ of SelectImpl and Reset).
THEOREM RecoveryIsCounted == Spec => []RecoveryCounted
<1>1. Init => RecoveryCounted
  BY DEF Init, RecoveryCounted
<1>2. IInv /\ RecoveryCounted /\ [Next]_vars => RecoveryCounted'
  BY RecoveryStep
<1> QED
  BY <1>1, <1>2, InvariantHolds, PTL DEF Spec

\* Every selection names frames of the history it was made from, and a blend
\* lies strictly between two neighbours (SelectImpl).
THEOREM EverySelectionIsSound == Spec => SelectionsAreSound
<1>1. ASSUME IInv, RecoveryCounted, Select \/ SelectNow
      PROVE  Sound(sel')
  BY <1>1, SelectIsSound
<1>2. IInv /\ RecoveryCounted /\ [Next]_vars => [(Select \/ SelectNow) => Sound(sel')]_vars
  BY <1>1
<1>3. (Spec => [][(Select \/ SelectNow) => Sound(sel')]_vars)
  BY <1>2, InvariantHolds, RecoveryIsCounted, PTL DEF Spec
<1> QED
  BY <1>3 DEF SelectionsAreSound

\* After a stall there is no blend until two new frames have arrived
\* (recovering_from_stall_ of SelectImpl).
THEOREM NoEarlyBlend == Spec => NoBlendBeforeRecovery
<1> DEFINE Suspended == (Select \/ SelectNow) /\ sel'.mode = "interpolate" =>
                            /\ ~IsStalled(sel'.media + queue_delay')
                            /\ Newest.seq >= recovery_seq + 2
<1>1. IInv /\ RecoveryCounted /\ [Next]_vars => [Suspended]_vars
  BY SelectIsSound
<1>2. Spec => [][Suspended]_vars
  BY <1>1, InvariantHolds, RecoveryIsCounted, PTL DEF Spec
<1> QED
  BY <1>2 DEF NoBlendBeforeRecovery

------------------------------------------------------------------------------
(****************************************************************************)
(* The loop of the portable build.  It shares SelectImpl and Ingest with the  *)
(* loop of main.cpp, so the invariants of the selector hold in it too; what    *)
(* is its own is that its copies of the frames are the latest ones, and at     *)
(* least as many as the timeline remembers.                                   *)
(****************************************************************************)

StoresTimeline ==
    /\ stored \in Seq(Nat)
    /\ Len(frames) <= Len(stored)
    /\ \A i \in 1 .. Len(stored) : stored[i] = unique_count - Len(stored) + i

PortableInv == IInv /\ WithheldBound /\ RecoveryCounted /\ StoresTimeline

\* The history grows by one frame at most, or is that frame.
LEMMA IngestLength ==
    ASSUME TimelineTypeOK, NEW media \in Int, NEW arrival \in Int, NEW size \in Sizes,
           Ingest(media, arrival, size)
    PROVE  /\ unique_count' = unique_count + 1
           /\ Len(frames') <= Len(frames) + 1
           /\ Breaks(media, size) => Len(frames') <= 1
<1> DEFINE kept == IF Breaks(media, size) THEN <<>> ELSE frames
           new == [seq |-> unique_count + 1, media |-> media,
                   arrival |-> arrival, size |-> size]
           grown == Append(kept, new)
<1>1. new \in Frame
  BY DEF Frame, TimelineTypeOK
<1>2. /\ kept \in Seq(Frame) /\ Len(frames) \in Nat /\ Len(kept) \in Nat
      /\ Len(kept) <= Len(frames) /\ (Breaks(media, size) => Len(kept) = 0)
  BY DEF TimelineTypeOK
<1>3. unique_count' = unique_count + 1 /\ frames' = Trimmed(grown)
  BY DEF Ingest
<1> HIDE DEF kept, new
<1>4. grown \in Seq(Frame) /\ grown # <<>> /\ Len(grown) = Len(kept) + 1
  BY <1>1, <1>2, AppendProperties
<1> HIDE DEF grown
<1>5. Len(Trimmed(grown)) <= Len(grown)
  <2>1. Len(Tail(grown)) = Len(grown) - 1
    BY <1>4, HeadTailProperties
  <2> QED
    BY <1>2, <1>4, <2>1 DEF Trimmed
<1>6. Len(Trimmed(grown)) \in Nat
  <2>1. Tail(grown) \in Seq(Frame)
    BY <1>4, HeadTailProperties
  <2>2. Trimmed(grown) \in Seq(Frame)
    BY <1>4, <2>1 DEF Trimmed
  <2> QED
    BY <2>2, LenProperties
<1> QED
  BY <1>2, <1>3, <1>4, <1>5, <1>6

\* The copies follow the timeline: they are cut to one more than it remembers, and
\* dropped only for a frame that ends it as well.
LEMMA CaptureKeepsStored ==
    ASSUME TimelineTypeOK, TimelineTypeOK', StoresTimeline, NEW media \in Int,
           NEW size \in Sizes, now \in Int, CaptureUnique(media, size)
    PROVE  StoresTimeline'
<1> DEFINE changed == frames # <<>> /\ Newest.size # size
           kept == IF changed THEN <<>> ELSE stored
           longer == Append(kept, unique_count + 1)
           count == Smaller(Len(longer), Len(frames') + 1)
           from == Len(longer) - count + 1
<1>1. /\ Ingest(media, now, size)
      /\ stored' = SubSeq(longer, from, Len(longer))
  BY Zenon DEF CaptureUnique, Capacity
<1>2. /\ unique_count' = unique_count + 1 /\ Len(frames') <= Len(frames) + 1
      /\ changed => Len(frames') <= 1
  <2>1. changed => Breaks(media, size)
    BY DEF Breaks
  <2> QED
    BY <1>1, <2>1, IngestLength
<1>3. /\ unique_count \in Nat /\ Len(frames) \in Nat /\ Len(frames') \in Nat
  BY LenProperties DEF TimelineTypeOK
<1>4. /\ kept \in Seq(Nat) /\ Len(kept) \in Nat /\ Len(frames') <= Len(kept) + 1
      /\ \A i \in 1 .. Len(kept) : kept[i] = unique_count - Len(kept) + i
  <2>1. CASE changed
    <3>1. kept = <<>>
      BY <2>1
    <3>2. <<>> \in Seq(Nat) /\ Len(<<>>) = 0
      BY EmptySeq
    <3> QED
      BY <1>2, <1>3, <2>1, <3>1, <3>2
  <2>2. CASE ~changed
    <3>1. kept = stored
      BY <2>2
    <3>2. stored \in Seq(Nat) /\ Len(stored) \in Nat /\ Len(frames) <= Len(stored)
      BY LenProperties DEF StoresTimeline
    <3> HIDE DEF kept
    <3> QED
      BY <1>2, <1>3, <3>1, <3>2 DEF StoresTimeline
  <2> QED
    BY <2>1, <2>2
<1> HIDE DEF kept
<1>5. /\ longer \in Seq(Nat) /\ Len(longer) = Len(kept) + 1
      /\ \A i \in 1 .. Len(kept) : longer[i] = kept[i]
      /\ longer[Len(kept) + 1] = unique_count + 1
  <2>1. unique_count + 1 \in Nat
    BY <1>3
  <2> QED
    BY <1>4, <2>1, AppendProperties
<1> HIDE DEF longer
<1>6. \A i \in 1 .. Len(longer) : longer[i] = (unique_count + 1) - Len(longer) + i /\ longer[i] \in Nat
  <2> TAKE i \in 1 .. Len(longer)
  <2>1. longer[i] \in Nat
    BY <1>5
  <2>2. CASE i = Len(kept) + 1
    BY <1>3, <1>4, <1>5, <2>1, <2>2
  <2>3. CASE i # Len(kept) + 1
    <3>1. i \in 1 .. Len(kept)
      BY <1>4, <1>5, <2>3
    <3>2. longer[i] = unique_count - Len(kept) + i
      BY <1>4, <1>5, <3>1
    <3> QED
      BY <1>3, <1>4, <1>5, <2>1, <3>2
  <2> QED
    BY <2>2, <2>3
<1>7. /\ Len(longer) \in Nat /\ count \in Nat /\ count >= 1 /\ count <= Len(longer)
      /\ Len(frames') <= count /\ from \in 1 .. Len(longer)
  <2>1. /\ Len(longer) \in Nat /\ Len(frames') \in Nat
        /\ Len(longer) >= 1 /\ Len(frames') <= Len(longer)
    BY <1>3, <1>4, <1>5
  <2>2. \A a, b \in Nat : a >= 1 /\ b <= a => /\ Smaller(a, b + 1) \in Nat
                                              /\ Smaller(a, b + 1) >= 1
                                              /\ Smaller(a, b + 1) <= a
                                              /\ b <= Smaller(a, b + 1)
    BY DEF Smaller
  <2>3. /\ count \in Nat /\ count >= 1 /\ count <= Len(longer) /\ Len(frames') <= count
    BY Zenon, <2>1, <2>2
  <2> HIDE DEF count
  <2>4. from \in 1 .. Len(longer)
    BY <2>1, <2>3
  <2> QED
    BY Zenon, <2>1, <2>3, <2>4
<1> HIDE DEF count
<1>8. /\ stored' \in Seq(Nat) /\ Len(stored') = Len(longer) - from + 1
      /\ \A i \in 1 .. Len(longer) - from + 1 : stored'[i] = longer[from + i - 1]
  <2>1. \A i \in from .. Len(longer) : longer[i] \in Nat
    BY <1>6, <1>7
  <2>2. from \in Int /\ Len(longer) \in Int /\ from <= Len(longer)
    BY <1>7
  <2> HIDE DEF from
  <2> QED
    BY <1>1, <2>1, <2>2, SubSeqProperties
<1>9. Len(stored') = count
  BY <1>7, <1>8
<1>10. \A i \in 1 .. Len(stored') : stored'[i] = unique_count' - Len(stored') + i
  <2> TAKE i \in 1 .. Len(stored')
  <2>1. i \in 1 .. Len(longer) - from + 1 /\ from + i - 1 \in 1 .. Len(longer)
    BY <1>7, <1>9
  <2>2. stored'[i] = longer[from + i - 1]
    BY <1>8, <2>1
  <2>3. longer[from + i - 1] = (unique_count + 1) - Len(longer) + (from + i - 1)
    BY <1>6, <2>1
  <2> QED
    BY <1>2, <1>3, <1>7, <1>9, <2>2, <2>3
<1> QED
  BY <1>7, <1>8, <1>9, <1>10 DEF StoresTimeline

\* A frame that a selection may name is stored.
LEMMA ResidentIsStored ==
    ASSUME TimelineTypeOK, TimelineOrdered, StoresTimeline, NEW seq \in Resident
    PROVE  FindStored(seq)
<1>1. PICK i \in DOMAIN frames : seq = frames[i].seq
  BY DEF Resident
<1>2. /\ DOMAIN frames = 1 .. Len(frames) /\ Len(frames) \in Nat /\ unique_count \in Nat
      /\ DOMAIN stored = 1 .. Len(stored) /\ Len(stored) \in Nat
      /\ Len(frames) <= Len(stored)
  BY LenProperties DEF TimelineTypeOK, StoresTimeline
<1>3. seq = unique_count - Len(frames) + i
  BY <1>1 DEF TimelineOrdered
<1> DEFINE j == Len(stored) - Len(frames) + i
<1>4. j \in 1 .. Len(stored) /\ unique_count - Len(stored) + j = seq
  BY <1>1, <1>2, <1>3
<1>5. stored[j] = seq /\ j \in DOMAIN stored
  BY <1>2, <1>4 DEF StoresTimeline
<1> QED
  BY <1>5 DEF FindStored, ToSet

\* An answer without a frame is not submitted.
LEMMA NamelessIsNotSubmitted ==
    ASSUME NEW deadline, NEW enforce_ceiling, SelectImpl(deadline, enforce_ceiling),
           sel'.mode = "no_frame"
    PROVE  ~sel'.submit
<1>1. CASE SelectNoFrame
  BY <1>1 DEF SelectNoFrame, NoFrame
<1>2. CASE SelectStalled(deadline)
  BY <1>2 DEF SelectStalled, Real, Whole
<1>3. CASE SelectRecovering(deadline)
  BY <1>3 DEF SelectRecovering, Real, Whole
<1>4. CASE SelectDeclined(deadline)
  BY <1>4 DEF SelectDeclined, Real, Whole
<1>5. CASE SelectNewest(deadline, enforce_ceiling)
  BY <1>5 DEF SelectNewest, Real, Whole
<1>6. CASE SelectByMediaTime(deadline, enforce_ceiling)
  <2>1. \/ sel'.mode \in {"cold_start", "real_frame", "interpolate"}
    BY <1>6 DEF SelectByMediaTime, Between, Real, Whole
  <2> QED
    BY <2>1
<1>7. CASE SelectUnderrun(deadline, enforce_ceiling)
  BY <1>7 DEF SelectUnderrun, Real, Whole
<1> QED
  BY <1>1, <1>2, <1>3, <1>4, <1>5, <1>6, <1>7 DEF SelectImpl

\* What is drawn for a sound answer is what it names.
LEMMA OutputIsNamed ==
    ASSUME TimelineTypeOK, TimelineOrdered, StoresTimeline, NEW s, Sound(s),
           s.mode # "no_frame"
    PROVE  Output(s) = <<s.previous, s.current>>
<1>1. /\ {i \in DOMAIN frames : frames[i].seq = s.previous} # {}
      /\ s.current \in Resident
      /\ s.mode # "interpolate" => s.previous = s.current
  BY Zenon DEF Sound
<1>2. s.previous \in Resident
  BY <1>1 DEF Resident
<1>3. FindStored(s.previous) /\ FindStored(s.current)
  BY <1>1, <1>2, ResidentIsStored
<1> QED
  BY <1>1, <1>3, Zenon DEF Output

LEMMA StoredKept ==
    ASSUME StoresTimeline, UNCHANGED <<timeline, stored>>
    PROVE  StoresTimeline'
BY DEF StoresTimeline, timeline

LEMMA PortableInitially ==
    ASSUME Init, PortableInit
    PROVE  PortableInv
<1>1. IInv
  BY InvariantInitially
<1>2. WithheldBound /\ RecoveryCounted
  BY DEF Init, WithheldBound, SpreadBound, EvenBound, FreshGate, RecoveryCounted
<1>3. StoresTimeline
  <2>1. <<>> \in Seq(Nat) /\ Len(<<>>) = 0
    BY EmptySeq
  <2> QED
    BY <2>1 DEF Init, TimelineInit, PortableInit, StoresTimeline
<1> QED
  BY <1>1, <1>2, <1>3 DEF PortableInv

LEMMA PortableStep ==
    ASSUME PortableInv, [PortableNext]_<<vars, portable_vars>>
    PROVE  PortableInv'
<1>0. /\ IInv /\ WithheldBound /\ RecoveryCounted /\ StoresTimeline
      /\ UnselectedTypes /\ SelectedTypes /\ last_deadline \in Int
      /\ now \in Int /\ now \in Nat /\ unique_count \in Nat /\ recovery_seq \in Nat
      /\ TimelineTypeOK /\ TimelineOrdered
  BY InvariantHasParts DEF PortableInv, UnselectedTypes, SelectedTypes, TimelineTypeOK
<1>1. ASSUME [Next]_vars, UNCHANGED <<timeline, stored>>
      PROVE  PortableInv'
  BY <1>0, <1>1, InvariantStep, WithheldStep, RecoveryStep, StoredKept DEF PortableInv
<1>2. ASSUME UNCHANGED <<timeline, now, overlay, configuration, selector, last_deadline, owed,
                         resets, stored>>,
             sel' = NoFrame
      PROVE  PortableInv'
  <2>1. /\ UNCHANGED <<timeline, now, overlay, configuration, generation_enabled, resets>>
        /\ UNCHANGED <<delay, gate, recovery, owed, pacing_mode, buffer_floor>>
        /\ UNCHANGED <<ceiling_pacing, unique_count, frames, period, last_deadline, stored>>
    BY <1>2 DEF selector, configuration, timeline
  <2>2. UnselectedTypes'
    BY <1>0, <2>1, UnselectedKept
  <2>3. SelectedTypes'
    BY <1>0, <1>2, <2>1, SelectionKept, NoFrameIsSelection
  <2>4. IInv'
    BY <1>0, <2>1, <2>2, <2>3, Zenon DEF UnselectedTypes, SelectedTypes, IInv, TypeOK
  <2>5. WithheldBound' /\ RecoveryCounted'
    BY <1>0, <2>1, WithheldKept DEF recovery, RecoveryCounted
  <2> QED
    BY <1>0, <2>1, <2>4, <2>5, StoredKept DEF PortableInv
<1>3. CASE PortableAdvance
  BY <1>1, <1>3 DEF PortableAdvance, Advance, Next, portable_vars
<1>4. ASSUME NEW age \in CaptureDelays, NEW size \in Sizes, CaptureUnique(now - age, size)
      PROVE  PortableInv'
  <2>1. now - age \in Int
    BY <1>0, SelectorAssumption DEF SelectorAssumption
  <2>2. /\ Ingest(now - age, now, size) /\ sel' = NoFrame
        /\ UNCHANGED <<now, overlay, configuration, selector, last_deadline, owed, resets>>
    BY <1>4, Zenon DEF CaptureUnique
  <2>3. TimelineTypeOK' /\ TimelineOrdered'
    BY <1>0, <2>1, <2>2, IngestKeepsTimeline
  <2>4. unique_count' = unique_count + 1 /\ NewestIsNew
    <3>1. unique_count' = unique_count + 1
      BY <2>2 DEF Ingest
    <3>2. frames' # <<>>
      BY <1>0, <2>1, <2>2, IngestLeavesFrame
    <3> QED
      BY <2>3, <3>1, <3>2, IngestedIsNew
  <2>5. UnselectedTypes'
    BY <1>0, <2>2, <2>3 DEF UnselectedTypes, overlay, configuration, selector
  <2>6. SelectedTypes'
    BY <1>0, <2>2, <2>4, SelectionKept, NoFrameIsSelection DEF selector, configuration
  <2>7. IInv'
    BY <1>0, <2>2, <2>5, <2>6, Zenon DEF UnselectedTypes, SelectedTypes, IInv, TypeOK
  <2>8. WithheldBound'
    BY <1>0, <2>2, WithheldKept DEF selector, configuration
  <2>9. RecoveryCounted'
    BY <1>0, <2>2, <2>4 DEF selector, recovery, RecoveryCounted
  <2>10. StoresTimeline'
    BY <1>0, <1>4, <2>1, <2>3, CaptureKeepsStored
  <2> QED
    BY <2>7, <2>8, <2>9, <2>10 DEF PortableInv
<1>5. CASE CaptureDuplicate
  BY <1>2, <1>5 DEF CaptureDuplicate
<1>6. CASE PortableSelect
  <2>1. PICK enforce_ceiling \in BOOLEAN : SelectImpl(now, enforce_ceiling)
    <3>1. (pacing_mode # "unpaced") \in BOOLEAN
      BY Zenon
    <3> QED
      BY <1>6, <3>1, Zenon DEF PortableSelect
  <2>2. last_deadline' = now /\ UNCHANGED stored
    BY <1>6 DEF PortableSelect
  <2>3. UnselectedTypes' /\ SelectedTypes'
    BY <1>0, <2>1, SelectImplStep
  <2>4. IInv'
    BY <1>0, <2>2, <2>3, Zenon DEF UnselectedTypes, SelectedTypes, IInv, TypeOK
  <2>5. WithheldBound' /\ RecoveryCounted'
    BY <1>0, <2>1, SelectImplWithholds, SelectImplRecovers
  <2>6. UNCHANGED timeline
    BY <2>1 DEF SelectImpl, SelectNoFrame, SelectStalled, SelectRecovering, SelectDeclined,
                SelectNewest, SelectByMediaTime, SelectUnderrun, Prepared
  <2> QED
    BY <1>0, <2>2, <2>4, <2>5, <2>6, StoredKept DEF PortableInv
<1>7. CASE StopLoop
  BY <1>2, <1>7 DEF StopLoop
<1>8. CASE UNCHANGED <<vars, portable_vars>>
  BY <1>1, <1>8 DEF vars, portable_vars
<1> QED
  BY <1>3, <1>4, <1>5, <1>6, <1>7, <1>8 DEF PortableNext

\* The invariants of the selector hold in the portable loop too, which drives it
\* without the protocol of main.cpp, and its copies follow the timeline.
THEOREM PortableInvariantHolds == PortableSpec => []PortableInv
<1>1. Init /\ PortableInit => PortableInv
  BY PortableInitially
<1>2. PortableInv /\ [PortableNext]_<<vars, portable_vars>> => PortableInv'
  BY PortableStep
<1> QED
  BY <1>1, <1>2, PTL DEF PortableSpec

\* The loop draws the frames that were selected: it has stored every frame that a
\* selection names, so no fallback of RunLive draws another.
THEOREM SelectionIsDrawn == PortableSpec => DrawsTheSelection
<1> DEFINE Drawn == PortableSelect /\ sel'.submit => drawn' = <<sel'.previous, sel'.current>>
<1>1. ASSUME PortableInv, PortableSelect, sel'.submit
      PROVE  drawn' = <<sel'.previous, sel'.current>>
  <2>1. /\ IInv /\ RecoveryCounted /\ StoresTimeline /\ now \in Int
        /\ TimelineTypeOK /\ TimelineOrdered
    BY <1>1 DEF PortableInv, IInv, TypeOK
  <2>2. SelectImpl(now, pacing_mode # "unpaced") /\ drawn' = Output(sel')
    BY <1>1, Zenon DEF PortableSelect
  <2>3. Sound(sel') /\ sel'.mode # "no_frame"
    BY <1>1, <2>1, <2>2, AnswerIsSound, NamelessIsNotSubmitted, Zenon
  <2> QED
    BY <2>1, <2>2, <2>3, OutputIsNamed
<1>2. PortableInv /\ [PortableNext]_<<vars, portable_vars>> => [Drawn]_<<vars, portable_vars>>
  BY <1>1
<1>3. PortableSpec => [][Drawn]_<<vars, portable_vars>>
  BY <1>2, PortableInvariantHolds, PTL DEF PortableSpec
<1> QED
  BY <1>3 DEF DrawsTheSelection

============================================================================

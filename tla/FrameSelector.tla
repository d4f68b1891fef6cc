---------------------------- MODULE FrameSelector ----------------------------
(****************************************************************************)
(* The frame selector (src/src/adaptive_scheduler.cpp, class FrameSelector):    *)
(* which source frame, or which blend of two, answers an output slot.         *)
(*                                                                          *)
(* The selector runs behind the source by a queue delay of one source period  *)
(* plus a jitter budget that underruns grow and clean frames decay, holds     *)
(* real frames through a stall and its recovery, and rations slots through    *)
(* the gate when the multiplier ceiling binds.  Around it this module keeps   *)
(* the caller's protocol of main.cpp: ingest, reset on a discontinuity, a     *)
(* restarted capture and a reveal, and the generation toggle.                 *)
(*                                                                          *)
(* Configuration set before the loop (pacing mode, buffer floor, ceiling      *)
(* pacing) is chosen in Init.  owed is a history variable; last_deadline      *)
(* stands for the output clock, which hands out each deadline once.           *)
(****************************************************************************)
EXTENDS SourceTimeline, TargetSlotGate

CONSTANTS
    RateWindow,        \* Ticks in the window that rates count frames in.
    MaxMultiplier,     \* maximum_multiplier_
    UnityPercent,      \* 1 + kUnityMultiplierTolerance, in percent.
    BudgetIncrease,    \* kQueueDelayIncreasePerUnderrun, in ticks.
    BudgetDecrease,    \* kQueueDelayDecreasePerSourceFrame.
    MaxBudget,         \* kMaximumAdaptiveJitterBudget.
    AlphaResolution,   \* 1 / 1e-6: an alpha closer to an endpoint is that endpoint.
    BufferFloors,      \* Buffer floors the options allow.
    SlotTicks,         \* The output slot period: the look-ahead of queued pacing.
    NoDelay,           \* queue_delay_ is disengaged.
    Steps,             \* How far time may move between two steps of the loop.
    CaptureDelays,     \* How much older than its arrival a frame may be.
    SilenceLimit,      \* kSourceSilenceLimit of main.cpp, in ticks.
    MaxTime,           \* Bound on the time modelled.
    MaxFrames,         \* Bound on the frames ingested.
    MaxResets          \* Bound on discontinuities, restarts, hides and toggles.

ASSUME SelectorAssumption ==
    /\ RateWindow \in Nat \ {0}
    /\ MaxMultiplier \in Nat \ {0}
    /\ UnityPercent \in Nat
    /\ BudgetIncrease \in Nat
    /\ BudgetDecrease \in Nat
    /\ MaxBudget \in Nat
    /\ AlphaResolution \in Nat \ {0}
    /\ BufferFloors \subseteq 0 .. MaxBudget
    /\ SlotTicks \in Nat \ {0}
    /\ NoDelay \notin Int
    /\ Steps \subseteq Nat
    /\ CaptureDelays \subseteq Int
    /\ SilenceLimit \in Nat
    /\ MaxTime \in Nat
    /\ MaxFrames \in Nat
    /\ MaxResets \in Nat

VARIABLES
    now,                  \* The loop's clock.
    hidden,               \* ~target_presentable of main.cpp.
    last_unique_arrival,  \* last_unique_arrival of main.cpp.
    pacing_mode,          \* options.pacing_mode: "paced", "queued" or "unpaced".
    buffer_floor,         \* buffer_floor_
    ceiling_pacing,       \* ceiling_pacing_: "spread" or "even".
    generation_enabled,   \* generation_enabled_
    queue_delay,          \* queue_delay_, or NoDelay.
    jitter_budget,        \* adaptive_jitter_budget_
    last_update,          \* last_queue_delay_update_sequence_
    gate,                 \* slot_gate_
    recovering,           \* recovering_from_stall_
    recovery_seq,         \* recovery_started_at_sequence_
    last_deadline,        \* The deadline last selected for.
    sel,                  \* What this step returned; NoFrame if it selected nothing.
    owed,                 \* Shares of the slots the gate withheld in a row.
    resets                \* Discontinuities, restarts, hides and toggles.

overlay == <<hidden, last_unique_arrival>>
configuration == <<pacing_mode, buffer_floor, ceiling_pacing>>
delay == <<queue_delay, jitter_budget, last_update>>
recovery == <<recovering, recovery_seq>>
selector == <<generation_enabled, delay, gate, recovery>>
vars == <<timeline, now, overlay, configuration, selector, last_deadline,
          sel, owed, resets>>

Modes == {"no_frame", "cold_start", "interpolate", "real_frame", "hold",
          "ceiling_hold", "underrun", "stalled"}

\* A selection: blend previous and current at weight num/den of current, or
\* show current when they are equal.
Selection == [mode : Modes, media : Int, previous : Nat, current : Nat,
              num : Int, den : Int, submit : BOOLEAN]

NoFrame == [mode |-> "no_frame", media |-> 0, previous |-> 0, current |-> 0,
            num |-> 1, den |-> 1, submit |-> FALSE]

\* One captured frame, for media time m.
Whole(f, m, mode) ==
    [mode |-> mode, media |-> m, previous |-> f.seq, current |-> f.seq,
     num |-> 1, den |-> 1, submit |-> TRUE]

\* SelectReal: one captured frame at its own media time.
Real(f, mode) == Whole(f, f.media, mode)

Larger(a, b) == IF a > b THEN a ELSE b
Smaller(a, b) == IF a < b THEN a ELSE b

------------------------------------------------------------------------------
(****************************************************************************)
(* What a call to SelectImpl finds once recovery and the queue delay are up   *)
(* to date, for a history that is neither empty nor stalled.                  *)
(****************************************************************************)

\* Mutation of Recovered that is content with one new frame.
RecoveredEarly ==
    recovering /\ Newest.seq >= recovery_seq + 1 /\ Len(frames) >= 2

\* Two frames have arrived since the stall.
Recovered ==
    recovering /\ Newest.seq >= recovery_seq + 2 /\ Len(frames) >= 2

\* UpdateQueueDelay runs: the newest frame was not seen by it before.
\* Leaving recovery forgets the previous delay.
Updates == Len(frames) >= 2 /\ (Recovered \/ Newest.seq # last_update)

\* The jitter budget, one step closer to the floor for each clean frame.
CurrentBudget ==
    IF Recovered THEN buffer_floor
    ELSE IF Updates /\ queue_delay # NoDelay /\ jitter_budget > buffer_floor
         THEN Larger(buffer_floor, jitter_budget - BudgetDecrease)
         ELSE jitter_budget

\* SetLookahead: queued pacing selects one slot early.
lookahead == IF pacing_mode = "queued" THEN SlotTicks ELSE 0

DelayFor(budget) == Larger(period, 1) + budget + lookahead

\* Mutation of CurrentDelay that derives the delay before the budget decays.
CurrentDelayBeforeDecay == IF Updates THEN DelayFor(jitter_budget) ELSE queue_delay

CurrentDelay == IF Updates THEN DelayFor(CurrentBudget) ELSE queue_delay

\* IncreaseQueueDelay.
IncreasedBudget == Smaller(MaxBudget, CurrentBudget + BudgetIncrease)

\* The measured source rate, and the rate the ceiling allows.
SourceRate == RateWindow \div period
AllowedRate ==
    Smaller(TargetRate, IF generation_enabled THEN SourceRate * MaxMultiplier ELSE SourceRate)

\* The target is no faster than the source, within tolerance.
AtUnity == 100 * TargetRate * period <= UnityPercent * RateWindow

\* The gate's verdict on this slot; unpaced selection never asks it.
SlotAllowed(enforce_ceiling) ==
    \/ ~enforce_ceiling
    \/ IF ceiling_pacing = "even" THEN AllowEven(gate, AllowedRate)
                                  ELSE AllowSpread(gate, AllowedRate)

GateAfter(enforce_ceiling) ==
    IF ~enforce_ceiling THEN gate
    ELSE IF ceiling_pacing = "even" THEN AfterEven(gate, AllowedRate)
                                    ELSE AfterSpread(gate, AllowedRate)

\* The index of the first frame later than media time m.
Upper(m) ==
    CHOOSE i \in DOMAIN frames :
        /\ frames[i].media > m
        /\ \A j \in DOMAIN frames : frames[j].media > m => i <= j

\* Mutation of Lower that blends from the oldest frame.
LowerOldest(m) == 1

\* The index of the frame before it.
Lower(m) == Upper(m) - 1

\* The slot lies between two frames: a blend of them, or an endpoint when the
\* source is fast enough or the weight is next to 0 or 1.
Between(m) ==
    LET current == frames[Upper(m)]
        previous == frames[Lower(m)]
        num == m - previous.media
        den == current.media - previous.media
        blend == [mode |-> "interpolate", media |-> m, previous |-> previous.seq,
                  current |-> current.seq, num |-> num, den |-> den, submit |-> TRUE]
        endpoint(f) == Whole(f, m, "real_frame")
    IN  IF AtUnity
        THEN Real(IF 2 * num >= den THEN current ELSE previous, "real_frame")
        ELSE IF num * AlphaResolution <= den THEN endpoint(previous)
        ELSE IF (den - num) * AlphaResolution <= den THEN endpoint(current)
        ELSE blend

------------------------------------------------------------------------------
Init ==
    /\ TimelineInit
    /\ now = 0
    /\ hidden = FALSE
    /\ last_unique_arrival = 0
    /\ pacing_mode \in {"paced", "queued", "unpaced"}
    /\ buffer_floor \in BufferFloors
    /\ ceiling_pacing \in {"spread", "even"}
    /\ generation_enabled = TRUE
    /\ queue_delay = NoDelay
    /\ jitter_budget = buffer_floor
    /\ last_update = 0
    /\ gate = FreshGate
    /\ recovering = FALSE
    /\ recovery_seq = 0
    /\ last_deadline = -1
    /\ sel = NoFrame
    /\ owed = 0
    /\ resets = 0

Advance ==
    /\ \E d \in Steps :
        /\ now + d <= MaxTime
        /\ now' = now + d
    /\ sel' = NoFrame
    /\ UNCHANGED <<timeline, overlay, configuration, selector, last_deadline, owed, resets>>

\* FrameSelector::Reset.  Whether generation is enabled survives it.
Reset ==
    /\ queue_delay' = NoDelay
    /\ jitter_budget' = buffer_floor
    /\ last_update' = 0
    /\ gate' = FreshGate
    /\ owed' = 0
    /\ recovering' = FALSE
    /\ recovery_seq' = 0
    /\ UNCHANGED generation_enabled

SourceSilent == now - last_unique_arrival > SilenceLimit

\* Every iteration of the loop hides a silent source's overlay before it drains
\* the capture or serves a slot.
EdgeTaken == SourceSilent => hidden

\* The drain callback of main.cpp for one frame: a discontinuity resets the
\* selector, and so no delay or credit survives it.
IngestFrame(media, size) ==
    /\ unique_count < MaxFrames
    /\ EdgeTaken
    /\ Breaks(media, size) => resets < MaxResets
    /\ Ingest(media, now, size)
    /\ IF Breaks(media, size)
       THEN Reset /\ resets' = resets + 1
       ELSE UNCHANGED <<selector, owed, resets>>
    /\ last_unique_arrival' = now
    /\ sel' = NoFrame
    /\ UNCHANGED <<now, hidden, configuration, last_deadline>>

\* The capture is restarted after the target was restored.
Restart ==
    /\ resets < MaxResets
    /\ ResetHistory
    /\ Reset
    /\ last_unique_arrival' = now
    /\ resets' = resets + 1
    /\ sel' = NoFrame
    /\ UNCHANGED <<now, hidden, configuration, last_deadline>>

\* The target left the foreground, or the source went silent: the overlay hides
\* and no slot is selected for.
Hide ==
    /\ ~hidden
    /\ resets < MaxResets
    /\ hidden' = TRUE
    /\ resets' = resets + 1
    /\ sel' = NoFrame
    /\ UNCHANGED <<timeline, now, last_unique_arrival, configuration, selector,
                   last_deadline, owed>>

\* The overlay becomes presentable again: the selector starts over on the
\* history it has.
Reveal ==
    /\ hidden
    /\ ~SourceSilent
    /\ hidden' = FALSE
    /\ Reset
    /\ sel' = NoFrame
    /\ UNCHANGED <<timeline, now, last_unique_arrival, configuration, last_deadline, resets>>

\* SetGenerationEnabled with the opposite value.
Toggle ==
    /\ resets < MaxResets
    /\ generation_enabled' = ~generation_enabled
    /\ gate' = FreshGate
    /\ owed' = 0
    /\ resets' = resets + 1
    /\ sel' = NoFrame
    /\ UNCHANGED <<timeline, now, overlay, configuration, delay, recovery, last_deadline>>

------------------------------------------------------------------------------
(****************************************************************************)
(* SelectImpl, one action per way out of it.                                  *)
(****************************************************************************)

SelectNoFrame ==
    /\ frames = <<>>
    /\ sel' = NoFrame
    /\ UNCHANGED <<timeline, now, overlay, configuration, selector, owed, resets>>

\* Mutation of SelectStalled that forgets the delay but not that the newest frame
\* was seen.
StalledKeepsSequence(deadline) ==
    /\ IsStalled(deadline)
    /\ recovering' = TRUE
    /\ recovery_seq' = Newest.seq
    /\ queue_delay' = NoDelay
    /\ jitter_budget' = buffer_floor
    /\ sel' = Real(Newest, "stalled")
    /\ UNCHANGED <<timeline, now, overlay, configuration, generation_enabled, gate, owed, resets,
                   last_update>>

\* A stalled source shows its newest frame and forgets the delay.
SelectStalled(deadline) ==
    /\ IsStalled(deadline)
    /\ recovering' = TRUE
    /\ recovery_seq' = Newest.seq
    /\ queue_delay' = NoDelay
    /\ jitter_budget' = buffer_floor
    /\ last_update' = 0
    /\ sel' = Real(Newest, "stalled")
    /\ UNCHANGED <<timeline, now, overlay, configuration, generation_enabled, gate, owed, resets>>

\* Until two new frames have arrived, a recovering source shows its newest.
SelectRecovering(deadline) ==
    /\ frames # <<>>
    /\ ~IsStalled(deadline)
    /\ recovering /\ ~Recovered
    /\ sel' = Real(Newest, "hold")
    /\ UNCHANGED <<timeline, now, overlay, configuration, selector, owed, resets>>

\* The part every other way out shares: recovery is over, the queue delay is
\* up to date, and the gate has been asked.
Prepared(deadline, enforce_ceiling) ==
    /\ frames # <<>>
    /\ ~IsStalled(deadline)
    /\ recovering => Recovered
    /\ recovering' = FALSE
    /\ last_update' = IF Updates THEN Newest.seq ELSE last_update
    /\ gate' = GateAfter(enforce_ceiling)
    /\ UNCHANGED <<timeline, now, overlay, configuration, generation_enabled, recovery_seq, resets>>

\* The delay after a call that did not run the queue dry.
KeepsDelay ==
    /\ jitter_budget' = CurrentBudget
    /\ queue_delay' = CurrentDelay

SelectDeclined(deadline) ==
    /\ Prepared(deadline, TRUE)
    /\ ~SlotAllowed(TRUE)
    /\ KeepsDelay
    /\ owed' = owed + AllowedRate
    /\ sel' = [Real(Newest, "ceiling_hold") EXCEPT !.submit = FALSE]

\* Generation off, or one frame only: the newest frame, as it is.
SelectNewest(deadline, enforce_ceiling) ==
    /\ Prepared(deadline, enforce_ceiling)
    /\ SlotAllowed(enforce_ceiling)
    /\ ~generation_enabled \/ Len(frames) = 1
    /\ KeepsDelay
    /\ owed' = IF enforce_ceiling THEN 0 ELSE owed
    /\ sel' = Real(Newest, IF generation_enabled THEN "cold_start" ELSE "real_frame")

\* The media clock, one queue delay behind the deadline, picks the frames.
SelectByMediaTime(deadline, enforce_ceiling) ==
    LET media == deadline - CurrentDelay IN
    /\ Prepared(deadline, enforce_ceiling)
    /\ SlotAllowed(enforce_ceiling)
    /\ generation_enabled /\ Len(frames) >= 2
    /\ media < Newest.media
    /\ KeepsDelay
    /\ owed' = IF enforce_ceiling THEN 0 ELSE owed
    /\ sel' = IF media <= frames[1].media THEN Real(frames[1], "cold_start")
                                          ELSE Between(media)

\* The media clock has caught up with the newest frame: the queue has run dry
\* and the budget grows.
SelectUnderrun(deadline, enforce_ceiling) ==
    /\ Prepared(deadline, enforce_ceiling)
    /\ SlotAllowed(enforce_ceiling)
    /\ generation_enabled /\ Len(frames) >= 2
    /\ deadline - CurrentDelay >= Newest.media
    /\ jitter_budget' = IncreasedBudget
    /\ queue_delay' = DelayFor(IncreasedBudget)
    /\ owed' = IF enforce_ceiling THEN 0 ELSE owed
    /\ sel' = Real(Newest, "underrun")

SelectImpl(deadline, enforce_ceiling) ==
    \/ SelectNoFrame
    \/ SelectStalled(deadline)
    \/ SelectRecovering(deadline)
    \/ enforce_ceiling /\ SelectDeclined(deadline)
    \/ SelectNewest(deadline, enforce_ceiling)
    \/ SelectByMediaTime(deadline, enforce_ceiling)
    \/ SelectUnderrun(deadline, enforce_ceiling)

\* One deadline is selected for once, and none while the overlay is hidden.
Serve(deadline, enforce_ceiling) ==
    /\ EdgeTaken /\ ~hidden
    /\ deadline > last_deadline
    /\ last_deadline' = deadline
    /\ SelectImpl(deadline, enforce_ceiling)

\* Select answers a slot that is due or, queued, the slot after it.
Select ==
    /\ pacing_mode # "unpaced"
    /\ Serve(now, TRUE) \/ (pacing_mode = "queued" /\ Serve(now + SlotTicks, TRUE))

\* SelectNow answers a free back buffer.
SelectNow == pacing_mode = "unpaced" /\ Serve(now, FALSE)

Next ==
    \/ Advance
    \/ \E age \in CaptureDelays, size \in Sizes : IngestFrame(now - age, size)
    \/ Restart
    \/ Hide
    \/ Reveal
    \/ Toggle
    \/ Select
    \/ SelectNow

Spec == Init /\ [][Next]_vars

------------------------------------------------------------------------------
(****************************************************************************)
(* Properties.                                                               *)
(****************************************************************************)

\* Every variable has its type.
TypeOK ==
    /\ TimelineTypeOK
    /\ now \in Nat
    /\ hidden \in BOOLEAN
    /\ last_unique_arrival \in Nat
    /\ buffer_floor \in BufferFloors
    /\ pacing_mode \in {"paced", "queued", "unpaced"}
    /\ last_deadline \in Int
    /\ ceiling_pacing \in {"spread", "even"}
    /\ generation_enabled \in BOOLEAN
    /\ queue_delay \in Nat \union {NoDelay}
    /\ jitter_budget \in Nat
    /\ last_update \in Nat
    /\ gate \in Gate
    /\ recovering \in BOOLEAN
    /\ recovery_seq \in Nat
    /\ sel \in Selection
    /\ owed \in Nat
    /\ resets \in Nat

\* SelectImpl reads *queue_delay_ without testing it.  Whenever it may skip the
\* update, because the newest frame was seen before, the delay is engaged: none
\* of the places that disengage it leaves a sequence number behind.
DelayEngaged ==
    /\ last_update # 0 => queue_delay # NoDelay
    /\ last_update <= unique_count

\* The queue delay never drifts from the jitter budget it is made of.  For as long
\* as no frame has come since the delay was derived, it is exactly the present
\* source period, budget and look-ahead: neither an underrun, which grows the
\* budget, nor a clean frame, which decays it, changes one and leaves the other
\* behind.  A forgotten delay leaves no grown budget behind either, and the budget
\* stays between the floor and the cap.
DelayCarriesBudget ==
    /\ jitter_budget \in buffer_floor .. MaxBudget
    /\ frames # <<>> /\ last_update = Newest.seq /\ queue_delay # NoDelay
         => queue_delay = DelayFor(jitter_budget)
    /\ queue_delay = NoDelay => jitter_budget = buffer_floor

\* The gate never banks a whole slot: however the allowed rate changed, one
\* admitted slot cannot be followed by a burst paid from saved credit.
NoSlotBanked ==
    /\ gate.credit < TargetRate
    /\ gate.even_initialized => gate.even_slot < gate.even_interval

\* The gate never withholds a whole slot either: the shares of the slots denied
\* in a row stay below one slot, under both policies and across rate changes.
NoSlotWithheld == owed < TargetRate

\* What a selection made from the present history promises.
Sound(s) ==
    LET prev == {i \in DOMAIN frames : frames[i].seq = s.previous}
        at == CHOOSE i \in prev : TRUE IN
    /\ s.mode # "no_frame" => prev # {} /\ s.current \in Resident
    /\ s.mode = "interpolate" =>
         /\ s.current = s.previous + 1
         /\ frames[at].media < s.media
         /\ s.media < frames[at + 1].media
         /\ s.num = s.media - frames[at].media
         /\ s.den = frames[at + 1].media - frames[at].media
    /\ s.mode # "interpolate" => s.previous = s.current

\* A selection names frames of the history it was made from.  A blend takes two
\* neighbours that strictly enclose its media time, at their exact weight: there
\* is no extrapolation and no alpha outside (0, 1).
SelectionsAreSound == [][(Select \/ SelectNow) => Sound(sel')]_vars

\* A stall suspends generation until two frames newer than the one it was
\* declared on have arrived, and a slot the gate declines, a toggle or a repeated
\* stall in between does not end the suspension early.
NoBlendBeforeRecovery ==
    [][(Select \/ SelectNow) /\ sel'.mode = "interpolate" =>
         /\ ~IsStalled(sel'.media + queue_delay')
         /\ Newest.seq >= recovery_seq + 2]_vars

\* The reveal resets the selector so that it does not interpolate across the gap
\* (src/src/main.cpp, comment at the reveal): no blend joins two frames that are
\* further apart than the silence that hides the overlay.
NoBlendAcrossSilence == sel.mode = "interpolate" => sel.den <= SilenceLimit

==============================================================================

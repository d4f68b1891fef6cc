------------------------------ MODULE FrameLoop ------------------------------
(****************************************************************************)
(* The presentation loop of src/src/main.cpp, RunFrameGeneration: one thread   *)
(* that polls the target window, drains the capture, applies the hotkey,      *)
(* serves the output slot that is due and, queued, draws the next one ahead.  *)
(*                                                                          *)
(* pc is the phase of an iteration.  Between two phases the surroundings may  *)
(* change: frames are captured, keys pressed, slots come due, the display     *)
(* finishes presents, the target is hidden, minimized or resized, and the     *)
(* source falls silent.  The clock, the timeline and the selector are reduced *)
(* to what the loop depends on: how many slots are due, which frames are      *)
(* resident, and that a selection names resident frames (SelectionsAreSound   *)
(* of FrameSelector).                                                         *)
(*                                                                          *)
(* era, ledger, asked, on_screen, torn, late_blends and shown are history.     *)
(****************************************************************************)
EXTENDS Renderer, Sequences

CONSTANTS
    TimelineHistory,   \* maximum_history_ of SourceTimeline.
    SourceSizes,       \* Sizes a captured frame may have.
    MaxCaptured,       \* Bound on the frames captured.
    MaxSlots,          \* Bound on the slots that come due.
    MaxEvents          \* Bound on what else happens around the loop.

ASSUME LoopAssumption ==
    /\ TimelineHistory \in 1 .. RendererHistory   \* Both are 8 in the code.
    /\ None \notin SourceSizes
    /\ MaxCaptured \in Nat
    /\ MaxSlots \in Nat
    /\ MaxEvents \in Nat

VARIABLES
    \* Around the loop.
    target,             \* Where the target is: "front", "back", "minimized".
    window_size,        \* Its size.
    silent,             \* No unique frame for kSourceSilenceLimit.
    capturing,          \* The capture session delivers frames.
    arrivals,           \* Captured frames not yet drained.
    pressed,            \* Toggle messages not yet dispatched.
    due,                \* Slots due and not yet taken.
    events,             \* How much of MaxEvents is used.
    \* The loop.
    pc,
    pacing_mode,        \* options.pacing_mode
    renderer,           \* The renderer.
    toggle_count,       \* generation_toggle_count_ of the renderer.
    observed_toggles,   \* observed_generation_toggles
    enabled,            \* frame_selector.GenerationEnabled()
    was_iconic,         \* target_was_iconic
    presentable,        \* target_presentable
    prepared,           \* prepared_slot with its selection and rendered flag, or None.
    last_real,          \* unpaced_last_real_sequence, None if the last was no real frame.
    \* SourceTimeline and OutputClock, reduced.
    oldest, newest,     \* Sequence numbers of the resident frames.
    frame_size,         \* Size of the newest frame.
    next_slot,          \* next_slot_
    missed,             \* missed_deadlines_
    \* History.
    captured,           \* Frames captured.
    era,                \* Restarts, discontinuities and reveals so far.
    ledger,             \* What the slots not counted missed were used for.
    asked,              \* The slot last selected for, how often, and how often presented.
    on_screen,          \* The last selection submitted to the display, and its era.
    torn,               \* The swap chain was resized under a slot drawn ahead.
    late_blends,        \* Blends presented since generation was switched off.
    shown               \* What this step presented, or None.

environment == <<target, window_size, silent, capturing, arrivals, pressed, due, events,
                 captured>>
toggling == <<toggle_count, observed_toggles, enabled>>
source == <<oldest, newest, frame_size>>
clock == <<next_slot, missed>>
past == <<ledger, asked, on_screen, torn, late_blends>>
vars == <<environment, pc, pacing_mode, renderer, toggling, was_iconic, presentable,
          prepared, last_real, source, clock, era, past, shown>>

Resident == oldest .. newest

Latency(mode) == IF mode = "queued" THEN 2 ELSE 1

Init ==
    /\ target = "front"
    /\ window_size \in WindowSizes
    /\ silent = FALSE
    /\ capturing = TRUE
    /\ arrivals = <<>>
    /\ pressed = 0
    /\ due = 0
    /\ events = 0
    /\ captured = 0
    /\ pc = "pump"
    /\ pacing_mode \in {"paced", "queued", "unpaced"}
    /\ renderer = NewRenderer(Latency(pacing_mode), window_size)
    /\ toggle_count = 0 /\ observed_toggles = 0 /\ enabled = TRUE
    /\ was_iconic = FALSE
    /\ presentable = TRUE
    /\ prepared = None
    /\ last_real = None
    /\ oldest = 1 /\ newest = 0 /\ frame_size = None
    /\ next_slot = 0 /\ missed = 0
    /\ era = 0
    /\ ledger = [presented |-> 0, idle |-> 0]
    /\ asked = [slot |-> 0, times |-> 0, presents |-> 0]
    /\ on_screen = None
    /\ torn = FALSE
    /\ late_blends = 0
    /\ shown = None

------------------------------------------------------------------------------
(****************************************************************************)
(* The surroundings.                                                          *)
(****************************************************************************)

clocked == pacing_mode # "unpaced"

loop == <<pc, pacing_mode, toggling, was_iconic, presentable, prepared, last_real,
          source, clock, era, past>>

\* A frame may be no later than the one before it only if the capture was
\* disturbed; that counts as an event.
Capture(size, late) ==
    /\ capturing
    /\ captured < MaxCaptured
    /\ late => events < MaxEvents
    /\ arrivals' = Append(arrivals, [size |-> size, late |-> late])
    /\ captured' = captured + 1
    /\ events' = IF late THEN events + 1 ELSE events
    /\ shown' = None
    /\ UNCHANGED <<target, window_size, silent, capturing, pressed, due, renderer, loop>>

ComeDue ==
    /\ clocked
    /\ next_slot + due < MaxSlots
    /\ due' = due + 1
    /\ shown' = None
    /\ UNCHANGED <<target, window_size, silent, capturing, arrivals, pressed, events, captured,
                   renderer, loop>>

FinishPresent ==
    /\ renderer.flying > 0
    /\ renderer' = Finish(renderer)
    /\ shown' = None
    /\ UNCHANGED <<environment, loop>>

\* Minimizing the target ends the delivery of frames for good.
Disturb ==
    /\ events < MaxEvents
    /\ events' = events + 1
    /\ \/ /\ pressed' = pressed + 1
          /\ UNCHANGED <<target, window_size, silent, capturing>>
       \/ /\ target' \in {"front", "back", "minimized"} \ {target}
          /\ capturing' = (capturing /\ target' # "minimized")
          /\ UNCHANGED <<pressed, window_size, silent>>
       \/ /\ window_size' \in WindowSizes \ {window_size}
          /\ UNCHANGED <<pressed, target, silent, capturing>>
       \/ /\ ~silent
          /\ silent' = TRUE
          /\ UNCHANGED <<pressed, target, window_size, capturing>>
    /\ shown' = None
    /\ UNCHANGED <<arrivals, due, captured, renderer, loop>>

------------------------------------------------------------------------------
(****************************************************************************)
(* Polling.                                                                   *)
(****************************************************************************)

\* PumpMessages counts the toggle messages; the window procedure does nothing
\* else with them.
Pump ==
    /\ pc = "pump"
    /\ toggle_count' = toggle_count + pressed
    /\ pressed' = 0
    /\ pc' = "restore"
    /\ shown' = None
    /\ UNCHANGED <<target, window_size, silent, capturing, arrivals, due, events, captured, pacing_mode,
                   renderer, observed_toggles, enabled, was_iconic, presentable, prepared,
                   last_real, source, clock, era, past>>

\* The quit hotkey, the stop event or the end of the target ends the loop.
Quit ==
    /\ pc \in {"pump", "wait"}
    /\ events < MaxEvents
    /\ events' = events + 1
    /\ pc' = "ended"
    /\ shown' = None
    /\ UNCHANGED <<target, window_size, silent, capturing, arrivals, pressed, due, captured, pacing_mode,
                   renderer, toggling, was_iconic, presentable, prepared, last_real, source,
                   clock, era, past>>

\* Mutation of Discarded: a slot drawn ahead stays valid.
DiscardedNothing == prepared

Discarded == IF prepared = None THEN None ELSE [prepared EXCEPT !.rendered = FALSE]

Iconic == target = "minimized"

NoRestore ==
    /\ pc = "restore"
    /\ ~(was_iconic /\ ~Iconic)
    /\ was_iconic' = Iconic
    /\ pc' = "edge"
    /\ shown' = None
    /\ UNCHANGED <<environment, pacing_mode, renderer, toggling, presentable, prepared,
                   last_real, source, clock, era, past>>

\* The capture is restarted: what the old session captured is gone, and with it
\* the timeline and the slot drawn ahead.
Restore ==
    /\ pc = "restore"
    /\ was_iconic /\ ~Iconic
    /\ was_iconic' = FALSE
    /\ capturing' = TRUE
    /\ arrivals' = <<>>
    /\ oldest' = newest + 1
    /\ prepared' = Discarded
    /\ silent' = FALSE
    /\ era' = era + 1
    /\ pc' = "edge"
    /\ shown' = None
    /\ UNCHANGED <<target, window_size, pressed, due, events, captured, pacing_mode, renderer,
                   toggling, presentable, last_real, newest, frame_size, clock, past>>

\* Start throws: the queues were cleared, and the rest is left as it was.
RestoreFails ==
    /\ pc = "restore"
    /\ was_iconic /\ ~Iconic
    /\ was_iconic' = FALSE
    /\ capturing' = FALSE
    /\ arrivals' = <<>>
    /\ pc' = "edge"
    /\ shown' = None
    /\ UNCHANGED <<target, window_size, silent, pressed, due, events, captured, pacing_mode,
                   renderer, toggling, presentable, prepared, last_real, source, clock, era,
                   past>>

PresentableNow == target = "front" /\ ~silent

\* The overlay follows the target into view and out of it.  Coming into view, the
\* slot drawn ahead is dropped, and its slot may be selected for anew.
Edge ==
    /\ pc = "edge"
    /\ presentable' = PresentableNow
    /\ CASE PresentableNow = presentable ->
                UNCHANGED <<prepared, last_real, era, renderer, asked>>
         [] PresentableNow /\ ~presentable ->
                /\ prepared' = None
                /\ asked' = [asked EXCEPT !.times = 0, !.presents = 0]
                /\ last_real' = None
                /\ era' = era + 1
                /\ renderer' = IF HasCapturedFrame(renderer) THEN Show(renderer) ELSE renderer
         [] ~PresentableNow /\ presentable ->
                /\ renderer' = Hide(renderer)
                /\ UNCHANGED <<prepared, last_real, era, asked>>
    /\ pc' = "drain"
    /\ shown' = None
    /\ UNCHANGED <<environment, pacing_mode, toggling, was_iconic, source, clock, ledger,
                   on_screen, torn, late_blends>>

\* Mutation of DrainFrame that shows the overlay for every frame.
DrainFrameShows ==
    /\ pc = "drain"
    /\ arrivals # <<>>
    /\ LET frame == Head(arrivals)
           breaks == Resident # {} /\ (frame.size # frame_size \/ frame.late)
           first == IF breaks THEN newest + 1 ELSE oldest
       IN  /\ newest' = newest + 1
           /\ oldest' = IF newest + 1 - first >= TimelineHistory THEN first + 1 ELSE first
           /\ frame_size' = frame.size
           /\ prepared' = IF breaks THEN Discarded ELSE prepared
           /\ era' = IF breaks THEN era + 1 ELSE era
           /\ renderer' = Show(StoreCapturedFrame(renderer, newest + 1, frame.size))
    /\ arrivals' = Tail(arrivals)
    /\ silent' = FALSE
    /\ shown' = None
    /\ UNCHANGED <<target, window_size, capturing, pressed, due, events, captured, pc, pacing_mode,
                   toggling, was_iconic, presentable, last_real, clock, past>>

\* The drain callback for one unique frame.
DrainFrame ==
    /\ pc = "drain"
    /\ arrivals # <<>>
    /\ LET frame == Head(arrivals)
           breaks == Resident # {} /\ (frame.size # frame_size \/ frame.late)
           stored == StoreCapturedFrame(renderer, newest + 1, frame.size)
           first == IF breaks THEN newest + 1 ELSE oldest
       IN  /\ newest' = newest + 1
           /\ oldest' = IF newest + 1 - first >= TimelineHistory THEN first + 1 ELSE first
           /\ frame_size' = frame.size
           /\ prepared' = IF breaks THEN Discarded ELSE prepared
           /\ era' = IF breaks THEN era + 1 ELSE era
           /\ renderer' = IF presentable THEN Show(stored) ELSE stored
    /\ arrivals' = Tail(arrivals)
    /\ silent' = FALSE
    /\ shown' = None
    /\ UNCHANGED <<target, window_size, capturing, pressed, due, events, captured, pc, pacing_mode,
                   toggling, was_iconic, presentable, last_real, clock, past>>

\* The drain hands on no more, although more may have been captured: their
\* signatures are not ready.
DrainEnd ==
    /\ pc = "drain"
    /\ pc' = "toggle"
    /\ shown' = None
    /\ UNCHANGED <<environment, pacing_mode, renderer, toggling, was_iconic, presentable,
                   prepared, last_real, source, clock, era, past>>

\* The toggle count is compared with the one acted on last.
Toggle ==
    /\ pc = "toggle"
    /\ observed_toggles' = toggle_count
    /\ enabled' = IF toggle_count # observed_toggles THEN ~enabled ELSE enabled
    /\ late_blends' = IF toggle_count # observed_toggles THEN 0 ELSE late_blends
    /\ pc' = "serve"
    /\ shown' = None
    /\ UNCHANGED <<environment, pacing_mode, renderer, toggle_count, was_iconic, presentable,
                   prepared, last_real, source, clock, era, ledger, asked, on_screen, torn>>

------------------------------------------------------------------------------
(****************************************************************************)
(* Selecting, drawing and presenting.                                         *)
(****************************************************************************)

NoSelection == [mode |-> "no_frame", previous |-> 0, current |-> 0, submit |-> FALSE]
RealFrame(k) == [mode |-> "real_frame", previous |-> k, current |-> k, submit |-> TRUE]
Blend(k) == [mode |-> "interpolate", previous |-> k, current |-> k + 1, submit |-> TRUE]
Hold == [mode |-> "ceiling_hold", previous |-> newest, current |-> newest, submit |-> FALSE]

\* Mutation of Selections that blends whether generation is enabled or not.
SelectionsAlwaysBlend ==
    IF Resident = {} THEN {NoSelection}
    ELSE {RealFrame(k) : k \in Resident} \cup {Blend(k) : k \in Resident \ {newest}}
         \cup (IF clocked THEN {Hold} ELSE {})

\* What the selector may answer.  Without generation it answers the newest
\* frame, and only a clocked slot can be declined.
Selections ==
    IF Resident = {} THEN {NoSelection}
    ELSE {RealFrame(k) : k \in IF enabled THEN Resident ELSE {newest}}
         \cup (IF enabled THEN {Blend(k) : k \in Resident \ {newest}} ELSE {})
         \cup (IF clocked THEN {Hold} ELSE {})

\* render_selection succeeds.
CanRender(s) == CanSelect(renderer, s) /\ AcquireSlot(renderer).held

\* render_selection, whether it succeeds or not: a missing frame is found before
\* a slot is asked for.
Rendered(s) ==
    IF ~CanSelect(renderer, s) THEN renderer
    ELSE LET acquired == AcquireSlot(SelectFrames(renderer, s))
         IN  IF acquired.held THEN Render(acquired, s) ELSE acquired

\* present_selection on renderer r.
PresentSelection(r, s, drawn_in) ==
    /\ renderer' = Present(r)
    /\ on_screen' = IF r.visible THEN [selection |-> s, era |-> era] ELSE on_screen
    /\ late_blends' =
           IF s.mode = "interpolate" /\ ~enabled THEN late_blends + 1 ELSE late_blends
    /\ shown' = [selection |-> s, era |-> drawn_in, drawn |-> r.drawn,
                  visible |-> r.visible]

PresentsNothing(r) ==
    /\ renderer' = r
    /\ shown' = None
    /\ UNCHANGED <<on_screen, late_blends>>

\* TakeLatestDue: the latest slot due is taken and the ones before it counted
\* missed, as is the one taken if RecordMissedSubmission follows: unfilled is 1.
TakeSlot(unfilled) ==
    /\ due > 0
    /\ due' = 0
    /\ next_slot' = next_slot + due
    /\ missed' = missed + (due - 1) + unfilled

\* History: one more slot with this outcome, one more selection for a slot, and
\* one more present of what was selected.
Booked(outcome) == [ledger EXCEPT ![outcome] = @ + 1]

AskedFor(slot) ==
    IF asked.slot = slot THEN [asked EXCEPT !.times = @ + 1]
    ELSE [slot |-> slot, times |-> 1, presents |-> 0]

Presented(a) == [a EXCEPT !.presents = @ + 1]

\* A slot taken with nothing drawn for s: a selection that was to be submitted,
\* or no frame at all, leaves it unfilled, and otherwise the selector declined it.
LeaveUnfilled(s) ==
    IF s.submit \/ s.mode = "no_frame"
    THEN TakeSlot(1) /\ UNCHANGED ledger
    ELSE TakeSlot(0) /\ ledger' = Booked("idle")

Serving ==
    /\ pc = "serve"
    /\ pc' = "prepare"
    /\ UNCHANGED <<target, window_size, silent, capturing, arrivals, pressed, events, captured,
                   pacing_mode, toggling, was_iconic, presentable, source, era, torn>>

ServeNothing ==
    /\ Serving
    /\ IF clocked THEN due = 0 ELSE ~presentable \/ ~AcquireSlot(renderer).held
    /\ PresentsNothing(renderer)
    /\ UNCHANGED <<due, prepared, last_real, clock, ledger, asked>>

\* A slot that comes due while the overlay is hidden is dropped.
ServeHidden ==
    /\ Serving
    /\ clocked /\ ~presentable
    /\ TakeSlot(0)
    /\ ledger' = Booked("idle")
    /\ prepared' = None
    /\ PresentsNothing(renderer)
    /\ UNCHANGED <<last_real, asked>>

\* Mutation of ServePrepared: what was presented stays prepared.
ServePreparedKeeps ==
    /\ Serving
    /\ clocked /\ presentable /\ prepared # None
    /\ IF prepared.rendered
       THEN /\ TakeSlot(0)
            /\ ledger' = Booked("presented")
            /\ asked' = Presented(asked)
            /\ PresentSelection(renderer, prepared.selection, prepared.era)
            /\ UNCHANGED prepared
       ELSE /\ LeaveUnfilled(prepared.selection)
            /\ PresentsNothing(renderer)
            /\ prepared' = None
            /\ UNCHANGED asked
    /\ UNCHANGED last_real

\* The slot was selected and drawn ahead.
ServePrepared ==
    /\ Serving
    /\ clocked /\ presentable /\ prepared # None
    /\ IF prepared.rendered
       THEN /\ TakeSlot(0)
            /\ ledger' = Booked("presented")
            /\ asked' = Presented(asked)
            /\ PresentSelection(renderer, prepared.selection, prepared.era)
       ELSE /\ LeaveUnfilled(prepared.selection)
            /\ PresentsNothing(renderer)
            /\ UNCHANGED asked
    /\ prepared' = None
    /\ UNCHANGED last_real

\* serve_slot_now: the slot is selected, drawn and presented at its deadline.
ServeSlotNow ==
    /\ Serving
    /\ clocked /\ presentable /\ prepared = None
    /\ LET answer == AskedFor(next_slot + due - 1) IN
       \E s \in Selections :
        IF s.submit /\ CanRender(s)
        THEN /\ TakeSlot(0)
             /\ ledger' = Booked("presented")
             /\ asked' = Presented(answer)
             /\ PresentSelection(Rendered(s), s, era)
        ELSE /\ LeaveUnfilled(s)
             /\ asked' = answer
             /\ PresentsNothing(IF s.submit THEN Rendered(s) ELSE renderer)
    /\ UNCHANGED <<prepared, last_real>>

\* Mutation of ServeUnpaced that does not remember the real frame it showed.
ServeUnpacedForgets ==
    /\ Serving
    /\ ~clocked /\ presentable
    /\ AcquireSlot(renderer).held
    /\ \E s \in Selections :
        LET acquired == AcquireSlot(renderer) IN
        IF s.submit /\ ~(s.mode # "interpolate" /\ last_real = s.current) /\ CanSelect(acquired, s)
        THEN PresentSelection(Render(SelectFrames(acquired, s), s), s, era)
        ELSE PresentsNothing(acquired)
    /\ UNCHANGED <<due, prepared, last_real, clock, ledger, asked>>

\* Unpaced, a free back buffer is filled, but a real frame the last present
\* showed is not shown again.
ServeUnpaced ==
    /\ Serving
    /\ ~clocked /\ presentable
    /\ AcquireSlot(renderer).held
    /\ \E s \in Selections :
        LET acquired == AcquireSlot(renderer)
            real == s.mode # "interpolate"
        IN  IF s.submit /\ ~(real /\ last_real = s.current) /\ CanSelect(acquired, s)
            THEN /\ PresentSelection(Render(SelectFrames(acquired, s), s), s, era)
                 /\ last_real' = IF real THEN s.current ELSE None
            ELSE PresentsNothing(acquired) /\ UNCHANGED last_real
    /\ UNCHANGED <<due, prepared, clock, ledger, asked>>

\* Queued, the next slot is selected and drawn as soon as a back buffer is free.
CanPrepare ==
    pacing_mode = "queued" /\ presentable /\ prepared = None /\ AcquireSlot(renderer).held

Prepare ==
    /\ pc = "prepare"
    /\ CanPrepare
    /\ \E s \in Selections :
        LET acquired == AcquireSlot(renderer)
            rendered == s.submit /\ CanSelect(acquired, s)
        IN  /\ renderer' = IF rendered THEN Render(SelectFrames(acquired, s), s) ELSE acquired
            /\ prepared' = [selection |-> s, rendered |-> rendered, era |-> era]
    /\ asked' = AskedFor(next_slot)
    /\ pc' = "follow"
    /\ shown' = None
    /\ UNCHANGED <<environment, pacing_mode, toggling, was_iconic, presentable, last_real,
                   source, clock, era, ledger, on_screen, torn, late_blends>>

SkipPrepare ==
    /\ pc = "prepare"
    /\ ~CanPrepare
    /\ pc' = "follow"
    /\ shown' = None
    /\ UNCHANGED <<environment, pacing_mode, renderer, toggling, was_iconic, presentable,
                   prepared, last_real, source, clock, era, past>>

\* Every 250 ms the output window follows the target.
Follow ==
    /\ pc = "follow"
    /\ renderer' \in {renderer, FollowTarget(renderer, window_size)}
    /\ torn' = (torn \/ (prepared # None /\ prepared.rendered /\ renderer' # renderer))
    /\ pc' = "wait"
    /\ shown' = None
    /\ UNCHANGED <<environment, pacing_mode, toggling, was_iconic, presentable, prepared,
                   last_real, source, clock, era, ledger, asked, on_screen, late_blends>>

\* Waiting on the semaphore takes the slot, so the loop does it only when it
\* wants one and holds none.
WantsSlot ==
    /\ presentable /\ ~renderer.held
    /\ ~clocked \/ (pacing_mode = "queued" /\ prepared = None)

Wait ==
    /\ pc = "wait"
    /\ renderer' \in {renderer} \cup (IF WantsSlot THEN {AcquireSlot(renderer)} ELSE {})
    /\ pc' = "pump"
    /\ shown' = None
    /\ UNCHANGED <<environment, pacing_mode, toggling, was_iconic, presentable, prepared,
                   last_real, source, clock, era, past>>

------------------------------------------------------------------------------
Loop ==
    \/ Pump \/ NoRestore \/ Restore \/ RestoreFails \/ Edge
    \/ DrainFrame \/ DrainEnd \/ Toggle
    \/ ServeNothing \/ ServeHidden \/ ServePrepared \/ ServeSlotNow \/ ServeUnpaced
    \/ Prepare \/ SkipPrepare \/ Follow \/ Wait

Surroundings ==
    \/ \E size \in SourceSizes, late \in BOOLEAN : Capture(size, late)
    \/ ComeDue \/ FinishPresent \/ Disturb

Next == Loop \/ Quit \/ Surroundings

Spec == Init /\ [][Next]_vars

------------------------------------------------------------------------------
(****************************************************************************)
(* Properties.                                                                *)
(****************************************************************************)

Phases == {"pump", "restore", "edge", "drain", "toggle", "serve", "prepare", "follow",
           "wait", "ended"}

SelectionSet == [mode : {"no_frame", "real_frame", "interpolate", "ceiling_hold"},
                 previous : Nat, current : Nat, submit : BOOLEAN]

PreparedSlots == [selection : SelectionSet, rendered : BOOLEAN, era : Nat]

\* An empty optional is no slot drawn ahead.
ASSUME NoneAssumption == None \notin PreparedSlots

RendererSet ==
    [history : SUBSET Nat, source_size : SourceSizes \cup {None},
     active : {None} \cup (Nat \X Nat), visible : BOOLEAN, output_size : WindowSizes,
     free : Nat, held : BOOLEAN, drawn : SelectionSet \cup {None}, flying : Nat]

\* The type invariant.
TypeOK ==
    /\ renderer \in RendererSet
    /\ target \in {"front", "back", "minimized"}
    /\ window_size \in WindowSizes
    /\ {silent, capturing, enabled, was_iconic, presentable, torn} \subseteq BOOLEAN
    /\ arrivals \in Seq([size : SourceSizes, late : BOOLEAN])
    /\ {pressed, due, events, captured, toggle_count, observed_toggles, oldest, newest,
        next_slot, missed, era, late_blends} \subseteq Nat
    /\ pc \in Phases
    /\ pacing_mode \in {"paced", "queued", "unpaced"}
    /\ prepared \in {None} \cup PreparedSlots
    /\ last_real \in Nat \cup {None}
    /\ frame_size \in SourceSizes \cup {None}
    /\ ledger \in [presented : Nat, idle : Nat]
    /\ asked \in [slot : Nat, times : Nat, presents : Nat]
    /\ on_screen \in {None} \cup [selection : SelectionSet, era : Nat]

\* A slot is drawn ahead in one iteration and served in a later one, and between
\* them the capture may restart, the source break or the overlay go and come back.
\* Even so each slot is selected for once and what was selected presented at most
\* once and not before the slot was handed out (a slot the overlay came back
\* before is selected for anew), and every slot is presented, counted missed, or
\* left idle, declined by the selector or spent out of view, and no two of these.
SlotsSettled ==
    /\ asked.times <= 1
    /\ asked.presents <= asked.times
    /\ asked.presents > 0 => asked.slot < next_slot
    /\ next_slot = ledger.presented + ledger.idle + missed

\* What the selector may name, the renderer can draw: the two histories are
\* trimmed and started over by different rules, in different classes, and yet
\* every resident frame of the timeline is in the renderer's history.
FramesDrawable ==
    /\ Resident \subseteq renderer.history
    /\ Resident # {} => renderer.source_size = frame_size

\* Nothing is presented that was drawn before the capture was restarted, the
\* source broke, or the overlay came back into view.
PresentedIsCurrent == shown # None => shown.era = era

\* The overlay is out of the way whenever the last poll found the target behind
\* another window, minimized, or silent.
OverlayYields ==
    pc \in {"drain", "toggle", "serve", "prepare", "follow", "wait"} =>
        (renderer.visible => presentable)

\* Unpaced, a real frame the display shows is not presented to it again while
\* the overlay stays in view.
NoRepeat ==
    [][pacing_mode = "unpaced" /\ shown' # None /\ on_screen # None =>
         \/ shown'.selection.mode = "interpolate"
         \/ shown'.selection # on_screen.selection
         \/ era # on_screen.era]_vars

\* Switching generation off leaves at most the one blend that was drawn ahead.
OneLateBlend == late_blends <= 1

\* Every back buffer of the swap chain is free, held by the loop or on its way
\* to the display, as long as no resize hit a slot drawn ahead: the loop never
\* presents without having waited for a buffer and never loses one.
BuffersAccounted ==
    torn \/ LET held == IF renderer.held THEN 1 ELSE 0
            IN  renderer.free + held + renderer.flying = Latency(pacing_mode)

\* A prepared slot whose back buffer the swap chain lost in a resize is not
\* presented (src/src/main.cpp, comment in the drain callback): what is
\* presented is what was drawn for the selection.
PresentedAsDrawn ==
    shown # None /\ shown.visible => shown.drawn = shown.selection

\* The toggle leaves generation where the last press put it (src/src/main.cpp,
\* comment at the toggle poll): on after an even number of presses.
TogglePressesCount == observed_toggles = toggle_count => (enabled <=> toggle_count % 2 = 0)

\* The pacing report is fed with submitted presents
\* (src/src/adaptive_scheduler.h, PacingMonitor): a present that is recorded
\* reached the swap chain.
RecordedIsSubmitted == shown # None => shown.visible

==============================================================================

------------------------------ MODULE Renderer ------------------------------
(****************************************************************************)
(* The renderer of src/src/renderer.cpp as the presentation loop sees it: the *)
(* frames it can draw, the pair it has bound, the output window and the back  *)
(* buffer the loop holds.  Its state is a record and each operation a function *)
(* from record to record, so that a step of the loop composes them as the     *)
(* code calls them.                                                           *)
(*                                                                          *)
(* The frame-latency waitable object of the swap chain is a semaphore: free    *)
(* is its count, and it signals once for every present the display finishes.  *)
(* What the drawing itself computes is left out, and so are the counters of    *)
(* presents, which only telemetry reads.                                      *)
(****************************************************************************)
EXTENDS Integers

CONSTANTS
    RendererHistory,   \* maximum_history of StoreCapturedFrame.
    WindowSizes,       \* Sizes the output window may have.
    None               \* Nothing bound, nothing drawn.

ASSUME RendererAssumption == RendererHistory \in Nat \ {0}

\* frame latency, size of the output window at creation.
NewRenderer(latency, size) ==
    [history |-> {},          \* frame_history_, as sequence numbers.
     source_size |-> None,    \* source_width_, source_height_, source_format_
     active |-> None,         \* The bound pair, or None: ~has_current_frame_.
     visible |-> FALSE,       \* output_visible_
     output_size |-> size,    \* output_width_, output_height_
     free |-> latency,        \* Count of frame_latency_waitable_object_.
     held |-> FALSE,          \* presentation_slot_acquired_
     drawn |-> None,          \* The selection the held back buffer shows.
     flying |-> 0]            \* Presents the display has not finished.

\* Mutation of StoreCapturedFrame that keeps one frame less.
StoreCapturedFrameShort(r, seq, size) ==
    LET same == r.source_size = size
        kept == IF same THEN r.history ELSE {}
    IN  [r EXCEPT !.source_size = size,
                  !.active = IF same THEN @ ELSE None,
                  !.history = {s \in kept \cup {seq} : s > seq - RendererHistory + 1}]

\* A frame of another size starts the history over and unbinds the pair.
StoreCapturedFrame(r, seq, size) ==
    LET same == r.source_size = size
        kept == IF same THEN r.history ELSE {}
    IN  [r EXCEPT !.source_size = size,
                  !.active = IF same THEN @ ELSE None,
                  !.history = {s \in kept \cup {seq} : s > seq - RendererHistory}]

\* SelectFramePair or SelectRealFrame succeeds: the pair is bound already, or
\* both frames are in the history.
CanSelect(r, s) ==
    \/ r.active = <<s.previous, s.current>>
    \/ {s.previous, s.current} \subseteq r.history

SelectFrames(r, s) ==
    IF CanSelect(r, s) THEN [r EXCEPT !.active = <<s.previous, s.current>>] ELSE r

HasCapturedFrame(r) == r.active # None

\* WaitForPresentationSlot without waiting; it returns whether held.
AcquireSlot(r) ==
    IF ~r.held /\ r.free > 0 THEN [r EXCEPT !.held = TRUE, !.free = @ - 1] ELSE r

Render(r, s) == [r EXCEPT !.drawn = s]

\* Mutation of Present that keeps the slot.
PresentKeepsSlot(r) ==
    IF r.visible THEN [r EXCEPT !.flying = @ + 1, !.drawn = None] ELSE r

\* An output window that is not visible is not presented to, and the slot stays
\* with the loop.
Present(r) ==
    IF r.visible
    THEN [r EXCEPT !.held = FALSE, !.flying = @ + 1, !.drawn = None]
    ELSE r

Show(r) == [r EXCEPT !.visible = TRUE]
Hide(r) == [r EXCEPT !.visible = FALSE]

\* FollowTarget moves the window, and the size message it raises resizes the
\* swap chain: what was drawn is gone and the slot is no longer held.  The swap
\* chain is taken to give the slot back.
FollowTarget(r, size) ==
    IF r.output_size = size THEN r
    ELSE [r EXCEPT !.output_size = size, !.drawn = None, !.held = FALSE,
                   !.free = IF r.held THEN @ + 1 ELSE @]

\* The display finishes a present.
Finish(r) == [r EXCEPT !.flying = @ - 1, !.free = @ + 1]

==============================================================================

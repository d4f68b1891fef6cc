-------------------------- MODULE MotionInterpolator --------------------------
(****************************************************************************)
(* MotionInterpolator of src/src/motion_interpolator.cpp: which pair of frames  *)
(* the motion field on the GPU belongs to, what it was estimated from, and    *)
(* whether it may be drawn.  An interpolator is a record and its operations   *)
(* are functions on it.  What a dispatch computes is left out; what it reads  *)
(* is recorded with the field it writes.                                     *)
(*                                                                          *)
(* The overlay detector keeps its state in two textures: a pair reads one and *)
(* writes the other, which becomes the one to read when the next pair is      *)
(* prepared.  A state is known by the number of the preparation that wrote it. *)
(****************************************************************************)
EXTENDS Integers, FiniteSets

CONSTANTS
    Sizes,   \* Sizes of source frames.
    NoPair   \* No pair, no size, no field.

\* The detector state that ClearUiPersistence leaves.
Cleared == 0

NewInterpolator ==
    [size |-> NoPair,              \* source_width_, source_height_
     ready |-> FALSE,              \* ready_
     prior_enabled |-> TRUE,       \* temporal_prior_enabled_
     prior_available |-> FALSE,    \* flow_prior_available_
     mask |-> 0,                   \* ui_mask_rects_ and its texture.
     auto |-> FALSE,               \* auto_ui_mask_enabled_
     index |-> 0,                  \* ui_persistence_index_
     pending |-> FALSE,            \* ui_persistence_pending_
     detector |-> [i \in 0..1 |-> Cleared],   \* ui_persistence_
     field |-> NoPair,             \* What *_fine_filtered_ describes.
     prepared |-> 0]               \* Preparations that succeeded.

\* What a field on the GPU was estimated from; prior is the pair whose field
\* seeded the search.
Field(pair, prior, mi) ==
    [pair |-> pair, prior |-> prior, mask |-> mi.mask, auto |-> mi.auto,
     detector |-> mi.detector[mi.index]]

\* CreateResources: surfaces of another size hold nothing.
CreateResources(mi, size) ==
    [mi EXCEPT !.size = size,
               !.index = 0,
               !.pending = FALSE,
               !.detector = [i \in 0..1 |-> Cleared],
               !.field = NoPair,
               !.ready = FALSE,
               !.prior_available = FALSE]

\* CreateResources fails: the surfaces before the one that could not be created
\* are new and the others as they were, but the size is the new one.
FailToCreate(mi, size) == [mi EXCEPT !.size = size, !.ready = FALSE, !.field = NoPair]

\* Mutation of Resized that builds the surfaces once only.
ResizedOnce(mi, size) == IF mi.size # NoPair THEN mi ELSE CreateResources(mi, size)

Resized(mi, size) == IF mi.size = size THEN mi ELSE CreateResources(mi, size)

\* The state the last pair wrote becomes the one to read.
Published(mi) ==
    IF mi.pending THEN [mi EXCEPT !.index = 1 - @, !.pending = FALSE] ELSE mi

\* The field that seeds the search, or NoPair.
UsablePrior(mi, continues) ==
    IF mi.prior_enabled /\ continues /\ mi.prior_available THEN mi.field.pair ELSE NoPair

\* Mutation of Detected that publishes the state at once.
DetectedAtOnce(mi) ==
    IF mi.auto
    THEN [mi EXCEPT !.detector[1 - mi.index] = mi.prepared, !.index = 1 - mi.index]
    ELSE mi

\* DispatchUiPersistence writes the texture that is not read.
Detected(mi) ==
    IF mi.auto
    THEN [mi EXCEPT !.detector[1 - mi.index] = mi.prepared, !.pending = TRUE]
    ELSE mi

\* PreparePair succeeds.
PreparePair(mi, pair, size, continues) ==
    LET fit == Resized(mi, size)
        shown == Published(fit)
    IN  Detected([shown EXCEPT !.field = Field(pair, UsablePrior(fit, continues), shown),
                               !.prior_available = TRUE,
                               !.ready = TRUE,
                               !.prepared = @ + 1])

\* Mutation of Reset that leaves the prior of the last pair usable.
ResetKeepsPrior(mi) == [mi EXCEPT !.ready = FALSE]

Reset(mi) == [mi EXCEPT !.ready = FALSE, !.prior_available = FALSE]

\* SetUiMask succeeds; when the texture cannot be created nothing changes.
SetUiMask(mi, mask) == [mi EXCEPT !.mask = mask, !.ready = FALSE]

SetAutoUiMaskEnabled(mi, enabled) ==
    IF mi.auto = enabled THEN mi
    ELSE [mi EXCEPT !.auto = enabled,
                    !.detector = [i \in 0..1 |-> Cleared],
                    !.pending = FALSE,
                    !.ready = FALSE]

SetTemporalPriorEnabled(mi, enabled) == [mi EXCEPT !.prior_enabled = enabled]

\* SetPerformanceMode recompiles the shaders and SetFlowScale rebuilds the
\* surfaces; a call with the value that is set already does nothing.
SetPerformanceMode(mi) == [mi EXCEPT !.ready = FALSE]
SetFlowScale(mi) == IF mi.size = NoPair THEN mi ELSE CreateResources(mi, mi.size)

==============================================================================

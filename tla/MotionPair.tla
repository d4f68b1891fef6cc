------------------------------ MODULE MotionPair ------------------------------
(****************************************************************************)
(* The frames of src/src/renderer.cpp and the motion field of the pair it has   *)
(* bound.  The renderer copies every unique frame into a texture of its own,  *)
(* recycles the textures of frames that left its history, binds the pair the  *)
(* selector asks for, and has the interpolator estimate that pair's motion    *)
(* once, seeded with the field of the pair before it where the one continues  *)
(* the other.  Drawing reads the bound textures, the field and the detector   *)
(* state, whatever has happened to them since.                                *)
(*                                                                          *)
(* The program calls the setters before its loop; the classes promise them at *)
(* any time and the tests of the interpolator call them between pairs, so the *)
(* model calls them at any time.                                             *)
(****************************************************************************)
EXTENDS MotionInterpolator, GpuTiming, SequencesExt

CONSTANTS
    Textures,        \* Textures the device can hold.
    MaxHistory,      \* maximum_history of StoreCapturedFrame.
    MaxFrames,       \* Bound on the frames stored.
    MaxSettings,     \* Bound on the calls of setters.
    MaxPairs,        \* Bound on the pairs prepared.
    MaxFailures      \* Bound on the surfaces that cannot be created.

ASSUME MotionPairAssumption ==
    /\ MaxHistory \in Nat \ {0, 1}
    /\ IsFiniteSet(Textures) /\ Cardinality(Textures) > MaxHistory + 2

VARIABLES
    source_size,     \* source_width_, source_height_, source_format_
    history,         \* frame_history_: records of sequence and texture.
    recycled,        \* recycled_history_frames_, as textures.
    content,         \* The frame last copied into a texture; history of the copy.
    bound,           \* previous_frame_, current_frame_ and their sequences.
    has_pair,        \* has_frame_pair_
    motion_enabled,  \* motion_enabled_
    motion_ready,    \* motion_ready_
    interpolator,    \* motion_interpolator_
    timing,          \* Its flow_timing_.
    stored,          \* Frames stored so far, the newest sequence number.
    settings,        \* Setter calls made.
    failures         \* Surfaces that could not be created.

frame_vars == <<source_size, history, recycled, content, stored>>
bound_vars == <<bound, has_pair>>
motion_vars == <<motion_ready, interpolator, timing, failures>>
vars == <<frame_vars, bound_vars, motion_vars, motion_enabled, settings>>

NotBound == [previous |-> 0, current |-> 0, textures |-> {}]

FindHistoryFrame(seq) == {f \in ToSet(history) : f.seq = seq}
HistoryTextures == {f.texture : f \in ToSet(history)}
InUse == HistoryTextures \cup ToSet(recycled) \cup bound.textures

Init ==
    /\ source_size = NoPair
    /\ history = <<>>
    /\ recycled = <<>>
    /\ content = [t \in Textures |-> 0]
    /\ bound = NotBound
    /\ has_pair = FALSE
    /\ motion_enabled \in BOOLEAN
    /\ motion_ready = FALSE
    /\ interpolator \in {[NewInterpolator EXCEPT !.auto = auto] : auto \in BOOLEAN}
    /\ timing = NewCollector
    /\ stored = 0
    /\ settings = 0
    /\ failures = 0

\* Mutation of Reusable that takes any recycled texture.
ReusableBound == DOMAIN recycled

\* The recycled textures a new frame may be copied into, by their index: those
\* that are not bound.
Reusable == {i \in DOMAIN recycled : recycled[i] \notin bound.textures}

\* Textures the device gives out; which of the free ones does not matter.
NewTexture(used) == CHOOSE t \in Textures : t \notin used

\* StoreCapturedFrame for a frame of the size of the history: it is copied into
\* the first texture that may be reused, else into a new one.
StoreSameSize ==
    LET reused == Reusable # {}
        t == IF reused THEN recycled[Min(Reusable)] ELSE NewTexture(InUse)
        left == IF reused THEN RemoveAt(recycled, Min(Reusable)) ELSE recycled
        longer == Append(history, [seq |-> stored + 1, texture |-> t])
    IN  /\ content' = [content EXCEPT ![t] = stored + 1]
        /\ history' = IF Len(longer) > MaxHistory THEN Tail(longer) ELSE longer
        /\ recycled' = IF Len(longer) > MaxHistory
                       THEN Append(left, Head(longer).texture)
                       ELSE left
        /\ UNCHANGED <<source_size, bound_vars, motion_vars>>

\* CreateHistoryTextures and the first frame of a new size.
StoreNewSize(size) ==
    LET t == NewTexture({})
    IN  /\ source_size' = size
        /\ history' = <<[seq |-> stored + 1, texture |-> t]>>
        /\ recycled' = <<>>
        /\ content' = [content EXCEPT ![t] = stored + 1]
        /\ bound' = NotBound
        /\ has_pair' = FALSE
        /\ motion_ready' = FALSE
        /\ interpolator' = Reset(interpolator)
        /\ UNCHANGED <<timing, failures>>

StoreCapturedFrame(size) ==
    /\ stored < MaxFrames
    /\ stored' = stored + 1
    /\ IF size = source_size THEN StoreSameSize ELSE StoreNewSize(size)
    /\ UNCHANGED <<motion_enabled, settings>>

\* PreparePair for the pair bound after this step.  It polls the queries and
\* measures its dispatches; it can only fail before them, where its Cancel finds
\* no measurement to cancel.
Prepare(mi, pair, continues) ==
    \/ /\ mi.prepared < MaxPairs
       /\ interpolator' = PreparePair(mi, pair, source_size, continues)
       /\ motion_ready' = TRUE
       /\ \E ready \in ReadySets(timing) : timing' = End(Begin(Poll(timing, ready, {})))
       /\ UNCHANGED failures
    \/ /\ mi.size # source_size
       /\ failures < MaxFailures
       /\ interpolator' = FailToCreate(mi, source_size)
       /\ motion_ready' = FALSE
       /\ timing' = Cancel(timing)
       /\ failures' = failures + 1

\* The pair starts on the frame the bound one ended on.
Continues(previous) == has_pair /\ bound.current = previous

Bind(f, g) ==
    bound' = [previous |-> f.seq, current |-> g.seq, textures |-> {f.texture, g.texture}]

\* SelectFramePair of two neighbours, as the selector asks for them.
SelectFramePair(current) ==
    /\ ~(has_pair /\ bound.current = current)
    /\ \E f \in FindHistoryFrame(current - 1), g \in FindHistoryFrame(current) :
        /\ Bind(f, g)
        /\ has_pair' = TRUE
        /\ IF motion_enabled
           THEN Prepare(interpolator, <<current - 1, current>>, Continues(current - 1))
           ELSE motion_ready' = FALSE /\ UNCHANGED <<interpolator, timing, failures>>
    /\ UNCHANGED <<frame_vars, motion_enabled, settings>>

SelectRealFrame(current) ==
    /\ has_pair \/ bound.current # current
    /\ \E f \in FindHistoryFrame(current) : Bind(f, f)
    /\ has_pair' = FALSE
    /\ motion_ready' = FALSE
    /\ UNCHANGED <<frame_vars, interpolator, timing, failures, motion_enabled, settings>>

Setter == settings < MaxSettings /\ settings' = settings + 1

SetMotionEnabled(enabled) ==
    /\ Setter
    /\ motion_enabled' = enabled
    /\ motion_ready' = FALSE
    /\ interpolator' = Reset(interpolator)
    /\ UNCHANGED <<frame_vars, bound_vars, timing, failures>>

\* A bound pair is prepared again, whether or not the mask could be uploaded.
SetMask(uploaded) ==
    /\ Setter
    /\ LET mi == IF uploaded THEN SetUiMask(interpolator, interpolator.mask + 1)
                 ELSE interpolator
       IN  IF has_pair /\ motion_enabled
           THEN Prepare(mi, <<bound.previous, bound.current>>, FALSE)
           ELSE /\ interpolator' = mi
                /\ motion_ready' = FALSE
                /\ UNCHANGED <<timing, failures>>
    /\ UNCHANGED <<frame_vars, bound_vars, motion_enabled>>

\* SetAutoUiMaskEnabled, SetPerformanceMode and SetFlowScale end the pair.
ChangeMotion ==
    /\ Setter
    /\ interpolator' \in {SetAutoUiMaskEnabled(interpolator, ~interpolator.auto),
                          SetPerformanceMode(interpolator),
                          SetFlowScale(interpolator)}
    /\ motion_ready' = FALSE
    /\ UNCHANGED <<frame_vars, bound_vars, timing, failures, motion_enabled>>

\* SetTemporalPriorEnabled keeps the pair: it is still a valid estimate.
SetPrior ==
    /\ Setter
    /\ interpolator' = SetTemporalPriorEnabled(interpolator, ~interpolator.prior_enabled)
    /\ UNCHANGED <<frame_vars, bound_vars, motion_ready, timing, failures, motion_enabled>>

PollGpuTimings ==
    /\ \E ready \in ReadySets(timing) \ {{}} : \E spoiled \in SUBSET ready :
        timing' = Poll(timing, ready, spoiled)
    /\ UNCHANGED <<frame_vars, bound_vars, motion_ready, interpolator, failures,
                   motion_enabled, settings>>

Next ==
    \/ \E size \in Sizes : StoreCapturedFrame(size)
    \/ \E seq \in 2..stored : SelectFramePair(seq)
    \/ \E seq \in 1..stored : SelectRealFrame(seq)
    \/ \E enabled \in BOOLEAN : SetMotionEnabled(enabled)
    \/ \E uploaded \in BOOLEAN : SetMask(uploaded)
    \/ ChangeMotion
    \/ SetPrior
    \/ PollGpuTimings

Spec == Init /\ [][Next]_vars

--------------------------------------------------------------------------------
\* Render draws the motion path; otherwise it blends the bound frames.
MotionDrawn == has_pair /\ motion_enabled /\ motion_ready /\ interpolator.ready

\* A texture that is bound still holds the frame it was bound for: the next
\* frames are never copied into it, although it may have left the history and
\* been recycled (the two tests in the lambda of StoreCapturedFrame).
BoundFramesKept ==
    /\ bound.textures = {} <=> bound.current = 0
    /\ {content[t] : t \in bound.textures} \subseteq {bound.previous, bound.current}
    /\ Cardinality(bound.textures) = Cardinality({bound.previous, bound.current} \ {0})

\* The search of a pair is only ever seeded with the field of the pair that
\* ended on this pair's first frame, across resets, pairs that were bound while
\* motion was off, real frames in between and preparations that failed
\* (motion_interpolator.h, PreparePair).
PriorContinues ==
    interpolator.field # NoPair =>
        LET field == interpolator.field
        IN  field.prior # NoPair => field.prior[2] = field.pair[1]

\* The field that is drawn was estimated from the two bound frames, under the
\* mask and the detector setting that hold now.
DrawnFieldIsCurrent ==
    MotionDrawn =>
        /\ interpolator.size = source_size
        /\ interpolator.field.pair = <<bound.previous, bound.current>>
        /\ interpolator.field.mask = interpolator.mask
        /\ interpolator.field.auto = interpolator.auto

\* The fusion of a pair reads the detector state that its flow was estimated
\* under, and that state is an earlier preparation's: what this pair's detector
\* writes stays hidden until the next pair (PreparePair, "what keeps the feedback
\* loop acyclic").
DetectorStateAgrees ==
    MotionDrawn =>
        /\ interpolator.detector[interpolator.index] = interpolator.field.detector
        /\ interpolator.field.detector < interpolator.prepared

\* Every measurement begun is in flight in one slot of the ring or was read
\* once; none is sampled twice, in whatever order the slots are read.
MeasurementsAccounted ==
    LET flying == {q \in Slots : timing.pending[q] # Idle}
    IN  /\ timing.active = Idle
        /\ {timing.pending[q] : q \in flying} \cup timing.collected = 1..timing.begun
        /\ {timing.pending[q] : q \in flying} \cap timing.collected = {}
        /\ Cardinality({timing.pending[q] : q \in flying}) = Cardinality(flying)
        /\ ToSet(timing.samples) \subseteq timing.collected
        /\ IsInjective(timing.samples)

==============================================================================

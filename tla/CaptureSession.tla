--------------------------- MODULE CaptureSession ---------------------------
(****************************************************************************)
(* The capture session of src/src/capture_session.cpp.  A Windows Graphics      *)
(* Capture callback, on a thread of the system, copies each frame into a      *)
(* bounded queue.  The main thread, at every iteration of its loop, submits   *)
(* queued frames to the GPU for a signature, collects the signatures that are *)
(* ready, classifies each frame as unique or duplicate and hands it on.       *)
(*                                                                          *)
(* One action is one stretch of code under the mutex, or one stretch between  *)
(* two.  A frame is its sequence number, the session that captured it, and an *)
(* image, which stands for its size and signature together; id is its place   *)
(* in the order of insertion, and epoch the number of Start calls before it.  *)
(* Textures, views and readback buffers are moved with the frame they belong  *)
(* to and are left out, and so is the pool that recycles them.                *)
(*                                                                          *)
(* The restart of main.cpp, with its drain cursor, is part of the module: the *)
(* callback of a stopped session may still be running while it happens.       *)
(****************************************************************************)
EXTENDS Naturals, Sequences, FiniteSets

CONSTANTS
    MaxRaw,          \* kMaximumRawQueue
    MaxPending,      \* kMaximumPendingSignatures
    Images,          \* Images a frame may show.
    None,            \* No image, no frame.
    MaxFrames,       \* Bound on the frames captured.
    MaxStarts,       \* Bound on the calls of Start.
    MaxFailures      \* Bound on the errors of the callback.

Sessions == 1 .. MaxStarts

Frame == [seq : Nat, session : Sessions, image : Images, id : Nat, epoch : Nat]

ASSUME CaptureAssumption ==
    /\ MaxRaw \in Nat \ {0}
    /\ MaxPending \in Nat \ {0}
    /\ None \notin Images \cup Frame
    /\ MaxFrames \in Nat
    /\ MaxStarts \in Nat \ {0}
    /\ MaxFailures \in Nat

VARIABLES
    \* Shared, under mutex_.
    raw,          \* raw_frames_
    pending,      \* pending_signatures_: frame and whether its query is done.
    classified,   \* classified_frames_, with their duplicate flags.
    last_unique,  \* last_unique_signature_ and size, or None.
    latest,       \* latest_information_.sequence
    error,        \* error_ is not empty.
    \* The auto-reset event that wakes the main loop.
    event,        \* frame_available_event_
    \* Callback threads: what the callback of each session is doing.
    callback,
    \* The main thread.
    pc,           \* Where it is.
    session,      \* The session that is capturing; 0: none.
    starts,       \* Calls of Start.
    cursor,       \* consumed_raw_sequence
    known,        \* known_sequence of this drain.
    hand,         \* The frame taken off a queue and not yet put on the next.
    ready,        \* The frames this drain hands on.
    \* History.
    inserted,     \* Frames inserted into raw.
    failures,     \* Errors so far.
    left,         \* The newest frame the drain left in raw; 0: none.
    delivered     \* The last two frames the consumer got, with their flags, and
                  \* whether a session was capturing then.

queues == <<raw, pending, classified>>
shared == <<queues, last_unique, latest, error>>
main == <<pc, session, starts, cursor, known, hand, ready>>
past == <<inserted, failures, left, delivered>>
vars == <<shared, event, callback, main, past>>

Classified == [frame : Frame, duplicate : BOOLEAN]
Idle == [at |-> "idle", image |-> None]

------------------------------------------------------------------------------
\* Start has been called once before the loop.
Init ==
    /\ raw = <<>> /\ pending = <<>> /\ classified = <<>>
    /\ last_unique = None
    /\ latest = 0
    /\ error = FALSE
    /\ event = FALSE
    /\ callback = [s \in Sessions |-> Idle]
    /\ pc = "waiting"
    /\ session = 1
    /\ starts = 1
    /\ cursor = 0
    /\ known = 0
    /\ hand = None
    /\ ready = <<>>
    /\ inserted = 0
    /\ failures = 0
    /\ left = 0
    /\ delivered = <<>>

------------------------------------------------------------------------------
(****************************************************************************)
(* The callback, OnFrameArrived.                                              *)
(****************************************************************************)

\* TryGetNextFrame returned a frame, and it is copied into a texture.  Only a
\* session that is capturing raises new callbacks.
Arrive(s, image) ==
    /\ s = session
    /\ callback[s] = Idle
    /\ inserted < MaxFrames
    /\ callback' = [callback EXCEPT ![s] = [at |-> "copied", image |-> image]]
    /\ UNCHANGED <<shared, event, main, past>>

\* Under the mutex: the frame takes the next sequence number; a full queue
\* drops its oldest frame.
Insert(s) ==
    /\ callback[s].at = "copied"
    /\ inserted < MaxFrames
    /\ LET f == [seq |-> latest + 1, session |-> s, image |-> callback[s].image,
                 id |-> inserted + 1, epoch |-> starts]
       IN  raw' = Append(IF Len(raw) >= MaxRaw THEN Tail(raw) ELSE raw, f)
    /\ latest' = latest + 1
    /\ inserted' = inserted + 1
    /\ callback' = [callback EXCEPT ![s].at = "inserted"]
    /\ UNCHANGED <<pending, classified, last_unique, error, event, main, failures, left,
                   delivered>>

\* The event is set after the mutex is released.
Signal(s) ==
    /\ callback[s].at = "inserted"
    /\ event' = TRUE
    /\ callback' = [callback EXCEPT ![s] = Idle]
    /\ UNCHANGED <<shared, main, past>>

\* A call of the callback failed: before the insertion a frame is lost, after
\* it the pool could not be recreated at the frame's new size.
Fail(s) ==
    /\ failures < MaxFailures
    /\ \/ callback[s].at = "copied" /\ event' = event
       \/ callback[s].at = "inserted" /\ event' = TRUE
    /\ error' = TRUE
    /\ failures' = failures + 1
    /\ callback' = [callback EXCEPT ![s] = Idle]
    /\ UNCHANGED <<queues, last_unique, latest, main, inserted, left, delivered>>

------------------------------------------------------------------------------
(****************************************************************************)
(* The main thread, DrainClassifiedFramesAfter.                               *)
(****************************************************************************)

\* The loop wakes, for the event or for a deadline, and starts to drain.
Wake ==
    /\ pc = "waiting"
    /\ event' \in {FALSE, event}
    /\ pc' = "submit"
    /\ known' = cursor
    /\ UNCHANGED <<shared, callback, session, starts, cursor, hand, ready, past>>

\* Mutation of CanSubmit without the capacity of the pending queue.
CanSubmitUnbounded == raw # <<>>

CanSubmit == raw # <<>> /\ Len(pending) < MaxPending

\* SubmitQueuedSignatures takes a frame, and dispatches without the mutex.
SubmitTake ==
    /\ pc = "submit"
    /\ CanSubmit
    /\ hand' = Head(raw)
    /\ raw' = Tail(raw)
    /\ pc' = "dispatch"
    /\ UNCHANGED <<pending, classified, last_unique, latest, error, event, callback,
                   session, starts, cursor, known, ready, past>>

\* Mutation of SubmitPut that keeps a reference to the frame it put down.
SubmitPutKeepsHand ==
    /\ pc = "dispatch"
    /\ pending' = Append(pending, [frame |-> hand, done |-> FALSE])
    /\ pc' = "submit"
    /\ UNCHANGED <<raw, classified, last_unique, latest, error, event, callback,
                   session, starts, cursor, known, hand, ready, past>>

SubmitPut ==
    /\ pc = "dispatch"
    /\ pending' = Append(pending, [frame |-> hand, done |-> FALSE])
    /\ hand' = None
    /\ pc' = "submit"
    /\ UNCHANGED <<raw, classified, last_unique, latest, error, event, callback,
                   session, starts, cursor, known, ready, past>>

SubmitEnd ==
    /\ pc = "submit"
    /\ ~CanSubmit
    /\ left' = IF raw = <<>> THEN 0 ELSE raw[Len(raw)].id
    /\ pc' = "collect"
    /\ UNCHANGED <<shared, event, callback, session, starts, cursor, known, hand, ready,
                   inserted, failures, delivered>>

\* The GPU finishes work in the order it was submitted.
GpuCompletes ==
    \E i \in DOMAIN pending :
        /\ ~pending[i].done
        /\ \A j \in 1 .. (i - 1) : pending[j].done
        /\ pending' = [pending EXCEPT ![i].done = TRUE]
        /\ UNCHANGED <<raw, classified, last_unique, latest, error, event, callback, main, past>>

\* Mutation of CanCollect that waits for a full batch.
CanCollectBatch == Len(pending) = MaxPending /\ Head(pending).done

CanCollect == pending # <<>> /\ Head(pending).done

\* CollectCompletedSignatures takes the oldest work if its query is done.
CollectTake ==
    /\ pc = "collect"
    /\ CanCollect
    /\ hand' = Head(pending).frame
    /\ pending' = Tail(pending)
    /\ pc' = "map"
    /\ UNCHANGED <<raw, classified, last_unique, latest, error, event, callback,
                   session, starts, cursor, known, ready, past>>

\* Mutation of StillDrawing that gives the work up.
StillDrawingLost ==
    /\ pc = "map"
    /\ pending' = pending
    /\ hand' = None
    /\ pc' = "swap"
    /\ UNCHANGED <<raw, classified, last_unique, latest, error, event, callback,
                   session, starts, cursor, known, ready, past>>

\* The readback buffer is still being drawn: the work goes back to the front,
\* and the drain goes on with what is classified.
StillDrawing ==
    /\ pc = "map"
    /\ pending' = <<[frame |-> hand, done |-> TRUE]>> \o pending
    /\ hand' = None
    /\ pc' = "swap"
    /\ UNCHANGED <<raw, classified, last_unique, latest, error, event, callback,
                   session, starts, cursor, known, ready, past>>

\* A frame that shows what the last unique frame showed is a duplicate.
Classify ==
    /\ pc = "map"
    /\ classified' = Append(classified,
           [frame |-> hand, duplicate |-> last_unique = hand.image])
    /\ last_unique' = hand.image
    /\ hand' = None
    /\ pc' = "collect"
    /\ UNCHANGED <<raw, pending, latest, error, event, callback,
                   session, starts, cursor, known, ready, past>>

CollectEnd ==
    /\ pc = "collect"
    /\ ~CanCollect
    /\ pc' = "swap"
    /\ UNCHANGED <<shared, event, callback, session, starts, cursor, known, hand, ready, past>>

Swap ==
    /\ pc = "swap"
    /\ ready' = classified
    /\ classified' = <<>>
    /\ pc' = "deliver"
    /\ UNCHANGED <<raw, pending, last_unique, latest, error, event, callback,
                   session, starts, cursor, known, hand, past>>

\* The consumer of main.cpp gets a frame and moves the cursor to it.
Deliver ==
    /\ pc = "deliver"
    /\ ready # <<>>
    /\ LET c == Head(ready) IN
        /\ c.frame.seq > known
        /\ cursor' = IF c.frame.seq > cursor THEN c.frame.seq ELSE cursor
        /\ delivered' = Append(IF Len(delivered) = 2 THEN Tail(delivered) ELSE delivered,
               [frame |-> c.frame, duplicate |-> c.duplicate, capturing |-> session # 0])
    /\ ready' = Tail(ready)
    /\ UNCHANGED <<shared, event, callback, pc, session, starts, known, hand, inserted, failures,
                   left>>

\* A frame the consumer has passed already is not handed on.
PassOver ==
    /\ pc = "deliver"
    /\ ready # <<>>
    /\ Head(ready).frame.seq <= known
    /\ ready' = Tail(ready)
    /\ UNCHANGED <<shared, event, callback, pc, session, starts, cursor, known, hand, past>>

\* Mutation of DrainEnd that resets the event after the drain.
DrainEndResets ==
    /\ pc = "deliver"
    /\ ready = <<>>
    /\ event' = FALSE
    /\ pc' = IF error THEN "failed" ELSE "waiting"
    /\ UNCHANGED <<shared, callback, session, starts, cursor, known, hand, ready, past>>

\* The loop goes back to wait, unless the callback reported an error: then it
\* throws and the program ends.
DrainEnd ==
    /\ pc = "deliver"
    /\ ready = <<>>
    /\ pc' = IF error THEN "failed" ELSE "waiting"
    /\ UNCHANGED <<shared, event, callback, session, starts, cursor, known, hand, ready, past>>

------------------------------------------------------------------------------
(****************************************************************************)
(* The restart on the restore edge of main.cpp: Stop, then Start.  A callback *)
(* that is already running is not waited for.                                 *)
(****************************************************************************)

Stop ==
    /\ pc = "waiting"
    /\ starts < MaxStarts
    /\ session' = 0
    /\ raw' = <<>> /\ pending' = <<>> /\ classified' = <<>>
    /\ pc' = "stopped"
    /\ UNCHANGED <<last_unique, latest, error, event, callback,
                   starts, cursor, known, hand, ready, past>>

\* Mutation of StartClears that keeps the last unique signature.
StartKeepsSignature ==
    /\ pc = "stopped"
    /\ raw' = <<>> /\ pending' = <<>> /\ classified' = <<>>
    /\ latest' = 0
    /\ error' = FALSE
    /\ starts' = starts + 1
    /\ pc' = "submit"
    /\ UNCHANGED last_unique

\* What Start clears before anything in it can fail.
StartClears ==
    /\ pc = "stopped"
    /\ raw' = <<>> /\ pending' = <<>> /\ classified' = <<>>
    /\ last_unique' = None
    /\ latest' = 0
    /\ error' = FALSE
    /\ starts' = starts + 1
    /\ pc' = "submit"

\* Mutation of Start after which the consumer keeps its cursor.
StartKeepsCursor ==
    /\ StartClears
    /\ session' = starts + 1
    /\ known' = cursor
    /\ UNCHANGED <<event, callback, cursor, hand, ready, past>>

Start ==
    /\ StartClears
    /\ session' = starts + 1
    /\ cursor' = 0
    /\ known' = 0
    /\ UNCHANGED <<event, callback, hand, ready, past>>

\* The target has no capturable surface: the exception is reported and the
\* loop goes on without a session and with its old cursor.
StartFails ==
    /\ StartClears
    /\ known' = cursor
    /\ UNCHANGED <<event, callback, session, cursor, hand, ready, past>>

\* The target is no window any more: Start throws before it clears anything.
StartRefused ==
    /\ pc = "stopped"
    /\ pc' = "submit"
    /\ known' = cursor
    /\ UNCHANGED <<shared, event, callback, session, starts, cursor, hand, ready, past>>

Restart == Start \/ StartFails \/ StartRefused

------------------------------------------------------------------------------
Drain ==
    \/ Wake \/ SubmitTake \/ SubmitPut \/ SubmitEnd
    \/ CollectTake \/ StillDrawing \/ Classify \/ CollectEnd
    \/ Swap \/ Deliver \/ PassOver \/ DrainEnd

Callback ==
    \E s \in Sessions :
        \/ \E image \in Images : Arrive(s, image)
        \/ Insert(s)
        \/ Signal(s)
        \/ Fail(s)

Next == Drain \/ Callback \/ GpuCompletes \/ Stop \/ Restart

Spec == Init /\ [][Next]_vars

\* The loop never stops iterating, the system finishes the callbacks it began,
\* the GPU finishes its work, and a readback buffer whose query is done can be
\* mapped on some later attempt.
Fairness ==
    /\ WF_vars(Drain)
    /\ WF_vars(Restart)
    /\ WF_vars(GpuCompletes)
    /\ SF_vars(Classify)
    /\ \A s \in Sessions : WF_vars(Signal(s))

FairSpec == Spec /\ Fairness

------------------------------------------------------------------------------
(****************************************************************************)
(* Properties.                                                                *)
(****************************************************************************)

Works == [frame : Frame, done : BOOLEAN]
Steps == {"waiting", "submit", "dispatch", "collect", "map", "swap", "deliver",
          "stopped", "failed"}

\* The type invariant.
TypeOK ==
    /\ raw \in Seq(Frame) /\ pending \in Seq(Works) /\ classified \in Seq(Classified)
    /\ last_unique \in Images \cup {None}
    /\ latest \in Nat
    /\ {error, event} \subseteq BOOLEAN
    /\ callback \in [Sessions -> {Idle} \cup [at : {"copied", "inserted"}, image : Images]]
    /\ pc \in Steps
    /\ session \in {0, starts}
    /\ starts \in Sessions
    /\ {cursor, known} \subseteq Nat
    /\ hand \in Frame \cup {None}
    /\ (pc \in {"dispatch", "map"}) <=> (hand # None)
    /\ ready \in Seq(Classified)
    /\ inserted \in Nat /\ failures \in Nat /\ left \in Nat
    /\ delivered \in Seq([frame : Frame, duplicate : BOOLEAN, capturing : BOOLEAN])

\* No queue grows past its capacity, however the callback and the drain
\* interleave: each of them tests a size under the mutex and adds to a queue
\* in a later stretch under the mutex, so the frame in between must be counted
\* by nobody else.
QueuesBounded ==
    /\ Len(raw) <= MaxRaw
    /\ Len(pending) <= MaxPending
    /\ Len(classified) + Len(ready) <= MaxPending

Frames(s) == [i \in DOMAIN s |-> s[i].frame]
InHand(step) == IF pc = step THEN <<hand>> ELSE <<>>

\* The frames that were taken off the raw queue and not yet handed on, oldest first.
Accepted == Frames(ready) \o Frames(classified) \o InHand("map") \o Frames(pending)
            \o InHand("dispatch")

\* All frames inside the session, oldest first.
Pipeline == Accepted \o raw

Ids(s) == [i \in DOMAIN s |-> s[i].id]

\* The raw queue is the lobby, and a drain accepts what it submits.
Channel == INSTANCE FrameChannel WITH
    LobbyCapacity <- MaxRaw,
    entered <- inserted,
    queue <- Ids(Pipeline),
    accepted <- Len(Accepted),
    last <- IF delivered = <<>> THEN 0 ELSE delivered[Len(delivered)].frame.id,
    phase <- IF pc = "stopped" THEN "restarting" ELSE IF session = 0 THEN "closed" ELSE "open"

\* The session implements the channel: whatever the callback, the GPU and the
\* restart do between two stretches of the drain, frames leave in the order they
\* were inserted and none twice.  A frame is lost only as the oldest of a full raw
\* queue, by Stop or Start, or by being passed over while no session captures: one
\* that was submitted, put back because its buffer was busy, classified or swapped
\* out is handed on.
IsChannel == Channel!Spec

\* A frame handed on while a session captures is flagged a duplicate exactly
\* when it shows what the frame handed on before it shows.  The first frame
\* after a restart never is: the consumer has forgotten what came before, and
\* would not show it.
DuplicatesExact ==
    \A i \in 2 .. Len(delivered) :
        LET previous == delivered[i - 1]
            this == delivered[i]
        IN  this.capturing =>
                (this.duplicate <=> /\ previous.frame.epoch = this.frame.epoch
                                    /\ previous.frame.image = this.frame.image)

\* The cursor of the consumer never hides a frame of the session that is
\* capturing, although sequence numbers start again at one with every session
\* and a Start that fails restarts them and leaves the cursor alone.
CursorNeverHides == [][PassOver => Head(ready).frame.session # session]_vars

\* While the loop sleeps, a frame inserted since the drain last looked at the
\* queue has set the event, or its callback is about to.
WakeupNotLost ==
    pc = "waiting" /\ raw # <<>> /\ raw[Len(raw)].id > left =>
        event \/ \E s \in Sessions : callback[s].at = "inserted"

\* Every frame inserted leaves: it is handed on, dropped by a full queue, or
\* lost with the session, unless the program ends first.  A drain that keeps
\* finding the readback buffer busy only delays it.
Inside(k) == \E i \in DOMAIN Pipeline : Pipeline[i].id = k
FramesLeave == \A k \in 1 .. MaxFrames : Inside(k) ~> (~Inside(k) \/ pc = "failed")

==============================================================================

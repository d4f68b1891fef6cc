---------------------------- MODULE PortableLoop ----------------------------
(****************************************************************************)
(* The live loop of the portable build (src/src/portable_main.cpp, RunLive):    *)
(* one thread that polls the capture, keeps its own copies of the frames the  *)
(* timeline remembers, asks the frame selector for the slot that is due, and  *)
(* draws the answer from those copies.                                        *)
(*                                                                          *)
(* It uses the classes of FrameSelector without the protocol of main.cpp: the *)
(* overlay never hides, the capture is never restarted, generation is never   *)
(* toggled, and a discontinuity does not reset the selector.  A capture that  *)
(* fails, a presenter that fails and a signal end the loop.                   *)
(****************************************************************************)
EXTENDS FrameSelector, SequencesExt

CONSTANT CapturePeriod   \* source_period, in ticks.

ASSUME PortableAssumption == CapturePeriod \in Nat \ {0}

VARIABLES
    stored,          \* stored, as sequence numbers, oldest first.
    next_capture,    \* next_capture
    drawn,           \* The frames last drawn: <<previous, current>>.
    stopped          \* The loop has been left.

portable_vars == <<stored, next_capture, drawn, stopped>>

Nothing == <<0, 0>>

PortableInit ==
    /\ stored = <<>>
    /\ next_capture = 0
    /\ drawn = Nothing
    /\ stopped = FALSE

\* Time passes between two iterations.
PortableAdvance == ~stopped /\ Advance /\ UNCHANGED portable_vars

\* Mutation of Capacity that keeps the last pair only.
CapacityPair(length) == 2

\* How many frames are stored for a timeline of this length.
Capacity(length) == length + 1

\* The captures that were missed meanwhile are not made up for.
Rescheduled(t) == next_capture + ((t - next_capture) \div CapturePeriod + 1) * CapturePeriod

\* A capture that is due, of a frame that differs from the last one.  A frame of
\* another size ends the copies as it ends the timeline.
CaptureUnique(media, size) ==
    LET kept == IF frames # <<>> /\ Newest.size # size THEN <<>> ELSE stored
        longer == Append(kept, unique_count + 1)
    IN  /\ ~stopped
        /\ now >= next_capture
        /\ unique_count < MaxFrames
        /\ Ingest(media, now, size)
        /\ stored' = SubSeq(longer, Len(longer) - Smaller(Len(longer), Capacity(Len(frames'))) + 1,
                            Len(longer))
        /\ next_capture' = Rescheduled(now)
        /\ sel' = NoFrame
        /\ UNCHANGED <<now, overlay, configuration, selector, last_deadline, owed, resets,
                       drawn, stopped>>

\* A capture of the pixels stored last, which the timeline only counts.
CaptureDuplicate ==
    /\ ~stopped
    /\ now >= next_capture
    /\ stored # <<>>
    /\ next_capture' = Rescheduled(now)
    /\ sel' = NoFrame
    /\ UNCHANGED <<timeline, now, overlay, configuration, selector, last_deadline, owed,
                   resets, stored, drawn, stopped>>

FindStored(seq) == seq \in ToSet(stored)

\* What is drawn for a selection that is submitted: the blend when both frames are
\* stored, else the current frame, else the newest one there is.
Output(s) ==
    IF s.mode = "interpolate" /\ FindStored(s.previous) /\ FindStored(s.current)
    THEN <<s.previous, s.current>>
    ELSE IF FindStored(s.current) THEN <<s.current, s.current>>
    ELSE IF stored # <<>> THEN <<Last(stored), Last(stored)>>
    ELSE drawn

\* The slot that is due, or unpaced the present instant; the due capture has been
\* served before it in the iteration.
PortableSelect ==
    /\ ~stopped
    /\ now < next_capture
    /\ now > last_deadline
    /\ last_deadline' = now
    /\ SelectImpl(now, pacing_mode # "unpaced")
    /\ drawn' = IF sel'.submit THEN Output(sel') ELSE drawn
    /\ UNCHANGED <<stored, next_capture, stopped>>

\* A signal, or an exception out of the capture or the presenter.
StopLoop ==
    /\ ~stopped
    /\ stopped' = TRUE
    /\ sel' = NoFrame
    /\ UNCHANGED <<timeline, now, overlay, configuration, selector, last_deadline, owed,
                   resets, stored, next_capture, drawn>>

PortableNext ==
    \/ PortableAdvance
    \/ \E age \in CaptureDelays, size \in Sizes : CaptureUnique(now - age, size)
    \/ CaptureDuplicate
    \/ PortableSelect
    \/ StopLoop

PortableSpec == Init /\ PortableInit /\ [][PortableNext]_<<vars, portable_vars>>

------------------------------------------------------------------------------
\* The two histories agree: whatever the selector answers after duplicates,
\* discontinuities and resizes, the loop still has the frames it names, and none of
\* the fallbacks of RunLive ever draws another frame in their place.
DrawsTheSelection ==
    [][PortableSelect /\ sel'.submit => drawn' = <<sel'.previous, sel'.current>>
      ]_<<vars, portable_vars>>
==============================================================================

---------------------------- MODULE FrameChannel ----------------------------
(****************************************************************************)
(* What a capture session promises its consumer: a first-in first-out channel *)
(* that says when it loses a frame.  A frame enters the lobby of the channel, *)
(* where a full lobby loses its oldest frame to make room; once the channel   *)
(* has accepted a frame it is handed out, in the order of entry, unless the   *)
(* channel is restarted or no source is open any more.  Nothing else loses a  *)
(* frame, and nothing repeats, invents or reorders one.                       *)
(*                                                                          *)
(* Frames are told apart by the order in which they entered.                  *)
(****************************************************************************)
EXTENDS Naturals, Sequences

CONSTANT LobbyCapacity   \* How many frames may wait to be accepted.

VARIABLES
    entered,   \* How many frames entered the channel.
    queue,     \* The frames inside, oldest first.
    accepted,  \* How many of them, from the oldest, have left the lobby.
    last,      \* The frame handed out last; 0 before the first.
    phase      \* "open", "closed", or "restarting" in between.

channel == <<entered, queue, accepted, last, phase>>

\* The sequence s without its element i.
Without(s, i) == SubSeq(s, 1, i - 1) \o SubSeq(s, i + 1, Len(s))

LobbyFull == Len(queue) - accepted >= LobbyCapacity

Init ==
    /\ entered = 0
    /\ queue = <<>>
    /\ accepted = 0
    /\ last = 0
    /\ phase = "open"

\* A frame enters, from a source that is open or was when the frame was taken.  A
\* full lobby loses its oldest frame; otherwise none is lost.
Enter ==
    /\ queue' = Append(IF LobbyFull THEN Without(queue, accepted + 1) ELSE queue, entered + 1)
    /\ entered' = entered + 1
    /\ UNCHANGED <<accepted, last, phase>>

\* The oldest frame of the lobby is accepted.
Accept ==
    /\ phase # "restarting"
    /\ accepted < Len(queue)
    /\ accepted' = accepted + 1
    /\ UNCHANGED <<entered, queue, last, phase>>

\* The oldest frame leaves the channel.
Leave ==
    /\ accepted > 0
    /\ queue' = Tail(queue)
    /\ accepted' = accepted - 1
    /\ UNCHANGED <<entered, phase>>

\* It is handed out.
HandOut == phase # "restarting" /\ Leave /\ last' = Head(queue)

\* With no source open it may be left to nobody.
Discard == phase = "closed" /\ Leave /\ UNCHANGED last

\* The channel gives up every frame inside.
Clear ==
    /\ queue' = <<>>
    /\ accepted' = 0
    /\ UNCHANGED <<entered, last>>

\* The source is closed to be opened again.
Close == phase # "restarting" /\ Clear /\ phase' = "restarting"

\* It is opened again, or fails to open once what was left has been given up.
Open == phase = "restarting" /\ Clear /\ phase' \in {"open", "closed"}

\* It is refused: what entered meanwhile stays.
Refuse ==
    /\ phase = "restarting"
    /\ phase' = "closed"
    /\ UNCHANGED <<entered, queue, accepted, last>>

Next == Enter \/ Accept \/ HandOut \/ Discard \/ Close \/ Open \/ Refuse

Spec == Init /\ [][Next]_channel

\* The frames inside are in the order they entered, and all of them entered
\* after the one handed out last.
InOrder ==
    /\ \A i, j \in DOMAIN queue : i < j => queue[i] < queue[j]
    /\ \A i \in DOMAIN queue : last < queue[i] /\ queue[i] <= entered
    /\ last <= entered
==============================================================================

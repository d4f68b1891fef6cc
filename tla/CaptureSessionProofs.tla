------------------------ MODULE CaptureSessionProofs ------------------------
(*****************************************************************************)
(* Theorems about CaptureSession, for every queue capacity, every set of     *)
(* images and every bound: the queues keep their capacities, no wakeup is    *)
(* lost, the session implements the channel, frames stay in order, the cursor*)
(* hides none of them, and the duplicate flags are exact.                    *)
(*                                                                           *)
(* The proofs meet in Pipeline, all frames inside the session in the order   *)
(* they will leave it.  PipelineStep says that a step leaves the pipeline    *)
(* alone, takes its oldest frame, empties it, or lets one frame in; what is  *)
(* said of the frames inside is then proved once for each of the four.       *)
(*****************************************************************************)
EXTENDS CaptureSession, SequenceTheorems, TLAPS

Delivery == [frame : Frame, duplicate : BOOLEAN, capturing : BOOLEAN]

\* What the place of the main thread says: where the frames that this drain hands
\* on may be, and what Stop has left behind.
Control ==
    /\ pc = "stopped" => session = 0 /\ starts < MaxStarts
    /\ Len(delivered) <= 2
    /\ pc # "deliver" => ready = <<>>
    /\ pc \notin {"collect", "map", "swap"} => classified = <<>>

\* A frame in hand is counted with the pending work it came from or will join.
\* That makes the capacity of the classified frames inductive: it is never tested,
\* it follows from the test of the pending work.
Capacity ==
    /\ Len(raw) <= MaxRaw
    /\ Len(pending) + Len(classified) + (IF hand = None THEN 0 ELSE 1) <= MaxPending
    /\ Len(ready) <= MaxPending

IInv == TypeOK /\ Control /\ Capacity

Active == [at : {"copied", "inserted"}, image : Images]

\* What a callback may be doing, and what it may do next.
LEMMA CallbackType ==
    ASSUME TypeOK, NEW s \in Sessions
    PROVE  /\ callback[s] \in {Idle} \cup Active
           /\ callback[s].at # "idle" =>
                callback[s].image \in Images /\ [callback[s] EXCEPT !.at = "inserted"] \in Active
           /\ \A c \in {Idle} \cup Active :
                [callback EXCEPT ![s] = c] \in [Sessions -> {Idle} \cup Active]
<1>1. callback \in [Sessions -> {Idle} \cup Active]
  BY DEF TypeOK, Active
<1> QED
  BY <1>1 DEF Idle, Active

\* GpuCompletes sets one flag of a work.
LEMMA WorkDone ==
    ASSUME NEW w \in Works
    PROVE  [w EXCEPT !.done = TRUE] \in Works
<1>1. \A b \in BOOLEAN : [w EXCEPT !.done = b] \in Works
  BY DEF Works
<1>2. TRUE \in BOOLEAN
  BY Zenon
<1> QED
  BY <1>1, <1>2, Zenon

\* The frame that Insert makes.
NewFrame(s) == [seq |-> latest + 1, session |-> s, image |-> callback[s].image,
                id |-> inserted + 1, epoch |-> starts]

LEMMA NewFrameType ==
    ASSUME TypeOK, NEW s \in Sessions, callback[s].at = "copied"
    PROVE  NewFrame(s) \in Frame
<1>1. callback[s].image \in Images
  BY CallbackType
<1>2. latest \in Nat /\ inserted \in Nat /\ starts \in Nat
  BY CaptureAssumption DEF TypeOK, Sessions, CaptureAssumption
<1> QED
  BY <1>1, <1>2 DEF NewFrame, Frame

\* What Deliver hands on.
NewDelivery == [frame |-> Head(ready).frame, duplicate |-> Head(ready).duplicate,
                capturing |-> session # 0]

\* Deliver keeps the last two deliveries.
LEMMA DeliveryType ==
    ASSUME TypeOK, ready # <<>>
    PROVE  /\ Head(ready) \in Classified /\ Tail(ready) \in Seq(Classified)
           /\ Head(ready).frame \in Frame
           /\ NewDelivery \in Delivery
           /\ Deliver => /\ delivered' = Append(IF Len(delivered) = 2 THEN Tail(delivered)
                                                                     ELSE delivered, NewDelivery)
                         /\ delivered' \in Seq(Delivery)
                         /\ Len(delivered) <= 2 => Len(delivered') <= 2
<1> DEFINE kept == IF Len(delivered) = 2 THEN Tail(delivered) ELSE delivered
<1>1. ready \in Seq(Classified) /\ delivered \in Seq(Delivery)
  BY DEF TypeOK, Delivery
<1>2. Head(ready) \in Classified /\ Tail(ready) \in Seq(Classified)
  BY <1>1, HeadTailProperties
<1>3. Head(ready).frame \in Frame /\ Head(ready).duplicate \in BOOLEAN
  BY <1>2 DEF Classified
<1>4. NewDelivery \in Delivery
  <2>1. \A b \in BOOLEAN : [frame |-> Head(ready).frame, duplicate |-> Head(ready).duplicate,
                           capturing |-> b] \in Delivery
    BY <1>3 DEF Delivery
  <2>2. (session # 0) \in BOOLEAN
    BY Zenon
  <2> QED
    BY <2>1, <2>2, Zenon DEF NewDelivery
<1>5. kept \in Seq(Delivery) /\ (Len(delivered) <= 2 => Len(kept) <= 1)
  <2>1. Len(delivered) \in Nat
    BY <1>1, LenProperties
  <2>2. CASE Len(delivered) = 2
    <3>1. delivered # <<>>
      BY <2>2, EmptySeq
    <3>2. Tail(delivered) \in Seq(Delivery) /\ Len(Tail(delivered)) = 1
      BY <1>1, <2>2, <3>1, HeadTailProperties
    <3> QED
      BY <2>2, <3>2
  <2>3. CASE Len(delivered) # 2
    <3>1. kept = delivered
      BY <2>3
    <3>2. \A n \in Nat : n # 2 => (n <= 2 => n <= 1)
      OBVIOUS
    <3>3. Len(delivered) <= 2 => Len(delivered) <= 1
      BY <2>1, <2>3, <3>2, Zenon
    <3> QED
      BY <1>1, <3>1, <3>3, Zenon
  <2> QED
    BY <2>2, <2>3
<1>6. /\ Append(kept, NewDelivery) \in Seq(Delivery)
      /\ Len(delivered) <= 2 => Len(Append(kept, NewDelivery)) <= 2
  <2> HIDE DEF kept
  <2> QED
    BY <1>4, <1>5, AppendProperties, LenProperties
<1>7. Deliver => delivered' = Append(kept, NewDelivery)
  BY DEF Deliver, NewDelivery
<1> QED
  BY <1>2, <1>3, <1>4, <1>6, <1>7

\* Every step keeps the types.
LEMMA TypeStep ==
    ASSUME TypeOK, Control, [Next]_vars
    PROVE  TypeOK'
<1> USE CaptureAssumption DEF CaptureAssumption, TypeOK, vars, shared, queues, main, past, Control
<1>1. CASE Wake
  BY <1>1 DEF Wake, Steps
<1>2. CASE SubmitTake
  BY <1>2 DEF SubmitTake, Steps, CanSubmit
<1>3. CASE SubmitPut
  BY <1>3 DEF SubmitPut, Steps, Works
<1>4. CASE SubmitEnd
  <2>1. raw # <<>> => raw[Len(raw)] \in Frame
    OBVIOUS
  <2>2. left' \in Nat
    BY <1>4, <2>1 DEF SubmitEnd, Frame
  <2> QED
    BY <1>4, <2>2 DEF SubmitEnd, Steps
<1>5. CASE CollectTake
  <2>1. Head(pending) \in Works /\ Tail(pending) \in Seq(Works)
    BY <1>5, HeadTailProperties DEF CollectTake, CanCollect
  <2>2. hand' \in Frame /\ hand' # None /\ pending' \in Seq(Works)
    BY <1>5, <2>1 DEF CollectTake, Works
  <2> QED
    BY <1>5, <2>2 DEF CollectTake, Steps
<1>6. CASE StillDrawing
  BY <1>6 DEF StillDrawing, Steps, Works
<1>7. CASE Classify
  BY <1>7 DEF Classify, Steps, Classified, Frame
<1>8. CASE CollectEnd
  BY <1>8 DEF CollectEnd, Steps
<1>9. CASE Swap
  BY <1>9 DEF Swap, Steps
<1>10. CASE Deliver
  <2>1. Head(ready).frame.seq \in Nat
    BY <1>10, DeliveryType DEF Deliver, Frame
  <2>2. cursor' \in Nat
    BY <1>10, <2>1 DEF Deliver
  <2>3. delivered' \in Seq(Delivery)
    BY <1>10, DeliveryType DEF Deliver
  <2>4. Tail(ready) \in Seq(Classified)
    BY <1>10, DeliveryType DEF Deliver
  <2> QED
    BY <1>10, <2>2, <2>3, <2>4 DEF Deliver, Delivery
<1>11. CASE PassOver
  BY <1>11 DEF PassOver, Steps
<1>12. CASE DrainEnd
  BY <1>12 DEF DrainEnd, Steps
<1>13. ASSUME NEW s \in Sessions, NEW image \in Images, Arrive(s, image) PROVE TypeOK'
  BY <1>13 DEF Arrive, Idle, Sessions
<1>14. ASSUME NEW s \in Sessions, Insert(s) PROVE TypeOK'
  <2>1. callback[s].at = "copied" /\ callback' = [callback EXCEPT ![s].at = "inserted"]
    BY <1>14 DEF Insert
  <2>2. NewFrame(s) \in Frame /\ latest' = latest + 1 /\ inserted' = inserted + 1
    BY <1>14, <2>1, NewFrameType DEF Insert
  <2>3. raw' = Append(IF Len(raw) >= MaxRaw THEN Tail(raw) ELSE raw, NewFrame(s))
    BY <1>14 DEF Insert, NewFrame
  <2>4. raw' \in Seq(Frame)
    <3>1. raw \in Seq(Frame) /\ MaxRaw \in Nat \ {0}
      OBVIOUS
    <3> QED
      BY <2>2, <2>3, <3>1
  <2>5. callback' = [callback EXCEPT ![s] = [callback[s] EXCEPT !.at = "inserted"]]
    BY <2>1
  <2>6. [callback[s] EXCEPT !.at = "inserted"] \in Active
    BY <2>1, CallbackType
  <2>7. callback' \in [Sessions -> {Idle} \cup Active]
    BY <2>5, <2>6, CallbackType
  <2>8. UNCHANGED <<pending, classified, last_unique, error, event, main, failures, left,
                    delivered>>
    BY <1>14 DEF Insert
  <2> QED
    BY <2>2, <2>4, <2>7, <2>8 DEF Active
<1>15. ASSUME NEW s \in Sessions, Signal(s) PROVE TypeOK'
  BY <1>15 DEF Signal, Idle, Sessions
<1>16. ASSUME NEW s \in Sessions, Fail(s) PROVE TypeOK'
  <2>1. event' \in BOOLEAN /\ error' \in BOOLEAN
    <3>1. event' \in {event, TRUE} /\ error' = TRUE
      BY <1>16, Zenon DEF Fail
    <3> QED
      BY <3>1, Zenon
  <2>2. callback' \in [Sessions -> {Idle} \cup [at : {"copied", "inserted"}, image : Images]]
    BY <1>16 DEF Fail
  <2> QED
    BY <1>16, <2>1, <2>2 DEF Fail
<1>17. CASE GpuCompletes
  <2>1. PICK i \in DOMAIN pending : pending' = [pending EXCEPT ![i].done = TRUE]
    BY <1>17 DEF GpuCompletes
  <2>2. [pending[i] EXCEPT !.done = TRUE] \in Works
    <3>1. pending[i] \in Works
      OBVIOUS
    <3> QED
      BY <3>1, WorkDone
  <2>3. pending' \in Seq(Works)
    <3>1. pending' = [pending EXCEPT ![i] = [pending[i] EXCEPT !.done = TRUE]]
      BY <2>1
    <3>2. pending \in Seq(Works) /\ i \in 1 .. Len(pending)
      OBVIOUS
    <3> HIDE DEF TypeOK
    <3> QED
      BY <2>2, <3>1, <3>2, ExceptSeq
  <2> QED
    BY <1>17, <2>3 DEF GpuCompletes
<1>18. CASE Stop
  BY <1>18 DEF Stop, Steps
<1>19. CASE Start
  <2>1. error' \in BOOLEAN
    BY <1>19, Zenon DEF Start, StartClears
  <2>2. starts' \in Sessions /\ session' \in {0, starts'}
    BY <1>19 DEF Start, StartClears, Sessions
  <2>3. raw' = <<>> /\ pending' = <<>> /\ classified' = <<>>
    BY <1>19 DEF Start, StartClears
  <2> QED
    BY <1>19, <2>1, <2>2, <2>3 DEF Start, StartClears, Steps
<1>20. CASE StartFails
  <2>1. error' \in BOOLEAN
    BY <1>20, Zenon DEF StartFails, StartClears
  <2>2. starts' \in Sessions /\ session' \in {0, starts'}
    BY <1>20 DEF StartFails, StartClears, Sessions
  <2>3. raw' = <<>> /\ pending' = <<>> /\ classified' = <<>>
    BY <1>20 DEF StartFails, StartClears
  <2> QED
    BY <1>20, <2>1, <2>2, <2>3 DEF StartFails, StartClears, Steps
<1>21. CASE StartRefused
  BY <1>21 DEF StartRefused, Steps
<1>22. CASE UNCHANGED vars
  BY <1>22
<1> QED
  BY <1>1, <1>2, <1>3, <1>4, <1>5, <1>6, <1>7, <1>8, <1>9, <1>10, <1>11, <1>12, <1>13, <1>14,
     <1>15, <1>16, <1>17, <1>18, <1>19, <1>20, <1>21, <1>22 DEF Next, Drain, Callback, Restart

LEMMA ControlStep ==
    ASSUME TypeOK, Control, [Next]_vars
    PROVE  Control'
<1> USE DEF Control, vars, shared, queues, main, past
<1>1. CASE Wake \/ SubmitTake \/ SubmitPut \/ SubmitEnd
  BY <1>1 DEF Wake, SubmitTake, SubmitPut, SubmitEnd
<1>2. CASE CollectTake \/ StillDrawing \/ Classify \/ CollectEnd \/ Swap
  BY <1>2 DEF CollectTake, StillDrawing, Classify, CollectEnd, Swap
<1>3. CASE Deliver
  <2>1. Len(delivered') <= 2
    BY <1>3, DeliveryType DEF Deliver
  <2> QED
    BY <1>3, <2>1 DEF Deliver
<1>4. CASE PassOver \/ DrainEnd
  BY <1>4 DEF PassOver, DrainEnd
<1>5. CASE Callback
  BY <1>5 DEF Callback, Arrive, Insert, Signal, Fail
<1>6. CASE GpuCompletes
  BY <1>6 DEF GpuCompletes
<1>7. CASE Stop \/ Restart
  BY <1>7 DEF Stop, Restart, Start, StartFails, StartRefused, StartClears
<1>8. CASE UNCHANGED vars
  BY <1>8
<1> QED
  BY <1>1, <1>2, <1>3, <1>4, <1>5, <1>6, <1>7, <1>8 DEF Next, Drain

\* Every step keeps the capacities.
LEMMA CapacityStep ==
    ASSUME TypeOK, Control, Capacity, [Next]_vars
    PROVE  Capacity'
<1> USE CaptureAssumption DEF CaptureAssumption, Capacity
<1>0. /\ raw \in Seq(Frame) /\ pending \in Seq(Works)
      /\ classified \in Seq(Classified) /\ ready \in Seq(Classified)
      /\ (hand # None) <=> pc \in {"dispatch", "map"}
      /\ Len(<<>>) = 0
  BY DEF TypeOK
<1>1. ASSUME UNCHANGED <<queues, hand, ready>>
      PROVE  Capacity'
  BY <1>1 DEF queues
<1>2. CASE Wake \/ SubmitEnd \/ CollectEnd \/ DrainEnd \/ StartRefused \/ UNCHANGED vars
  BY <1>1, <1>2
  DEF Wake, SubmitEnd, CollectEnd, DrainEnd, StartRefused, vars, shared, main
<1>3. CASE SubmitTake
  <2>1. /\ Len(raw') = Len(raw) - 1 /\ Len(pending) < MaxPending /\ classified = <<>>
        /\ UNCHANGED <<pending, classified, ready>>
    BY <1>0, <1>3 DEF SubmitTake, CanSubmit, Control
  <2> QED
    BY <1>0, <2>1
<1>4. CASE SubmitPut
  BY <1>0, <1>4 DEF SubmitPut
<1>5. CASE CollectTake
  <2>1. Len(pending') = Len(pending) - 1 /\ hand = None /\ UNCHANGED <<raw, classified, ready>>
    BY <1>0, <1>5 DEF CollectTake, CanCollect
  <2> QED
    BY <1>0, <2>1
<1>6. CASE StillDrawing
  <2> DEFINE w == [frame |-> hand, done |-> TRUE]
  <2>1. /\ pending' = <<w>> \o pending /\ hand # None /\ hand' = None
        /\ UNCHANGED <<raw, classified, ready>>
    BY <1>0, <1>6 DEF StillDrawing
  <2>2. Len(<<w>> \o pending) = 1 + Len(pending)
    <3> HIDE DEF w
    <3> QED
      BY <1>0
  <2> QED
    BY <1>0, <2>1, <2>2
<1>7. CASE Classify
  BY <1>0, <1>7 DEF Classify
<1>8. CASE Swap
  <2>1. /\ ready' = classified /\ classified' = <<>> /\ UNCHANGED <<raw, pending, hand>>
    BY <1>8 DEF Swap
  <2> QED
    BY <1>0, <2>1
<1>9. CASE Deliver \/ PassOver
  <2>1. /\ Len(ready') = Len(ready) - 1
        /\ UNCHANGED <<raw, pending, classified, hand>>
    BY <1>0, <1>9 DEF Deliver, PassOver, shared, queues
  <2> QED
    BY <1>0, <2>1
<1>10. CASE Callback
  <2>1. CASE UNCHANGED <<queues, hand, ready>>
    BY <1>1, <2>1
  <2>2. ASSUME NEW s \in Sessions, Insert(s)
        PROVE  Capacity'
    <3>1. NewFrame(s) \in Frame
      BY <2>2, NewFrameType DEF Insert
    <3>2. raw' = Append(IF Len(raw) >= MaxRaw THEN Tail(raw) ELSE raw, NewFrame(s))
      BY <2>2 DEF Insert, NewFrame
    <3>3. Len(raw') <= MaxRaw
      BY <1>0, <3>1, <3>2
    <3> QED
      BY <2>2, <3>3 DEF Insert, main
  <2> QED
    BY <1>10, <2>1, <2>2 DEF Callback, Arrive, Signal, Fail, shared, main
<1>11. CASE GpuCompletes
  <2>1. Len(pending') = Len(pending) /\ UNCHANGED <<raw, classified, hand, ready>>
    <3>1. PICK i \in DOMAIN pending : pending' = [pending EXCEPT ![i].done = TRUE]
      BY <1>11 DEF GpuCompletes
    <3>2. Len(pending') = Len(pending)
      BY <1>0, <3>1
    <3> QED
      BY <1>11, <3>2 DEF GpuCompletes, main
  <2> QED
    BY <1>0, <2>1
<1>12. CASE Stop \/ Start \/ StartFails
  <2>1. raw' = <<>> /\ pending' = <<>> /\ classified' = <<>> /\ hand = None /\ ready = <<>>
    BY <1>0, <1>12 DEF Stop, Start, StartFails, StartClears, Control
  <2>2. hand' = hand /\ ready' = ready
    BY <1>12 DEF Stop, Start, StartFails
  <2> QED
    BY <1>0, <2>1, <2>2
<1> QED
  BY <1>2, <1>3, <1>4, <1>5, <1>6, <1>7, <1>8, <1>9, <1>10, <1>11, <1>12
  DEF Next, Drain, Restart

LEMMA InvariantInitially == Init => IInv
<1> SUFFICES ASSUME Init
             PROVE  IInv
  OBVIOUS
<1>1. event \in BOOLEAN /\ error \in BOOLEAN
  BY Zenon DEF Init
<1>2. callback \in [Sessions -> {Idle}]
  BY DEF Init
<1>3. MaxStarts >= 1 /\ 1 \in Sessions /\ MaxRaw >= 0 /\ MaxPending >= 0
  BY CaptureAssumption DEF CaptureAssumption, Sessions
<1>4. TypeOK
  BY <1>1, <1>2, <1>3, EmptySeq DEF Init, TypeOK, Steps
<1>5. Control /\ Capacity
  BY <1>3, EmptySeq DEF Init, Control, Capacity
<1> QED
  BY <1>4, <1>5 DEF IInv

\* The inductive invariant of the session: types, what the place of the main
\* thread says, and the capacities with the frame in hand.
THEOREM InvariantHolds == Spec => []IInv
<1>1. IInv /\ [Next]_vars => IInv'
  BY TypeStep, ControlStep, CapacityStep DEF IInv
<1> QED
  BY <1>1, InvariantInitially, PTL DEF Spec

\* Type correctness.  In particular the main thread has a frame in hand exactly
\* while it dispatches or maps one, outside the mutex (SubmitQueuedSignatures,
\* CollectCompletedSignatures).
THEOREM TypeCorrect == Spec => []TypeOK
<1>1. IInv => TypeOK
  BY DEF IInv
<1> QED
  BY <1>1, InvariantHolds, PTL

\* No queue ever exceeds its capacity (OnFrameArrived, SubmitQueuedSignatures):
\* the pending work and the classified frames together never exceed the limit,
\* though only the pending work is tested and only under an earlier lock.
THEOREM QueuesStayBounded == Spec => []QueuesBounded
<1>1. IInv => QueuesBounded
  <2> SUFFICES ASSUME IInv
               PROVE  QueuesBounded
    OBVIOUS
  <2>1. /\ Len(pending) \in Nat /\ Len(classified) \in Nat /\ Len(ready) \in Nat
        /\ ready = <<>> \/ classified = <<>>
        /\ Len(<<>>) = 0 /\ MaxPending \in Nat
    BY CaptureAssumption DEF IInv, TypeOK, Control, CaptureAssumption
  <2> QED
    BY <2>1 DEF IInv, Capacity, QueuesBounded
<1> QED
  BY <1>1, InvariantHolds, PTL

\* While the loop is not submitting, a frame it has not looked at has set the event
\* or is about to.
WakeupPending ==
    pc \notin {"submit", "dispatch"} /\ raw # <<>> /\ raw[Len(raw)].id > left =>
        event \/ \E s \in Sessions : callback[s].at = "inserted"

LEMMA WakeupStep ==
    ASSUME TypeOK, WakeupPending, [Next]_vars
    PROVE  WakeupPending'
<1> USE DEF WakeupPending
<1>1. CASE Wake \/ SubmitTake \/ SubmitPut
  BY <1>1 DEF Wake, SubmitTake, SubmitPut
<1>2. CASE SubmitEnd
  <2>1. raw # <<>> => left' = raw[Len(raw)].id /\ raw' = raw
    BY <1>2 DEF SubmitEnd, shared, queues
  <2>2. raw # <<>> => raw[Len(raw)].id \in Nat
    <3>1. raw # <<>> => raw[Len(raw)] \in Frame
      BY DEF TypeOK
    <3> QED
      BY <3>1 DEF Frame
  <2> QED
    BY <1>2, <2>1, <2>2 DEF SubmitEnd, shared, queues
<1>3. ASSUME pc \notin {"submit", "dispatch"}, UNCHANGED <<raw, event, callback, left>>
      PROVE  WakeupPending'
  BY <1>3
<1>4. CASE \/ CollectTake \/ StillDrawing \/ Classify \/ CollectEnd \/ Swap \/ Deliver
           \/ PassOver \/ DrainEnd
  BY <1>3, <1>4
  DEF CollectTake, StillDrawing, Classify, CollectEnd, Swap, Deliver, PassOver, DrainEnd,
      shared, queues, past
<1>5. CASE StartRefused \/ Stop \/ Start \/ StartFails
  BY <1>5 DEF StartRefused, Stop, Start, StartFails, StartClears
<1>6. ASSUME NEW s \in Sessions, NEW image, Arrive(s, image)
      PROVE  WakeupPending'
  <2>1. \A q \in Sessions : callback[q].at = "inserted" => callback'[q].at = "inserted"
    BY <1>6 DEF Arrive, Idle, TypeOK
  <2> QED
    BY <1>6, <2>1 DEF Arrive, shared, queues, main, past
<1>7. ASSUME NEW s \in Sessions, Insert(s)
      PROVE  WakeupPending'
  <2>1. callback'[s].at = "inserted"
    <3>1. callback[s].at = "copied" /\ callback' = [callback EXCEPT ![s].at = "inserted"]
      BY <1>7 DEF Insert
    <3>2. callback[s] \in Active /\ callback \in [Sessions -> {Idle} \cup Active]
      BY <3>1, CallbackType DEF Idle, TypeOK, Active
    <3> QED
      BY <3>1, <3>2 DEF Active
  <2> QED
    BY <2>1
<1>8. ASSUME NEW s \in Sessions, Signal(s)
      PROVE  WakeupPending'
  BY <1>8 DEF Signal
<1>9. ASSUME NEW s \in Sessions, Fail(s)
      PROVE  WakeupPending'
  <2>1. CASE callback[s].at = "inserted"
    BY <1>9, <2>1 DEF Fail
  <2>2. CASE callback[s].at # "inserted"
    <3>1. /\ \A q \in Sessions : callback[q].at = "inserted" => callback'[q].at = "inserted"
          /\ event' = event
      BY <1>9, <2>2 DEF Fail, TypeOK
    <3> QED
      BY <1>9, <3>1 DEF Fail, queues, main
  <2> QED
    BY <2>1, <2>2
<1>10. CASE GpuCompletes \/ UNCHANGED vars
  BY <1>10 DEF GpuCompletes, vars, shared, queues, main, past
<1> QED
  BY <1>1, <1>2, <1>4, <1>5, <1>6, <1>7, <1>8, <1>9, <1>10 DEF Next, Drain, Callback, Restart

\* No wakeup is lost (OnFrameArrived's SetEvent against the wait of main.cpp): a
\* frame that arrived after the drain last looked at the queue has set the event,
\* or its callback is about to.  The drain may reset the event only when it wakes,
\* and it looks at the queue after that.
THEOREM WakeupIsNotLost == Spec => []WakeupNotLost
<1>1. Init => WakeupPending
  BY DEF Init, WakeupPending
<1>2. TypeOK /\ WakeupPending /\ [Next]_vars => WakeupPending'
  BY WakeupStep
<1>3. WakeupPending => WakeupNotLost
  BY DEF WakeupPending, WakeupNotLost
<1> QED
  BY <1>1, <1>2, <1>3, TypeCorrect, PTL DEF Spec

------------------------------------------------------------------------------
(****************************************************************************)
(* Sequences: moving the frame between the end of one queue and the start of  *)
(* the next, and leaving out one element.                                     *)
(****************************************************************************)

\* The first of q goes to the slot in front of q.
LEMMA MoveHead ==
    ASSUME NEW S, NEW p \in Seq(S), NEW q \in Seq(S), q # <<>>
    PROVE  (p \o <<>>) \o q = (p \o <<Head(q)>>) \o Tail(q)
<1>1. Head(q) \in S /\ Tail(q) \in Seq(S) /\ q = <<Head(q)>> \o Tail(q)
  <2>1. Head(q) \in S /\ Tail(q) \in Seq(S)
    BY HeadTailProperties
  <2>2. q = <<Head(q)>> \o Tail(q)
    BY <2>1
  <2> QED
    BY <2>1, <2>2
<1>2. p \o <<>> = p
  BY ConcatEmptySeq
<1>3. <<Head(q)>> \in Seq(S)
  BY <1>1
<1> QED
  BY <1>1, <1>2, <1>3, ConcatAssociative

\* What is in the slot behind q becomes the last of q.
LEMMA MoveLast ==
    ASSUME NEW S, NEW p \in Seq(S), NEW q \in Seq(S), NEW e \in S
    PROVE  (p \o q) \o <<e>> = (p \o Append(q, e)) \o <<>>
<1>1. Append(q, e) \in Seq(S) /\ Append(q, e) = q \o <<e>> /\ <<e>> \in Seq(S)
  BY AppendProperties, AppendIsConcat
<1>2. p \o Append(q, e) \in Seq(S)
  BY <1>1, ConcatProperties
<1> QED
  BY <1>1, <1>2, ConcatAssociative, ConcatEmptySeq

LEMMA HeadOfConcat ==
    ASSUME NEW S, NEW p \in Seq(S), NEW q \in Seq(S), p # <<>>
    PROVE  /\ p \o q \in Seq(S) /\ p \o q # <<>>
           /\ Head(p \o q) = Head(p)
           /\ Tail(p \o q) = Tail(p) \o q
<1>1. p \o q \in Seq(S) /\ p \o q # <<>>
  BY ConcatProperties, EmptySeq, LenProperties
<1> QED
  BY <1>1

LEMMA LastOfConcat ==
    ASSUME NEW S, NEW p \in Seq(S), NEW q \in Seq(S), NEW e \in S
    PROVE  p \o Append(q, e) = Append(p \o q, e)
<1>1. Append(q, e) = q \o <<e>> /\ <<e>> \in Seq(S)
  BY AppendIsConcat
<1>2. p \o q \in Seq(S)
  BY ConcatProperties
<1> QED
  BY <1>1, <1>2, ConcatAssociative, AppendIsConcat

\* The sequence without its element i.
LEMMA WithoutIsSeq ==
    ASSUME NEW S, NEW s \in Seq(S), NEW i \in 1 .. Len(s)
    PROVE  /\ Channel!Without(s, i) \in Seq(S)
           /\ Len(Channel!Without(s, i)) = Len(s) - 1
           /\ \A k \in 1 .. Len(s) - 1 :
                  Channel!Without(s, i)[k] = IF k < i THEN s[k] ELSE s[k + 1]
<1> DEFINE a == SubSeq(s, 1, i - 1)
           b == SubSeq(s, i + 1, Len(s))
<1>1. Len(s) \in Nat /\ \A k \in 1 .. Len(s) : s[k] \in S
  BY LenProperties, ElementOfSeq
<1>2. /\ a \in Seq(S) /\ Len(a) = i - 1
      /\ \A k \in 1 .. i - 1 : a[k] = s[k]
  BY <1>1
<1>3. /\ b \in Seq(S) /\ Len(b) = Len(s) - i
      /\ \A k \in 1 .. Len(s) - i : b[k] = s[k + i]
  BY <1>1
<1>4. Channel!Without(s, i) = a \o b
  BY DEF Channel!Without
<1> HIDE DEF a, b
<1>5. /\ a \o b \in Seq(S) /\ Len(a \o b) = Len(s) - 1
      /\ \A k \in 1 .. Len(s) - 1 : (a \o b)[k] = IF k <= i - 1 THEN a[k] ELSE b[k - (i - 1)]
  <2>1. /\ a \o b \in Seq(S) /\ Len(a \o b) = Len(a) + Len(b)
        /\ \A k \in 1 .. Len(a) + Len(b) :
               (a \o b)[k] = IF k <= Len(a) THEN a[k] ELSE b[k - Len(a)]
    BY <1>2, <1>3, ConcatProperties
  <2>2. Len(a) + Len(b) = Len(s) - 1
    BY <1>1, <1>2, <1>3
  <2> QED
    BY <1>2, <2>1, <2>2
<1>6. ASSUME NEW k \in 1 .. Len(s) - 1
      PROVE  (a \o b)[k] = IF k < i THEN s[k] ELSE s[k + 1]
  <2>1. CASE k < i
    BY <1>1, <1>2, <1>5, <2>1
  <2>2. CASE ~(k < i)
    <3>1. k - (i - 1) \in 1 .. Len(s) - i /\ (k - (i - 1)) + i = k + 1
      BY <1>1, <2>2
    <3> QED
      BY <1>1, <1>3, <1>5, <2>2, <3>1
  <2> QED
    BY <2>1, <2>2
<1> QED
  BY <1>4, <1>5, <1>6

\* A full raw queue loses its oldest frame: the pipeline loses one in its middle.
LEMMA TailOfConcatIsWithout ==
    ASSUME NEW S, NEW p \in Seq(S), NEW q \in Seq(S), q # <<>>
    PROVE  /\ Len(p) + 1 \in 1 .. Len(p \o q)
           /\ p \o Tail(q) = Channel!Without(p \o q, Len(p) + 1)
<1> DEFINE s == p \o q
           t == p \o Tail(q)
           n == Len(p)
<1>1. /\ n \in Nat /\ Len(q) \in Nat /\ Len(q) > 0
      /\ Tail(q) \in Seq(S) /\ Len(Tail(q)) = Len(q) - 1
      /\ \A k \in 1 .. Len(q) - 1 : Tail(q)[k] = q[k + 1]
  BY LenProperties, EmptySeq, HeadTailProperties
<1>2. /\ s \in Seq(S) /\ Len(s) = n + Len(q)
      /\ \A k \in 1 .. n + Len(q) : s[k] = IF k <= n THEN p[k] ELSE q[k - n]
  BY ConcatProperties
<1>3. /\ t \in Seq(S) /\ Len(t) = n + Len(q) - 1
      /\ \A k \in 1 .. n + Len(q) - 1 : t[k] = IF k <= n THEN p[k] ELSE Tail(q)[k - n]
  BY <1>1, ConcatProperties
<1> HIDE DEF s, t, n
<1>4. n + 1 \in 1 .. Len(s)
  BY <1>1, <1>2
<1> DEFINE w == Channel!Without(s, n + 1)
<1>5. /\ w \in Seq(S) /\ Len(w) = Len(s) - 1
      /\ \A k \in 1 .. Len(s) - 1 : w[k] = IF k < n + 1 THEN s[k] ELSE s[k + 1]
  BY <1>2, <1>4, WithoutIsSeq
<1> HIDE DEF w
<1>6. ASSUME NEW k \in 1 .. Len(t)
      PROVE  t[k] = w[k]
  <2>1. CASE k <= n
    BY <1>1, <1>2, <1>3, <1>5, <2>1
  <2>2. CASE ~(k <= n)
    <3>1. k - n \in 1 .. Len(q) - 1 /\ (k - n) + 1 = (k + 1) - n
      BY <1>1, <1>3, <2>2
    <3>2. t[k] = q[(k + 1) - n]
      BY <1>1, <1>3, <2>2, <3>1
    <3>3. w[k] = s[k + 1] /\ s[k + 1] = q[(k + 1) - n]
      BY <1>1, <1>2, <1>3, <1>5, <2>2
    <3> QED
      BY <3>2, <3>3
  <2> QED
    BY <2>1, <2>2
<1>7. t = w
  <2>1. Len(t) = Len(w)
    BY <1>1, <1>2, <1>3, <1>5
  <2> QED
    BY <1>3, <1>5, <1>6, <2>1, SeqEqual
<1> QED
  BY <1>4, <1>7 DEF s, t, n, w

------------------------------------------------------------------------------
(****************************************************************************)
(* The frames of a queue of works or of classified frames.                    *)
(****************************************************************************)

LEMMA FramesIsSeq ==
    ASSUME NEW S, \A x \in S : x.frame \in Frame, NEW s \in Seq(S)
    PROVE  /\ Frames(s) \in Seq(Frame) /\ Len(Frames(s)) = Len(s)
           /\ \A i \in 1 .. Len(s) : Frames(s)[i] = s[i].frame
           /\ Frames(s) = <<>> <=> s = <<>>
<1>1. Len(s) \in Nat /\ DOMAIN s = 1 .. Len(s) /\ \A i \in 1 .. Len(s) : s[i] \in S
  BY LenProperties, ElementOfSeq
<1>2. Frames(s) \in [1 .. Len(s) -> Frame]
  BY <1>1 DEF Frames
<1>3. Frames(s) \in Seq(Frame)
  BY <1>1, <1>2, SeqDef
<1>4. Len(Frames(s)) = Len(s)
  <2>1. DOMAIN Frames(s) = 1 .. Len(Frames(s)) /\ Len(Frames(s)) \in Nat
    BY <1>3, LenProperties
  <2>2. DOMAIN Frames(s) = 1 .. Len(s)
    BY <1>2
  <2>3. ASSUME NEW m \in Nat, NEW n \in Nat, 1 .. m = 1 .. n
        PROVE  m = n
    <3>1. (m > 0 => m \in 1 .. n) /\ (n > 0 => n \in 1 .. m)
      BY <2>3
    <3> QED
      BY <3>1
  <2> QED
    BY <1>1, <2>1, <2>2, <2>3
<1>5. Frames(s) = <<>> <=> s = <<>>
  BY <1>1, <1>3, <1>4, EmptySeq
<1> QED
  BY <1>1, <1>3, <1>4, <1>5 DEF Frames

LEMMA FramesOfAppend ==
    ASSUME NEW S, \A x \in S : x.frame \in Frame, NEW s \in Seq(S), NEW e \in S
    PROVE  Frames(Append(s, e)) = Append(Frames(s), e.frame)
<1> DEFINE t == Append(s, e)
           u == Append(Frames(s), e.frame)
<1>1. /\ t \in Seq(S) /\ Len(t) = Len(s) + 1
      /\ \A i \in 1 .. Len(s) : t[i] = s[i]
      /\ t[Len(s) + 1] = e
  BY AppendProperties
<1>2. /\ Frames(s) \in Seq(Frame) /\ Len(Frames(s)) = Len(s) /\ e.frame \in Frame
      /\ \A i \in 1 .. Len(s) : Frames(s)[i] = s[i].frame
  BY FramesIsSeq
<1>3. /\ u \in Seq(Frame) /\ Len(u) = Len(s) + 1
      /\ \A i \in 1 .. Len(s) : u[i] = Frames(s)[i]
      /\ u[Len(s) + 1] = e.frame
  BY <1>2, AppendProperties
<1>4. Len(s) \in Nat
  BY LenProperties
<1> HIDE DEF t, u
<1>5. /\ Frames(t) \in Seq(Frame) /\ Len(Frames(t)) = Len(t)
      /\ \A i \in 1 .. Len(t) : Frames(t)[i] = t[i].frame
  BY <1>1, FramesIsSeq
<1>6. \A i \in 1 .. Len(u) : Frames(t)[i] = u[i]
  BY <1>1, <1>2, <1>3, <1>4, <1>5
<1>7. Frames(t) = u
  BY <1>1, <1>3, <1>5, <1>6, SeqEqual
<1> QED
  BY <1>7 DEF t, u

LEMMA FramesOfTail ==
    ASSUME NEW S, \A x \in S : x.frame \in Frame, NEW s \in Seq(S), s # <<>>
    PROVE  /\ Head(Frames(s)) = Head(s).frame
           /\ Tail(s) \in Seq(S)
           /\ Frames(Tail(s)) = Tail(Frames(s))
<1> DEFINE f == Frames(s)
           t == Tail(s)
<1>1. /\ Head(s) = s[1] /\ t \in Seq(S) /\ Len(t) = Len(s) - 1
      /\ \A i \in 1 .. Len(t) : t[i] = s[i + 1]
      /\ Len(s) \in Nat /\ Len(s) > 0
  BY HeadTailProperties, EmptySeq, LenProperties
<1>2. /\ f \in Seq(Frame) /\ Len(f) = Len(s) /\ f # <<>>
      /\ \A i \in 1 .. Len(s) : f[i] = s[i].frame
  BY FramesIsSeq
<1> HIDE DEF f, t
<1>3. /\ Frames(t) \in Seq(Frame) /\ Len(Frames(t)) = Len(t)
      /\ \A i \in 1 .. Len(t) : Frames(t)[i] = t[i].frame
  BY <1>1, FramesIsSeq
<1>4. /\ Head(f) = f[1] /\ Tail(f) \in Seq(Frame) /\ Len(Tail(f)) = Len(f) - 1
      /\ \A i \in 1 .. Len(Tail(f)) : Tail(f)[i] = f[i + 1]
  BY <1>2, HeadTailProperties
<1>5. Frames(t) = Tail(f)
  <2>1. ASSUME NEW i \in 1 .. Len(t)
        PROVE  Frames(t)[i] = Tail(f)[i]
    <3>1. i + 1 \in 1 .. Len(s) /\ Frames(t)[i] = s[i + 1].frame
      BY <1>1, <1>3
    <3>2. Tail(f)[i] = f[i + 1]
      BY <1>1, <1>2, <1>4
    <3> QED
      BY <1>2, <3>1, <3>2
  <2> QED
    BY <1>1, <1>2, <1>3, <1>4, <2>1, SeqEqual
<1>6. Head(f) = Head(s).frame
  BY <1>1, <1>2, <1>4
<1> QED
  BY <1>1, <1>5, <1>6 DEF f, t

\* Putting the work in hand back in front.
LEMMA FramesOfPutBack ==
    ASSUME NEW S, \A x \in S : x.frame \in Frame, NEW s \in Seq(S), NEW e \in S
    PROVE  /\ <<e>> \o s \in Seq(S) /\ <<e>> \o s # <<>>
           /\ Head(Frames(<<e>> \o s)) = e.frame
           /\ Tail(Frames(<<e>> \o s)) = Frames(s)
<1> DEFINE t == <<e>> \o s
<1>1. t \in Seq(S) /\ t # <<>> /\ Head(t) = e /\ Tail(t) = s
  <2>1. <<e>> \in Seq(S) /\ <<e>> # <<>> /\ Head(<<e>>) = e /\ Tail(<<e>>) = <<>>
    OBVIOUS
  <2> QED
    BY <2>1, HeadOfConcat, ConcatEmptySeq
<1> HIDE DEF t
<1>2. Head(Frames(t)) = e.frame /\ Tail(Frames(t)) = Frames(s)
  BY <1>1, FramesOfTail
<1> QED
  BY <1>1, <1>2 DEF t

\* Every part of the pipeline is a sequence of frames.
LEMMA QueueTypes ==
    ASSUME TypeOK
    PROVE  /\ Frames(ready) \in Seq(Frame) /\ Frames(classified) \in Seq(Frame)
           /\ Frames(pending) \in Seq(Frame) /\ raw \in Seq(Frame)
           /\ InHand("map") \in Seq(Frame) /\ InHand("dispatch") \in Seq(Frame)
           /\ \A x \in Classified : x.frame \in Frame
           /\ \A x \in Works : x.frame \in Frame
           /\ Pipeline \in Seq(Frame)
<1>1. (\A x \in Classified : x.frame \in Frame) /\ (\A x \in Works : x.frame \in Frame)
  BY DEF Classified, Works
<1>2. /\ ready \in Seq(Classified) /\ classified \in Seq(Classified)
      /\ pending \in Seq(Works) /\ raw \in Seq(Frame)
      /\ pc \in {"dispatch", "map"} => hand \in Frame
  BY DEF TypeOK
<1>3. Frames(ready) \in Seq(Frame) /\ Frames(classified) \in Seq(Frame)
  BY <1>1, <1>2, FramesIsSeq
<1>4. Frames(pending) \in Seq(Frame)
  BY <1>1, <1>2, FramesIsSeq
<1>5. InHand("map") \in Seq(Frame) /\ InHand("dispatch") \in Seq(Frame)
  BY <1>2 DEF InHand
<1> DEFINE a == Frames(ready)  b == Frames(classified)  c == InHand("map")
           d == Frames(pending)  e == InHand("dispatch")
<1>6. a \in Seq(Frame) /\ b \in Seq(Frame) /\ c \in Seq(Frame) /\ d \in Seq(Frame)
      /\ e \in Seq(Frame)
  BY <1>3, <1>4, <1>5
<1>7. Pipeline = ((((a \o b) \o c) \o d) \o e) \o raw
  BY DEF Pipeline, Accepted
<1> HIDE DEF a, b, c, d, e
<1>8. Pipeline \in Seq(Frame)
  BY <1>2, <1>6, <1>7, ConcatProperties
<1> QED
  BY <1>1, <1>2, <1>3, <1>4, <1>5, <1>8

------------------------------------------------------------------------------
(****************************************************************************)
(* The pipeline.  No step of the drain but the delivery changes it.           *)
(****************************************************************************)

\* The pipeline in front of raw, of the frame in dispatch, of pending.
Upstream == Frames(ready) \o Frames(classified) \o InHand("map") \o Frames(pending)

\* The frame taken off raw is in dispatch.
LEMMA SubmitTakeKeeps ==
    ASSUME TypeOK, SubmitTake
    PROVE  Pipeline' = Pipeline
<1>1. /\ raw # <<>> /\ raw' = Tail(raw)
      /\ InHand("map") = <<>> /\ InHand("dispatch") = <<>>
      /\ InHand("map")' = <<>> /\ InHand("dispatch")' = <<Head(raw)>>
      /\ UNCHANGED <<ready, classified, pending>>
  BY DEF SubmitTake, CanSubmit, InHand
<1>2. Upstream \in Seq(Frame) /\ raw \in Seq(Frame)
  BY QueueTypes, ConcatProperties DEF Upstream
<1>3. Upstream' = Upstream
  BY <1>1 DEF Upstream
<1>4. (Upstream \o <<>>) \o raw = (Upstream \o <<Head(raw)>>) \o Tail(raw)
  BY <1>1, <1>2, MoveHead
<1>5. Pipeline = (Upstream \o InHand("dispatch")) \o raw
  BY DEF Pipeline, Accepted, Upstream
<1>6. Pipeline' = (Upstream' \o InHand("dispatch")') \o raw'
  BY DEF Pipeline, Accepted, Upstream
<1> QED
  BY <1>1, <1>3, <1>4, <1>5, <1>6

\* The frame in dispatch becomes the newest pending work.
LEMMA SubmitPutKeeps ==
    ASSUME TypeOK, SubmitPut
    PROVE  Pipeline' = Pipeline
<1> DEFINE w == [frame |-> hand, done |-> FALSE]
           p == Frames(ready) \o Frames(classified) \o InHand("map")
<1>1. /\ pending' = Append(pending, w) /\ hand \in Frame
      /\ InHand("map") = <<>> /\ InHand("dispatch") = <<hand>>
      /\ InHand("map")' = <<>> /\ InHand("dispatch")' = <<>>
      /\ UNCHANGED <<ready, classified, raw>>
  BY DEF SubmitPut, InHand, TypeOK
<1>2. w \in Works /\ w.frame = hand
  BY <1>1 DEF Works
<1>3. pending \in Seq(Works)
  BY DEF TypeOK
<1> HIDE DEF w
<1>4. Frames(pending') = Append(Frames(pending), hand)
  BY <1>1, <1>2, <1>3, QueueTypes, FramesOfAppend
<1>5. p \in Seq(Frame) /\ Frames(pending) \in Seq(Frame)
  BY QueueTypes, ConcatProperties
<1>6. p' = p
  BY <1>1
<1>7. Pipeline = ((p \o Frames(pending)) \o InHand("dispatch")) \o raw
  BY DEF Pipeline, Accepted
<1>8. Pipeline' = ((p' \o Frames(pending')) \o InHand("dispatch")') \o raw'
  BY DEF Pipeline, Accepted
<1> HIDE DEF p
<1>9. (p \o Frames(pending)) \o <<hand>> = (p \o Append(Frames(pending), hand)) \o <<>>
  <2> DEFINE q == Frames(pending)
  <2>1. p \in Seq(Frame) /\ q \in Seq(Frame) /\ hand \in Frame
    BY <1>1, <1>5
  <2> HIDE DEF q
  <2>2. (p \o q) \o <<hand>> = (p \o Append(q, hand)) \o <<>>
    BY <2>1, MoveLast
  <2> QED
    BY <2>2 DEF q
<1> QED
  BY <1>1, <1>4, <1>6, <1>7, <1>8, <1>9

\* The work collected was the oldest pending.
LEMMA CollectTakeKeeps ==
    ASSUME TypeOK, CollectTake
    PROVE  Pipeline' = Pipeline
<1> DEFINE p == Frames(ready) \o Frames(classified)
<1>1. /\ pending # <<>> /\ pending' = Tail(pending)
      /\ InHand("map") = <<>> /\ InHand("dispatch") = <<>>
      /\ InHand("map")' = <<Head(pending).frame>> /\ InHand("dispatch")' = <<>>
      /\ UNCHANGED <<ready, classified, raw>>
  BY DEF CollectTake, CanCollect, InHand
<1>2. pending \in Seq(Works) /\ \A x \in Works : x.frame \in Frame
  BY QueueTypes DEF TypeOK
<1>3. /\ Head(Frames(pending)) = Head(pending).frame
      /\ Frames(pending') = Tail(Frames(pending))
  BY <1>1, <1>2, FramesOfTail
<1>4. p \in Seq(Frame) /\ Frames(pending) \in Seq(Frame) /\ Frames(pending) # <<>>
  <2>1. Frames(pending) # <<>>
    BY <1>1, <1>2, FramesIsSeq
  <2> QED
    BY <2>1, QueueTypes, ConcatProperties
<1>5. p' = p
  BY <1>1
<1>6. Pipeline = (((p \o InHand("map")) \o Frames(pending)) \o InHand("dispatch")) \o raw
  BY DEF Pipeline, Accepted
<1>7. Pipeline' = (((p' \o InHand("map")') \o Frames(pending')) \o InHand("dispatch")') \o raw'
  BY DEF Pipeline, Accepted
<1> HIDE DEF p
<1> DEFINE q == Frames(pending)
<1> HIDE DEF q
<1>8. (p \o <<>>) \o q = (p \o <<Head(q)>>) \o Tail(q)
  BY <1>4, MoveHead DEF q
<1> QED
  BY <1>1, <1>3, <1>5, <1>6, <1>7, <1>8 DEF q

\* The work whose buffer is busy goes back where it came from.
LEMMA StillDrawingKeeps ==
    ASSUME TypeOK, StillDrawing
    PROVE  Pipeline' = Pipeline
<1> DEFINE p == Frames(ready) \o Frames(classified)
           w == [frame |-> hand, done |-> TRUE]
           q == Frames(pending')
<1>1. /\ pending' = <<w>> \o pending /\ hand \in Frame
      /\ InHand("map") = <<hand>> /\ InHand("dispatch") = <<>>
      /\ InHand("map")' = <<>> /\ InHand("dispatch")' = <<>>
      /\ UNCHANGED <<ready, classified, raw>>
  BY DEF StillDrawing, InHand, TypeOK
<1>2. w \in Works /\ w.frame = hand
  BY <1>1 DEF Works
<1>3. pending \in Seq(Works) /\ \A x \in Works : x.frame \in Frame
  BY QueueTypes DEF TypeOK
<1> HIDE DEF w
<1>4. /\ pending' \in Seq(Works) /\ pending' # <<>>
      /\ Head(q) = hand /\ Tail(q) = Frames(pending)
  BY <1>1, <1>2, <1>3, FramesOfPutBack
<1>5. p \in Seq(Frame) /\ q \in Seq(Frame) /\ q # <<>>
  <2>1. q \in Seq(Frame) /\ q # <<>>
    BY <1>3, <1>4, FramesIsSeq
  <2> QED
    BY <2>1, QueueTypes, ConcatProperties
<1>6. p' = p
  BY <1>1
<1>7. Pipeline = (((p \o InHand("map")) \o Frames(pending)) \o InHand("dispatch")) \o raw
  BY DEF Pipeline, Accepted
<1>8. Pipeline' = (((p' \o InHand("map")') \o q) \o InHand("dispatch")') \o raw'
  BY DEF Pipeline, Accepted
<1> HIDE DEF p, q
<1>9. (p \o <<>>) \o q = (p \o <<Head(q)>>) \o Tail(q)
  BY <1>5, MoveHead
<1> QED
  BY <1>1, <1>4, <1>6, <1>7, <1>8, <1>9

\* The frame mapped becomes the newest classified.
LEMMA ClassifyKeeps ==
    ASSUME TypeOK, Classify
    PROVE  Pipeline' = Pipeline
<1> DEFINE c == [frame |-> hand, duplicate |-> last_unique = hand.image]
           a == Frames(ready)
           b == Frames(classified)
<1>1. /\ classified' = Append(classified, c) /\ hand \in Frame
      /\ InHand("map") = <<hand>> /\ InHand("dispatch") = <<>>
      /\ InHand("map")' = <<>> /\ InHand("dispatch")' = <<>>
      /\ UNCHANGED <<ready, pending, raw>>
  BY DEF Classify, InHand, TypeOK
<1>2. c \in Classified /\ c.frame = hand
  <2>1. \A d \in BOOLEAN : [frame |-> hand, duplicate |-> d] \in Classified
    BY <1>1 DEF Classified
  <2>2. (last_unique = hand.image) \in BOOLEAN
    BY Zenon
  <2>3. c \in Classified
    BY <2>1, <2>2, Zenon
  <2> QED
    BY <2>3
<1> HIDE DEF c
<1>3. classified \in Seq(Classified)
  BY DEF TypeOK
<1>4. Frames(classified') = Append(b, hand)
  BY <1>1, <1>2, <1>3, QueueTypes, FramesOfAppend
<1>5. a \in Seq(Frame) /\ b \in Seq(Frame)
  BY QueueTypes
<1>6. Pipeline = ((((a \o b) \o InHand("map")) \o Frames(pending)) \o InHand("dispatch")) \o raw
  BY DEF Pipeline, Accepted
<1>7. Pipeline' = ((((Frames(ready') \o Frames(classified')) \o InHand("map")')
                      \o Frames(pending')) \o InHand("dispatch")') \o raw'
  BY DEF Pipeline, Accepted
<1> HIDE DEF a, b
<1>8. (a \o b) \o <<hand>> = (a \o Append(b, hand)) \o <<>>
  <2>1. a \in Seq(Frame) /\ b \in Seq(Frame) /\ hand \in Frame
    BY <1>1, <1>5
  <2> QED
    BY <2>1, MoveLast
<1> QED
  BY <1>1, <1>4, <1>6, <1>7, <1>8 DEF a

\* The classified frames become the ones to hand on, of which there were none.
LEMMA SwapKeeps ==
    ASSUME TypeOK, Control, Swap
    PROVE  Pipeline' = Pipeline
<1>1. /\ ready = <<>> /\ ready' = classified /\ classified' = <<>>
      /\ InHand("map") = <<>> /\ InHand("dispatch") = <<>>
      /\ InHand("map")' = <<>> /\ InHand("dispatch")' = <<>>
      /\ UNCHANGED <<pending, raw>>
  BY DEF Swap, InHand, Control
<1>2. Frames(<<>>) = <<>>
  BY QueueTypes, FramesIsSeq, EmptySeq
<1>3. <<>> \o Frames(classified) = Frames(classified) \o <<>>
  BY QueueTypes, ConcatEmptySeq
<1>4. Frames(ready') \o Frames(classified') = Frames(ready) \o Frames(classified)
  BY <1>1, <1>2, <1>3
<1>5. Pipeline' = (((Frames(ready') \o Frames(classified')) \o InHand("map")')
                      \o Frames(pending')) \o InHand("dispatch")' \o raw'
  BY DEF Pipeline, Accepted
<1> QED
  BY <1>1, <1>4, <1>5 DEF Pipeline, Accepted

\* The GPU changes no frame.
LEMMA GpuKeeps ==
    ASSUME TypeOK, GpuCompletes
    PROVE  Pipeline' = Pipeline
<1>1. PICK i \in DOMAIN pending : pending' = [pending EXCEPT ![i].done = TRUE]
  BY DEF GpuCompletes
<1>2. pending \in Seq(Works) /\ DOMAIN pending = 1 .. Len(pending)
  BY LenProperties DEF TypeOK
<1>3. pending[i] \in Works /\ [pending[i] EXCEPT !.done = TRUE] \in Works
  BY <1>2, WorkDone
<1>4. /\ pending' = [pending EXCEPT ![i] = [pending[i] EXCEPT !.done = TRUE]]
      /\ DOMAIN pending' = DOMAIN pending
  BY <1>1
<1>5. ASSUME NEW j \in DOMAIN pending
      PROVE  pending'[j].frame = pending[j].frame
  <2>1. \A k \in DOMAIN pending : pending[k] \in Works
    BY <1>2
  <2> QED
    BY <1>4, <2>1 DEF Works
<1>6. Frames(pending') = Frames(pending)
  BY <1>4, <1>5 DEF Frames
<1>7. UNCHANGED <<ready, classified, raw, hand, pc>>
  BY DEF GpuCompletes, main
<1> QED
  BY <1>6, <1>7 DEF Pipeline, Accepted, InHand

\* The steps that move no frame between queues.
LEMMA OthersKeep ==
    ASSUME \/ Wake \/ SubmitEnd \/ CollectEnd \/ DrainEnd \/ StartRefused
           \/ \E s \in Sessions : (\E image \in Images : Arrive(s, image)) \/ Signal(s) \/ Fail(s)
           \/ UNCHANGED vars,
           TypeOK
    PROVE  Pipeline' = Pipeline
<1>1. /\ UNCHANGED <<ready, classified, pending, raw, hand>>
      /\ (pc' = "map") <=> (pc = "map")
      /\ (pc' = "dispatch") <=> (pc = "dispatch")
  BY DEF Wake, SubmitEnd, CollectEnd, DrainEnd, StartRefused, Arrive, Signal, Fail, vars, shared,
         queues, main
<1> QED
  BY <1>1 DEF Pipeline, Accepted, InHand

LEMMA DrainKeeps ==
    ASSUME TypeOK, Control, Drain, ~Deliver, ~PassOver
    PROVE  Pipeline' = Pipeline
BY SubmitTakeKeeps, SubmitPutKeeps, CollectTakeKeeps, StillDrawingKeeps, ClassifyKeeps, SwapKeeps,
   OthersKeep DEF Drain

\* Stop and Start empty every queue, and no frame is in hand then.
LEMMA ClearEmpties ==
    ASSUME TypeOK, Control, Stop \/ Start \/ StartFails
    PROVE  Pipeline' = <<>>
<1>1. /\ raw' = <<>> /\ pending' = <<>> /\ classified' = <<>> /\ ready' = <<>>
      /\ InHand("map")' = <<>> /\ InHand("dispatch")' = <<>>
  BY DEF Stop, Start, StartFails, StartClears, InHand, Control
<1>2. Frames(<<>>) = <<>>
  BY QueueTypes, FramesIsSeq, EmptySeq
<1>3. <<>> \o <<>> = <<>>
  BY ConcatEmptySeq, EmptySeq
<1>4. Pipeline' = ((((Frames(ready') \o Frames(classified')) \o InHand("map")')
                      \o Frames(pending')) \o InHand("dispatch")') \o raw'
  BY DEF Pipeline, Accepted
<1> QED
  BY <1>1, <1>2, <1>3, <1>4

\* What is handed on, or passed over, is the oldest frame of the pipeline.
LEMMA DeliverTakesOldest ==
    ASSUME TypeOK, Deliver \/ PassOver
    PROVE  /\ Pipeline # <<>> /\ Head(Pipeline) = Head(ready).frame
           /\ Pipeline' = Tail(Pipeline)
<1> DEFINE a == Frames(ready)  b == Frames(classified)  d == Frames(pending)
           c == InHand("map")  e == InHand("dispatch")
<1>1. /\ ready # <<>> /\ ready' = Tail(ready)
      /\ c' = c /\ e' = e
      /\ UNCHANGED <<classified, pending, raw>>
  BY DEF Deliver, PassOver, InHand, shared, queues
<1>2. ready \in Seq(Classified) /\ \A x \in Classified : x.frame \in Frame
  BY QueueTypes DEF TypeOK
<1>3. /\ a # <<>> /\ Head(a) = Head(ready).frame
      /\ Frames(ready') = Tail(a)
  BY <1>1, <1>2, FramesOfTail, FramesIsSeq
<1>4. /\ a \in Seq(Frame) /\ b \in Seq(Frame) /\ c \in Seq(Frame) /\ d \in Seq(Frame)
      /\ e \in Seq(Frame) /\ raw \in Seq(Frame)
  BY QueueTypes
<1>5. Pipeline = ((((a \o b) \o c) \o d) \o e) \o raw
  BY DEF Pipeline, Accepted
<1>6. Pipeline' = ((((Tail(a) \o b) \o c) \o d) \o e) \o raw
  <2>1. Pipeline' = ((((Frames(ready') \o Frames(classified')) \o c') \o Frames(pending')) \o e')
                     \o raw'
    BY DEF Pipeline, Accepted
  <2> QED
    BY <1>1, <1>3, <2>1
<1> HIDE DEF a, b, c, d, e
<1> DEFINE h == Head(ready).frame
           p == a \o b  q == p \o c  r == q \o d  s == r \o e
           tp == Tail(a) \o b  tq == tp \o c  tr == tq \o d  ts == tr \o e
<1>7. p \in Seq(Frame) /\ p # <<>> /\ Head(p) = h /\ Tail(p) = tp
  BY <1>3, <1>4, HeadOfConcat
<1>8. Pipeline = s \o raw /\ Pipeline' = ts \o raw
  BY <1>5, <1>6
<1> HIDE DEF h, p, tp
<1>9. q \in Seq(Frame) /\ q # <<>> /\ Head(q) = h /\ Tail(q) = tq
  <2>1. q = p \o c /\ tq = tp \o c
    OBVIOUS
  <2> HIDE DEF q, tq
  <2>2. /\ p \o c \in Seq(Frame) /\ p \o c # <<>>
        /\ Head(p \o c) = Head(p) /\ Tail(p \o c) = Tail(p) \o c
    BY <1>4, <1>7, HeadOfConcat
  <2> QED
    BY <1>7, <2>1, <2>2
<1> HIDE DEF q, tq
<1>10. r \in Seq(Frame) /\ r # <<>> /\ Head(r) = h /\ Tail(r) = tr
  <2>1. r = q \o d /\ tr = tq \o d
    OBVIOUS
  <2> HIDE DEF r, tr
  <2>2. /\ q \o d \in Seq(Frame) /\ q \o d # <<>>
        /\ Head(q \o d) = Head(q) /\ Tail(q \o d) = Tail(q) \o d
    BY <1>4, <1>9, HeadOfConcat
  <2> QED
    BY <1>9, <2>1, <2>2
<1> HIDE DEF r, tr
<1>11. s \in Seq(Frame) /\ s # <<>> /\ Head(s) = h /\ Tail(s) = ts
  <2>1. s = r \o e /\ ts = tr \o e
    OBVIOUS
  <2> HIDE DEF s, ts
  <2>2. /\ r \o e \in Seq(Frame) /\ r \o e # <<>>
        /\ Head(r \o e) = Head(r) /\ Tail(r \o e) = Tail(r) \o e
    BY <1>4, <1>10, HeadOfConcat
  <2> QED
    BY <1>10, <2>1, <2>2
<1> HIDE DEF s, ts
<1>12. s \o raw # <<>> /\ Head(s \o raw) = Head(s) /\ Tail(s \o raw) = Tail(s) \o raw
  BY <1>4, <1>11, HeadOfConcat
<1> QED
  BY <1>8, <1>11, <1>12 DEF h

\* The raw queue is what of the pipeline is not accepted.
LEMMA AcceptedFirst ==
    ASSUME TypeOK
    PROVE  /\ Accepted \in Seq(Frame) /\ Pipeline = Accepted \o raw
           /\ Len(Accepted) \in Nat /\ Len(raw) \in Nat
           /\ Len(Pipeline) = Len(Accepted) + Len(raw)
<1>1. Accepted \in Seq(Frame) /\ raw \in Seq(Frame)
  BY QueueTypes, ConcatProperties DEF Accepted
<1>2. Pipeline = Accepted \o raw
  BY DEF Pipeline
<1> QED
  BY <1>1, <1>2, ConcatProperties, LenProperties

\* A full raw queue loses its oldest frame, the first of the pipeline that is not
\* accepted; the frame inserted comes last.
LEMMA InsertEnters ==
    ASSUME TypeOK, NEW s \in Sessions, Insert(s)
    PROVE  /\ NewFrame(s) \in Frame
           /\ Accepted' = Accepted
           /\ Len(raw) >= MaxRaw =>
                /\ Len(Accepted) + 1 \in 1 .. Len(Pipeline)
                /\ Pipeline' = Append(Channel!Without(Pipeline, Len(Accepted) + 1), NewFrame(s))
           /\ ~(Len(raw) >= MaxRaw) => Pipeline' = Append(Pipeline, NewFrame(s))
<1> DEFINE p == Accepted
           f == NewFrame(s)
<1>1. /\ raw' = Append(IF Len(raw) >= MaxRaw THEN Tail(raw) ELSE raw, f)
      /\ InHand("map")' = InHand("map") /\ InHand("dispatch")' = InHand("dispatch")
      /\ UNCHANGED <<ready, classified, pending>>
  BY DEF Insert, NewFrame, InHand, main
<1>2. f \in Frame
  BY NewFrameType DEF Insert
<1>3. p \in Seq(Frame) /\ raw \in Seq(Frame)
  BY AcceptedFirst, QueueTypes
<1>4. p' = p
  BY <1>1 DEF Accepted
<1>5. Pipeline = p \o raw
  BY DEF Pipeline
<1>6. Pipeline' = p' \o raw'
  BY DEF Pipeline
<1> HIDE DEF p, f
<1>7. CASE Len(raw) >= MaxRaw
  <2>1. raw # <<>>
    BY <1>7, CaptureAssumption, EmptySeq DEF CaptureAssumption
  <2>2. Tail(raw) \in Seq(Frame)
    BY <1>3, <2>1, HeadTailProperties
  <2>3. Pipeline' = Append(p \o Tail(raw), f)
    BY <1>1, <1>2, <1>3, <1>4, <1>6, <1>7, <2>2, LastOfConcat
  <2>4. /\ Len(p) + 1 \in 1 .. Len(p \o raw)
        /\ p \o Tail(raw) = Channel!Without(p \o raw, Len(p) + 1)
    BY <1>3, <2>1, TailOfConcatIsWithout
  <2> QED
    BY <1>2, <1>4, <1>5, <1>7, <2>3, <2>4 DEF f, p
<1>8. CASE ~(Len(raw) >= MaxRaw)
  <2>1. Pipeline' = Append(Pipeline, f)
    BY <1>1, <1>2, <1>3, <1>4, <1>5, <1>6, <1>8, LastOfConcat
  <2> QED
    BY <1>2, <1>4, <1>8, <2>1 DEF f, p
<1> QED
  BY <1>7, <1>8

\* Every step does to the pipeline one of four things.
LEMMA PipelineStep ==
    ASSUME TypeOK, Control, [Next]_vars
    PROVE  \/ /\ Pipeline' = Pipeline
              /\ ~Deliver /\ ~PassOver /\ UNCHANGED <<inserted, latest, delivered, cursor>>
              /\ UNCHANGED <<starts, session>> /\ known' \in {known, cursor}
              /\ SubmitTake \/ raw' = raw
              /\ StartRefused \/ (pc' = "stopped" <=> pc = "stopped")
           \/ Deliver \/ PassOver
           \/ Stop \/ Start \/ StartFails
           \/ \E s \in Sessions : Insert(s)
<1>1. CASE Drain
  <2>1. ~Deliver /\ ~PassOver =>
            /\ UNCHANGED <<inserted, latest, delivered, cursor, starts, session>>
            /\ known' \in {known, cursor}
            /\ SubmitTake \/ raw' = raw
            /\ pc' = "stopped" <=> pc = "stopped"
    BY <1>1 DEF Drain, Wake, SubmitTake, SubmitPut, SubmitEnd, CollectTake, StillDrawing, Classify,
                CollectEnd, Swap, DrainEnd, shared, queues, past
  <2> QED
    BY <1>1, <2>1, DrainKeeps
<1>2. CASE Callback
  <2>1. ASSUME NEW s \in Sessions, (\E image \in Images : Arrive(s, image)) \/ Signal(s) \/ Fail(s)
        PROVE  /\ Pipeline' = Pipeline
               /\ UNCHANGED <<inserted, latest, delivered, cursor, known, starts, session, ready>>
               /\ UNCHANGED <<raw, pc>>
    <3>1. Pipeline' = Pipeline
      BY <2>1, OthersKeep
    <3> QED
      BY <2>1, <3>1 DEF Arrive, Signal, Fail, shared, queues, main, past
  <2>2. Deliver \/ PassOver => ready' # ready
    <3>1. \A q \in Seq(Classified) : q # <<>> => Tail(q) # q
      <4> SUFFICES ASSUME NEW q \in Seq(Classified), q # <<>>
                   PROVE  Len(Tail(q)) # Len(q)
        OBVIOUS
      <4> QED
        BY HeadTailProperties, LenProperties
    <3> QED
      BY <3>1 DEF Deliver, PassOver, TypeOK
  <2> QED
    BY <1>2, <2>1, <2>2 DEF Callback
<1>3. CASE GpuCompletes \/ UNCHANGED vars
  <2>1. Pipeline' = Pipeline
    BY <1>3, GpuKeeps, OthersKeep
  <2>2. UNCHANGED <<inserted, latest, delivered, cursor, known, starts, session, raw, pc>>
    BY <1>3 DEF GpuCompletes, vars, shared, queues, main, past
  <2> QED
    BY <2>1, <2>2
<1>4. CASE StartRefused
  <2>1. Pipeline' = Pipeline
    BY <1>4, OthersKeep
  <2> QED
    BY <1>4, <2>1 DEF StartRefused, shared, queues, past
<1> QED
  BY <1>1, <1>2, <1>3, <1>4 DEF Next, Restart

------------------------------------------------------------------------------
(****************************************************************************)
(* What the channel sees of the frames: their places in the order of          *)
(* insertion.                                                                 *)
(****************************************************************************)

LEMMA IdsAre ==
    ASSUME NEW s \in Seq(Frame), NEW t \in Seq(Nat), Len(t) = Len(s),
           \A i \in 1 .. Len(s) : t[i] = s[i].id
    PROVE  Ids(s) = t
<1>1. DOMAIN s = 1 .. Len(s) /\ DOMAIN t = 1 .. Len(s) /\ t \in [1 .. Len(s) -> Nat]
  BY LenProperties
<1> QED
  BY <1>1 DEF Ids

\* The channel sees the insertion numbers of the frames: taking them commutes with
\* what the steps do to the pipeline.
LEMMA IdsIsSeq ==
    ASSUME NEW s \in Seq(Frame)
    PROVE  /\ Ids(s) \in Seq(Nat) /\ Len(Ids(s)) = Len(s)
           /\ \A i \in 1 .. Len(s) : Ids(s)[i] = s[i].id /\ s[i].id \in Nat
           /\ Ids(s) = <<>> <=> s = <<>>
<1>1. Len(s) \in Nat /\ DOMAIN s = 1 .. Len(s) /\ \A i \in 1 .. Len(s) : s[i] \in Frame
  BY LenProperties, ElementOfSeq
<1>2. Ids(s) \in [1 .. Len(s) -> Nat]
  BY <1>1 DEF Ids, Frame
<1>3. Ids(s) \in Seq(Nat)
  BY <1>1, <1>2, SeqDef
<1>4. Len(Ids(s)) = Len(s)
  <2>1. 1 .. Len(Ids(s)) = 1 .. Len(s) /\ Len(Ids(s)) \in Nat
    BY <1>2, <1>3, LenProperties
  <2>2. ASSUME NEW m \in Nat, NEW n \in Nat, 1 .. m = 1 .. n
        PROVE  m = n
    <3>1. (m > 0 => m \in 1 .. n) /\ (n > 0 => n \in 1 .. m)
      BY <2>2
    <3> QED
      BY <3>1
  <2> QED
    BY <1>1, <2>1, <2>2
<1>5. Ids(s) = <<>> <=> s = <<>>
  BY <1>1, <1>3, <1>4, EmptySeq
<1> QED
  BY <1>1, <1>3, <1>4, <1>5 DEF Ids, Frame

LEMMA IdsOfTail ==
    ASSUME NEW s \in Seq(Frame), s # <<>>
    PROVE  /\ Ids(s) # <<>> /\ Head(Ids(s)) = Head(s).id
           /\ Ids(Tail(s)) = Tail(Ids(s))
<1> DEFINE t == Tail(s)  u == Ids(s)
<1>1. /\ Head(s) = s[1] /\ t \in Seq(Frame) /\ Len(t) = Len(s) - 1
      /\ \A i \in 1 .. Len(s) - 1 : t[i] = s[i + 1]
      /\ Len(s) \in Nat /\ Len(s) > 0
  BY HeadTailProperties, EmptySeq, LenProperties
<1>2. /\ u \in Seq(Nat) /\ Len(u) = Len(s) /\ u # <<>>
      /\ \A i \in 1 .. Len(s) : u[i] = s[i].id
  BY IdsIsSeq
<1> HIDE DEF t, u
<1>3. /\ Head(u) = u[1] /\ Tail(u) \in Seq(Nat) /\ Len(Tail(u)) = Len(s) - 1
      /\ \A i \in 1 .. Len(s) - 1 : Tail(u)[i] = u[i + 1]
  BY <1>1, <1>2, HeadTailProperties
<1>4. ASSUME NEW i \in 1 .. Len(s) - 1
      PROVE  Tail(u)[i] = t[i].id
  <2>1. i + 1 \in 1 .. Len(s)
    BY <1>1
  <2> QED
    BY <1>1, <1>2, <1>3, <2>1
<1>5. Ids(t) = Tail(u)
  BY <1>1, <1>3, <1>4, IdsAre
<1> QED
  BY <1>1, <1>2, <1>3, <1>5 DEF t, u

LEMMA IdsOfAppend ==
    ASSUME NEW s \in Seq(Frame), NEW f \in Frame
    PROVE  Ids(Append(s, f)) = Append(Ids(s), f.id)
<1> DEFINE t == Append(s, f)  u == Append(Ids(s), f.id)
<1>1. /\ t \in Seq(Frame) /\ Len(t) = Len(s) + 1 /\ Len(s) \in Nat
      /\ \A i \in 1 .. Len(s) : t[i] = s[i]
      /\ t[Len(s) + 1] = f
  BY AppendProperties, LenProperties
<1>2. /\ Ids(s) \in Seq(Nat) /\ Len(Ids(s)) = Len(s) /\ f.id \in Nat
      /\ \A i \in 1 .. Len(s) : Ids(s)[i] = s[i].id
  BY IdsIsSeq DEF Frame
<1>3. /\ u \in Seq(Nat) /\ Len(u) = Len(s) + 1
      /\ \A i \in 1 .. Len(s) : u[i] = Ids(s)[i]
      /\ u[Len(s) + 1] = f.id
  BY <1>2, AppendProperties
<1> HIDE DEF t, u
<1>4. Ids(t) = u
  <2>1. ASSUME NEW i \in 1 .. Len(t)
        PROVE  u[i] = t[i].id
    <3>1. CASE i = Len(s) + 1
      BY <1>1, <1>3, <3>1
    <3>2. CASE i # Len(s) + 1
      <4>1. i \in 1 .. Len(s)
        BY <1>1, <3>2
      <4> QED
        BY <1>1, <1>2, <1>3, <4>1
    <3> QED
      BY <3>1, <3>2
  <2> QED
    BY <1>1, <1>3, <2>1, IdsAre
<1> QED
  BY <1>4 DEF t, u

LEMMA IdsOfWithout ==
    ASSUME NEW s \in Seq(Frame), NEW i \in 1 .. Len(s)
    PROVE  Ids(Channel!Without(s, i)) = Channel!Without(Ids(s), i)
<1> DEFINE u == Ids(s)  t == Channel!Without(s, i)  w == Channel!Without(u, i)
<1>1. /\ u \in Seq(Nat) /\ Len(u) = Len(s)
      /\ \A k \in 1 .. Len(s) : u[k] = s[k].id
      /\ Len(s) \in Nat
  BY IdsIsSeq, LenProperties
<1> HIDE DEF u
<1>2. /\ t \in Seq(Frame) /\ Len(t) = Len(s) - 1
      /\ \A k \in 1 .. Len(s) - 1 : t[k] = IF k < i THEN s[k] ELSE s[k + 1]
  BY WithoutIsSeq
<1>3. /\ w \in Seq(Nat) /\ Len(w) = Len(s) - 1
      /\ \A k \in 1 .. Len(s) - 1 : w[k] = IF k < i THEN u[k] ELSE u[k + 1]
  BY <1>1, WithoutIsSeq
<1> HIDE DEF t, w
<1>4. ASSUME NEW k \in 1 .. Len(t)
      PROVE  w[k] = t[k].id
  <2>1. k \in 1 .. Len(s) - 1 /\ k \in 1 .. Len(s) /\ k + 1 \in 1 .. Len(s)
    BY <1>1, <1>2
  <2> QED
    BY <1>1, <1>2, <1>3, <2>1
<1>5. Ids(t) = w
  BY <1>2, <1>3, <1>4, IdsAre
<1> QED
  BY <1>5 DEF u, t, w

\* The frame delivered is the last of the deliveries remembered.
LEMMA LastDelivered ==
    ASSUME TypeOK, Deliver
    PROVE  /\ delivered' # <<>> /\ delivered'[Len(delivered')] = NewDelivery
           /\ delivered \in Seq(Delivery)
           /\ NewDelivery \in Delivery
<1>1. /\ ready # <<>> /\ delivered \in Seq(Delivery)
  BY DEF Deliver, TypeOK, Delivery
<1> DEFINE kept == IF Len(delivered) = 2 THEN Tail(delivered) ELSE delivered
<1>2. NewDelivery \in Delivery /\ delivered' = Append(kept, NewDelivery)
  BY <1>1, DeliveryType
<1>3. kept \in Seq(Delivery)
  <2>1. Len(delivered) = 2 => delivered # <<>>
    BY EmptySeq
  <2> QED
    BY <1>1, <2>1, HeadTailProperties
<1> HIDE DEF kept
<1> QED
  BY <1>1, <1>2, <1>3, AppendProperties, LenProperties

\* The insertion number of the frame handed on last.
LastId == IF delivered = <<>> THEN 0 ELSE delivered[Len(delivered)].frame.id

------------------------------------------------------------------------------
(****************************************************************************)
(* The order of the frames inside, and the cursor.                            *)
(****************************************************************************)

\* Frames are in the order of insertion and of their sequence numbers, and all of
\* them belong to the present Start; while a session captures, the cursor is
\* behind them all.
Order ==
    /\ \A i, j \in 1 .. Len(Pipeline) :
           i < j => Pipeline[i].id < Pipeline[j].id /\ Pipeline[i].seq < Pipeline[j].seq
    /\ \A i \in 1 .. Len(Pipeline) :
           /\ LastId < Pipeline[i].id /\ Pipeline[i].id <= inserted
           /\ Pipeline[i].seq <= latest
           /\ Pipeline[i].epoch = starts
           /\ session # 0 => cursor < Pipeline[i].seq
    /\ LastId <= inserted
    /\ session # 0 => known <= cursor /\ cursor <= latest

LEMMA Numbers ==
    ASSUME TypeOK
    PROVE  /\ latest \in Nat /\ inserted \in Nat /\ cursor \in Nat /\ known \in Nat
           /\ Pipeline \in Seq(Frame) /\ Len(Pipeline) \in Nat
           /\ \A i \in 1 .. Len(Pipeline) : Pipeline[i].id \in Nat /\ Pipeline[i].seq \in Nat
           /\ LastId \in Nat
<1>1. Pipeline \in Seq(Frame) /\ Len(Pipeline) \in Nat
  BY QueueTypes, LenProperties
<1>2. \A i \in 1 .. Len(Pipeline) : Pipeline[i] \in Frame
  BY <1>1, ElementOfSeq
<1>3. LastId \in Nat
  <2>1. delivered \in Seq(Delivery)
    BY DEF TypeOK, Delivery
  <2>2. delivered # <<>> => delivered[Len(delivered)] \in Delivery
    BY <2>1, EmptySeq, LenProperties, ElementOfSeq
  <2> QED
    BY <2>2 DEF LastId, Delivery, Frame
<1> QED
  BY <1>1, <1>2, <1>3 DEF TypeOK, Frame

\* The elements of the pipeline before and after its oldest frame is taken.
LEMMA TailElements ==
    ASSUME TypeOK, Deliver \/ PassOver
    PROVE  /\ Pipeline[1] = Head(ready).frame /\ 1 \in 1 .. Len(Pipeline)
           /\ Len(Pipeline') = Len(Pipeline) - 1
           /\ \A i \in 1 .. Len(Pipeline) - 1 : Pipeline'[i] = Pipeline[i + 1]
<1>1. /\ Pipeline # <<>> /\ Head(Pipeline) = Head(ready).frame
      /\ Pipeline' = Tail(Pipeline) /\ Pipeline \in Seq(Frame)
  BY DeliverTakesOldest, QueueTypes
<1> DEFINE p == Pipeline  t == Tail(p)
<1> HIDE DEF p
<1>2. /\ Head(p) = p[1] /\ Len(t) = Len(p) - 1 /\ Len(p) \in Nat \ {0}
      /\ \A i \in 1 .. Len(p) - 1 : t[i] = p[i + 1]
  BY <1>1, HeadTailProperties, EmptySeq DEF p
<1> QED
  BY <1>1, <1>2 DEF p

\* Every frame of the pipeline after Insert was in it before, in the same
\* order, or is the new one.
LEMMA InsertElements ==
    ASSUME TypeOK, NEW s \in Sessions, Insert(s)
    PROVE  \E n \in Nat, d \in Nat :
             /\ Len(Pipeline') = n + 1
             /\ Pipeline'[n + 1] = NewFrame(s)
             /\ \A i \in 1 .. n :
                  \/ i < d /\ i \in 1 .. Len(Pipeline) /\ Pipeline'[i] = Pipeline[i]
                  \/ d <= i /\ i + 1 \in 1 .. Len(Pipeline) /\ Pipeline'[i] = Pipeline[i + 1]
<1> DEFINE p == Pipeline
<1>1. p \in Seq(Frame) /\ Len(p) \in Nat /\ NewFrame(s) \in Frame
  BY QueueTypes, InsertEnters, LenProperties
<1>2. ASSUME Pipeline' = Append(p, NewFrame(s))
      PROVE  \E n \in Nat, d \in Nat :
             /\ Len(Pipeline') = n + 1
             /\ Pipeline'[n + 1] = NewFrame(s)
             /\ \A i \in 1 .. n :
                  \/ i < d /\ i \in 1 .. Len(p) /\ Pipeline'[i] = p[i]
                  \/ d <= i /\ i + 1 \in 1 .. Len(p) /\ Pipeline'[i] = p[i + 1]
  <2> DEFINE n == Len(p)
  <2>1. /\ Len(Pipeline') = n + 1 /\ Pipeline'[n + 1] = NewFrame(s)
        /\ \A i \in 1 .. n : Pipeline'[i] = p[i]
    BY <1>1, <1>2, AppendProperties
  <2> HIDE DEF p
  <2>2. n \in Nat /\ n + 1 \in Nat /\ \A i \in 1 .. n : i < n + 1 /\ i \in 1 .. Len(p)
    BY <1>1
  <2> QED
    BY <2>1, <2>2 DEF p
<1>3. ASSUME NEW k \in 1 .. Len(p), Pipeline' = Append(Channel!Without(p, k), NewFrame(s))
      PROVE  \E n \in Nat, d \in Nat :
             /\ Len(Pipeline') = n + 1
             /\ Pipeline'[n + 1] = NewFrame(s)
             /\ \A i \in 1 .. n :
                  \/ i < d /\ i \in 1 .. Len(p) /\ Pipeline'[i] = p[i]
                  \/ d <= i /\ i + 1 \in 1 .. Len(p) /\ Pipeline'[i] = p[i + 1]
  <2> DEFINE n == Len(p) - 1  w == Channel!Without(p, k)
  <2>1. /\ w \in Seq(Frame) /\ Len(w) = n
        /\ \A i \in 1 .. n : w[i] = IF i < k THEN p[i] ELSE p[i + 1]
    BY <1>1, WithoutIsSeq
  <2> HIDE DEF w
  <2>2. /\ Len(Pipeline') = n + 1 /\ Pipeline'[n + 1] = NewFrame(s)
        /\ \A i \in 1 .. n : Pipeline'[i] = w[i]
    BY <1>1, <1>3, <2>1, AppendProperties DEF w
  <2> HIDE DEF p
  <2>3. n \in Nat /\ k \in Nat
    BY <1>1
  <2>4. ASSUME NEW i \in 1 .. n
        PROVE  \/ i < k /\ i \in 1 .. Len(p) /\ Pipeline'[i] = p[i]
               \/ k <= i /\ i + 1 \in 1 .. Len(p) /\ Pipeline'[i] = p[i + 1]
    <3>1. i \in 1 .. Len(p) /\ i + 1 \in 1 .. Len(p)
      BY <1>1, <2>3
    <3> QED
      BY <2>1, <2>2, <2>3, <3>1
  <2> QED
    BY <2>2, <2>3, <2>4
<1> QED
  BY <1>2, <1>3, InsertEnters

LEMMA OrderStep ==
    ASSUME TypeOK, TypeOK', Control, Order, [Next]_vars
    PROVE  Order'
<1> DEFINE p == Pipeline  q == Pipeline'
<1>0. /\ latest \in Nat /\ inserted \in Nat /\ cursor \in Nat /\ known \in Nat
      /\ Len(p) \in Nat /\ LastId \in Nat
      /\ \A i \in 1 .. Len(p) : p[i].id \in Nat /\ p[i].seq \in Nat
  BY Numbers
<1>1. CASE /\ q = p /\ UNCHANGED <<inserted, latest, delivered, cursor, starts, session>>
           /\ known' \in {known, cursor}
  BY <1>0, <1>1 DEF Order, LastId
<1>2. ASSUME Deliver \/ PassOver
      PROVE  /\ \A i, j \in 1 .. Len(q) : i < j => q[i].id < q[j].id /\ q[i].seq < q[j].seq
             /\ \A i \in 1 .. Len(q) :
                  /\ p[1].id < q[i].id /\ p[1].seq < q[i].seq
                  /\ \E j \in 1 .. Len(p) : q[i] = p[j]
             /\ 1 \in 1 .. Len(p) /\ p[1] = Head(ready).frame
  <2>1. /\ p[1] = Head(ready).frame /\ 1 \in 1 .. Len(p)
        /\ Len(q) = Len(p) - 1
        /\ \A i \in 1 .. Len(p) - 1 : q[i] = p[i + 1]
    BY <1>2, TailElements
  <2>2. /\ \A i, j \in 1 .. Len(p) : i < j => p[i].id < p[j].id /\ p[i].seq < p[j].seq
    BY DEF Order
  <2> HIDE DEF p, q
  <2>3. \A i \in 1 .. Len(q) : i + 1 \in 1 .. Len(p) /\ 1 < i + 1 /\ q[i] = p[i + 1]
    BY <1>0, <2>1
  <2>4. \A i, j \in 1 .. Len(q) : i < j => i + 1 < j + 1
    BY <1>0, <2>1
  <2> QED
    BY <2>1, <2>2, <2>3, <2>4
<1>3. CASE PassOver
  <2>1. UNCHANGED <<inserted, latest, LastId, cursor, starts, session, known>>
    BY <1>3 DEF PassOver, shared, past, LastId
  <2>2. /\ \A i, j \in 1 .. Len(q) : i < j => q[i].id < q[j].id /\ q[i].seq < q[j].seq
        /\ \A i \in 1 .. Len(q) : \E j \in 1 .. Len(p) : q[i] = p[j]
    BY <1>2, <1>3
  <2> QED
    BY <2>1, <2>2 DEF Order
<1>4. CASE Deliver
  <2>1. /\ UNCHANGED <<inserted, latest, starts, session, known>>
        /\ LastId' = p[1].id
        /\ cursor' = IF p[1].seq > cursor THEN p[1].seq ELSE cursor
    <3>1. LastId' = Head(ready).frame.id
      BY <1>4, LastDelivered DEF LastId, NewDelivery
    <3> QED
      BY <1>2, <1>4, <3>1 DEF Deliver, shared
  <2>2. /\ \A i, j \in 1 .. Len(q) : i < j => q[i].id < q[j].id /\ q[i].seq < q[j].seq
        /\ \A i \in 1 .. Len(q) :
                  /\ p[1].id < q[i].id /\ p[1].seq < q[i].seq
                  /\ \E j \in 1 .. Len(p) : q[i] = p[j]
        /\ 1 \in 1 .. Len(p)
    BY <1>2, <1>4
  <2>3. LastId' <= inserted' /\ (session' # 0 => known' <= cursor' /\ cursor' <= latest')
    BY <1>0, <2>1, <2>2 DEF Order
  <2>4. \A i \in 1 .. Len(q) :
           /\ LastId' < q[i].id /\ q[i].id <= inserted'
           /\ q[i].seq <= latest'
           /\ q[i].epoch = starts'
           /\ session' # 0 => cursor' < q[i].seq
    BY <1>0, <2>1, <2>2 DEF Order
  <2> QED
    BY <2>2, <2>3, <2>4 DEF Order
<1>5. CASE Stop \/ Start \/ StartFails
  <2>1. Len(q) = 0 /\ UNCHANGED <<inserted, LastId>>
    BY <1>5, ClearEmpties, EmptySeq DEF Stop, Start, StartFails, past, LastId
  <2>2. session' # 0 => known' = 0 /\ cursor' = 0 /\ latest' = 0
    BY <1>5 DEF Stop, Start, StartFails, StartClears, Control
  <2> QED
    BY <1>0, <2>1, <2>2 DEF Order
<1>6. ASSUME NEW s \in Sessions, Insert(s)
      PROVE  Order'
  <2> DEFINE f == NewFrame(s)
  <2>1. /\ f.id = inserted + 1 /\ f.seq = latest + 1 /\ f.epoch = starts
        /\ inserted' = inserted + 1 /\ latest' = latest + 1
        /\ UNCHANGED <<LastId, cursor, starts, session, known>>
    BY <1>6 DEF Insert, NewFrame, LastId, main
  <2>2. PICK n \in Nat, d \in Nat :
             /\ Len(q) = n + 1
             /\ q[n + 1] = f
             /\ \A i \in 1 .. n :
                  \/ i < d /\ i \in 1 .. Len(p) /\ q[i] = p[i]
                  \/ d <= i /\ i + 1 \in 1 .. Len(p) /\ q[i] = p[i + 1]
    BY <1>6, InsertElements
  <2>3. \A i, j \in 1 .. Len(p) : i < j => p[i].id < p[j].id /\ p[i].seq < p[j].seq
    BY DEF Order
  <2>4. \A i \in 1 .. Len(p) :
           /\ LastId < p[i].id /\ p[i].id <= inserted
           /\ p[i].seq <= latest
           /\ p[i].epoch = starts
           /\ session # 0 => cursor < p[i].seq
    BY DEF Order
  <2>5. LastId <= inserted /\ (session # 0 => known <= cursor /\ cursor <= latest)
    BY DEF Order
  <2> HIDE DEF p, q, f
  <2>6. ASSUME NEW i \in 1 .. n, NEW j \in 1 .. n, i < j
        PROVE  q[i].id < q[j].id /\ q[i].seq < q[j].seq
    <3>1. PICK a \in 1 .. Len(p) : q[i] = p[a] /\ ((i < d /\ a = i) \/ (d <= i /\ a = i + 1))
      BY <2>2
    <3>2. PICK b \in 1 .. Len(p) : q[j] = p[b] /\ ((j < d /\ b = j) \/ (d <= j /\ b = j + 1))
      BY <2>2
    <3>3. a < b
      BY <2>6, <3>1, <3>2
    <3> QED
      BY <2>3, <3>1, <3>2, <3>3
  <2>7. ASSUME NEW i \in 1 .. n
        PROVE  /\ LastId < q[i].id /\ q[i].id <= inserted
               /\ q[i].seq <= latest
               /\ q[i].epoch = starts
               /\ session # 0 => cursor < q[i].seq
               /\ q[i].id \in Nat /\ q[i].seq \in Nat
    BY <1>0, <2>2, <2>4
  <2>8. /\ LastId < f.id /\ f.id <= inserted'
        /\ f.seq <= latest'
        /\ f.epoch = starts'
        /\ session # 0 => cursor < f.seq
    BY <1>0, <2>1, <2>5
  <2>9. ASSUME NEW i \in 1 .. Len(q), NEW j \in 1 .. Len(q), i < j
        PROVE  q[i].id < q[j].id /\ q[i].seq < q[j].seq
    <3>1. i \in 1 .. n /\ (j \in 1 .. n \/ j = n + 1)
      BY <2>2, <2>9
    <3>2. CASE j \in 1 .. n
      BY <2>6, <2>9, <3>1, <3>2
    <3>3. CASE j = n + 1
      BY <1>0, <2>1, <2>2, <2>7, <3>1, <3>3
    <3> QED
      BY <3>1, <3>2, <3>3
  <2>10. ASSUME NEW i \in 1 .. Len(q)
         PROVE  /\ LastId' < q[i].id /\ q[i].id <= inserted'
                /\ q[i].seq <= latest'
                /\ q[i].epoch = starts'
                /\ session' # 0 => cursor' < q[i].seq
    <3>1. i \in 1 .. n \/ i = n + 1
      BY <2>2
    <3>2. CASE i \in 1 .. n
      BY <1>0, <2>1, <2>7, <3>2
    <3>3. CASE i = n + 1
      BY <2>1, <2>2, <2>8, <3>3
    <3> QED
      BY <3>1, <3>2, <3>3
  <2>11. LastId' <= inserted' /\ (session' # 0 => known' <= cursor' /\ cursor' <= latest')
    BY <1>0, <2>1, <2>5
  <2> QED
    BY <2>9, <2>10, <2>11 DEF Order, q
<1> QED
  BY <1>1, <1>3, <1>4, <1>5, <1>6, PipelineStep

LEMMA OrderHolds == Spec => []Order
<1>1. Init => Order
  <2> SUFFICES ASSUME Init
               PROVE  Order
    OBVIOUS
  <2>1. TypeOK
    BY InvariantInitially DEF IInv
  <2>2. /\ Frames(ready) = <<>> /\ Frames(classified) = <<>> /\ Frames(pending) = <<>>
        /\ InHand("map") = <<>> /\ InHand("dispatch") = <<>> /\ raw = <<>>
    BY <2>1, FramesIsSeq, EmptySeq, QueueTypes DEF Init, InHand
  <2>3. Pipeline = <<>>
    BY <2>2, ConcatEmptySeq, EmptySeq DEF Pipeline, Accepted
  <2> QED
    BY <2>3, EmptySeq DEF Init, Order, LastId
<1>2. IInv /\ IInv' /\ Order /\ [Next]_vars => Order'
  BY OrderStep DEF IInv
<1> QED
  BY <1>1, <1>2, InvariantHolds, PTL DEF Spec

\* What is passed over was left by a session that no longer captures, and none does.
LEMMA PassedOverClosed ==
    ASSUME TypeOK, Order, PassOver
    PROVE  session = 0
<1>1. Pipeline[1] = Head(ready).frame /\ 1 \in 1 .. Len(Pipeline)
  BY TailElements
<1>2. session # 0 => known <= cursor /\ cursor < Pipeline[1].seq
  BY <1>1 DEF Order
<1>3. Pipeline[1].seq <= known
  BY <1>1 DEF PassOver
<1> QED
  BY <1>1, <1>2, <1>3, Numbers

------------------------------------------------------------------------------
(****************************************************************************)
(* The refinement of FrameChannel.                                            *)
(****************************************************************************)

\* Whether the source of the channel is open.
Phase == IF pc = "stopped" THEN "restarting" ELSE IF session = 0 THEN "closed" ELSE "open"

\* The lobby of the channel is the raw queue.
Measured ==
    /\ Pipeline \in Seq(Frame)
    /\ Len(Accepted) \in Nat /\ Len(raw) \in Nat
    /\ Len(Pipeline) = Len(Accepted) + Len(raw)
    /\ Len(Ids(Pipeline)) = Len(Pipeline)

LEMMA PipelineMeasured == TypeOK => Measured
BY AcceptedFirst, QueueTypes, IdsIsSeq DEF Measured

\* What becomes of the oldest frame: it leaves the channel.
LEMMA OldestLeaves ==
    ASSUME TypeOK, Measured, Measured', Deliver \/ PassOver
    PROVE  Channel!Leave /\ Head(Ids(Pipeline)) = Head(ready).frame.id
<1> DEFINE q == Ids(Pipeline)
<1>1. Pipeline # <<>> /\ Head(Pipeline) = Head(ready).frame /\ Pipeline' = Tail(Pipeline)
  BY DeliverTakesOldest
<1>2. q' = Tail(q) /\ Head(q) = Head(ready).frame.id
  <2>1. Pipeline \in Seq(Frame) /\ q' = Ids(Pipeline')
    BY DEF Measured
  <2> QED
    BY <1>1, <2>1, IdsOfTail
<1>3. Len(Accepted') = Len(Accepted) - 1 /\ Len(Accepted) > 0
  <2>1. Len(Pipeline') = Len(Pipeline) - 1
    BY TailElements
  <2>2. raw' = raw
    BY DEF Deliver, PassOver, shared, queues
  <2> QED
    BY <2>1, <2>2 DEF Measured
<1>4. UNCHANGED <<inserted, Phase>>
  BY DEF Deliver, PassOver, past, Phase
<1> QED
  BY <1>2, <1>3, <1>4 DEF Channel!Leave, Phase

\* A delivery hands the oldest frame out, and passing over, which happens only with
\* no session capturing, discards it.  A drain that submits a frame accepts it; an
\* insertion enters one and loses the first that is not accepted when raw is full.
\* Stop closes, Start opens or fails to, and may be refused.  Every other step
\* stutters: the frames in it stay where they are in the pipeline.
LEMMA ChannelStep ==
    ASSUME TypeOK, Control, Order, Measured, Measured', [Next]_vars
    PROVE  [Channel!Next]_(Channel!channel)
<1> DEFINE q == Ids(Pipeline)
<1>0. /\ Pipeline \in Seq(Frame) /\ q' = Ids(Pipeline')
      /\ pc = "stopped" => session = 0
  BY DEF Measured, Control
<1>1. ASSUME Pipeline' = Pipeline, UNCHANGED <<inserted, delivered, session>>,
             SubmitTake \/ raw' = raw,
             StartRefused \/ (pc' = "stopped" <=> pc = "stopped")
      PROVE  [Channel!Next]_(Channel!channel)
  <2>1. q' = q /\ LastId' = LastId
    BY <1>1 DEF LastId
  <2>2. CASE SubmitTake
    <3>1. Len(raw') = Len(raw) - 1 /\ Len(raw) > 0
      <4>1. raw \in Seq(Frame) /\ raw # <<>> /\ raw' = Tail(raw)
        BY <2>2 DEF SubmitTake, CanSubmit, TypeOK
      <4> QED
        BY <4>1, HeadTailProperties, EmptySeq, LenProperties
    <3>2. Len(Accepted') = Len(Accepted) + 1 /\ Len(Accepted) < Len(q)
      BY <1>1, <3>1 DEF Measured
    <3>3. UNCHANGED Phase /\ Phase # "restarting"
      BY <2>2 DEF SubmitTake, Phase
    <3>4. Channel!Accept
      BY <1>1, <2>1, <3>2, <3>3 DEF Channel!Accept, LastId, Phase
    <3> QED
      BY <3>4 DEF Channel!Next
  <2>3. CASE ~SubmitTake
    <3>1. Len(Accepted') = Len(Accepted)
      BY <1>1, <2>3 DEF Measured
    <3>2. CASE StartRefused
      <4>1. Phase = "restarting" /\ Phase' = "closed"
        BY <1>0, <3>2 DEF StartRefused, Phase
      <4>2. Channel!Refuse
        BY <1>1, <2>1, <3>1, <4>1 DEF Channel!Refuse, LastId, Phase
      <4> QED
        BY <4>2 DEF Channel!Next
    <3>3. CASE ~StartRefused
      <4>1. UNCHANGED Phase
        BY <1>1, <3>3 DEF Phase
      <4> QED
        BY <1>1, <2>1, <3>1, <4>1 DEF Channel!channel, LastId, Phase
    <3> QED
      BY <3>2, <3>3
  <2> QED
    BY <2>2, <2>3
<1>2. CASE PassOver
  <2>1. Phase = "closed"
    BY <1>2, PassedOverClosed DEF PassOver, Phase
  <2>2. UNCHANGED delivered
    BY <1>2 DEF PassOver, past
  <2>3. Channel!Discard
    BY <1>2, <2>1, <2>2, OldestLeaves DEF Channel!Discard, Phase
  <2> QED
    BY <2>3 DEF Channel!Next
<1>3. CASE Deliver
  <2>1. LastId' = Head(ready).frame.id
    BY <1>3, LastDelivered DEF LastId, NewDelivery
  <2>2. Phase # "restarting"
    BY <1>3 DEF Deliver, Phase
  <2>3. Channel!HandOut
    BY <1>3, <2>1, <2>2, OldestLeaves DEF Channel!HandOut, LastId, Phase
  <2> QED
    BY <2>3 DEF Channel!Next
<1>4. CASE Stop \/ Start \/ StartFails
  <2>1. Pipeline' = <<>> /\ UNCHANGED <<inserted, delivered>>
    BY <1>4, ClearEmpties DEF Stop, Start, StartFails, past
  <2>2. q' = <<>> /\ Len(Accepted') = 0
    <3>1. q' = <<>>
      BY <1>0, <2>1, IdsIsSeq, EmptySeq
    <3>2. Len(Pipeline') = 0
      BY <2>1, EmptySeq
    <3> QED
      BY <3>1, <3>2 DEF Measured
  <2>3. Channel!Clear
    BY <2>1, <2>2 DEF Channel!Clear
  <2>4. CASE Stop
    <3>1. Phase # "restarting" /\ Phase' = "restarting"
      BY <2>4 DEF Stop, Phase
    <3>2. Channel!Close
      BY <2>3, <3>1 DEF Channel!Close, Phase
    <3> QED
      BY <3>2 DEF Channel!Next
  <2>5. CASE Start \/ StartFails
    <3>1. Phase = "restarting" /\ Phase' \in {"open", "closed"}
      BY <2>5 DEF Start, StartFails, StartClears, Phase
    <3>2. Channel!Open
      BY <2>3, <3>1 DEF Channel!Open, Phase
    <3> QED
      BY <3>2 DEF Channel!Next
  <2> QED
    BY <1>4, <2>4, <2>5
<1>5. ASSUME NEW s \in Sessions, Insert(s)
      PROVE  Channel!Next
  <2>1. /\ NewFrame(s) \in Frame /\ NewFrame(s).id = inserted + 1
        /\ inserted' = inserted + 1 /\ delivered' = delivered
        /\ Len(Accepted') = Len(Accepted) /\ UNCHANGED Phase
    BY <1>5, InsertEnters DEF Insert, NewFrame, main, Phase
  <2> DEFINE k == Len(Accepted) + 1
  <2>2. Channel!LobbyFull <=> Len(raw) >= MaxRaw
    <3>1. Len(q) - Len(Accepted) = Len(raw)
      BY DEF Measured
    <3> QED
      BY <3>1 DEF Channel!LobbyFull
  <2>3. CASE Len(raw) >= MaxRaw
    <3>1. /\ k \in 1 .. Len(Pipeline)
          /\ Pipeline' = Append(Channel!Without(Pipeline, k), NewFrame(s))
      BY <1>5, <2>3, InsertEnters
    <3> HIDE DEF k
    <3>2. Channel!Without(Pipeline, k) \in Seq(Frame)
      BY <1>0, <3>1, WithoutIsSeq
    <3>3. q' = Append(Ids(Channel!Without(Pipeline, k)), inserted + 1)
      BY <1>0, <2>1, <3>1, <3>2, IdsOfAppend
    <3>4. q' = Append(Channel!Without(q, k), inserted + 1)
      BY <1>0, <3>1, <3>3, IdsOfWithout
    <3> QED
      BY <2>1, <2>2, <2>3, <3>4 DEF Channel!Next, Channel!Enter, LastId, Phase, k
  <2>4. CASE ~(Len(raw) >= MaxRaw)
    <3>1. Pipeline' = Append(Pipeline, NewFrame(s))
      BY <1>5, <2>4, InsertEnters
    <3>2. q' = Append(q, inserted + 1)
      BY <1>0, <2>1, <3>1, IdsOfAppend
    <3> QED
      BY <2>1, <2>2, <2>4, <3>2 DEF Channel!Next, Channel!Enter, LastId, Phase
  <2> QED
    BY <2>3, <2>4
<1> QED
  BY <1>1, <1>2, <1>3, <1>4, <1>5, PipelineStep

\* The session implements FrameChannel, for every capacity: whatever the callback,
\* the GPU and the restart do between two stretches of the drain, frames leave in
\* the order they were inserted, none twice, and a frame is lost only as the oldest
\* of a full raw queue, by Stop or Start, or to a cursor while no session captures
\* (OnFrameArrived, SubmitQueuedSignatures, CollectCompletedSignatures, Stop, Start).
THEOREM SessionIsChannel == Spec => IsChannel
<1>1. Init => Channel!Init
  <2> SUFFICES ASSUME Init
               PROVE  Channel!Init
    OBVIOUS
  <2>1. TypeOK
    BY InvariantInitially DEF IInv
  <2>2. /\ Frames(ready) = <<>> /\ Frames(classified) = <<>> /\ Frames(pending) = <<>>
        /\ InHand("map") = <<>> /\ InHand("dispatch") = <<>> /\ raw = <<>>
    BY <2>1, FramesIsSeq, EmptySeq, QueueTypes DEF Init, InHand
  <2>3. Pipeline = <<>>
    BY <2>2, ConcatEmptySeq, EmptySeq DEF Pipeline, Accepted
  <2>4. Ids(Pipeline) = <<>>
    BY <2>3, IdsIsSeq, EmptySeq
  <2>5. <<>> \o <<>> = <<>> /\ Len(<<>>) = 0
    BY EmptySeq, ConcatEmptySeq
  <2>6. Len(Accepted) = 0
    BY <2>2, <2>5 DEF Accepted
  <2> QED
    BY <2>4, <2>6 DEF Init, Channel!Init
<1>2. IInv => Measured
  BY PipelineMeasured DEF IInv
<1>3. IInv /\ Order /\ Measured /\ Measured' /\ [Next]_vars => [Channel!Next]_(Channel!channel)
  BY ChannelStep DEF IInv
<1> QED
  BY <1>1, <1>2, <1>3, InvariantHolds, OrderHolds, PTL DEF Spec, IsChannel, Channel!Spec

\* The frames inside the session are in the order in which OnFrameArrived inserted
\* them, and all of them are newer than the one handed on last.
THEOREM FramesLeaveInOrder == Spec => []Channel!InOrder
<1>1. IInv /\ Order => Channel!InOrder
  <2> SUFFICES ASSUME IInv, Order
               PROVE  Channel!InOrder
    OBVIOUS
  <2> DEFINE q == Ids(Pipeline)
  <2>1. /\ q \in Seq(Nat) /\ Len(q) = Len(Pipeline) /\ DOMAIN q = 1 .. Len(q)
        /\ \A i \in 1 .. Len(Pipeline) : q[i] = Pipeline[i].id
    BY QueueTypes, IdsIsSeq, LenProperties DEF IInv
  <2> HIDE DEF q
  <2>2. /\ \A i, j \in DOMAIN q : i < j => q[i] < q[j]
        /\ \A i \in DOMAIN q : LastId < q[i] /\ q[i] <= inserted
        /\ LastId <= inserted
    BY <2>1 DEF Order
  <2> QED
    BY <2>2 DEF q, Channel!InOrder, LastId
<1> QED
  BY <1>1, InvariantHolds, OrderHolds, PTL

\* DrainClassifiedFramesAfter never passes over a frame of the session that is
\* capturing.  Sequence numbers start again with every Start: it is the reset of
\* the consumer's cursor in main.cpp that keeps it behind every frame inside, and
\* the order of the pipeline that keeps it there as it moves.
THEOREM CursorNeverHidesAFrame == Spec => CursorNeverHides
<1>1. IInv /\ Order /\ [Next]_vars => [PassOver => Head(ready).frame.session # session]_vars
  <2> SUFFICES ASSUME IInv, Order, PassOver
               PROVE  Head(ready).frame.session # session
    OBVIOUS
  <2>1. session = 0
    BY PassedOverClosed DEF IInv
  <2>2. Head(ready).frame \in Frame
    <3>1. ready # <<>> /\ TypeOK
      BY DEF PassOver, IInv
    <3> QED
      BY <3>1, DeliveryType
  <2>3. Head(ready).frame.session \in Sessions /\ 0 \notin Sessions
    BY <2>2, CaptureAssumption DEF Frame, Sessions, CaptureAssumption
  <2> QED
    BY <2>1, <2>3
<1> QED
  BY <1>1, InvariantHolds, OrderHolds, PTL DEF Spec, CursorNeverHides

------------------------------------------------------------------------------
(****************************************************************************)
(* The duplicate flags.                                                       *)
(****************************************************************************)

\* The frames classified and not yet delivered.
Recent == IF pc = "deliver" THEN ready ELSE classified

\* What the consumer shows, if it belongs to the present Start.
Shown ==
    IF delivered # <<>> /\ delivered[Len(delivered)].frame.epoch = starts
    THEN delivered[Len(delivered)].frame.image
    ELSE None

\* Every frame is marked a duplicate exactly when it shows what came before it.
Marked(r, shown) ==
    \A i \in 1 .. Len(r) :
        r[i].duplicate <=> (IF i = 1 THEN shown ELSE r[i - 1].frame.image) = r[i].frame.image

LastImage(r, shown) == IF r = <<>> THEN shown ELSE r[Len(r)].frame.image

\* The frames classified are marked against each other, the first of them against
\* what the consumer shows, and the signature kept is that of the last of them.
Chain ==
    /\ \A i \in 1 .. Len(delivered) : delivered[i].frame.epoch <= starts
    /\ session # 0 => Marked(Recent, Shown) /\ last_unique = LastImage(Recent, Shown)

\* After a delivery the newest is last, and the one before it was last.
LEMMA Remembered ==
    ASSUME TypeOK, Control, Deliver
    PROVE  /\ Len(delivered') \in 1 .. 2
           /\ delivered'[Len(delivered')] = NewDelivery
           /\ Len(delivered') = 2 => /\ delivered # <<>>
                                     /\ delivered'[1] = delivered[Len(delivered)]
           /\ Len(delivered') = 2 => Len(delivered) \in 1 .. Len(delivered)
<1>1. delivered \in Seq(Delivery) /\ NewDelivery \in Delivery /\ Len(delivered) \in 0 .. 2
  <2>1. delivered \in Seq(Delivery) /\ NewDelivery \in Delivery
    BY LastDelivered
  <2>2. Len(delivered) \in Nat
    BY <2>1, LenProperties
  <2>3. Len(delivered) <= 2
    BY DEF Control
  <2>4. \A n \in Nat : n <= 2 => n \in 0 .. 2
    OBVIOUS
  <2> QED
    BY <2>1, <2>2, <2>3, <2>4, Zenon
<1> DEFINE kept == IF Len(delivered) = 2 THEN Tail(delivered) ELSE delivered
<1>2. delivered' = Append(kept, NewDelivery)
  BY DeliveryType DEF Deliver
<1>3. /\ kept \in Seq(Delivery) /\ Len(kept) \in 0 .. 1
      /\ Len(kept) = 1 => Len(delivered) \in 1 .. 2 /\ kept[1] = delivered[Len(delivered)]
  <2>1. CASE Len(delivered) = 2
    <3>1. delivered # <<>>
      BY <2>1, EmptySeq
    <3>2. /\ Tail(delivered) \in Seq(Delivery) /\ Len(Tail(delivered)) = 1
          /\ Tail(delivered)[1] = delivered[2]
      BY <1>1, <2>1, <3>1, HeadTailProperties
    <3>3. kept = Tail(delivered)
      BY <2>1
    <3>4. /\ Len(kept) = 1 /\ kept \in Seq(Delivery)
          /\ kept[1] = delivered[Len(delivered)]
      BY <2>1, <3>2, <3>3, Zenon
    <3> HIDE DEF kept
    <3> QED
      BY <2>1, <3>4
  <2>2. CASE Len(delivered) # 2
    <3>1. kept = delivered
      BY <2>2
    <3>2. Len(delivered) \in 0 .. 1
      BY <1>1, <2>2
    <3> HIDE DEF kept
    <3> QED
      BY <1>1, <3>1, <3>2
  <2> QED
    BY <2>1, <2>2
<1> HIDE DEF kept
<1>4. /\ Len(delivered') = Len(kept) + 1 /\ delivered'[Len(kept) + 1] = NewDelivery
      /\ \A i \in 1 .. Len(kept) : delivered'[i] = kept[i]
  BY <1>1, <1>2, <1>3, AppendProperties
<1>5. Len(delivered') = 2 => Len(kept) = 1 /\ delivered # <<>>
  <2>1. Len(delivered) \in 1 .. 2 => delivered # <<>>
    BY EmptySeq
  <2>2. Len(delivered') = 2 => Len(kept) = 1
    BY <1>3, <1>4
  <2> QED
    BY <1>3, <2>1, <2>2, Zenon
<1> QED
  BY <1>3, <1>4, <1>5

\* The frame delivered is marked against what the consumer shows.
LEMMA FirstIsMarked ==
    ASSUME TypeOK, Order, Chain, Deliver, session # 0
    PROVE  /\ NewDelivery.duplicate <=> Shown = NewDelivery.frame.image
           /\ NewDelivery.frame.epoch = starts
<1>1. Pipeline[1] = Head(ready).frame /\ 1 \in 1 .. Len(Pipeline)
  BY TailElements
<1>2. Head(ready).frame.epoch = starts
  BY <1>1 DEF Order
<1>3. ready # <<>> /\ ready \in Seq(Classified) /\ Recent = ready
  BY DEF Deliver, TypeOK, Recent
<1>4. Head(ready) = ready[1] /\ 1 \in 1 .. Len(ready)
  BY <1>3, EmptySeq, LenProperties
<1>5. ready[1].duplicate <=> Shown = ready[1].frame.image
  BY <1>3, <1>4 DEF Chain, Marked
<1> QED
  BY <1>2, <1>4, <1>5 DEF NewDelivery

\* No delivery is of a later Start.
LEMMA EpochStep ==
    ASSUME TypeOK, Control, Order, Chain, [Next]_vars
    PROVE  \A i \in 1 .. Len(delivered') : delivered'[i].frame.epoch <= starts'
<1>0. /\ starts \in Nat /\ delivered \in Seq(Delivery)
      /\ \A i \in 1 .. Len(delivered) :
             delivered[i].frame.epoch \in Nat /\ delivered[i].frame.epoch <= starts
  <2>1. starts \in Nat /\ delivered \in Seq(Delivery)
    BY CaptureAssumption DEF TypeOK, Delivery, Sessions, CaptureAssumption
  <2>2. \A i \in 1 .. Len(delivered) : delivered[i] \in Delivery
    BY <2>1, ElementOfSeq
  <2> QED
    BY <2>1, <2>2 DEF Chain, Delivery, Frame
<1>1. CASE delivered' = delivered /\ starts' \in {starts, starts + 1}
  BY <1>0, <1>1
<1>2. CASE Deliver
  <2>1. Head(ready).frame.epoch = starts
    <3>1. Pipeline[1] = Head(ready).frame /\ 1 \in 1 .. Len(Pipeline)
      BY <1>2, TailElements
    <3> QED
      BY <3>1 DEF Order
  <2>2. NewDelivery.frame.epoch = starts /\ starts' = starts
    BY <1>2, <2>1 DEF NewDelivery, Deliver
  <2>3. ASSUME NEW i \in 1 .. Len(delivered')
        PROVE  delivered'[i].frame.epoch <= starts
    <3>1. CASE i = Len(delivered')
      BY <1>0, <1>2, <2>2, <3>1, Remembered
    <3>2. CASE i # Len(delivered')
      <4>1. Len(delivered') = 2 /\ i = 1
        BY <1>2, <3>2, Remembered
      <4> QED
        BY <1>0, <1>2, <4>1, Remembered
    <3> QED
      BY <3>1, <3>2
  <2> QED
    BY <2>2, <2>3
<1>3. CASE PassOver
  BY <1>1, <1>3 DEF PassOver, past
<1>4. CASE Stop \/ Start \/ StartFails
  BY <1>1, <1>4 DEF Stop, Start, StartFails, StartClears, past
<1>5. ASSUME NEW s \in Sessions, Insert(s)
      PROVE  delivered' = delivered /\ starts' = starts
  BY <1>5 DEF Insert, main
<1> QED
  BY <1>1, <1>2, <1>3, <1>4, <1>5, PipelineStep

\* The steps that leave the frames classified as they are.
LEMMA OthersKeepMarks ==
    ASSUME TypeOK, Control, [Next]_vars, ~Classify, ~Deliver, ~PassOver, ~Start, session' # 0
    PROVE  session' = session /\ UNCHANGED <<Recent, Shown, last_unique>>
<1> USE DEF Recent, Shown, shared, queues, main, past, vars
<1>1. CASE Wake \/ SubmitTake \/ SubmitPut \/ SubmitEnd
  BY <1>1 DEF Wake, SubmitTake, SubmitPut, SubmitEnd
<1>2. CASE CollectTake \/ StillDrawing \/ CollectEnd
  BY <1>2 DEF CollectTake, StillDrawing, CollectEnd
<1>3. CASE Swap
  BY <1>3 DEF Swap
<1>4. CASE DrainEnd
  BY <1>4 DEF DrainEnd, Control
<1>5. CASE Callback
  BY <1>5 DEF Callback, Arrive, Insert, Signal, Fail
<1>6. CASE GpuCompletes \/ UNCHANGED vars
  BY <1>6 DEF GpuCompletes
<1>7. CASE Stop \/ StartFails \/ StartRefused
  BY <1>7 DEF Stop, StartFails, StartClears, StartRefused, Control
<1> QED
  BY <1>1, <1>2, <1>3, <1>4, <1>5, <1>6, <1>7 DEF Next, Drain, Restart

\* The frame mapped becomes the newest classified.
LEMMA ClassifyKeepsMarks ==
    ASSUME TypeOK, Classify, Marked(Recent, Shown), last_unique = LastImage(Recent, Shown)
    PROVE  Marked(Recent, Shown)' /\ last_unique' = LastImage(Recent, Shown)'
<1> DEFINE r == classified
           c == [frame |-> hand, duplicate |-> last_unique = hand.image]
<1>1. /\ r \in Seq(Classified) /\ Len(r) \in Nat /\ Recent = r /\ hand \in Frame
      /\ Recent' = Append(r, c) /\ Shown' = Shown /\ last_unique' = hand.image
  <2>1. r \in Seq(Classified) /\ hand \in Frame
    BY DEF Classify, TypeOK
  <2>2. Len(r) \in Nat
    BY <2>1, LenProperties
  <2>3. /\ Recent = r /\ Recent' = Append(r, c) /\ last_unique' = hand.image
    BY DEF Classify, Recent
  <2>4. Shown' = Shown
    BY DEF Classify, Shown, past
  <2> QED
    BY <2>1, <2>2, <2>3, <2>4
<1>2. c \in Classified
  <2>1. \A d \in BOOLEAN : [frame |-> hand, duplicate |-> d] \in Classified
    BY <1>1 DEF Classified
  <2>2. (last_unique = hand.image) \in BOOLEAN
    BY Zenon
  <2> QED
    BY <2>1, <2>2, Zenon
<1>3. c.frame = hand /\ (c.duplicate <=> last_unique = hand.image)
  OBVIOUS
<1> DEFINE t == Append(r, c)
<1> HIDE DEF c
<1>4. /\ t # <<>> /\ Len(t) = Len(r) + 1 /\ t[Len(r) + 1] = c
      /\ \A i \in 1 .. Len(r) : t[i] = r[i]
  BY <1>1, <1>2, AppendProperties
<1> HIDE DEF t, r
<1>5. last_unique = IF Len(r) = 0 THEN Shown ELSE r[Len(r)].frame.image
  BY <1>1, EmptySeq DEF LastImage
<1>6. ASSUME NEW i \in 1 .. Len(t)
      PROVE  t[i].duplicate <=> (IF i = 1 THEN Shown ELSE t[i - 1].frame.image) = t[i].frame.image
  <2>1. CASE i = Len(r) + 1
    <3>1. t[i] = c /\ (i # 1 => t[i - 1] = r[Len(r)] /\ Len(r) # 0) /\ (i = 1 => Len(r) = 0)
      BY <1>1, <1>4, <2>1
    <3> QED
      BY <1>3, <1>5, <3>1
  <2>2. CASE i # Len(r) + 1
    <3>1. i \in 1 .. Len(r) /\ (i # 1 => i - 1 \in 1 .. Len(r))
      BY <1>1, <1>4, <2>2
    <3>2. r[i].duplicate
            <=> (IF i = 1 THEN Shown ELSE r[i - 1].frame.image) = r[i].frame.image
      <4>1. Marked(r, Shown)
        BY <1>1, Zenon
      <4> QED
        BY <3>1, <4>1, Zenon DEF Marked
    <3>3. t[i] = r[i] /\ (i # 1 => t[i - 1] = r[i - 1])
      BY <1>4, <3>1, Zenon
    <3> QED
      BY <3>2, <3>3, Zenon
  <2> QED
    BY <2>1, <2>2
<1>7. Marked(Recent, Shown)'
  BY <1>1, <1>6 DEF Marked, t
<1>8. last_unique' = LastImage(t, Shown)
  BY <1>1, <1>3, <1>4 DEF LastImage
<1> QED
  BY <1>1, <1>7, <1>8 DEF t

LEMMA DeliverKeepsMarks ==
    ASSUME TypeOK, Order, Chain, Deliver, session # 0
    PROVE  Marked(Recent, Shown)' /\ last_unique' = LastImage(Recent, Shown)'
<1> DEFINE t == Tail(ready)
<1>1. /\ ready \in Seq(Classified) /\ ready # <<>> /\ Recent = ready
      /\ Recent' = t /\ starts' = starts /\ last_unique' = last_unique
  BY DEF Deliver, TypeOK, Recent, shared
<1>2. /\ t \in Seq(Classified) /\ Len(t) = Len(ready) - 1 /\ Len(ready) \in Nat /\ Len(ready) > 0
      /\ \A i \in 1 .. Len(ready) - 1 : t[i] = ready[i + 1]
      /\ Head(ready) = ready[1]
      /\ t = <<>> <=> Len(ready) = 1
  <2>1. t = <<>> <=> Len(t) = 0
    BY <1>1, HeadTailProperties, EmptySeq
  <2>2. /\ t \in Seq(Classified) /\ Len(t) = Len(ready) - 1 /\ Len(ready) \in Nat
        /\ Len(ready) > 0
        /\ \A i \in 1 .. Len(ready) - 1 : t[i] = ready[i + 1]
        /\ Head(ready) = ready[1]
    BY <1>1, HeadTailProperties, EmptySeq, LenProperties
  <2> HIDE DEF t
  <2> QED
    BY <2>1, <2>2
<1>3. Shown' = ready[1].frame.image
  <2>1. /\ delivered' # <<>> /\ delivered'[Len(delivered')] = NewDelivery
        /\ NewDelivery.frame.epoch = starts
    BY LastDelivered, FirstIsMarked
  <2> QED
    BY <1>1, <1>2, <2>1 DEF Shown, NewDelivery
<1>4. Marked(ready, Shown) /\ last_unique = LastImage(ready, Shown)
  BY <1>1 DEF Chain
<1> HIDE DEF t
<1>5. ASSUME NEW i \in 1 .. Len(t)
      PROVE  t[i].duplicate
               <=> (IF i = 1 THEN ready[1].frame.image ELSE t[i - 1].frame.image) = t[i].frame.image
  <2>1. /\ i + 1 \in 1 .. Len(ready) /\ i + 1 # 1 /\ (i + 1) - 1 = i /\ t[i] = ready[i + 1]
        /\ i # 1 => t[i - 1] = ready[i]
    <3>1. /\ i \in 1 .. Len(ready) - 1 /\ i + 1 \in 1 .. Len(ready) /\ i + 1 # 1
          /\ (i + 1) - 1 = i /\ (i - 1) + 1 = i
          /\ i # 1 => i - 1 \in 1 .. Len(ready) - 1
      <4>1. Len(t) = Len(ready) - 1 /\ Len(ready) \in Nat
        BY <1>2
      <4> QED
        BY <4>1
    <3>2. \A j \in 1 .. Len(ready) - 1 : t[j] = ready[j + 1]
      BY <1>2
    <3>3. i # 1 => t[i - 1] = ready[(i - 1) + 1]
      BY <3>1, <3>2, Zenon
    <3> QED
      BY <3>1, <3>2, <3>3, Zenon
  <2>2. ready[i + 1].duplicate <=> ready[i].frame.image = ready[i + 1].frame.image
    BY <1>4, <2>1 DEF Marked
  <2> QED
    BY <2>1, <2>2
<1>6. Marked(t, ready[1].frame.image)
  BY <1>5 DEF Marked
<1>7. last_unique = LastImage(t, ready[1].frame.image)
  <2>1. last_unique = ready[Len(ready)].frame.image
    BY <1>1, <1>4 DEF LastImage
  <2>2. CASE t = <<>>
    BY <1>2, <2>1, <2>2 DEF LastImage
  <2>3. CASE t # <<>>
    <3>1. Len(t) \in 1 .. Len(ready) - 1 /\ Len(t) + 1 = Len(ready)
      BY <1>2, <2>3
    <3> QED
      BY <1>2, <2>1, <2>3, <3>1 DEF LastImage
  <2> QED
    BY <2>2, <2>3
<1> QED
  BY <1>1, <1>3, <1>6, <1>7

LEMMA ChainStep ==
    ASSUME TypeOK, Control, Order, Chain, [Next]_vars
    PROVE  Chain'
<1>1. \A i \in 1 .. Len(delivered') : delivered'[i].frame.epoch <= starts'
  BY EpochStep
<1>2. ASSUME session' # 0
      PROVE  Marked(Recent, Shown)' /\ last_unique' = LastImage(Recent, Shown)'
  <2>1. CASE Classify
    BY <1>2, <2>1, ClassifyKeepsMarks DEF Classify, Chain
  <2>2. CASE Deliver
    BY <1>2, <2>2, DeliverKeepsMarks DEF Deliver
  <2>3. CASE PassOver
    <3>1. /\ session' = session /\ ready # <<>> /\ Head(ready).frame.seq <= known
      BY <2>3 DEF PassOver
    <3>2. Pipeline[1] = Head(ready).frame /\ 1 \in 1 .. Len(Pipeline)
      BY <2>3, TailElements
    <3>3. FALSE
      BY <1>2, <3>1, <3>2, Numbers DEF Order
    <3> QED
      BY <3>3
  <2>4. CASE Start
    <3>1. Recent' = <<>> /\ last_unique' = None /\ starts' = starts + 1 /\ delivered' = delivered
      BY <2>4 DEF Start, StartClears, Recent, Control, past
    <3>2. Shown' = None
      <4>1. starts \in Nat /\ delivered \in Seq(Delivery)
        BY CaptureAssumption DEF TypeOK, Delivery, Sessions, CaptureAssumption
      <4>2. delivered # <<>> => /\ delivered[Len(delivered)].frame.epoch <= starts
                                /\ delivered[Len(delivered)].frame.epoch \in Nat
        <5>1. delivered # <<>> => Len(delivered) \in 1 .. Len(delivered)
          BY <4>1, EmptySeq, LenProperties
        <5>2. delivered # <<>> => delivered[Len(delivered)] \in Delivery
          BY <4>1, <5>1, ElementOfSeq
        <5> QED
          BY <5>1, <5>2 DEF Chain, Delivery, Frame
      <4> QED
        BY <3>1, <4>1, <4>2 DEF Shown
    <3> QED
      BY <3>1, <3>2, EmptySeq DEF Marked, LastImage
  <2>5. CASE ~Classify /\ ~Deliver /\ ~PassOver /\ ~Start
    BY <1>2, <2>5, OthersKeepMarks DEF Chain
  <2> QED
    BY <2>1, <2>2, <2>3, <2>4, <2>5
<1> QED
  BY <1>1, <1>2 DEF Chain

LEMMA DuplicatesStep ==
    ASSUME TypeOK, Control, Order, Chain, DuplicatesExact, [Next]_vars
    PROVE  DuplicatesExact'
<1>1. CASE delivered' = delivered
  BY <1>1 DEF DuplicatesExact
<1>2. CASE Deliver
  <2>1. /\ Len(delivered') \in 1 .. 2 /\ delivered'[Len(delivered')] = NewDelivery
        /\ Len(delivered') = 2 => delivered # <<>> /\ delivered'[1] = delivered[Len(delivered)]
    BY <1>2, Remembered
  <2>2. ASSUME NEW i \in 2 .. Len(delivered'), delivered'[i].capturing
        PROVE  delivered'[i].duplicate
                 <=> /\ delivered'[i - 1].frame.epoch = delivered'[i].frame.epoch
                     /\ delivered'[i - 1].frame.image = delivered'[i].frame.image
    <3>1. /\ i = 2 /\ delivered'[i] = NewDelivery
          /\ delivered # <<>> /\ delivered'[i - 1] = delivered[Len(delivered)]
      BY <2>1
    <3>2. session # 0
      <4>1. NewDelivery.capturing = (session # 0)
        BY DEF NewDelivery
      <4> QED
        BY <2>2, <3>1, <4>1, Zenon
    <3>3. /\ NewDelivery.duplicate <=> Shown = NewDelivery.frame.image
          /\ NewDelivery.frame.epoch = starts
      BY <1>2, <3>2, FirstIsMarked
    <3>4. NewDelivery.frame.image # None
      BY <1>2, LastDelivered, CaptureAssumption DEF Delivery, Frame, CaptureAssumption
    <3> QED
      BY <3>1, <3>3, <3>4 DEF Shown
  <2> QED
    BY <2>2 DEF DuplicatesExact
<1>3. CASE ~Deliver
  <2>1. delivered' = delivered
    <3>1. CASE PassOver \/ Stop \/ Start \/ StartFails
      BY <3>1 DEF PassOver, Stop, Start, StartFails, past
    <3>2. ASSUME NEW s \in Sessions, Insert(s)
          PROVE  delivered' = delivered
      BY <3>2 DEF Insert
    <3> QED
      BY <1>3, <3>1, <3>2, PipelineStep
  <2> QED
    BY <1>1, <2>1
<1> QED
  BY <1>2, <1>3

\* Duplicate flags are exact (CollectCompletedSignatures against Start): between
\* two frames handed on by a capturing session, the later one is marked exactly when
\* both belong to the same Start and show the same image, however many frames were
\* in flight between the comparison and the delivery.
THEOREM DuplicatesAreExact == Spec => []DuplicatesExact
<1>1. Init => Chain /\ DuplicatesExact
  BY EmptySeq DEF Init, Chain, DuplicatesExact, Recent, Shown, Marked, LastImage
<1>2. IInv /\ Order /\ Chain /\ DuplicatesExact /\ [Next]_vars => Chain' /\ DuplicatesExact'
  BY ChainStep, DuplicatesStep DEF IInv
<1> QED
  BY <1>1, <1>2, InvariantHolds, OrderHolds, PTL DEF Spec
==============================================================================

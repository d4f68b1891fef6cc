------------------------------ MODULE GpuTiming ------------------------------
(****************************************************************************)
(* GpuTimestampCollector of src/src/gpu_timing.cpp: a ring of timestamp queries *)
(* that measures a stretch of GPU work without waiting for it.  A collector   *)
(* is a record and every operation a function on it.  A measurement is known  *)
(* by its number, and the milliseconds it yields are left out.                *)
(****************************************************************************)
EXTENDS Integers, Sequences, FiniteSets

CONSTANTS
    QueryCapacity,   \* Queries of the ring, query_capacity.
    SampleWindow     \* kSampleWindow

ASSUME GpuTimingAssumption ==
    /\ QueryCapacity \in Nat \ {0}
    /\ SampleWindow \in Nat \ {0}

Slots == 1..QueryCapacity

\* In a slot: nothing is pending.
Idle == 0

\* pending holds, for each slot, the measurement that is in flight; the last
\* two fields are history.
NewCollector ==
    [pending |-> [q \in Slots |-> Idle],   \* queries_
     active |-> Idle,                      \* active_query_
     cancelled |-> {},                     \* Pending ones with cancelled set.
     samples |-> <<>>,                     \* samples_
     begun |-> 0,                          \* Measurements begun.
     collected |-> {}]                     \* Measurements with a result read.

\* Slots in the order of the ring.
InOrder(slots) ==
    CHOOSE s \in [1..Cardinality(slots) -> slots] : \A i, j \in DOMAIN s : i < j => s[i] < s[j]

\* The measurements of some slots that were not cancelled, in that order.
Read(c, slots) ==
    LET kept == {q \in slots : c.pending[q] \notin c.cancelled}
    IN  [i \in 1..Cardinality(kept) |-> c.pending[InOrder(kept)[i]]]

\* Mutation of Poll that reads a finished slot and forgets to free it.
PollKeepsSlot(c, ready, spoiled) ==
    LET grown == c.samples \o Read(c, ready \ spoiled)
        over == IF Len(grown) > SampleWindow THEN Len(grown) - SampleWindow ELSE 0
    IN  [c EXCEPT !.samples = SubSeq(grown, over + 1, Len(grown)),
                  !.collected = @ \cup {c.pending[q] : q \in ready}]

\* Slots in ready have their results.  They are read in the order of the slots
\* and freed; a cancelled measurement, and one the GPU reports as failed or
\* disjoint, leaves no sample, and the window keeps the newest samples.
Poll(c, ready, spoiled) ==
    LET grown == c.samples \o Read(c, ready \ spoiled)
        over == IF Len(grown) > SampleWindow THEN Len(grown) - SampleWindow ELSE 0
    IN  [c EXCEPT !.pending = [q \in Slots |-> IF q \in ready THEN Idle ELSE @[q]],
                  !.samples = SubSeq(grown, over + 1, Len(grown)),
                  !.cancelled = @ \ {c.pending[q] : q \in ready},
                  !.collected = @ \cup {c.pending[q] : q \in ready}]

\* The slots whose results can be there: the GPU works in order, so those of
\* the oldest measurements.
ReadySets(c) ==
    {r \in SUBSET {q \in Slots : c.pending[q] # Idle} :
        \A q \in r, p \in Slots \ r :
            c.pending[p] # Idle => c.pending[q] < c.pending[p]}

\* Begin after its Poll: the first slot that is not pending, or no measurement.
Begin(c) ==
    LET free == {q \in Slots : c.pending[q] = Idle}
    IN  IF c.active # Idle \/ free = {} THEN c
        ELSE [c EXCEPT !.active = CHOOSE q \in free : \A p \in free : q <= p,
                       !.begun = @ + 1]

End(c) ==
    IF c.active = Idle THEN c
    ELSE [c EXCEPT !.pending[c.active] = c.begun, !.active = Idle]

Cancel(c) ==
    IF c.active = Idle THEN c
    ELSE [c EXCEPT !.pending[c.active] = c.begun, !.active = Idle,
                   !.cancelled = @ \cup {c.begun}]

==============================================================================

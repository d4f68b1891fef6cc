------------------------- MODULE ShaderCacheProofs -------------------------
(*****************************************************************************)
(* Proofs about ShaderCache: the files and the answers of a batch are right  *)
(* for any number of processes, workers and shaders.                         *)
(*                                                                           *)
(* A worker is one of many that step in any order, so the invariant says of  *)
(* each what its place means (Placed) and of any two of a process that they  *)
(* never have the same request in hand (Distinct).  With the process in the  *)
(* name (NamesDiffer), no two workers of any process write one temporary     *)
(* file, and what a worker wrote whole is still whole when it is moved.      *)
(* Every step of a worker is shown to leave the others alone (Works) and to  *)
(* answer only its own request (Replies); WorkerKeeps then does the rest once*)
(* for all of them.                                                          *)
(*****************************************************************************)
EXTENDS ShaderCache, WellFoundedInduction, TLAPS

\* A file is there whole, or torn, or not at all.
FileStates == {"none", "whole", "torn"}

Places == {"take", "open", "read", "compile", "create", "write", "move", "joined"}

WorkerSet == [at : Places, index : Batch \cup {0}, wrote : BOOLEAN]

BatchSet == [status : {"idle", "running", "ended", "killed"}, next : Nat \ {0},
             results : [Batch -> FileStates], failed : SUBSET Batch, thrown : Nat]

\* The type invariant.
CacheTypeOK ==
    /\ broken \in SUBSET Shaders
    /\ cached \in [Shaders -> FileStates]
    /\ temporary \in [TempNames -> FileStates]
    /\ batch \in [Processes -> BatchSet]
    /\ worker \in [Processes -> [Workers -> WorkerSet]]
    /\ starts \in Nat
    /\ io_failures \in Nat

\* The worker has a request in hand.
Busy(k) == k.at \notin {"take", "joined"}

\* What the place of worker w of process p says about its request, the files and
\* the batch.
Placed(p, w) ==
    LET k == worker[p][w] IN
    /\ k.at # "take" => batch[p].status = "running"
    /\ k.at = "joined" => batch[p].next > Len(Requests)
    /\ Busy(k) => k.index \in Batch /\ k.index < batch[p].next
    /\ k.at = "read" => cached[Requests[k.index]] = "whole"
    /\ k.at \in {"create", "write", "move"} => Requests[k.index] \notin broken
    /\ k.wrote => k.at = "move" /\ temporary[TempName(p, Requests[k.index])] = "whole"

Placement == \A p \in Processes, w \in Workers : Placed(p, w)

\* No two workers of a process have the same request in hand, so no two of any
\* process write one temporary file.
Distinct ==
    \A p \in Processes, w, v \in Workers :
        Busy(worker[p][w]) /\ Busy(worker[p][v]) /\ worker[p][w].index = worker[p][v].index
            => w = v

\* Only what was compiled is ever cached.
Cached == \A s \in Shaders : cached[s] \in {"none"} \cup (IF s \in broken THEN {} ELSE {"whole"})

\* A result is whole bytecode of a shader that compiles, and a failure is one
\* that does not.
Answered(p, i) ==
    /\ batch[p].results[i] \in {"none"} \cup (IF Requests[i] \in broken THEN {} ELSE {"whole"})
    /\ i \in batch[p].failed => Requests[i] \in broken

\* A request that was taken is in the hand of a worker, answered or failed.
Settled(p, i) == batch[p].results[i] = "whole" \/ i \in batch[p].failed

Taken(p, i) ==
    /\ batch[p].status = "running" /\ i < batch[p].next =>
           Settled(p, i) \/ \E w \in Workers : Busy(worker[p][w]) /\ worker[p][w].index = i
    /\ batch[p].status = "ended" => Settled(p, i)

Batches ==
    \A p \in Processes :
        /\ \A i \in Batch : Answered(p, i) /\ Taken(p, i)
        /\ batch[p].status = "ended" => batch[p].thrown = Reported(batch[p].failed)

IInv == CacheTypeOK /\ Placement /\ Distinct /\ Cached /\ Batches

------------------------------------------------------------------------------
(****************************************************************************)
(* What a step does to one worker and one batch.                              *)
(****************************************************************************)

WorkerType == [Processes -> [Workers -> WorkerSet]]
BatchType == [Processes -> BatchSet]

\* Worker w of process p changes, and no other.
Others(p, w) ==
    \A q \in Processes, v \in Workers : q # p \/ v # w => worker'[q][v] = worker[q][v]

\* One worker is set, and the others stay.
LEMMA SetWorker ==
    ASSUME worker \in WorkerType, NEW p \in Processes, NEW w \in Workers, NEW x \in WorkerSet,
           worker' = [worker EXCEPT ![p][w] = x]
    PROVE  worker' \in WorkerType /\ worker'[p][w] = x /\ Others(p, w)
BY DEF WorkerType, Others

\* The fields of a worker.
LEMMA WorkerFields ==
    ASSUME worker \in WorkerType, NEW p \in Processes, NEW w \in Workers
    PROVE  /\ worker[p][w] \in WorkerSet
           /\ worker[p][w].at \in Places /\ worker[p][w].index \in Batch \cup {0}
           /\ worker[p][w].wrote \in BOOLEAN
BY DEF WorkerType, WorkerSet

\* A worker that waits.
LEMMA WaitingIsWorker == Waiting \in WorkerSet /\ Waiting.at = "take" /\ ~Waiting.wrote
<1>1. FALSE \in BOOLEAN
  OBVIOUS
<1>2. \A b \in BOOLEAN : [at |-> "take", index |-> 0, wrote |-> b] \in WorkerSet
  BY DEF WorkerSet, Places
<1> QED
  BY <1>1, <1>2, Zenon DEF Waiting

\* Going to another place keeps the request and what was written.
LEMMA GotoEffect ==
    ASSUME worker \in WorkerType, NEW p \in Processes, NEW w \in Workers, NEW at \in Places,
           Goto(p, w, at)
    PROVE  /\ worker' \in WorkerType /\ Others(p, w)
           /\ worker'[p][w].at = at /\ worker'[p][w].index = worker[p][w].index
           /\ worker'[p][w].wrote = worker[p][w].wrote
<1> DEFINE x == [worker[p][w] EXCEPT !.at = at]
<1>1. x \in WorkerSet /\ x.at = at /\ x.index = worker[p][w].index
      /\ x.wrote = worker[p][w].wrote
  BY WorkerFields DEF WorkerSet
<1>2. worker' = [worker EXCEPT ![p][w] = x]
  BY DEF Goto
<1> HIDE DEF x
<1> QED
  BY <1>1, <1>2, SetWorker

\* An answer ends the request.
LEMMA AnswerEffect ==
    ASSUME worker \in WorkerType, batch \in BatchType,
           NEW p \in Processes, NEW w \in Workers, NEW result \in FileStates,
           worker[p][w].index \in Batch, Answer(p, w, result)
    PROVE  /\ worker' \in WorkerType /\ Others(p, w)
           /\ worker'[p][w].at = "take" /\ ~worker'[p][w].wrote
           /\ batch' \in BatchType
           /\ \A q \in Processes : q # p => batch'[q] = batch[q]
           /\ batch'[p].status = batch[p].status /\ batch'[p].next = batch[p].next
           /\ batch'[p].failed = batch[p].failed /\ batch'[p].thrown = batch[p].thrown
           /\ batch'[p].results[worker[p][w].index] = result
           /\ \A i \in Batch : i # worker[p][w].index =>
                  batch'[p].results[i] = batch[p].results[i]
<1>1. worker' = [worker EXCEPT ![p][w] = Waiting]
  BY DEF Answer
<1>2. worker' \in WorkerType /\ Others(p, w) /\ worker'[p][w] = Waiting
  BY <1>1, SetWorker, WaitingIsWorker
<1> DEFINE i == worker[p][w].index
           r == [batch[p].results EXCEPT ![i] = result]
           y == [batch[p] EXCEPT !.results = r]
<1>3. batch' = [batch EXCEPT ![p] = y]
  BY DEF Answer
<1>4. batch[p] \in BatchSet /\ batch[p].results \in [Batch -> FileStates]
  BY DEF BatchType, BatchSet
<1>5. /\ r \in [Batch -> FileStates] /\ r[i] = result
      /\ \A j \in Batch : j # i => r[j] = batch[p].results[j]
  BY <1>4
<1> HIDE DEF r
<1>6. /\ y \in BatchSet /\ y.status = batch[p].status /\ y.next = batch[p].next
      /\ y.failed = batch[p].failed /\ y.thrown = batch[p].thrown /\ y.results = r
  BY <1>4, <1>5 DEF BatchSet
<1> HIDE DEF y
<1>7. batch' \in BatchType /\ batch'[p] = y /\ \A q \in Processes : q # p => batch'[q] = batch[q]
  BY <1>3, <1>6 DEF BatchType
<1> QED
  BY <1>2, <1>5, <1>6, <1>7, WaitingIsWorker

\* What the type invariant says of the batch and of each process.
LEMMA TypeFacts ==
    ASSUME CacheTypeOK
    PROVE  /\ worker \in WorkerType /\ batch \in BatchType
           /\ Len(Requests) \in Nat /\ Batch = 1 .. Len(Requests)
           /\ \A i \in Batch : i \in Nat /\ i >= 1 /\ Requests[i] \in Shaders
           /\ \A p \in Processes :
                /\ batch[p] \in BatchSet /\ batch[p].next \in Nat \ {0}
                /\ batch[p].status \in {"idle", "running", "ended", "killed"}
                /\ batch[p].results \in [Batch -> FileStates]
                /\ batch[p].failed \in SUBSET Batch
<1>1. Len(Requests) \in Nat /\ Batch = 1 .. Len(Requests)
  BY CacheAssumption DEF CacheAssumption, Batch
<1>2. \A i \in Batch : i \in Nat /\ i >= 1 /\ Requests[i] \in Shaders
  BY <1>1 DEF Shaders
<1>3. worker \in WorkerType /\ batch \in BatchType
  BY DEF CacheTypeOK, WorkerType, BatchType
<1>4. \A p \in Processes :
                /\ batch[p] \in BatchSet /\ batch[p].next \in Nat \ {0}
                /\ batch[p].status \in {"idle", "running", "ended", "killed"}
                /\ batch[p].results \in [Batch -> FileStates]
                /\ batch[p].failed \in SUBSET Batch
  BY <1>3 DEF BatchType, BatchSet
<1> QED
  BY <1>1, <1>2, <1>3, <1>4

------------------------------------------------------------------------------
(****************************************************************************)
(* What a step of one worker leaves to the others.                            *)
(****************************************************************************)

\* The names of temporary files tell processes and requests apart.
LEMMA NamesDiffer ==
    ASSUME NEW p \in Processes, NEW q \in Processes, NEW i \in Batch, NEW j \in Batch,
           TempName(p, Requests[i]) = TempName(q, Requests[j])
    PROVE  p = q /\ i = j
<1>1. p = q /\ Requests[i] = Requests[j]
  BY DEF TempName
<1> QED
  BY <1>1, CacheAssumption DEF CacheAssumption

\* What a step of worker w of process p leaves to the others: nothing that was
\* cached goes, only the temporary file of the request in hand changes, and a
\* request is taken from the front.
Works(p, w) ==
    /\ broken' = broken
    /\ worker' \in WorkerType /\ batch' \in BatchType
    /\ Others(p, w)
    /\ \A s \in Shaders : cached[s] = "whole" => cached'[s] = "whole"
    /\ \A n \in TempNames :
           temporary'[n] = temporary[n] \/ (Busy(worker[p][w]) /\ n = Temp(p, w))
    /\ \A q \in Processes : q # p => batch'[q] = batch[q]
    /\ batch'[p].status = batch[p].status /\ batch'[p].thrown = batch[p].thrown
    /\ batch'[p].next = batch[p].next \/ (batch'[p].next = batch[p].next + 1
                                          /\ Busy(worker'[p][w])
                                          /\ worker'[p][w].index = batch[p].next)
    /\ Busy(worker'[p][w]) =>
           \/ Busy(worker[p][w]) /\ worker'[p][w].index = worker[p][w].index
           \/ worker'[p][w].index = batch[p].next

\* A step of one worker leaves every other worker in its place.
LEMMA OthersPlaced ==
    ASSUME CacheTypeOK, Placement, Distinct,
           NEW p \in Processes, NEW w \in Workers, Works(p, w),
           NEW q \in Processes, NEW v \in Workers, q # p \/ v # w
    PROVE  Placed(q, v)'
<1> DEFINE k == worker[q][v]
<1>1. worker'[q][v] = k
  BY DEF Works, Others
<1>2. Placed(q, v)
  BY DEF Placement
<1>3. /\ batch'[q].status = batch[q].status
      /\ batch[q].next <= batch'[q].next
      /\ batch[q].next \in Nat /\ batch'[q].next \in Nat
  BY TypeFacts DEF Works
<1>4. k.at # "take" => batch'[q].status = "running"
  BY <1>2, <1>3 DEF Placed
<1>5. k.at = "joined" => batch'[q].next > Len(Requests)
  BY <1>2, <1>3, TypeFacts DEF Placed
<1>6. Busy(k) => k.index \in Batch /\ k.index < batch'[q].next
  BY <1>2, <1>3, TypeFacts DEF Placed
<1>7. k.at = "read" => cached'[Requests[k.index]] = "whole"
  BY <1>2, TypeFacts DEF Placed, Works, Busy
<1>8. k.at \in {"create", "write", "move"} => Requests[k.index] \notin broken'
  BY <1>2 DEF Placed, Works
<1>9. ASSUME k.wrote
      PROVE  k.at = "move" /\ temporary'[TempName(q, Requests[k.index])] = "whole"
  <2> DEFINE n == TempName(q, Requests[k.index])
  <2>1. k.at = "move" /\ temporary[n] = "whole"
    BY <1>2, <1>9, Zenon DEF Placed
  <2>2. Busy(k) /\ k.index \in Batch
    BY <1>2, <2>1 DEF Placed, Busy
  <2>3. n \in TempNames
    BY <2>2, TypeFacts DEF TempNames
  <2>4. ASSUME Busy(worker[p][w]) PROVE n # Temp(p, w)
    <3> SUFFICES ASSUME n = Temp(p, w) PROVE FALSE
      OBVIOUS
    <3>1. worker[p][w].index \in Batch
      BY <2>4 DEF Placement, Placed
    <3>2. q = p /\ k.index = worker[p][w].index
      BY <2>2, <3>1, NamesDiffer DEF Temp, Request
    <3> QED
      BY <2>2, <2>4, <3>2 DEF Distinct
  <2> QED
    BY <2>1, <2>3, <2>4 DEF Works
<1> HIDE DEF k
<1> QED
  BY <1>1, <1>4, <1>5, <1>6, <1>7, <1>8, <1>9, Zenon DEF Placed

\* A request is taken from the front, so nobody else has it.
LEMMA WorkerStaysDistinct ==
    ASSUME CacheTypeOK, Placement, Distinct,
           NEW p \in Processes, NEW w \in Workers, Works(p, w)
    PROVE  Distinct'
<1> SUFFICES ASSUME NEW q \in Processes, NEW u \in Workers, NEW v \in Workers,
                    Busy(worker'[q][u]), Busy(worker'[q][v]),
                    worker'[q][u].index = worker'[q][v].index, u # v
             PROVE  FALSE
  BY DEF Distinct, Busy
<1>1. \A r \in Processes, x \in Workers :
          (r # p \/ x # w) => worker'[r][x] = worker[r][x]
  BY DEF Works, Others
<1>2. \A x \in Workers : Busy(worker[p][x]) =>
          worker[p][x].index \in Nat /\ worker[p][x].index < batch[p].next
  BY TypeFacts DEF Placement, Placed
<1>3. ASSUME NEW x \in Workers, NEW y \in Workers, q = p, x = w, y # w,
             Busy(worker'[p][x]), Busy(worker'[p][y]), worker'[p][x].index = worker'[p][y].index
      PROVE  FALSE
  <2>1. worker'[p][y] = worker[p][y]
    BY <1>1, <1>3
  <2>2. Busy(worker[p][y])
    BY <1>3, <2>1
  <2>3. CASE Busy(worker[p][w]) /\ worker'[p][w].index = worker[p][w].index
    BY <1>3, <2>1, <2>2, <2>3 DEF Distinct
  <2>4. CASE worker'[p][w].index = batch[p].next
    <3>1. batch[p].next \in Nat \ {0}
      BY TypeFacts
    <3> QED
      BY <1>2, <1>3, <2>1, <2>2, <2>4, <3>1
  <2> QED
    BY <1>3, <2>3, <2>4 DEF Works
<1>4. CASE q # p
  BY <1>1, <1>4 DEF Distinct
<1>5. CASE q = p /\ u # w /\ v # w
  BY <1>1, <1>5 DEF Distinct
<1>6. CASE q = p /\ u = w
  BY <1>3, <1>6
<1>7. CASE q = p /\ v = w
  BY <1>3, <1>7
<1> QED
  BY <1>4, <1>5, <1>6, <1>7

\* What a step of worker w of process p answers: only what it has in hand, and
\* truly.
Replies(p, w) ==
    /\ batch[p].status = "running"
    /\ \A i \in Batch : \/ batch'[p].results[i] = batch[p].results[i]
                        \/ batch'[p].results[i] = "whole" /\ Requests[i] \notin broken
    /\ batch[p].failed \subseteq batch'[p].failed
    /\ \A i \in batch'[p].failed \ batch[p].failed : Requests[i] \in broken
    /\ Busy(worker[p][w]) =>
           \/ Busy(worker'[p][w]) /\ worker'[p][w].index = worker[p][w].index
           \/ batch'[p].results[worker[p][w].index] = "whole"
           \/ worker[p][w].index \in batch'[p].failed

\* A step of one worker keeps what is known of the answers.
LEMMA BatchesKept ==
    ASSUME CacheTypeOK, Placement, Batches,
           NEW p \in Processes, NEW w \in Workers, Works(p, w), Replies(p, w)
    PROVE  Batches'
<1>1. ASSUME NEW q \in Processes, q # p
      PROVE  /\ \A i \in Batch : Answered(q, i)' /\ Taken(q, i)'
             /\ batch'[q].status = "ended" => batch'[q].thrown = Reported(batch'[q].failed)
  <2>1. /\ batch'[q] = batch[q] /\ broken' = broken
        /\ \A v \in Workers : worker'[q][v] = worker[q][v]
    BY <1>1 DEF Works, Others
  <2> QED
    BY <2>1 DEF Batches, Answered, Taken, Settled, Busy
<1>2. ASSUME NEW i \in Batch
      PROVE  Answered(p, i)'
  <2>1. Answered(p, i)
    BY DEF Batches
  <2>2. broken' = broken
    BY DEF Works
  <2> QED
    BY <2>1, <2>2 DEF Replies, Answered
<1>3. ASSUME NEW i \in Batch
      PROVE  Taken(p, i)'
  <2>1. /\ batch'[p].status = "running" /\ batch[p].status = "running"
        /\ batch[p].next \in Nat /\ i \in Nat
    BY TypeFacts DEF Works, Replies
  <2>2. Settled(p, i) => Settled(p, i)'
    BY DEF Replies, Settled
  <2>3. ASSUME NEW v \in Workers, Busy(worker[p][v]), worker[p][v].index = i
        PROVE  Settled(p, i)' \/ \E u \in Workers : Busy(worker'[p][u]) /\ worker'[p][u].index = i
    <3>1. CASE v = w
      BY <2>3, <3>1, Zenon DEF Replies, Settled
    <3>2. CASE v # w
      <4>1. worker'[p][v] = worker[p][v]
        BY <3>2 DEF Works, Others
      <4> QED
        BY <2>3, <4>1
    <3> QED
      BY <3>1, <3>2
  <2>4. CASE i < batch[p].next
    <3>1. Settled(p, i) \/ \E v \in Workers : Busy(worker[p][v]) /\ worker[p][v].index = i
      BY <2>1, <2>4 DEF Batches, Taken
    <3>2. Settled(p, i)' \/ \E u \in Workers : Busy(worker'[p][u]) /\ worker'[p][u].index = i
      BY <2>2, <2>3, <3>1
    <3> QED
      BY <2>1, <3>2 DEF Taken, Busy
  <2>5. CASE ~(i < batch[p].next) /\ i < batch'[p].next
    <3>1. Busy(worker'[p][w]) /\ worker'[p][w].index = i
      BY <2>1, <2>5 DEF Works
    <3> QED
      BY <2>1, <3>1 DEF Taken, Busy
  <2>6. CASE ~(i < batch'[p].next)
    BY <2>1, <2>6 DEF Taken
  <2> QED
    BY <2>4, <2>5, <2>6
<1>4. batch'[p].status # "ended"
  BY DEF Works, Replies
<1> QED
  BY <1>1, <1>2, <1>3, <1>4 DEF Batches

\* The parts of the invariant that a step of a worker may disturb.
LEMMA WorkerKeeps ==
    ASSUME IInv, NEW p \in Processes, NEW w \in Workers, Works(p, w), Replies(p, w),
           CacheTypeOK', Placed(p, w)', Cached'
    PROVE  IInv'
<1>1. ASSUME NEW q \in Processes, NEW v \in Workers
      PROVE  Placed(q, v)'
  BY OthersPlaced DEF IInv
<1>2. Placement'
  BY <1>1 DEF Placement
<1> QED
  BY <1>2, WorkerStaysDistinct, BatchesKept DEF IInv

------------------------------------------------------------------------------
(****************************************************************************)
(* The steps of a worker.                                                     *)
(****************************************************************************)

\* A worker that goes on with its request does its part and answers nothing.
LEMMA MoveWorks ==
    ASSUME IInv, NEW p \in Processes, NEW w \in Workers, NEW at \in Places \ {"take", "joined"},
           Busy(worker[p][w]), worker' \in WorkerType, Others(p, w),
           worker'[p][w].at = at, worker'[p][w].index = worker[p][w].index,
           UNCHANGED <<broken, cached, batch>>,
           \A n \in TempNames : temporary'[n] = temporary[n] \/ n = Temp(p, w)
    PROVE  Works(p, w) /\ Replies(p, w)
<1>1. Busy(worker'[p][w])
  BY DEF Busy
<1>2. batch[p].status = "running"
  BY DEF IInv, Placement, Placed, Busy
<1>3. batch \in BatchType
  BY TypeFacts DEF IInv
<1>4. Works(p, w)
  BY <1>1, <1>3 DEF Works
<1>5. Replies(p, w)
  BY <1>1, <1>2 DEF Replies
<1> QED
  BY <1>4, <1>5

\* Before anything is written, the place of a worker that goes on is right when
\* what the new place says of the request is.
LEMMA MovePlaced ==
    ASSUME IInv, NEW p \in Processes, NEW w \in Workers,
           NEW at \in {"open", "read", "compile", "create", "write", "move"},
           Busy(worker[p][w]), worker[p][w].at # "move", Goto(p, w, at),
           UNCHANGED <<broken, cached, batch>>,
           at = "read" => cached[Request(p, w)] = "whole",
           at \in {"create", "write", "move"} => Request(p, w) \notin broken
    PROVE  Placed(p, w)'
<1>1. CacheTypeOK /\ Placed(p, w)
  BY DEF IInv, Placement
<1>2. /\ worker'[p][w].at = at /\ worker'[p][w].index = worker[p][w].index
      /\ worker'[p][w].wrote = worker[p][w].wrote
  BY <1>1, GotoEffect, TypeFacts DEF Places
<1>3. ~worker'[p][w].wrote
  BY <1>1, <1>2, Zenon DEF Placed
<1>4. /\ batch[p].status = "running"
      /\ worker[p][w].index \in Batch /\ worker[p][w].index < batch[p].next
  BY <1>1 DEF Placed, Busy
<1>5. batch' = batch /\ cached' = cached /\ broken' = broken
  OBVIOUS
<1>6. at # "take" /\ at # "joined"
  OBVIOUS
<1> DEFINE k == worker'[p][w]
<1>7. /\ k.at # "take" => batch'[p].status = "running"
      /\ k.at = "joined" => batch'[p].next > Len(Requests)
      /\ Busy(k) => k.index \in Batch /\ k.index < batch'[p].next
      /\ k.at = "read" => cached'[Requests[k.index]] = "whole"
      /\ k.at \in {"create", "write", "move"} => Requests[k.index] \notin broken'
  BY <1>2, <1>4, <1>5, <1>6 DEF Request
<1> HIDE DEF k
<1>8. k.wrote => k.at = "move" /\ temporary'[TempName(p, Requests[k.index])] = "whole"
  BY <1>3, Zenon DEF k
<1> QED
  BY <1>7, <1>8, Zenon DEF Placed, k

\* A worker that waits is in its place.
LEMMA IdlePlaced ==
    ASSUME NEW p \in Processes, NEW w \in Workers,
           worker'[p][w].at = "take", ~worker'[p][w].wrote
    PROVE  Placed(p, w)'
<1>1. ~Busy(worker'[p][w]) /\ worker'[p][w].at \notin {"create", "write", "move"}
      /\ worker'[p][w].at # "read" /\ worker'[p][w].at # "joined"
  BY DEF Busy
<1> QED
  BY <1>1, Zenon DEF Placed

\* A worker that answers with whole bytecode of a shader that compiles.
LEMMA AnswerWorks ==
    ASSUME IInv, NEW p \in Processes, NEW w \in Workers,
           Busy(worker[p][w]), Request(p, w) \notin broken, Answer(p, w, "whole"),
           UNCHANGED <<broken, starts>>, io_failures' \in Nat,
           cached' \in [Shaders -> FileStates], temporary' \in [TempNames -> FileStates],
           \A s \in Shaders : cached[s] = "whole" => cached'[s] = "whole",
           \A n \in TempNames : temporary'[n] = temporary[n] \/ n = Temp(p, w)
    PROVE  Works(p, w) /\ Replies(p, w) /\ CacheTypeOK' /\ Placed(p, w)'
<1>1. CacheTypeOK /\ Placed(p, w)
  BY DEF IInv, Placement
<1>2. worker[p][w].index \in Batch /\ batch[p].status = "running"
  BY <1>1 DEF Placed, Busy
<1>3. /\ worker' \in WorkerType /\ Others(p, w)
      /\ worker'[p][w].at = "take" /\ ~worker'[p][w].wrote
      /\ batch' \in BatchType
      /\ \A q \in Processes : q # p => batch'[q] = batch[q]
      /\ batch'[p].status = batch[p].status /\ batch'[p].next = batch[p].next
      /\ batch'[p].failed = batch[p].failed /\ batch'[p].thrown = batch[p].thrown
      /\ batch'[p].results[worker[p][w].index] = "whole"
      /\ \A i \in Batch : i # worker[p][w].index =>
             batch'[p].results[i] = batch[p].results[i]
  <2>1. "whole" \in FileStates
    BY DEF FileStates
  <2> QED
    BY <1>1, <1>2, <2>1, AnswerEffect, TypeFacts
<1>4. ~Busy(worker'[p][w])
  BY <1>3 DEF Busy
<1>5. Works(p, w)
  BY <1>3, <1>4 DEF Works
<1>6. Replies(p, w)
  BY <1>2, <1>3, <1>4 DEF Replies, Request
<1>7. CacheTypeOK'
  BY <1>1, <1>3 DEF CacheTypeOK, WorkerType, BatchType
<1>8. Placed(p, w)'
  BY <1>3, IdlePlaced
<1> QED
  BY <1>5, <1>6, <1>7, <1>8

\* Take takes the next request, or joins when there is none.
LEMMA TakeStep ==
    ASSUME IInv, NEW p \in Processes, NEW w \in Workers, Take(p, w)
    PROVE  IInv'
<1>1. /\ CacheTypeOK /\ Placed(p, w) /\ Cached
      /\ batch[p].status = "running" /\ worker[p][w].at = "take" /\ ~Busy(worker[p][w])
      /\ UNCHANGED <<broken, cached, temporary, starts, io_failures>>
  BY DEF IInv, Placement, Take, Busy
<1>2. Cached'
  BY <1>1 DEF Cached
<1>3. ~worker[p][w].wrote
  BY <1>1, Zenon DEF Placed
<1>4. CASE batch[p].next > Len(Requests)
  <2>1. Goto(p, w, "joined") /\ batch' = batch
    BY <1>4 DEF Take
  <2>2. /\ worker' \in WorkerType /\ Others(p, w)
        /\ worker'[p][w].at = "joined" /\ worker'[p][w].wrote = worker[p][w].wrote
    BY <1>1, <2>1, GotoEffect, TypeFacts DEF Places
  <2>3. ~Busy(worker'[p][w]) /\ ~worker'[p][w].wrote /\ worker'[p][w].at # "read"
        /\ worker'[p][w].at \notin {"create", "write", "move"}
    BY <1>3, <2>2 DEF Busy
  <2>4. batch \in BatchType
    BY <1>1, TypeFacts
  <2>5. Works(p, w)
    BY <1>1, <2>1, <2>2, <2>3, <2>4 DEF Works
  <2>6. Replies(p, w)
    BY <1>1, <2>1 DEF Replies
  <2>7. CacheTypeOK'
    BY <1>1, <2>1, <2>2 DEF CacheTypeOK, WorkerType
  <2>8. Placed(p, w)'
    BY <1>1, <1>4, <2>1, <2>3, Zenon DEF Placed
  <2> QED
    BY <1>2, <2>5, <2>6, <2>7, <2>8, WorkerKeeps
<1>5. CASE ~(batch[p].next > Len(Requests))
  <2> DEFINE x == [worker[p][w] EXCEPT !.at = "open", !.index = batch[p].next]
             y == [batch[p] EXCEPT !.next = batch[p].next + 1]
  <2>1. worker' = [worker EXCEPT ![p][w] = x] /\ batch' = [batch EXCEPT ![p] = y]
    BY <1>5 DEF Take
  <2>2. batch[p] \in BatchSet /\ batch[p].next \in Nat /\ batch \in BatchType
        /\ worker \in WorkerType
    BY <1>1, TypeFacts
  <2>3. batch[p].next \in Batch /\ batch[p].next + 1 \in Nat \ {0}
    BY <1>1, <1>5, <2>2, TypeFacts
  <2>4. /\ x \in WorkerSet /\ x.at = "open" /\ x.index = batch[p].next
        /\ x.wrote = worker[p][w].wrote
    BY <2>2, <2>3, WorkerFields DEF WorkerSet, Places
  <2>5. /\ y \in BatchSet /\ y.next = batch[p].next + 1 /\ y.status = batch[p].status
        /\ y.results = batch[p].results /\ y.failed = batch[p].failed
        /\ y.thrown = batch[p].thrown
    BY <2>2, <2>3 DEF BatchSet
  <2> HIDE DEF x, y
  <2>6. worker' \in WorkerType /\ worker'[p][w] = x /\ Others(p, w)
    BY <2>1, <2>2, <2>4, SetWorker
  <2>7. batch' \in BatchType /\ batch'[p] = y /\ \A q \in Processes : q # p => batch'[q] = batch[q]
    BY <2>1, <2>2, <2>5 DEF BatchType
  <2>8. Busy(worker'[p][w])
    BY <2>4, <2>6 DEF Busy
  <2>9. Works(p, w)
    BY <1>1, <2>4, <2>5, <2>6, <2>7, <2>8 DEF Works
  <2>10. Replies(p, w)
    BY <1>1, <2>5, <2>7 DEF Replies
  <2>11. CacheTypeOK'
    BY <1>1, <2>6, <2>7 DEF CacheTypeOK, WorkerType, BatchType
  <2>12. Placed(p, w)'
    <3> DEFINE k == worker'[p][w]
    <3>1. /\ k.at = "open" /\ k.index = batch[p].next /\ k.index \in Batch
          /\ k.index < batch'[p].next /\ batch'[p].status = "running"
      BY <1>1, <2>2, <2>3, <2>4, <2>5, <2>6, <2>7
    <3>2. ~k.wrote
      BY <1>3, <2>4, <2>6, Zenon
    <3> HIDE DEF k
    <3>3. k.at # "joined" /\ k.at # "read" /\ k.at \notin {"create", "write", "move"}
      BY <3>1
    <3> QED
      BY <3>1, <3>2, <3>3, Zenon DEF Placed, k
  <2> QED
    BY <1>2, <2>9, <2>10, <2>11, <2>12, WorkerKeeps
<1> QED
  BY <1>4, <1>5

\* What is known of a worker with a request in hand.
LEMMA InHand ==
    ASSUME IInv, NEW p \in Processes, NEW w \in Workers, Busy(worker[p][w])
    PROVE  /\ CacheTypeOK /\ Cached /\ Placed(p, w)
           /\ worker \in WorkerType /\ batch \in BatchType
           /\ worker[p][w].index \in Batch /\ Request(p, w) \in Shaders
           /\ Temp(p, w) \in TempNames
           /\ batch[p].status = "running"
<1>1. CacheTypeOK /\ Cached /\ Placed(p, w)
  BY DEF IInv, Placement
<1>2. worker[p][w].index \in Batch /\ batch[p].status = "running"
  BY <1>1 DEF Placed, Busy
<1>3. Request(p, w) \in Shaders
  BY <1>1, <1>2, TypeFacts DEF Request
<1>4. Temp(p, w) \in TempNames
  BY <1>3 DEF Temp, TempNames
<1> QED
  BY <1>1, <1>2, <1>3, <1>4, TypeFacts

\* Before anything is written, a worker goes on.
LEMMA GoOn ==
    ASSUME IInv, NEW p \in Processes, NEW w \in Workers,
           NEW at \in {"open", "read", "compile", "create", "write", "move"},
           Busy(worker[p][w]), worker[p][w].at # "move", Goto(p, w, at),
           UNCHANGED <<broken, cached, batch, starts>>, io_failures' \in Nat,
           temporary' \in [TempNames -> FileStates],
           \A n \in TempNames : temporary'[n] = temporary[n] \/ n = Temp(p, w),
           at = "read" => cached[Request(p, w)] = "whole",
           at \in {"create", "write", "move"} => Request(p, w) \notin broken
    PROVE  IInv'
<1>1. CacheTypeOK /\ Cached /\ worker \in WorkerType /\ batch \in BatchType
  BY InHand
<1>2. at \in Places \ {"take", "joined"}
  BY DEF Places
<1>3. /\ worker' \in WorkerType /\ Others(p, w)
      /\ worker'[p][w].at = at /\ worker'[p][w].index = worker[p][w].index
  BY <1>1, <1>2, GotoEffect
<1>4. Works(p, w) /\ Replies(p, w)
  BY <1>2, <1>3, MoveWorks
<1>5. CacheTypeOK'
  BY <1>1, <1>3 DEF CacheTypeOK, WorkerType
<1>6. Cached'
  BY <1>1 DEF Cached
<1>7. Placed(p, w)'
  BY MovePlaced
<1> QED
  BY <1>4, <1>5, <1>6, <1>7, WorkerKeeps

\* OpenCached reads only what is there, which is whole.
LEMMA OpenStep ==
    ASSUME IInv, NEW p \in Processes, NEW w \in Workers, OpenCached(p, w)
    PROVE  IInv'
<1>1. worker[p][w].at = "open" /\ Busy(worker[p][w])
  BY DEF OpenCached, Busy
<1>2. /\ UNCHANGED <<broken, cached, batch, starts, temporary, io_failures>>
      /\ io_failures' \in Nat /\ temporary' \in [TempNames -> FileStates]
  BY <1>1, InHand DEF OpenCached, CacheTypeOK
<1>3. CASE cached[Request(p, w)] = "none"
  <2>1. Goto(p, w, "compile")
    BY <1>3 DEF OpenCached
  <2> QED
    BY <1>1, <1>2, <2>1, GoOn
<1>4. CASE cached[Request(p, w)] # "none"
  <2>1. Goto(p, w, "read")
    BY <1>4 DEF OpenCached
  <2>2. cached[Request(p, w)] = "whole"
    BY <1>1, <1>4, InHand DEF Cached
  <2> QED
    BY <1>1, <1>2, <2>1, <2>2, GoOn
<1> QED
  BY <1>3, <1>4

\* A hit answers with whole bytecode; a failed read goes on to compile.
LEMMA ReadStep ==
    ASSUME IInv, NEW p \in Processes, NEW w \in Workers, ReadCachedBytecode(p, w)
    PROVE  IInv'
<1>1. worker[p][w].at = "read" /\ Busy(worker[p][w])
  BY DEF ReadCachedBytecode, Busy
<1>2. /\ UNCHANGED <<broken, cached, temporary, starts>>
      /\ temporary' \in [TempNames -> FileStates] /\ cached' \in [Shaders -> FileStates]
  BY <1>1, InHand DEF ReadCachedBytecode, CacheTypeOK
<1>3. cached[Request(p, w)] = "whole"
  BY <1>1, InHand DEF Placed, Request
<1>4. CASE Answer(p, w, cached[Request(p, w)]) /\ UNCHANGED io_failures
  <2>1. Answer(p, w, "whole") /\ io_failures' \in Nat
    BY <1>1, <1>3, <1>4, InHand DEF CacheTypeOK
  <2>2. Request(p, w) \notin broken
    BY <1>1, <1>3, InHand DEF Cached
  <2>3. Works(p, w) /\ Replies(p, w) /\ CacheTypeOK' /\ Placed(p, w)'
    BY <1>1, <1>2, <2>1, <2>2, AnswerWorks
  <2>4. Cached'
    BY <1>1, <1>2, InHand DEF Cached
  <2> QED
    BY <2>3, <2>4, WorkerKeeps
<1>5. CASE Fails /\ Goto(p, w, "compile") /\ UNCHANGED batch
  <2>1. io_failures' \in Nat
    BY <1>1, <1>5, InHand DEF Fails, CacheTypeOK
  <2> QED
    BY <1>1, <1>2, <1>5, <2>1, GoOn
<1> QED
  BY <1>4, <1>5 DEF ReadCachedBytecode

\* Only a shader the compiler rejects fails.
LEMMA CompileStep ==
    ASSUME IInv, NEW p \in Processes, NEW w \in Workers, CompileOne(p, w)
    PROVE  IInv'
<1>1. worker[p][w].at = "compile" /\ Busy(worker[p][w])
  BY DEF CompileOne, Busy
<1>2. /\ UNCHANGED <<broken, cached, temporary, starts, io_failures>>
      /\ io_failures' \in Nat /\ temporary' \in [TempNames -> FileStates]
  BY <1>1, InHand DEF CompileOne, CacheTypeOK
<1>3. CASE Request(p, w) \in broken
  <2> DEFINE i == worker[p][w].index
             y == [batch[p] EXCEPT !.failed = batch[p].failed \cup {i}]
  <2>1. batch' = [batch EXCEPT ![p] = y] /\ worker' = [worker EXCEPT ![p][w] = Waiting]
    BY <1>3 DEF CompileOne
  <2>2. i \in Batch /\ batch[p] \in BatchSet /\ batch[p].status = "running"
        /\ CacheTypeOK /\ Cached
    BY <1>1, InHand, TypeFacts
  <2>3. /\ y \in BatchSet /\ y.failed = batch[p].failed \cup {i} /\ y.status = batch[p].status
        /\ y.next = batch[p].next /\ y.results = batch[p].results /\ y.thrown = batch[p].thrown
    BY <2>2 DEF BatchSet
  <2> HIDE DEF y
  <2>4. batch' \in BatchType /\ batch'[p] = y /\ \A q \in Processes : q # p => batch'[q] = batch[q]
    BY <1>1, <2>1, <2>3, InHand DEF BatchType
  <2>5. /\ worker' \in WorkerType /\ Others(p, w)
        /\ worker'[p][w].at = "take" /\ ~worker'[p][w].wrote
    <3>1. worker' \in WorkerType /\ Others(p, w) /\ worker'[p][w] = Waiting
      BY <1>1, <2>1, InHand, SetWorker, WaitingIsWorker
    <3> QED
      BY <3>1, WaitingIsWorker
  <2>6. ~Busy(worker'[p][w])
    BY <2>5 DEF Busy
  <2>7. Works(p, w)
    BY <1>2, <2>3, <2>4, <2>5, <2>6 DEF Works
  <2>8. Replies(p, w)
    BY <1>3, <2>2, <2>3, <2>4 DEF Replies, Request
  <2>9. CacheTypeOK'
    BY <1>2, <2>2, <2>4, <2>5 DEF CacheTypeOK, WorkerType, BatchType
  <2>10. Placed(p, w)'
    BY <2>5, IdlePlaced
  <2>11. Cached'
    BY <1>2, <2>2 DEF Cached
  <2> QED
    BY <2>7, <2>8, <2>9, <2>10, <2>11, WorkerKeeps
<1>4. CASE Request(p, w) \notin broken
  <2>1. Goto(p, w, "create") /\ UNCHANGED batch
    BY <1>4 DEF CompileOne
  <2> QED
    BY <1>1, <1>2, <1>4, <2>1, GoOn
<1> QED
  BY <1>3, <1>4

\* The temporary file is emptied, or somebody writes it and nothing is cached.
LEMMA CreateStep ==
    ASSUME IInv, NEW p \in Processes, NEW w \in Workers, CreateTemporary(p, w)
    PROVE  IInv'
<1>1. worker[p][w].at = "create" /\ Busy(worker[p][w])
  BY DEF CreateTemporary, Busy
<1>2. /\ UNCHANGED <<broken, cached, starts, io_failures>>
      /\ io_failures' \in Nat /\ cached' \in [Shaders -> FileStates]
      /\ temporary \in [TempNames -> FileStates]
  BY <1>1, InHand DEF CreateTemporary, CacheTypeOK
<1>3. Request(p, w) \notin broken
  BY <1>1, InHand DEF Placed, Request
<1>4. CASE Writing(Temp(p, w))
  <2>1. Answer(p, w, "whole") /\ temporary' = temporary
    BY <1>4 DEF CreateTemporary
  <2>2. Works(p, w) /\ Replies(p, w) /\ CacheTypeOK' /\ Placed(p, w)'
    BY <1>1, <1>2, <1>3, <2>1, AnswerWorks
  <2>3. Cached'
    BY <1>1, <1>2, InHand DEF Cached
  <2> QED
    BY <2>2, <2>3, WorkerKeeps
<1>5. CASE ~Writing(Temp(p, w))
  <2>1. /\ temporary' = [temporary EXCEPT ![Temp(p, w)] = "torn"]
        /\ Goto(p, w, "write") /\ UNCHANGED batch
    BY <1>5 DEF CreateTemporary
  <2>2. /\ temporary' \in [TempNames -> FileStates]
        /\ \A n \in TempNames : temporary'[n] = temporary[n] \/ n = Temp(p, w)
    BY <1>2, <2>1 DEF FileStates
  <2> QED
    BY <1>1, <1>2, <1>3, <2>1, <2>2, GoOn
<1> QED
  BY <1>4, <1>5

\* The whole file is written, and the worker knows.
LEMMA WroteEffect ==
    ASSUME worker \in WorkerType, NEW p \in Processes, NEW w \in Workers,
           worker' = [worker EXCEPT ![p][w].at = "move", ![p][w].wrote = TRUE]
    PROVE  /\ worker' \in WorkerType /\ Others(p, w)
           /\ worker'[p][w].at = "move" /\ worker'[p][w].index = worker[p][w].index
<1>1. \A b \in BOOLEAN, k \in WorkerSet :
          LET x == [k EXCEPT !.at = "move", !.wrote = b]
          IN  x \in WorkerSet /\ x.at = "move" /\ x.index = k.index
  BY DEF WorkerSet, Places
<1> DEFINE x == [worker[p][w] EXCEPT !.at = "move", !.wrote = TRUE]
<1>2. worker[p][w] \in WorkerSet /\ TRUE \in BOOLEAN
  BY WorkerFields
<1>3. x \in WorkerSet /\ x.at = "move" /\ x.index = worker[p][w].index
  BY <1>1, <1>2, Zenon
<1>4. worker' = [worker EXCEPT ![p][w] = x]
  BY DEF WorkerType
<1> HIDE DEF x
<1>5. x \in WorkerSet
  BY <1>3
<1>6. worker' \in WorkerType /\ worker'[p][w] = x /\ Others(p, w)
  BY <1>4, <1>5, SetWorker, Zenon
<1> QED
  BY <1>3, <1>6, Zenon

\* The temporary file becomes whole, or the worker knows it did not.
LEMMA WriteStep ==
    ASSUME IInv, NEW p \in Processes, NEW w \in Workers, WriteBytes(p, w)
    PROVE  IInv'
<1>1. worker[p][w].at = "write" /\ Busy(worker[p][w])
  BY DEF WriteBytes, Busy
<1>2. /\ UNCHANGED <<broken, cached, batch, starts>>
      /\ temporary \in [TempNames -> FileStates] /\ io_failures \in Nat
      /\ CacheTypeOK /\ Cached /\ Placed(p, w) /\ batch[p].status = "running"
      /\ worker \in WorkerType /\ worker[p][w].index \in Batch /\ Temp(p, w) \in TempNames
  BY <1>1, InHand DEF WriteBytes, CacheTypeOK
<1>3. Request(p, w) \notin broken
  BY <1>1, InHand DEF Placed, Request
<1>4. CASE /\ temporary' = [temporary EXCEPT ![Temp(p, w)] = "whole"]
           /\ worker' = [worker EXCEPT ![p][w].at = "move", ![p][w].wrote = TRUE]
           /\ UNCHANGED io_failures
  <2>1. /\ temporary' \in [TempNames -> FileStates] /\ temporary'[Temp(p, w)] = "whole"
        /\ \A n \in TempNames : temporary'[n] = temporary[n] \/ n = Temp(p, w)
    BY <1>2, <1>4 DEF FileStates
  <2>2. /\ worker' \in WorkerType /\ Others(p, w)
        /\ worker'[p][w].at = "move" /\ worker'[p][w].index = worker[p][w].index
    BY <1>2, <1>4, WroteEffect
  <2>3. Works(p, w) /\ Replies(p, w)
    BY <1>1, <1>2, <2>1, <2>2, MoveWorks DEF Places
  <2>4. CacheTypeOK'
    BY <1>2, <1>4, <2>1, <2>2 DEF CacheTypeOK, WorkerType
  <2>5. Cached'
    BY <1>2 DEF Cached
  <2>6. Placed(p, w)'
    <3> DEFINE k == worker'[p][w]
    <3>1. k.index = worker[p][w].index /\ k.index \in Batch /\ k.index < batch[p].next
      BY <1>1, <1>2, <2>2 DEF Placed, Busy
    <3>2. temporary'[TempName(p, Requests[k.index])] = "whole"
      BY <2>1, <3>1 DEF Temp, Request
    <3>3. k.at # "joined" /\ k.at # "read" /\ k.at = "move"
      BY <2>2
    <3>4. batch' = batch /\ broken' = broken /\ Requests[k.index] \notin broken
      BY <1>2, <1>3, <3>1 DEF Request
    <3> HIDE DEF k
    <3> QED
      BY <1>2, <3>1, <3>2, <3>3, <3>4, Zenon DEF Placed, k
  <2> QED
    BY <2>3, <2>4, <2>5, <2>6, WorkerKeeps
<1>5. CASE Fails /\ Goto(p, w, "move") /\ UNCHANGED temporary
  <2>1. io_failures' \in Nat
    BY <1>2, <1>5 DEF Fails
  <2> QED
    BY <1>1, <1>2, <1>3, <1>5, <2>1, GoOn
<1> QED
  BY <1>4, <1>5 DEF WriteBytes

\* Only a temporary file that was written whole is moved over the cached one.
LEMMA PublishStep ==
    ASSUME IInv, NEW p \in Processes, NEW w \in Workers, Publish(p, w)
    PROVE  IInv'
<1>1. worker[p][w].at = "move" /\ Busy(worker[p][w])
  BY DEF Publish, Busy
<1>2. /\ UNCHANGED <<broken, starts, io_failures>> /\ Answer(p, w, "whole")
      /\ io_failures' \in Nat
      /\ cached \in [Shaders -> FileStates] /\ temporary \in [TempNames -> FileStates]
      /\ Cached /\ Placed(p, w) /\ Request(p, w) \in Shaders /\ Temp(p, w) \in TempNames
  BY <1>1, InHand DEF Publish, CacheTypeOK
<1>3. Request(p, w) \notin broken
  BY <1>1, <1>2 DEF Placed, Request
<1>4. MayPublish(p, w) => temporary[Temp(p, w)] = "whole"
  BY <1>2, Zenon DEF MayPublish, Placed, Temp, Request
<1>5. /\ temporary' \in [TempNames -> FileStates]
      /\ \A n \in TempNames : temporary'[n] = temporary[n] \/ n = Temp(p, w)
  BY <1>2 DEF Publish, FileStates
<1>6. /\ cached' \in [Shaders -> FileStates]
      /\ \A s \in Shaders : cached'[s] = cached[s] \/ (s = Request(p, w) /\ cached'[s] = "whole")
  <2>1. CASE MayPublish(p, w)
    <3>1. cached' = [cached EXCEPT ![Request(p, w)] = "whole"]
      BY <1>4, <2>1 DEF Publish
    <3> QED
      BY <1>2, <3>1 DEF FileStates
  <2>2. CASE ~MayPublish(p, w)
    BY <1>2, <2>2 DEF Publish
  <2> QED
    BY <2>1, <2>2
<1>7. Works(p, w) /\ Replies(p, w) /\ CacheTypeOK' /\ Placed(p, w)'
  <2>1. \A s \in Shaders : cached[s] = "whole" => cached'[s] = "whole"
    BY <1>6
  <2> QED
    BY <1>1, <1>2, <1>3, <1>5, <1>6, <2>1, AnswerWorks
<1>8. Cached'
  BY <1>2, <1>3, <1>6 DEF Cached
<1> QED
  BY <1>7, <1>8, WorkerKeeps

------------------------------------------------------------------------------
(****************************************************************************)
(* The steps of a process.                                                    *)
(****************************************************************************)

\* The order of the natural numbers has no infinite descent (the library's theorem,
\* for the order written as a set of pairs).
NatOrder == {pair \in Nat \X Nat : pair[1] < pair[2]}

LEMMA NatOrderWellFounded == IsWellFoundedOn(NatOrder, Nat)
<1>1. OpToRel(<, Nat) = NatOrder
  BY DEF OpToRel, NatOrder
<1> QED
  BY <1>1, NatLessThanWellFounded, Zenon

\* What is reported is 0 without a failure, and the first failure otherwise.
LEMMA ReportedIsFirst ==
    ASSUME NEW failed \in SUBSET Batch, Batch \subseteq Nat
    PROVE  /\ Reported(failed) \in Nat
           /\ failed = {} => Reported(failed) = 0
           /\ failed # {} => /\ Reported(failed) \in failed
                            /\ \A i \in failed : Reported(failed) <= i
<1>1. CASE failed = {}
  BY <1>1 DEF Reported
<1>2. CASE failed # {}
  <2>1. failed \subseteq Nat
    OBVIOUS
  <2>2. PICK first \in failed : \A j \in failed : ~(<<j, first>> \in NatOrder)
    BY <1>2, <2>1, NatOrderWellFounded, WFMin
  <2>3. ASSUME NEW j \in failed
        PROVE  first <= j
    <3>1. j \in Nat /\ first \in Nat
      BY <2>1
    <3>2. j < first => <<j, first>> \in NatOrder
      BY <3>1 DEF NatOrder
    <3> QED
      BY <2>2, <3>1, <3>2
  <2>4. Min(failed) \in failed /\ \A j \in failed : Min(failed) <= j
    BY <2>3 DEF Min
  <2>5. Reported(failed) = Min(failed)
    BY <1>2 DEF Reported
  <2> QED
    BY <1>2, <2>1, <2>4, <2>5
<1> QED
  BY <1>1, <1>2

\* A process whose workers all wait and whose new batch is well-formed.
Renewed(p) ==
    /\ UNCHANGED <<broken, cached, temporary, io_failures>>
    /\ worker' \in WorkerType /\ batch' \in BatchType
    /\ starts' \in Nat
    /\ \A q \in Processes : q # p => worker'[q] = worker[q] /\ batch'[q] = batch[q]
    /\ \A w \in Workers : worker'[p][w] = Waiting

\* Such a process keeps the invariant when its answers are right.
LEMMA RenewedKeeps ==
    ASSUME IInv, NEW p \in Processes, Renewed(p),
           \A i \in Batch : Answered(p, i)' /\ Taken(p, i)',
           batch'[p].status = "ended" => batch'[p].thrown = Reported(batch'[p].failed)
    PROVE  IInv'
<1>1. CacheTypeOK'
  BY DEF IInv, CacheTypeOK, Renewed, WorkerType, BatchType
<1>2. Cached'
  BY DEF IInv, Cached, Renewed
<1>3. \A w \in Workers : worker'[p][w].at = "take" /\ ~worker'[p][w].wrote
  BY WaitingIsWorker DEF Renewed
<1>4. ASSUME NEW q \in Processes, NEW w \in Workers
      PROVE  Placed(q, w)'
  <2>1. CASE q = p
    BY <1>3, <2>1, IdlePlaced
  <2>2. CASE q # p
    <3>1. Placed(q, w)
      BY DEF IInv, Placement
    <3>2. /\ worker'[q] = worker[q] /\ batch'[q] = batch[q]
          /\ cached' = cached /\ broken' = broken /\ temporary' = temporary
      BY <2>2 DEF Renewed
    <3> QED
      BY <3>1, <3>2, Zenon DEF Placed, Busy
  <2> QED
    BY <2>1, <2>2
<1>5. Placement'
  BY <1>4 DEF Placement
<1>6. Distinct'
  <2>1. ASSUME NEW q \in Processes, NEW w \in Workers, Busy(worker'[q][w])
        PROVE  q # p
    BY <1>3, <2>1 DEF Busy
  <2>2. \A q \in Processes : q # p => worker'[q] = worker[q]
    BY DEF Renewed
  <2> QED
    BY <2>1, <2>2 DEF IInv, Distinct, Busy
<1>7. ASSUME NEW q \in Processes, q # p
      PROVE  /\ \A i \in Batch : Answered(q, i)' /\ Taken(q, i)'
             /\ batch'[q].status = "ended" => batch'[q].thrown = Reported(batch'[q].failed)
  <2>1. worker'[q] = worker[q] /\ batch'[q] = batch[q] /\ broken' = broken
    BY <1>7 DEF Renewed
  <2> QED
    BY <2>1 DEF IInv, Batches, Answered, Taken, Settled, Busy
<1>8. Batches'
  BY <1>7 DEF Batches
<1> QED
  BY <1>1, <1>2, <1>5, <1>6, <1>8 DEF IInv

\* A batch that has not run.
LEMMA NotRunningIsBatch ==
    /\ NotRunning.results = [i \in Batch |-> "none"] /\ NotRunning.failed = {}
    /\ NotRunning \in BatchSet /\ NotRunning.status = "idle"
    /\ NotRunning.next = 1
    /\ \A status \in {"running", "killed"} :
          LET b == [NotRunning EXCEPT !.status = status]
          IN  /\ b \in BatchSet /\ b.status = status /\ b.next = 1
              /\ b.results = [i \in Batch |-> "none"] /\ b.failed = {}
BY DEF NotRunning, BatchSet, FileStates

\* The workers of a process all wait.
LEMMA AllWait ==
    ASSUME worker \in WorkerType, NEW p \in Processes,
           worker' = [worker EXCEPT ![p] = [w \in Workers |-> Waiting]]
    PROVE  /\ worker' \in WorkerType
           /\ \A q \in Processes : q # p => worker'[q] = worker[q]
           /\ \A w \in Workers : worker'[p][w] = Waiting
<1>1. Waiting \in WorkerSet
  BY WaitingIsWorker
<1> QED
  BY <1>1 DEF WorkerType

\* One batch changes.
LEMMA SetBatch ==
    ASSUME batch \in BatchType, NEW p \in Processes, NEW b \in BatchSet,
           batch' = [batch EXCEPT ![p] = b]
    PROVE  /\ batch' \in BatchType /\ batch'[p] = b
           /\ \A q \in Processes : q # p => batch'[q] = batch[q]
BY DEF BatchType

\* A process that starts or is killed has answered nothing.
LEMMA FreshStep ==
    ASSUME IInv, NEW p \in Processes, StartBatch(p) \/ Kill(p)
    PROVE  IInv'
<1>1. PICK status \in {"running", "killed"} :
          batch' = [batch EXCEPT ![p] = [NotRunning EXCEPT !.status = status]]
  BY DEF StartBatch, Kill
<1> DEFINE b == [NotRunning EXCEPT !.status = status]
<1>2. /\ b \in BatchSet /\ b.status = status /\ b.next = 1
      /\ b.results = [i \in Batch |-> "none"] /\ b.failed = {}
  BY NotRunningIsBatch, Zenon
<1>3. batch' = [batch EXCEPT ![p] = b]
  BY <1>1
<1> HIDE DEF b
<1>4. worker \in WorkerType /\ batch \in BatchType /\ starts \in Nat
  BY TypeFacts DEF IInv, CacheTypeOK
<1>5. /\ UNCHANGED <<broken, cached, temporary, io_failures>> /\ starts' \in Nat
      /\ worker' = [worker EXCEPT ![p] = [w \in Workers |-> Waiting]]
  BY <1>4 DEF StartBatch, Kill
<1>6. Renewed(p) /\ batch'[p] = b
  BY <1>2, <1>3, <1>4, <1>5, AllWait, SetBatch DEF Renewed
<1>7. ASSUME NEW i \in Batch
      PROVE  Answered(p, i)' /\ Taken(p, i)'
  <2>1. i >= 1 /\ i \in Nat
    BY TypeFacts DEF IInv
  <2>2. Answered(p, i)'
    BY <1>2, <1>6 DEF Answered
  <2>3. Taken(p, i)'
    BY <1>2, <1>6, <2>1 DEF Taken
  <2> QED
    BY <2>2, <2>3
<1>8. batch'[p].status # "ended"
  BY <1>2, <1>6
<1> QED
  BY <1>6, <1>7, <1>8, RenewedKeeps

\* When all workers have joined, every request was taken and is settled: a batch has a
\* worker, and none joins while a request is left.
LEMMA FinishStep ==
    ASSUME IInv, NEW p \in Processes, Finish(p)
    PROVE  IInv'
<1>1. /\ CacheTypeOK /\ Placement /\ Batches
      /\ worker \in WorkerType /\ batch \in BatchType /\ starts \in Nat
  BY TypeFacts DEF IInv, CacheTypeOK
<1>2. PICK v \in Workers : TRUE
  BY CacheAssumption DEF CacheAssumption
<1>3. batch[p].next > Len(Requests)
  BY <1>1, <1>2 DEF Finish, Placement, Placed
<1>4. \A i \in Batch : Settled(p, i)
  <2>1. SUFFICES ASSUME NEW i \in Batch PROVE Settled(p, i)
    OBVIOUS
  <2>2. i < batch[p].next
    BY <1>1, <1>3, TypeFacts
  <2>3. \A w \in Workers : ~Busy(worker[p][w])
    BY DEF Finish, Busy
  <2>4. Settled(p, i) \/ \E w \in Workers : Busy(worker[p][w]) /\ worker[p][w].index = i
    BY <1>1, <2>2 DEF Finish, Batches, Taken
  <2> QED
    BY <2>3, <2>4
<1> DEFINE t == Reported(batch[p].failed)
           b == [batch[p] EXCEPT !.status = "ended", !.thrown = t]
<1>5. t \in Nat
  BY <1>1, TypeFacts, ReportedIsFirst
<1> HIDE DEF t
<1>6. /\ b \in BatchSet /\ b.status = "ended" /\ b.thrown = t
      /\ b.results = batch[p].results /\ b.failed = batch[p].failed
  BY <1>1, <1>5, TypeFacts DEF BatchSet
<1>7. batch' = [batch EXCEPT ![p] = b]
  BY <1>1 DEF Finish, t
<1> HIDE DEF b
<1>8. /\ UNCHANGED <<broken, cached, temporary, io_failures>> /\ starts' \in Nat
      /\ worker' = [worker EXCEPT ![p] = [w \in Workers |-> Waiting]]
  BY <1>1 DEF Finish
<1>9. Renewed(p) /\ batch'[p] = b
  BY <1>1, <1>6, <1>7, <1>8, AllWait, SetBatch DEF Renewed
<1>10. ASSUME NEW i \in Batch
       PROVE  Answered(p, i)' /\ Taken(p, i)'
  <2>1. Answered(p, i) /\ Settled(p, i)
    BY <1>1, <1>4 DEF Batches
  <2>2. broken' = broken
    BY <1>8
  <2>3. Answered(p, i)'
    BY <1>6, <1>9, <2>1, <2>2 DEF Answered
  <2>4. Taken(p, i)'
    BY <1>6, <1>9, <2>1 DEF Taken, Settled
  <2> QED
    BY <2>3, <2>4
<1>11. batch'[p].thrown = Reported(batch'[p].failed)
  BY <1>6, <1>9 DEF t
<1> QED
  BY <1>9, <1>10, <1>11, RenewedKeeps

------------------------------------------------------------------------------
(****************************************************************************)
(* The theorems.                                                              *)
(****************************************************************************)

\* Nothing is cached and nobody runs.
LEMMA InvariantInit == CacheInit => IInv
<1> SUFFICES ASSUME CacheInit PROVE IInv
  OBVIOUS
<1>1. /\ NotRunning \in BatchSet /\ NotRunning.status = "idle" /\ NotRunning.failed = {}
      /\ NotRunning.results = [i \in Batch |-> "none"]
  BY NotRunningIsBatch
<1>2. Waiting \in WorkerSet /\ Waiting.at = "take" /\ ~Waiting.wrote
  BY WaitingIsWorker
<1>3. \A p \in Processes : batch[p] = NotRunning /\ \A w \in Workers : worker[p][w] = Waiting
  BY DEF CacheInit
<1>4. CacheTypeOK
  BY <1>1, <1>2 DEF CacheInit, CacheTypeOK, FileStates
<1>5. Placement
  <2>1. Waiting.at # "joined" /\ ~Busy(Waiting) /\ Waiting.at # "read"
        /\ Waiting.at \notin {"create", "write", "move"}
    BY <1>2 DEF Busy
  <2> QED
    BY <1>2, <1>3, <2>1, Zenon DEF Placement, Placed
<1>6. Distinct
  BY <1>2, <1>3 DEF Distinct, Busy
<1>7. Cached
  BY DEF CacheInit, Cached
<1>8. Batches
  BY <1>1, <1>3 DEF Batches, Answered, Taken
<1> QED
  BY <1>4, <1>5, <1>6, <1>7, <1>8 DEF IInv

\* Every step keeps the invariant.
LEMMA InvariantStep == IInv /\ [CacheNext]_cache_vars => IInv'
<1> SUFFICES ASSUME IInv, [CacheNext]_cache_vars PROVE IInv'
  OBVIOUS
<1>1. CASE UNCHANGED cache_vars
  BY <1>1 DEF cache_vars, IInv, CacheTypeOK, Placement, Placed, Distinct, Cached, Batches,
              Answered, Taken, Settled, Busy
<1>2. ASSUME NEW p \in Processes, StartBatch(p) \/ Finish(p) \/ Kill(p)
      PROVE  IInv'
  BY <1>2, FreshStep, FinishStep
<1>3. ASSUME NEW p \in Processes, NEW w \in Workers,
             \/ Take(p, w)
             \/ OpenCached(p, w)
             \/ ReadCachedBytecode(p, w)
             \/ CompileOne(p, w)
             \/ CreateTemporary(p, w)
             \/ WriteBytes(p, w)
             \/ Publish(p, w)
      PROVE  IInv'
  BY <1>3, TakeStep, OpenStep, ReadStep, CompileStep, CreateStep, WriteStep, PublishStep
<1> QED
  BY <1>1, <1>2, <1>3 DEF CacheNext

\* The inductive invariant holds in every reachable state of the cache.
THEOREM InvariantHolds == CacheSpec => []IInv
<1>1. CacheInit => IInv
  BY InvariantInit
<1>2. IInv /\ [CacheNext]_cache_vars => IInv'
  BY InvariantStep
<1> QED
  BY <1>1, <1>2, PTL DEF CacheSpec

\* The type invariant.
THEOREM TypeCorrect == CacheSpec => []CacheTypeOK
<1>1. IInv => CacheTypeOK
  BY DEF IInv
<1> QED
  BY <1>1, InvariantHolds, PTL

\* What is under a cache name is whole, and so is every result, however the processes
\* and their workers interleave, fail to write or are killed (WriteCachedBytecode).
THEOREM EntriesAreWhole == CacheSpec => []EntriesWhole
<1>1. ASSUME IInv PROVE EntriesWhole
  <2>1. \A s \in Shaders : cached[s] # "torn"
    BY <1>1 DEF IInv, Cached
  <2>2. \A p \in Processes, i \in Batch : batch[p].results[i] # "torn"
    BY <1>1 DEF IInv, Batches, Answered
  <2> QED
    BY <2>1, <2>2 DEF EntriesWhole
<1> QED
  BY <1>1, InvariantHolds, PTL

\* A batch that ended answered every request that compiles and threw the failure of the
\* first one that does not, whatever the schedule and the cache (CompileShadersCached).
THEOREM ReportIsIndependent == CacheSpec => []BatchReport
<1>1. ASSUME IInv PROVE BatchReport
  <2> SUFFICES ASSUME NEW p \in Processes, batch[p].status = "ended"
               PROVE  LET rejected == {i \in Batch : Requests[i] \in broken} IN
                      /\ \A i \in Batch : batch[p].results[i] = "none" <=> i \in rejected
                      /\ batch[p].thrown = 0 <=> rejected = {}
                      /\ rejected # {} =>
                             /\ batch[p].thrown \in rejected
                             /\ \A i \in rejected : batch[p].thrown <= i
    BY DEF BatchReport
  <2> DEFINE rejected == {i \in Batch : Requests[i] \in broken}
  <2>1. /\ \A i \in Batch : Answered(p, i) /\ Settled(p, i)
        /\ batch[p].thrown = Reported(batch[p].failed)
    BY <1>1 DEF IInv, Batches, Taken
  <2>2. \A i \in Batch : batch[p].results[i] = "none" <=> i \in rejected
    BY <2>1 DEF Answered, Settled
  <2>3. batch[p].failed \in SUBSET Batch /\ Batch \subseteq Nat /\ \A i \in Batch : i >= 1
    BY <1>1, TypeFacts DEF IInv
  <2>4. batch[p].failed = rejected
    BY <2>1, <2>3 DEF Answered, Settled
  <2> HIDE DEF rejected
  <2>5. /\ rejected = {} => batch[p].thrown = 0
        /\ rejected # {} => /\ batch[p].thrown \in rejected
                            /\ \A i \in rejected : batch[p].thrown <= i
    <3>1. rejected \in SUBSET Batch /\ Batch \subseteq Nat
      BY <2>3, <2>4
    <3>2. batch[p].thrown = Reported(rejected)
      BY <2>1, <2>4
    <3> QED
      BY <3>1, <3>2, ReportedIsFirst
  <2>6. batch[p].thrown = 0 => rejected = {}
    BY <2>3, <2>4, <2>5
  <2> USE DEF rejected
  <2> QED
    BY <2>2, <2>5, <2>6
<1> QED
  BY <1>1, InvariantHolds, PTL
==============================================================================

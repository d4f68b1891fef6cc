----------------------------- MODULE ShaderCache -----------------------------
(****************************************************************************)
(* The shader cache (src/src/shader_cache.cpp) under the processes that share   *)
(* it: the launcher's warm-up (gui_main.cpp WarmShaderCache, main.cpp         *)
(* RunWarmShaderCache) and the pipelines, each of which compiles the          *)
(* interpolator's batch of shaders (motion_interpolator.cpp CreateShaders)    *)
(* with several workers over one directory.                                   *)
(*                                                                          *)
(* A shader is its name in the cache: the digest of flags, entry point,       *)
(* profile and source.  Two processes write the same bytes under it, so a     *)
(* file is whole or torn.  Files follow the sharing modes the code asks for:  *)
(* a temporary file being written cannot be opened, moved or deleted, and a   *)
(* cached file being read cannot be replaced.                                 *)
(*                                                                          *)
(* The requests of a batch are distinct, as those of both callers are.  With  *)
(* the same request twice, two threads of one process would share one         *)
(* temporary name, and EntriesWhole would fail.                               *)
(****************************************************************************)
EXTENDS Integers, Sequences, FiniteSetsExt

CONSTANTS
    Processes,       \* Processes that may run at once; each has an id of its own.
    Workers,         \* worker_count threads of a process.
    Requests,        \* requests: the batch, a sequence of shaders.
    MaxStarts,       \* Bound on the batches started.
    MaxIoFailures    \* Bound on the reads and writes that fail.

Batch == DOMAIN Requests
Shaders == {Requests[i] : i \in Batch}

ASSUME CacheAssumption ==
    /\ Requests \in Seq(Shaders)
    /\ Len(Requests) > 1
    /\ \A i, j \in Batch : Requests[i] = Requests[j] => i = j
    /\ Workers # {} /\ Cardinality(Workers) <= Len(Requests)

VARIABLES
    broken,          \* Shaders the compiler rejects.
    cached,          \* The .cso files: shader to "none", "whole" or "torn".
    temporary,       \* The .tmp files, by the name TempName gives.
    batch,           \* Per process: where its batch stands.
    worker,          \* Per process and worker: what the thread is doing.
    starts,          \* Batches started.
    io_failures      \* Reads and writes that failed.

cache_vars == <<broken, cached, temporary, batch, worker, starts, io_failures>>

NotRunning == [status |-> "idle", next |-> 1, results |-> [i \in Batch |-> "none"],
               failed |-> {}, thrown |-> 0]
Waiting == [at |-> "take", index |-> 0, wrote |-> FALSE]

\* Mutation of TempName that leaves out the process.
TempNameShared(p, shader) == <<CHOOSE q \in Processes : TRUE, shader>>

\* The name of the temporary file: the path and the process id.
TempName(p, shader) == <<p, shader>>

TempNames == {TempName(p, s) : p \in Processes, s \in Shaders}

CacheInit ==
    /\ broken \in SUBSET Shaders
    /\ cached = [s \in Shaders |-> "none"]
    /\ temporary = [n \in TempNames |-> "none"]
    /\ batch = [p \in Processes |-> NotRunning]
    /\ worker = [p \in Processes |-> [w \in Workers |-> Waiting]]
    /\ starts = 0
    /\ io_failures = 0

Request(p, w) == Requests[worker[p][w].index]
Temp(p, w) == TempName(p, Request(p, w))

\* A thread of some process has a file open.
Reading(shader) ==
    \E p \in Processes, w \in Workers : worker[p][w].at = "read" /\ Request(p, w) = shader
Writing(name) ==
    \E p \in Processes, w \in Workers : worker[p][w].at = "write" /\ Temp(p, w) = name

Goto(p, w, at) == worker' = [worker EXCEPT ![p][w].at = at]

\* The worker is done with its request and will take another.
Answer(p, w, result) ==
    /\ batch' = [batch EXCEPT ![p].results[worker[p][w].index] = result]
    /\ worker' = [worker EXCEPT ![p][w] = Waiting]

Fails == io_failures < MaxIoFailures /\ io_failures' = io_failures + 1

\* A process starts, also again after it ended or was killed.
StartBatch(p) ==
    /\ batch[p].status \in {"idle", "killed"}
    /\ starts < MaxStarts
    /\ starts' = starts + 1
    /\ batch' = [batch EXCEPT ![p] = [NotRunning EXCEPT !.status = "running"]]
    /\ worker' = [worker EXCEPT ![p] = [w \in Workers |-> Waiting]]
    /\ UNCHANGED <<broken, cached, temporary, io_failures>>

\* The next request, taken under next_mutex.
Take(p, w) ==
    /\ batch[p].status = "running"
    /\ worker[p][w].at = "take"
    /\ IF batch[p].next > Len(Requests)
       THEN Goto(p, w, "joined") /\ UNCHANGED batch
       ELSE /\ batch' = [batch EXCEPT ![p].next = @ + 1]
            /\ worker' = [worker EXCEPT ![p][w] = [@ EXCEPT !.at = "open",
                                                           !.index = batch[p].next]]
    /\ UNCHANGED <<broken, cached, temporary, starts, io_failures>>

\* ReadCachedBytecode opens the file, if there is one.
OpenCached(p, w) ==
    /\ worker[p][w].at = "open"
    /\ Goto(p, w, IF cached[Request(p, w)] = "none" THEN "compile" ELSE "read")
    /\ UNCHANGED <<broken, cached, temporary, batch, starts, io_failures>>

\* The file is read whole: a hit, or a miss when a read fails.
ReadCachedBytecode(p, w) ==
    /\ worker[p][w].at = "read"
    /\ \/ Answer(p, w, cached[Request(p, w)]) /\ UNCHANGED io_failures
       \/ Fails /\ Goto(p, w, "compile") /\ UNCHANGED batch
    /\ UNCHANGED <<broken, cached, temporary, starts>>

\* CompileOne: bytecode to write, or the exception the worker keeps.
CompileOne(p, w) ==
    /\ worker[p][w].at = "compile"
    /\ IF Request(p, w) \in broken
       THEN /\ batch' = [batch EXCEPT ![p].failed = @ \cup {worker[p][w].index}]
            /\ worker' = [worker EXCEPT ![p][w] = Waiting]
       ELSE Goto(p, w, "create") /\ UNCHANGED batch
    /\ UNCHANGED <<broken, cached, temporary, starts, io_failures>>

\* WriteCachedBytecode opens the temporary file, emptying one that is there; a
\* file somebody writes cannot be opened, and nothing is cached.
CreateTemporary(p, w) ==
    /\ worker[p][w].at = "create"
    /\ IF Writing(Temp(p, w))
       THEN Answer(p, w, "whole") /\ UNCHANGED temporary
       ELSE /\ temporary' = [temporary EXCEPT ![Temp(p, w)] = "torn"]
            /\ Goto(p, w, "write") /\ UNCHANGED batch
    /\ UNCHANGED <<broken, cached, starts, io_failures>>

\* The bytes are written and the file is closed.
WriteBytes(p, w) ==
    /\ worker[p][w].at = "write"
    /\ \/ /\ temporary' = [temporary EXCEPT ![Temp(p, w)] = "whole"]
          /\ worker' = [worker EXCEPT ![p][w].at = "move", ![p][w].wrote = TRUE]
          /\ UNCHANGED io_failures
       \/ Fails /\ Goto(p, w, "move") /\ UNCHANGED temporary
    /\ UNCHANGED <<broken, cached, batch, starts>>

\* Everything was written, and neither file is open.
MayPublish(p, w) ==
    /\ worker[p][w].wrote
    /\ temporary[Temp(p, w)] # "none"
    /\ ~Writing(Temp(p, w))
    /\ ~Reading(Request(p, w))

\* The temporary file is moved over the cached one, or deleted.
Publish(p, w) ==
    /\ worker[p][w].at = "move"
    /\ cached' = IF MayPublish(p, w)
                 THEN [cached EXCEPT ![Request(p, w)] = temporary[Temp(p, w)]]
                 ELSE cached
    /\ temporary' = IF Writing(Temp(p, w)) THEN temporary
                    ELSE [temporary EXCEPT ![Temp(p, w)] = "none"]
    /\ Answer(p, w, "whole")
    /\ UNCHANGED <<broken, starts, io_failures>>

\* Mutation of Reported that takes the last failure.
ReportedLast(failed) == IF failed = {} THEN 0 ELSE Max(failed)

\* The failure that is thrown again: the first in request order.
Reported(failed) == IF failed = {} THEN 0 ELSE Min(failed)

\* Every worker has joined.
Finish(p) ==
    /\ batch[p].status = "running"
    /\ \A w \in Workers : worker[p][w].at = "joined"
    /\ batch' = [batch EXCEPT ![p].status = "ended", ![p].thrown = Reported(batch[p].failed)]
    /\ worker' = [worker EXCEPT ![p] = [w \in Workers |-> Waiting]]
    /\ UNCHANGED <<broken, cached, temporary, starts, io_failures>>

\* The process is ended from outside; its files are closed as they are.
Kill(p) ==
    /\ batch[p].status = "running"
    /\ batch' = [batch EXCEPT ![p] = [NotRunning EXCEPT !.status = "killed"]]
    /\ worker' = [worker EXCEPT ![p] = [w \in Workers |-> Waiting]]
    /\ UNCHANGED <<broken, cached, temporary, starts, io_failures>>

CacheNext ==
    \E p \in Processes :
        \/ StartBatch(p)
        \/ Finish(p)
        \/ Kill(p)
        \/ \E w \in Workers :
            \/ Take(p, w)
            \/ OpenCached(p, w)
            \/ ReadCachedBytecode(p, w)
            \/ CompileOne(p, w)
            \/ CreateTemporary(p, w)
            \/ WriteBytes(p, w)
            \/ Publish(p, w)

CacheSpec == CacheInit /\ [][CacheNext]_cache_vars

--------------------------------------------------------------------------------
\* No process ever observes a half-written .cso, whichever processes start
\* together, fail to write or are killed: what is under a cache name is whole, and
\* so is what every worker returned (the comment on WriteCachedBytecode).
EntriesWhole ==
    /\ \A s \in Shaders : cached[s] # "torn"
    /\ \A p \in Processes, i \in Batch : batch[p].results[i] # "torn"

\* What a batch reports does not depend on the scheduling of its workers, nor on
\* what other processes had cached: the bytecode of every request in its place, or
\* the failure of the first broken one in request order (CompileShadersCached).
BatchReport ==
    \A p \in Processes :
        LET rejected == {i \in Batch : Requests[i] \in broken} IN
        batch[p].status = "ended" =>
            /\ \A i \in Batch : batch[p].results[i] = "none" <=> i \in rejected
            /\ batch[p].thrown = 0 <=> rejected = {}
            /\ rejected # {} =>
                   /\ batch[p].thrown \in rejected
                   /\ \A i \in rejected : batch[p].thrown <= i
==============================================================================

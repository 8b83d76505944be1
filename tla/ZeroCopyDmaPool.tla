--------------------------- MODULE ZeroCopyDmaPool ---------------------------
(***************************************************************************)
(* The lock-free buffer pool of tpt-torus-hw/src/dma_pool.rs, inside the   *)
(* GpuDmaPool that owns it.  Threads share the pool: alloc and             *)
(* alloc_aligned try the slots in order with a compare_exchange each, and  *)
(* the drop of a BufferHandle frees the slot and then lowers the           *)
(* statistics.  Every access to an atomic is a step of its own.            *)
(*                                                                         *)
(* in_flight is an u32 in the code and an integer here: InFlightExact      *)
(* keeps it between zero and the number of slots and threads, so it cannot *)
(* wrap.                                                                   *)
(***************************************************************************)
EXTENDS Integers, FiniteSets

CONSTANTS
    Threads,        \* threads that use the pool
    Capacity,       \* number of slots
    Aligned,        \* slots whose address has the alignment that alloc_aligned asks for
    GpuPtrs,        \* device pointers that cuMemAlloc may return
    MaxCalls        \* bound: allocations ever asked for

ASSUME PoolAssumption ==
    /\ Capacity \in Nat \ {0} /\ Aligned \subseteq 1 .. Capacity /\ MaxCalls \in Nat
    /\ IsFiniteSet(Threads) /\ 0 \notin GpuPtrs

VARIABLES
    allocated,      \* BufferSlot.allocated
    handles,        \* number of live BufferHandles of each slot
    in_flight,      \* PoolStats.in_flight
    peak_in_flight, \* PoolStats.peak_in_flight
    calls,          \* number of allocations asked for
    pc,             \* where each thread is, "idle" outside the pool
    kind,           \* the call it is in: "any", "aligned", "gpu" or "drop"
    slot,           \* the slot it works on
    current,        \* record_alloc: the count it saw
    peak,           \* record_alloc: the peak it saw
    gpu_bufs,       \* GpuDmaPool.gpu_bufs: device pointer of each slot, or 0
    gpu_live,       \* device pointers allocated and not freed
    for_gpu,        \* history: slots whose handle came from alloc_for_gpu
    quiet,          \* history: scans during which no other thread changed a slot
    pool            \* "live", "gpu_freed" (GpuDmaPool::drop ran) or "dropped"

stats     == <<in_flight, peak_in_flight>>
locals    == <<kind, slot, current, peak>>
gpu       == <<gpu_bufs, gpu_live, for_gpu>>
vars      == <<allocated, handles, stats, calls, pc, locals, gpu, quiet, pool>>

Slots == 1 .. Capacity
Scanning == {"scan", "misaligned"}
Recording == {"record", "load_peak", "swap_peak", "gpu_alloc"}
Allocating == Scanning \cup Recording
Dropping == {"free", "lower"}

Init ==
    /\ allocated = [s \in Slots |-> FALSE]
    /\ handles = [s \in Slots |-> 0]
    /\ in_flight = 0 /\ peak_in_flight = 0
    /\ calls = 0
    /\ pc = [t \in Threads |-> "idle"]
    /\ slot = [t \in Threads |-> 1]
    /\ kind = [t \in Threads |-> "any"]
    /\ current = [t \in Threads |-> 0]
    /\ peak = [t \in Threads |-> 0]
    /\ gpu_bufs = [s \in Slots |-> 0]
    /\ gpu_live = {} /\ for_gpu = {}
    /\ quiet = [t \in Threads |-> TRUE]
    /\ pool = "live"

-----------------------------------------------------------------------------
Goto(t, place) == pc' = [pc EXCEPT ![t] = place]

\* Thread t returns from its call, and its locals are gone.
Return(t) ==
    /\ Goto(t, "idle")
    /\ kind' = [kind EXCEPT ![t] = "any"]
    /\ slot' = [slot EXCEPT ![t] = 1]
    /\ current' = [current EXCEPT ![t] = 0]
    /\ peak' = [peak EXCEPT ![t] = 0]

\* Thread t changes a slot: no other thread's scan is quiet any more.
Disturb(t) == quiet' = [u \in Threads |-> quiet[u] /\ u = t]

(***************************************************************************)
(* alloc, alloc_aligned and alloc_for_gpu begin.  The first two borrow the *)
(* pool, which alloc_for_gpu's &mut self excludes.                         *)
(***************************************************************************)
Borrowed(k) == \E u \in Threads : pc[u] \in Allocating /\ (k = "gpu" \/ kind[u] = "gpu")

\* Fault: the scan begins at the second slot.
AllocBegin_Second(t, k) ==
    /\ pool = "live" /\ pc[t] = "idle" /\ ~Borrowed(k)
    /\ calls < MaxCalls /\ calls' = calls + 1
    /\ Goto(t, "scan")
    /\ kind' = [kind EXCEPT ![t] = k]
    /\ slot' = [slot EXCEPT ![t] = 2]
    /\ quiet' = [quiet EXCEPT ![t] = TRUE]
    /\ UNCHANGED <<allocated, handles, stats, current, peak, gpu, pool>>

AllocBegin(t, k) ==
    /\ pool = "live" /\ pc[t] = "idle" /\ ~Borrowed(k)
    /\ calls < MaxCalls /\ calls' = calls + 1
    /\ Goto(t, "scan")
    /\ kind' = [kind EXCEPT ![t] = k]
    /\ slot' = [slot EXCEPT ![t] = 1]
    /\ quiet' = [quiet EXCEPT ![t] = TRUE]
    /\ UNCHANGED <<allocated, handles, stats, current, peak, gpu, pool>>

\* The compare_exchange fails: try the next slot.
ScanTaken(t) ==
    /\ pc[t] = "scan" /\ slot[t] \in Slots /\ allocated[slot[t]]
    /\ slot' = [slot EXCEPT ![t] = @ + 1]
    /\ UNCHANGED <<allocated, handles, stats, calls, pc, kind, current, peak, gpu, quiet, pool>>

Misfit(t) == kind[t] = "aligned" /\ slot[t] \notin Aligned

\* Fault: a load and a store in place of the compare_exchange.
ScanTake_Unchecked(t) ==
    /\ pc[t] = "scan" /\ slot[t] \in Slots
    /\ allocated' = [allocated EXCEPT ![slot[t]] = TRUE]
    /\ Goto(t, IF Misfit(t) THEN "misaligned" ELSE "record")
    /\ Disturb(t)
    /\ UNCHANGED <<handles, stats, calls, locals, gpu, pool>>

\* The compare_exchange succeeds; alloc_aligned now looks at the address.
ScanTake(t) ==
    /\ pc[t] = "scan" /\ slot[t] \in Slots /\ ~allocated[slot[t]]
    /\ allocated' = [allocated EXCEPT ![slot[t]] = TRUE]
    /\ Goto(t, IF Misfit(t) THEN "misaligned" ELSE "record")
    /\ Disturb(t)
    /\ UNCHANGED <<handles, stats, calls, locals, gpu, pool>>

\* alloc_aligned gives a slot of the wrong alignment back and goes on.
ReleaseMisaligned(t) ==
    /\ pc[t] = "misaligned"
    /\ allocated' = [allocated EXCEPT ![slot[t]] = FALSE]
    /\ slot' = [slot EXCEPT ![t] = @ + 1]
    /\ Goto(t, "scan")
    /\ Disturb(t)
    /\ UNCHANGED <<handles, stats, calls, kind, current, peak, gpu, pool>>

\* Every slot was seen taken: None, or QueueFull from alloc_for_gpu.
ScanNone(t) ==
    /\ pc[t] = "scan" /\ slot[t] \notin Slots
    /\ Return(t)
    /\ UNCHANGED <<allocated, handles, stats, calls, gpu, quiet, pool>>

-----------------------------------------------------------------------------
(***************************************************************************)
(* PoolStats::record_alloc, and the BufferHandle that the call returns.    *)
(***************************************************************************)
RaiseInFlight(t) ==
    /\ pc[t] = "record"
    /\ in_flight' = in_flight + 1
    /\ current' = [current EXCEPT ![t] = in_flight + 1]
    /\ Goto(t, "load_peak")
    /\ UNCHANGED <<allocated, handles, peak_in_flight, calls, slot, kind, peak, gpu, quiet, pool>>

LoadPeak(t) ==
    /\ pc[t] = "load_peak"
    /\ peak' = [peak EXCEPT ![t] = peak_in_flight]
    /\ Goto(t, "swap_peak")
    /\ UNCHANGED <<allocated, handles, stats, calls, slot, kind, current, gpu, quiet, pool>>

\* record_alloc is done: the handle is built, or CUDA is asked for its memory.
Recorded(t) ==
    IF kind[t] = "gpu"
    THEN Goto(t, "gpu_alloc") /\ UNCHANGED <<locals, handles, for_gpu>>
    ELSE /\ Return(t)
         /\ handles' = [handles EXCEPT ![slot[t]] = @ + 1]
         /\ for_gpu' = for_gpu \ {slot[t]}

\* The loop's test fails, or the compare_exchange on the peak succeeds.
PeakDone(t) ==
    /\ pc[t] = "swap_peak"
    /\ \/ current[t] <= peak[t] /\ UNCHANGED peak_in_flight
       \/ /\ current[t] > peak[t] /\ peak_in_flight = peak[t]
          /\ peak_in_flight' = current[t]
    /\ Recorded(t)
    /\ UNCHANGED <<allocated, in_flight, calls, gpu_bufs, gpu_live, quiet, pool>>

\* Fault: the loop tries again with the peak it saw first.
PeakRaced_Stale(t) ==
    /\ pc[t] = "swap_peak" /\ current[t] > peak[t] /\ peak_in_flight # peak[t]
    /\ UNCHANGED vars

\* Fault: the loop gives up.
PeakRaced_Once(t) ==
    /\ pc[t] = "swap_peak" /\ current[t] > peak[t] /\ peak_in_flight # peak[t]
    /\ Recorded(t)
    /\ UNCHANGED <<allocated, stats, calls, gpu_bufs, gpu_live, quiet, pool>>

\* The compare_exchange fails: another thread raised the peak meanwhile.
PeakRaced(t) ==
    /\ pc[t] = "swap_peak" /\ current[t] > peak[t] /\ peak_in_flight # peak[t]
    /\ peak' = [peak EXCEPT ![t] = peak_in_flight]
    /\ UNCHANGED <<allocated, handles, stats, calls, pc, slot, kind, current, gpu, quiet, pool>>

\* Fault: the pointer the slot already had is freed, and stays in the map.
GpuAlloc_FreeOld(t) ==
    /\ pc[t] = "gpu_alloc"
    /\ \E p \in GpuPtrs \ gpu_live :
          /\ gpu_live' = (gpu_live \cup {p}) \ {gpu_bufs[slot[t]]}
          /\ gpu_bufs' = [gpu_bufs EXCEPT ![slot[t]] = IF @ = 0 THEN p ELSE @]
    /\ for_gpu' = for_gpu \cup {slot[t]}
    /\ handles' = [handles EXCEPT ![slot[t]] = @ + 1]
    /\ Return(t)
    /\ UNCHANGED <<allocated, stats, calls, quiet, pool>>

\* alloc_for_gpu: device memory for the slot, under its index.
GpuAlloc(t) ==
    /\ pc[t] = "gpu_alloc"
    /\ \E p \in GpuPtrs \ gpu_live :
          /\ gpu_live' = gpu_live \cup {p}
          /\ gpu_bufs' = [gpu_bufs EXCEPT ![slot[t]] = p]
    /\ for_gpu' = for_gpu \cup {slot[t]}
    /\ handles' = [handles EXCEPT ![slot[t]] = @ + 1]
    /\ Return(t)
    /\ UNCHANGED <<allocated, stats, calls, quiet, pool>>

\* cuMemAlloc fails: the handle is dropped on the way out.
GpuAllocFails(t) ==
    /\ pc[t] = "gpu_alloc"
    /\ Goto(t, "free")
    /\ kind' = [kind EXCEPT ![t] = "drop"]
    /\ UNCHANGED <<allocated, handles, stats, calls, slot, current, peak, gpu, quiet, pool>>

-----------------------------------------------------------------------------
(***************************************************************************)
(* Drop for BufferHandle, on any thread (the handle is Send): the slot is  *)
(* free before record_dealloc counts.                                      *)
(***************************************************************************)
DropHandle(t, s) ==
    /\ pc[t] = "idle" /\ handles[s] > 0
    /\ handles' = [handles EXCEPT ![s] = @ - 1]
    /\ slot' = [slot EXCEPT ![t] = s]
    /\ kind' = [kind EXCEPT ![t] = "drop"]
    /\ Goto(t, "free")
    /\ UNCHANGED <<allocated, stats, calls, current, peak, gpu, quiet, pool>>

FreeSlot(t) ==
    /\ pc[t] = "free"
    /\ allocated' = [allocated EXCEPT ![slot[t]] = FALSE]
    /\ Goto(t, "lower")
    /\ Disturb(t)
    /\ UNCHANGED <<handles, stats, calls, locals, gpu, pool>>

LowerInFlight(t) ==
    /\ pc[t] = "lower"
    /\ in_flight' = in_flight - 1
    /\ Return(t)
    /\ UNCHANGED <<allocated, handles, peak_in_flight, calls, gpu, quiet, pool>>

(***************************************************************************)
(* Drop for GpuDmaPool frees what gpu_bufs holds; then its field, the      *)
(* ZeroCopyDmaPool, unregisters its buffers and unmaps them.  No call      *)
(* borrows the pool, and a caller that keeps to the handles' contract has  *)
(* returned them: they point into the pool.                                *)
(***************************************************************************)
DropGpuPool ==
    /\ pool = "live"
    /\ \A t \in Threads : pc[t] = "idle"
    /\ \A s \in Slots : handles[s] = 0
    /\ gpu_live' = gpu_live \ {gpu_bufs[s] : s \in Slots}
    /\ pool' = "gpu_freed"
    /\ UNCHANGED <<allocated, handles, stats, calls, pc, locals, gpu_bufs, for_gpu, quiet>>

DropPool ==
    /\ pool = "gpu_freed"
    /\ pool' = "dropped"
    /\ UNCHANGED <<allocated, handles, stats, calls, pc, locals, gpu, quiet>>

RecordAlloc(t) == RaiseInFlight(t) \/ LoadPeak(t) \/ PeakDone(t) \/ PeakRaced(t)

ThreadStep(t) ==
    \/ ScanTaken(t) \/ ScanTake(t) \/ ReleaseMisaligned(t) \/ ScanNone(t)
    \/ RecordAlloc(t)
    \/ GpuAlloc(t) \/ GpuAllocFails(t)
    \/ FreeSlot(t) \/ LowerInFlight(t)

Next ==
    \/ \E t \in Threads, k \in {"any", "aligned", "gpu"} : AllocBegin(t, k)
    \/ \E t \in Threads : ThreadStep(t)
    \/ \E t \in Threads, s \in Slots : DropHandle(t, s)
    \/ DropGpuPool
    \/ DropPool

\* A thread that is scheduled goes on with its call; nothing in it blocks.
Fairness == \A t \in Threads : WF_vars(ThreadStep(t))

Spec == Init /\ [][Next]_vars /\ Fairness

-----------------------------------------------------------------------------
(***************************************************************************)
(* Properties                                                              *)
(***************************************************************************)
\* Every variable has its type, and a thread that took a slot is at one of the pool's.
TypeOK ==
    /\ allocated \in [Slots -> BOOLEAN]
    /\ handles \in [Slots -> Nat]
    /\ in_flight \in Int /\ peak_in_flight \in Int
    /\ calls \in 0 .. MaxCalls
    /\ pc \in [Threads -> {"idle"} \cup Allocating \cup Dropping]
    /\ slot \in [Threads -> 1 .. Capacity + 1]
    /\ \A t \in Threads : pc[t] \notin {"idle", "scan"} => slot[t] \in Slots
    /\ kind \in [Threads -> {"any", "aligned", "gpu", "drop"}]
    /\ current \in [Threads -> Int]
    /\ peak \in [Threads -> Int]
    /\ gpu_bufs \in [Slots -> GpuPtrs \cup {0}]
    /\ gpu_live \subseteq GpuPtrs
    /\ for_gpu \subseteq Slots
    /\ quiet \in [Threads -> BOOLEAN]
    /\ pool \in {"live", "gpu_freed", "dropped"}

\* Thread t took slot s and has not handed it over or freed it.
Owns(t, s) == pc[t] \in {"misaligned", "free"} \cup Recording /\ slot[t] = s

\* A slot marked allocated has exactly one owner, a live BufferHandle or a
\* thread on its way to one or away from it; a free slot has none.  Neither
\* a race between scans nor a misaligned slot leaks or shares a buffer.
SlotsOwned ==
    \A s \in Slots :
        /\ handles[s] <= 1
        /\ \A t \in Threads : Owns(t, s) =>
              handles[s] = 0 /\ \A u \in Threads \ {t} : ~Owns(u, s)
        /\ allocated[s] <=> handles[s] = 1 \/ \E t \in Threads : Owns(t, s)

\* Slots that record_alloc has counted and that are still allocated.
Counted ==
    {s \in Slots : \/ handles[s] > 0
                   \/ \E t \in Threads : Owns(t, s) /\ pc[t] \in {"load_peak", "swap_peak", "gpu_alloc", "free"}}

\* Threads that have freed a slot and not lowered the count.
Uncounted == {t \in Threads : pc[t] = "lower"}

\* in_flight is the number of counted slots and of slots freed but not yet
\* taken off: it exceeds the slots in use only by drops half done, and is
\* exact when nobody is inside the pool.
InFlightExact == in_flight = Cardinality(Counted) + Cardinality(Uncounted)

\* The recorded peak is at least the count, unless a thread that saw a count
\* as high is still about to record it: racing allocations lose no peak.
PeakCovers ==
    \/ in_flight <= peak_in_flight
    \/ \E t \in Threads : pc[t] \in {"load_peak", "swap_peak"} /\ in_flight <= current[t]

\* PoolStats accounts for every step of every thread.
StatsExact == InFlightExact /\ PeakCovers

Suits(t, s) == kind[t] = "aligned" => s \in Aligned

\* A scan that no other thread disturbed and that found nothing leaves no
\* slot that it could have had.
QuietScanFinds ==
    \A t \in Threads : pc[t] = "scan" /\ slot[t] \notin Slots /\ quiet[t]
        => \A s \in Slots : Suits(t, s) => allocated[s]

\* While the pool lives, the pointer gpu_ptr gives for a slot is device memory that was not
\* freed, no other slot has it, and every handle of alloc_for_gpu has one.
GpuMemoryOwned ==
    pool = "live" =>
        /\ \A s \in Slots : gpu_bufs[s] # 0 => gpu_bufs[s] \in gpu_live
        /\ \A r, s \in Slots : gpu_bufs[r] = gpu_bufs[s] /\ gpu_bufs[r] # 0 => r = s
        /\ \A s \in for_gpu : handles[s] > 0 => gpu_bufs[s] # 0

\* Every call into the pool returns, however the threads race for the peak.
CallsReturn == \A t \in Threads : pc[t] # "idle" ~> pc[t] = "idle"
=============================================================================

# A TLA+ model of TPT Torus

TPT Torus is a Rust framework for asynchronous I/O: a *Torus* hands flows
(operations with a `user_data`) to a platform backend and reaps completions;
an async facade turns them into futures.  This directory models the parts of it
that keep state across threads, checks them with TLC and proves the most
important results with TLAPS.  All paths below are relative to the repository.

## Inventory

| Part | State | Operations | Talks to | Modelled by |
|---|---|---|---|---|
| `TorusAsync`, `WakerRegistry`, futures (`tpt-torus-core/src/async_api.rs`) | two maps behind two mutexes (wakers, results), an id counter, a `FutureState` per future, a reaper thread | `poll`, `drop`, `complete`, `unregister`, the reaper loop | `Torus`, the executor | `TorusAsync` |
| Tokio adapters (`async_tokio.rs`) | `submitted`, `user_data`, `offset`, the reader's scratch `Vec` | `poll_read`, `poll_write` | `poll_read_op`, `poll_write_op` | `TokioReader`, `TokioWriter`, `TokioCopy` |
| `Torus` (`lib.rs`), metrics (`observability.rs`) | the backend behind a mutex, a span map, a total | `submit`, `submit_batch`, `reap`, `wait` | a `Backend` | `Torus`, `Backend` |
| io_uring backend (`tpt-torus-backend-uring`) | SQ and CQ rings shared with the kernel, `in_flight`, fixed and provided buffers | `submit`, `reap`, `wait`, multishot, cancel | the kernel | `UringBackend` |
| kqueue backend (`tpt-torus-backend-kqueue`) | reactor thread, file pool, contexts, completion queue, `in_flight` | `submit`, `reap`, `wait`, `drop` | the kernel | `KqueueBackend` |
| IOCP backend (`tpt-torus-backend-iocp`) | completion port, reactor thread, overlapped structures, accept sockets, `in_flight` | the same and `associate` | the kernel | `IocpBackend` |
| `LeaseRegistry` (`lease.rs`) | ordered map of regions with a count | `register`, `unregister`, `checkout`, `checkin`, `verify` | callers | `LeaseRegistry` |
| `ResourceLimiter` (`cgroup.rs`) | an atomic counter | `try_reserve`, `release` | callers | `ResourceLimiter` |
| C API (`tpt-torus-cxx`) | an opaque handle | blocking calls, batches, `torus_wait`, `torus_reap` | `Torus` | `CApi` |
| DMA pool (`tpt-torus-hw/src/dma_pool.rs`) | slots with an atomic flag, statistics, device pointers | `alloc`, `alloc_aligned`, `alloc_for_gpu`, drops | threads, CUDA | `ZeroCopyDmaPool` |
| SPDK commands (`tpt-torus-hw/src/spdk.rs`) | queue pairs, a completion state per call, a buffer pool | `read`, `write`, `flush`, `alloc`, `free` | the device | `SpdkNamespace` |
| Virtual rings (`rings.rs`) | head, tail, slots | `publish`, `consume` | nobody at this commit | |
| rest of the hardware crate | wrappers of foreign libraries | | CUDA, DPDK, XDP, the kernel | |

What is hard here: the reaper thread against polls and drops (two locks that are
never held together); reactor threads that complete a flow before `submit` has
counted it; a kernel that posts completions while `reap` loops; rings at their
limits; a submission that fails half way; waiting under a mutex; operations given
up by their callers while a device still has the buffer; lock-free slots and
statistics; a timeout against a late answer.  `PROJECT.json` lists each hazard at
its line.

## Modules

| Module | Models | Remarks |
|---|---|---|
| `TorusResult` | `result.rs` | a completion and what a poll makes of it |
| `AsyncIo` | nothing: the promise of the facade | one operation per future, one outcome, answered at most once |
| `TorusAsync` | `async_api.rs`, `Torus::submit`, `Torus::reap` | one action per lock-protected step; refinement mapping to `AsyncIo` at the end |
| `Backend` | the promise of the `Backend` trait | an operation completes at most once, `reap` returns what there is in completion order |
| `KqueueBackend` | `tpt-torus-backend-kqueue/src/lib.rs` | implements `Backend` |
| `IocpBackend` | `tpt-torus-backend-iocp/src/lib.rs` | implements `Backend` |
| `UringBackend` | `tpt-torus-backend-uring/src/lib.rs` | `submit` and `reap` in single steps, the kernel beside them |
| `Torus` | `lib.rs`, spans and total of `observability.rs` | steps of a front end over `Backend`, for `CApi` |
| `CApi` | `tpt-torus-cxx/src/lib.rs` | composes several threads' calls with `Torus` and `Backend` |
| `TokioReader`, `TokioWriter` | the two adapters, `poll_read_op`, `poll_write_op` | one action per outcome of a poll |
| `TokioCopy` | a task that copies through both | composes the adapters over one registry |
| `LeaseRegistry` | `lease.rs` | one action per method, each under the RwLock |
| `ResourceLimiter` | `cgroup.rs:129-187` | one action per atomic access |
| `ZeroCopyDmaPool` | `dma_pool.rs` | one action per atomic access |
| `SpdkNamespace` | commands and `DmaPool` of `spdk.rs` | one action per foreign call or test of the poll loop |
| `...Proofs` | | theorems |
| `MC...` | | instances for TLC |

Operators named `X_Fault` (`ReaperReap_One`, `NotifyOne_Silent`, ...) are variants
of `X` with a plausible mistake.  They are used to see that a property fails when
the code is wrong, and are not part of any specification.

### TorusAsync

`state[f]` is the future's `FutureState`; `pc[f]` is the point between two locks
at which the thread that polls or drops `f` stands: `new`, `submit` (id allocated),
`register` (accepted, waker not yet stored), `first_pending` (first poll returned),
`take` (Waiting arm, waker stored), `pending`, `unregister_waker`,
`unregister_result`, `ready`, `dropped`.  The reaper (`rpc`) is at `reap`, `sleep`,
`insert` (before the results lock) or `wake` (before the wakers lock) for the head
of its `batch`.  The seven futures have textually the same `poll`; the map names
different arms of different ones.  `awake[f]` is the executor's: a poll needs it,
`wake()` sets it.  `produced` records the outcome the backend chose and
`torusRefs` who owns the `Arc<Torus>`: `DropTorusAsync` leaves the reaper its own,
and the loop has no exit.

Modelling choices: an id counter that does not wrap (2^64); a poll of a finished
future (which panics) is not made; the backend is any that completes each accepted
flow once and hands completions to `reap` in completion order.

### LeaseRegistry

`regions` is the map, `leases` what the callers hold.  The caller's contract of
the unsafe `register` is in `Buffers` and in `Register`'s first conjunct: without
it an empty buffer registered at the start of a region would replace that region.
A method that returns an error changes nothing and is not an action.

### ResourceLimiter

`try_reserve` is the load (`TryReserveLoad`, `TryReserveRefused`) and the
`fetch_add` (`TryReserveAdd`).  `in_flight` keeps its width: arithmetic is modulo
`U32`, and that it never wraps is proved.  The increment of a caller that finds at
the add that it lost the race stays in the counter: a later caller may be refused
although slots are free, which is why no property says that a refusal is justified.

### UringBackend

The submission ring is a record of head, tail and slots.  A turn of the loop in
`submit` is `SubmitOne` for a flow of one SQE; for a vectored flow it is
`SubmitVectored` (the SQE of the first buffer, whose tail the code has read and not
stored: `vec`), `SubmitBuffer` for each of the others, which finds the same tail, and
`SubmitVectoredEnd`, which stores it.  `SubmitEnter` ends the call: `submitted` is the
code's local count, and `Enter` is `io_uring_enter`: it takes what it finds, or a part,
or fails.  The kernel
completes operations in any order, posts to the CQ ring or, when that is full, to
its overflow list.  `reap` is `ReapBegin`, for each turn of the loop
`ReapLook` (the test) and `ReapOne` (the result and the new head), and
`ReapEnd`, with the kernel between them; `wait` blocks in the kernel.  `pc` is the
call that holds the backend mutex.  Histories: `asked` (the buffers of the flows of
this `submit`), `told` (what `submit` reported as
submitted), `taken` (what the kernel got), `posted`, `reaped`.

Some promises hold only within limits the code does not enforce.  `careful`, chosen
once in `Init`, says whether a behaviour keeps to them (`Limits`: batches that fit
the ring, no flow of several buffers, fewer completions outstanding than the CQ
ring has entries, an `io_uring_enter` that takes what it is given).  A property
with `careful =>` is about the behaviours that do; the others are about all.
Beyond the limits the model also shows what no run is spent on: a batch larger than
the ring overwrites its own SQEs (`SqFull` is never true); after a failed
`io_uring_enter` the SQE stays published, so the next `submit` starts a flow that
was reported as failed; a completion ring that holds exactly as many entries as it
has looks empty to `reap` (`CqEmpty`) and stays so; and `wait` asks the kernel for
all of `in_flight`, so that one slow operation keeps back the others.

Left out: fixed and provided buffers, SQPOLL, failures of set-up, and the errno,
which `libc::syscall` leaves in `errno` while the code negates the return value.

### KqueueBackend

The calls of the trait run one at a time (`pc`); beside them run the workers of the
file pool and the reactor.  `submit` is `SubmitBegin`, one action per flow
(`SubmitFile`, `SubmitAccept`, ..., which hand the flow to a worker, register it
with kqueue or complete it at once) and `SubmitEnd`, which raises `in_flight`: a flow
may complete before it is counted.  `reg` maps descriptor and filter to the context
registered last; an `EV_ADD` over an earlier one, or a `close`, leaves the earlier
flow in `displaced`: it never completes and its context is never freed.  The
properties say that this, a reactor that ended and a socket that stays silent are
the only ways for a flow not to complete.  Pushing a completion and notifying are
two steps (`ringing`), as are looking at the queue and sleeping in `wait`
(`asleep`).  A failing `kevent` ends the reactor, as in the code, EINTR included.

### IocpBackend

As above, with the kernel (`started`), the port and the batch of the reactor
(`entries`).  An operation is one overlapped call: a vectored flow starts one per
buffer and counts once, so that after it (`split`) `in_flight` is off and may wrap,
which the properties leave out.  A handle that nobody associated with the port ends
its operations unheard.  `ovl` and `sockets` are the overlapped structures and
the sockets created for accepts; every error path of the seven submissions and of
`finish_accept` is an outcome of its action.  `wait(0)` returns at once here,
where the trait's comment says that 0 waits indefinitely.  Results are abstracted to
which operation completed; `last_os_error` is not modelled.

### Torus and CApi

`Torus` gives the steps between which another thread may run: the locked part of
`submit`, the insertion of the span after the lock, `wait` with the lock held, the
locked part of `reap`, and the removal and recording of the spans.  `CApi` has the
calls of the C functions by several threads; `pc[t]` is the step a thread's call has
come to.  A blocking call submits, waits, reaps *everything* and calls
back with the first completion; the others are dropped.  When a wait ends depends on
the platform's `backend` (`WaitOver`), and every one is explored.  The trait says "Block
until at least one completion is available, up to `timeout_us` microseconds" and "Pass
`0` for an indefinite wait" (`backend.rs:34`).  kqueue does that.  IOCP takes 0 for a time
that is up.  io_uring ignores the timeout, as its own comment says, and waits until *all*
operations in flight have completed, or for a signal (`WaitInterrupted`): there
`torus_read` of a silent descriptor never returns, and since `Torus::wait` keeps the
mutex no other call on the handle does (`LockedForever`).  `CallsReturn` says that this,
and with kqueue a `torus_wait` without timeout, are the only ways for a call not to
return.  The histories say what
callers were given.  The properties are about callers the API can serve: as long as
no two operations overlap a callback gets its own completion, whatever other threads
wait and reap; with two in flight it may get the other's.  A caller's contract is
that no call is in progress in `torus_destroy`.  `torus.hpp` only wraps these
functions (it needs `<coroutine>`, which it does not include).

### TokioReader, TokioWriter and TokioCopy

The reader's four fields, the flow in flight with the allocation it writes to, and
the caller's buffer (`need`).  Growing the scratch `Vec` may keep or move the
allocation; a completion written to the old one is not seen in the new one.  The
writer owns no buffer: its flow points to the caller's slice, and the device may find
anything there once the caller has given the slice up (`Found`).  `switched` and
`w_switched` remember that a caller gave an operation up and came with another
buffer: from then on the scratch buffer may move under the read in flight, a longer
answer may be copied into a shorter buffer and a write is answered with the count of
another, so the guarantees are stated up to that point.  After an error `submitted`
stays set in both adapters and the next read or write waits for a result already
taken: it is never answered.

`TokioCopy` composes both over one registry: `next_id`, `results` and `wakers` are
shared.  `task` says where the one task is that polls them: `running` (or scheduled),
`registering` (in a first poll, between `submit` and `register`), `first_pending` or
`pending` (parked by a first or by a later poll).  Only a running task is polled, and a
parked one runs again when its completion calls a registered waker (`Woken`), when its
caller gives the operation up, or spuriously.  `poll_read_op` and `poll_write_op` have
the same gap in the first poll as the futures of `TorusAsync`: a completion before
`RegisterFirst` wakes nobody (the run `async_lost_wakeup` shows it for the futures).
`RepolledAnswered` is therefore about tasks parked by a later poll: with an operation on
its way they are answered, with bytes or with the error; and as long as no operation fails
they always have one on its way.

### ZeroCopyDmaPool

Every atomic access of `alloc`, `alloc_aligned`, `record_alloc`, `record_dealloc` and
the drops is a step: a scan tries slot after slot, `alloc_aligned` takes a slot
before it looks at the alignment and gives it back, the peak is raised by a
`compare_exchange` loop.  `quiet` remembers the scans nobody disturbed: a scan that
runs beside others may return `None` although slots are free.  `alloc_for_gpu`
replaces the device pointer of a slot used before; the old one is freed by nobody.
Handles are returned before the pool is dropped (they hold a raw pointer to it).  The
totals of allocations and deallocations, which only grow, are left out.

### SpdkNamespace

A command allocates a queue pair, starts, polls (`Process`, then `CheckDone`, then
`CheckDeadline`, the order of the loop), frees the queue pair and returns.  The device
answers with success, error or a null completion, or never.  That
`spdk_nvme_ctrlr_free_io_qpair` aborts what is outstanding, and that callers free a
pool buffer once, are contracts: the code relies on both and checks neither.

## Runs

| Run | Checks | Result |
|---|---|---|
| `async` | `CompletionConserved`, `RegistryClean`, `NoLostWakeup`; `ImplementsAsyncIo`; `RepolledTaskServed` (any executor) | hold |
| `async_lost_wakeup` | `EveryTaskServed`, parking executor | violated: completion dispatched between `submit` and `register` |
| `lease` | `NoOverlap`, `LeaseCovered`, `CountExact`, `LookupComplete` | hold |
| `limiter` | `LimitKept`, `CounterBounded` | hold |
| `uring_rings` | `FifoOrder`, `EndsOnce` under every fault; `AccountExact`, `Progress` within the limits | hold |
| `uring_vectored` | `HandedOver` | violated: the second buffer's SQE is written over the first's |
| `tokio_copy` | `CopyExact`, `ReaderExact` until a caller switches buffers; `RepolledAnswered` (tasks polled when woken) | hold |
| `kqueue` | `AccountExact`, `ContextsOwned`, `ImplementsBackend`, `FlowsServed`, `CallsReturn` | hold |
| `iocp` | `AccountExact`, `ResourcesOwned`, `ImplementsBackend`, `Progress` | hold |
| `c_api` | `OwnCompletion`, `HandedOverOnce`, `SpansConsumed`, `CallsReturn` | hold |
| `dma_pool` | `SlotsOwned`, `StatsExact`, `QuietScanFinds`, `GpuMemoryOwned`, `CallsReturn` | hold |
| `spdk` | `DeviceInsideCall`, `Conserved`, `AnswerFaithful`, `CommandsReturn` | hold |

A property that bundles parts (`AccountExact`, `ResourcesOwned`, `StatsExact`,
`Conserved`, `AnswerFaithful`, `Progress`, `CallsReturn`, `CopyExact`, `HandedOverOnce`)
is a conjunction of definitions with a comment each; the type invariant is one of them
where no theorem covers it.  The two violated properties are what a comment or a doc
of the repository says; the findings in `PROJECT.json` quote it.

### Bounds

* `TorusAsync`: two futures (one polls, drops or unregisters while the other's
  completion shares its batch), one success and one error outcome, one submission
  error.  Safety and refinement are proved for any number.
* `LeaseRegistry`: addresses below 5, which fit several regions, adjacent, empty and at
  the end of the address space; three operations, enough for two in one region
  and one in another.
* `ResourceLimiter`: limit 3 and five callers, so that more callers than slots
  race between the load and the add; `U32` is 16.
* `UringBackend`: rings of 2 and 4 entries (what `io_uring_setup(2)` makes) and
  flows of no, one and three buffers, multishot operations of up to three
  completions, enough to go round both rings.  A careful use keeps fewer
  completions outstanding than the CQ ring has entries; a careless one goes up to
  `MaxOutstanding`, 6, beyond the CQ ring.  `U32` is 16: no counter comes near it
  where nothing fails.  Safety is proved for rings and flows of any size.
* `KqueueBackend`: two descriptors, two workers and three flows: two on one
  descriptor and filter, and one beside them; events come in arrays of up to two.
  Safety and refinement are proved for any number of each (flows below 2^32).
* `IocpBackend`: a file and a socket, two flows, vectored ones of up to two buffers,
  batches of up to two entries, so that the wake-up of `drop` can come between two
  completions.  Safety and refinement are proved for any number.
* `CApi`: two threads, two operations, four calls, an array of one result, which two
  completions overflow, over each of the three backends.  Safety is proved for any number.
* `TokioCopy`: a file of 4 bytes, buffers of 1 to 3 and six operations, so that reads
  and writes are short, split, at end of file and over a scratch buffer longer than
  needed.  Safety is proved for any sizes.
* `ZeroCopyDmaPool`: three threads and two slots, one of them aligned, two device
  pointers, three allocations: two threads race for a slot while a third frees one.
  Safety is proved for any number.
* `SpdkNamespace`: two threads and two buffers, so that one thread's buffer is
  handed to the other.  Safety is proved for any number.

Symmetry is used for the operations of the lease run only, which checks no liveness.
Deadlock is not checked where the system stops: after `drop`, `torus_destroy` or the
end of the bounded calls.

### Fairness

* `TorusAsync`: threads that can run do (`PollStep`, `Reaper`), and a device
  finishes what it accepted.  A task is polled only while `awake`: tokio and async-std
  park tasks.  Nothing forces drops.
* `UringBackend`: the kernel completes accepted operations, flushes its overflow list
  when there is room, a `submit`, `reap` or `wait` under way goes on, and the caller calls `reap`
  again and again, whatever else it calls (strong fairness of `ReapBegin`: the mutex
  is taken by other calls in between).
* `KqueueBackend`: workers and reactor run, calls that can return do, and a registered
  socket becomes ready and is reported (strong fairness of `ReactorFetch`: the
  reactor's time-outs come in between).  `kevent` does not have to fail or succeed.
* `IocpBackend`: the reactor runs and the kernel ends the operations it started.
* `CApi`: a thread in a call goes on, a wait returns once its backend has what it waits
  for (with kqueue and IOCP that may be the end of its time, with io_uring only
  completions), and a thread gets the mutex if it is free again and again (strong
  fairness of `LockStep`).  No operation has to complete and no signal has to come.
* `TokioCopy`: the executor runs the task while it is scheduled, which a parked task is
  only after a wake-up, and the device finishes.  No spurious wake-up has to come.
* `ZeroCopyDmaPool`: every thread inside the pool runs.  `SpdkNamespace`: every thread
  runs and the clock passes the deadline; the device need not answer.

## Proofs

Proved for every value of the constants; the assumptions are the named ASSUMEs of
the modules, which TLC evaluates on every run.

* `TorusAsyncProofs`: `IInv` is inductive.  `OwnOutcome` alone is not: to know
  that `take_result` finds the future's own result one needs that ids are unique
  (`UniqueIds`), that the queues and the map carry what the backend produced
  (`ResultsFaithful`) and that program counter and `FutureState` agree (`Phases`);
  `CompletionConserved` needs in addition that a completion is never in two places
  (`StagesDisjoint`) and always in one (`Located`); `NoLostWakeup` needs
  `WakersKept`, its part before `take_result`.  One lemma per action shows that the
  action keeps `IInv`.  From it: `TypeCorrect`, `OwnOutcomeHolds`,
  `NoLostWakeupHolds`, `CompletionConservedHolds`, `RegistryCleanHolds`, and
  `Refinement`, that every step is a step of `AsyncIo` or a stutter.
* `CoreProofs` is about three components of `tpt-torus-core` that share no variable
  (their specifications are `LeaseSpec`, `LimiterSpec` and the `Spec` of `TokioCopy`).
  - `LeaseRegistry`: disjointness, coverage and exact counts are inductive together
    (`LeaseInv`): a lease lies in one region only because regions are disjoint, so
    `checkin` by address lowers the right count, so a count of zero means no lease
    and `unregister` is safe.
  - `ResourceLimiter`: the counter covers the slots held, and the increments made or
    about to be made exceed the limit by at most the number of callers (`LimiterInv`).
  - `TokioCopy`: `CopyExact` and `ReaderExact` speak of bytes that have arrived; the
    invariant `CopyInv` has to say what is on its way.  `Reading` says that a read in
    flight was submitted for the present buffer, at the present offset and into the
    present allocation, and that a result not yet taken has the file's next bytes in
    the scratch buffer; `Writing` that a write in flight has the bytes of the task's
    buffer at the end of what was accepted, and that a result not yet taken counts
    bytes that are in the file already.  These need `Ids` (a result is the reader's or
    the writer's, never both, and an operation has none while it is in flight: the
    adapters share the registry), `Turns` (the task reads with an empty buffer only, so
    that one adapter is polled at a time) and `Fits` (the scratch `Vec` never shrinks
    below a read it was given to, which holds of callers that switch too).  From it:
    `ReaderExactHolds` and `CopyExactHolds`.  `TaskInv` says where the task may be parked
    and, for one parked by a later poll, that its waker is registered and its completion
    not stored; it is inductive because a completion that takes the waker out wakes
    the task, and it gives `ParkedIsWokenHolds`, the safety part of `RepolledAnswered`.
    Assumed: `MaxOps` is a number.
* `UringBackendProofs`: `FifoOrder` needs `Ordered`, which relates every slot between
  head and tail to the completion posted at that position; that a `Post` at the tail
  overwrites none of them is the lemma that two positions less than a ring apart have
  different slots (`SlotsDiffer`).  `Ending` says that an operation is armed under one
  number and that a completion without `F_MORE` is the last of its operation, `Counted`
  that operations accepted are armed or have had their last completion, and `RoomKept`
  that every completion there is or will be fits the completion ring: within the limits
  it is never full, which is what makes `reap`'s masked test for an empty one right
  (`NeverFullHolds`) and keeps `in_flight` below the modulus.  The submission side is
  `Positions` (a flow takes one position, although the vectored branch publishes others
  for a while and takes them back) and `Handing` (within the limits the SQEs between
  head and tail are those of the flows asked for).  From it: `FifoOrderHolds`, under
  every fault and for careless use too, `AccountExactHolds`, `EndsOnceHolds`,
  `NeverFullHolds`.  Assumed: `CqEntries <= U32` (the number of entries is a `u32`).
* `ZeroCopyDmaPoolProofs`: ownership of slots is inductive by itself; the peak needs
  `PeakSeen` (what a thread in the loop has read is at most the peak there was),
  an undisturbed scan needs `QuietSoFar` (every slot it passed is still taken or does
  not suit), the device pointers need `GpuMapped`, and that `in_flight` is exact needs
  ownership, since a slot is counted by its one owner.  From the invariant:
  `SlotsOwnedHolds`, `InFlightExactHolds`, `PeakCoversHolds`, `StatsExactHolds`,
  `QuietScanFindsHolds`, `GpuMemoryOwnedHolds`.

* `KqueueBackendProofs`: `AccountExact` counts flows, so the invariant has to say
  where each one is: `OnePlace` (the flows submitted are partitioned into job, worker,
  registered, fetched, displaced, completed and reaped) and `OnceEach` (there once).
  `Counted` says that `in_flight`, the turns of a `submit` still to be added, and the
  reaped completions make up the flows submitted, which is what keeps the
  subtraction in `reap` from wrapping although a completion may come before its flow
  is counted.  `CtxExact` says which contexts live, `DropPhase` how far workers and
  reactor are while `drop` joins them: after it only displaced and registered
  flows are left.  From it: `AccountExactHolds`, `ContextsOwnedHolds`, and
  `Refinement`, that every step is a step of `Backend` or a stutter.  Assumed: fewer
  than 2^32 flows, and at least one worker (`FileThreadPool::new` takes `max(1)`).
* `IocpBackendProofs`: in the same way (`Apart`, `OnceEach`), with the operations of
  flows and buffers still to come never used (`Fresh`), and `Counted` as long as no
  vectored flow was split.  `ResourcesOwned` is inductive beside these.
  `WakeOnce` (one wake-up, posted by `drop`) is needed where the reactor passes over
  the entry with a null overlapped: the model removes the first such entry.
  From it: `AccountExactHolds`, `ResourcesOwnedHolds` and `Refinement`; one turn of the
  reactor completes all its entries in one `Complete` of `Backend`.
* `CApiProofs`: that a blocking call gets its own completion although it hands over
  the first of whatever it reaped needs `Alone` (while nothing overlapped at most one
  operation is in flight, a reap finds at most one, and in a blocking call
  both are its own) and `Phases`.  A completion is in one place (`Apart`).  `SpanCount`
  counts the operations that have neither a span nor a submitter that is still to
  insert it, and `OneUser` says which spans these are when one thread uses the handle.
  From it: `OwnCompletionHolds`, `HandedOverOnceHolds`, `SpansConsumedHolds`, for any
  number of threads.  Assumed: finitely many operations, told apart from the other
  things a callback may be given (they are `u64`s in the code).
* `SpdkNamespaceProofs`: the free list and the threads hold each index once
  (`FreeListOnce`, `OneHolder`) and all of them (`AllThere`, which carries the count);
  `Phases` ties queue pair, completion state and result to the step of the call, so
  that a time-out can only be answered after a poll that heard nothing.  From it:
  `ConservedHolds`, `DeviceInsideCallHolds`, `AnswerFaithfulHolds`, for any set of
  threads, not even finite, and a pool of any size.

`TypeOK` is a theorem of its own where no listed property contains it; elsewhere it is
part of the invariant, and so of its theorem.  The facts about sequences that hold each
value once (`InSeqOf`, `AppendOnce`, ...) are lemmas of each module that needs them.

Only model-checked: all liveness (`RepolledTaskServed`, `Progress`, `FlowsServed`,
`CallsReturn`, `CommandsReturn`, `RepolledAnswered`), since the prover has no
ENABLED.  Every invariant and every refinement that a run checks is proved, and the two
violated properties are counterexamples that TLC finds.

## Not modelled, and why

* `UringBackend`: fixed buffers, the provided-buffer ring, SQPOLL, failures
  of set-up.  What they do is the kernel's part for the most; a model of the SQPOLL
  thread and of provided buffers beside the rings is the next step.
* Two `TorusAsync` over one `Torus` (`from_torus`): both registries count ids from 1
  and two reapers drain one queue; the model has one.
* `TorusPool`, which picks a `Torus` by a counter; `register_leases`, which forwards.
* The virtual rings: `Torus` allocates them and nobody uses them.
* `nvme_gpu.rs`: it takes completions from the submission ring's indices and never
  fills the SQ array, so that what a transfer does is up to the kernel.
* `cuda.rs`, `gpu_direct.rs`, `dpdk.rs`, `xdp.rs` and the probing of SPDK controllers:
  dynamically loaded foreign functions and struct layouts.
* Detection of cgroup limits (file parsing), histograms and tracing events, panic
  diagnostics, the language bindings and the project generator.

Next: provided buffers and the SQPOLL thread beside the rings, and the second
`TorusAsync` of `from_torus`.

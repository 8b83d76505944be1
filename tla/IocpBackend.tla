----------------------------- MODULE IocpBackend -----------------------------
(***************************************************************************)
(* IocpBackend (tpt-torus-backend-iocp/src/lib.rs).  submit, reap, wait    *)
(* and drop run one at a time under the backend mutex of Torus; the kernel *)
(* completes operations and the reactor thread drains the completion port  *)
(* at any moment.                                                          *)
(*                                                                         *)
(* An operation is <<user_data, number>>: one overlapped call.  Readv and  *)
(* Writev are one operation per non-empty buffer, everything else is one.  *)
(* The TorusOverlapped of an operation is identified with it.              *)
(***************************************************************************)
EXTENDS Integers, Sequences, SequencesExt, FiniteSets

CONSTANTS
    Files, Sockets,     \* handles
    MaxCompletions,     \* MAX_COMPLETIONS
    U32,                \* stands for 2^32, the modulus of in_flight
    PortFails,          \* whether GetQueuedCompletionStatusEx may fail
    MaxBufs,            \* bound: non-empty buffers of a vectored flow
    MaxFlows            \* bound: flows ever submitted

ASSUME IocpAssumption ==
    /\ MaxCompletions \in Nat \ {0} /\ U32 \in Nat /\ MaxBufs \in Nat \ {0}
    /\ MaxFlows \in Nat /\ MaxFlows < U32 /\ PortFails \in BOOLEAN

VARIABLES
    pc,             \* the call under the backend mutex, or how far drop has come
    submitted,      \* submit's local count; 0 outside of it
    left, target,   \* the vectored flow in hand: buffers left, and {its handle}
    next_ud,        \* the user_data of the next flow
    open,           \* handles the process has open
    associated,     \* handles associated with the port
    started,        \* kernel: <<operation, handle>> that are under way
    port,           \* the completion port: operations, or Wake
    unheard,        \* kernel: operations whose end the port is not told
    reactor,        \* the reactor thread: "top", "port", "batch" or "exited"
    entries,        \* what the reactor got from the port
    shutdown,       \* the AtomicBool
    ovl,            \* operations whose TorusOverlapped is allocated
    sockets,        \* accept operations whose pre-created socket is open
    conns,          \* completions that carry an accepted socket
    cq,             \* completions
    in_flight,      \* the AtomicU32
    split,          \* history: vectored flows that are not exactly one operation
    reaped          \* history: completions in the order reap returned them

caller == <<pc, submitted, left, target, next_ud, split>>
os     == <<open, associated>>
kernel == <<started, port, unheard>>
thread == <<reactor, entries, shutdown>>
memory == <<ovl, sockets, conns>>
done   == <<cq, in_flight, reaped>>
vars   == <<caller, os, kernel, thread, memory, done>>

Handles == Files \cup Sockets
Operations == (1 .. MaxFlows) \X (1 .. MaxBufs)
Wake == <<0, 0>>                    \* the entry that drop posts: no overlapped

InSeq(s) == {s[i] : i \in 1 .. Len(s)}
InKernel == {r[1] : r \in started}
InPort == (InSeq(port) \cup InSeq(entries)) \ {Wake}

-----------------------------------------------------------------------------
(***************************************************************************)
(* submit: the loop over the flows; in_flight is raised after the loop.    *)
(***************************************************************************)

\* associate, called by whoever opened the handle.
Associate(h) ==
    /\ h \in open \ associated /\ pc # "dropped"
    /\ associated' = associated \cup {h}
    /\ UNCHANGED <<caller, open, kernel, thread, memory, done>>

SubmitBegin ==
    /\ pc = "idle"
    /\ pc' = "submit"
    /\ UNCHANGED <<submitted, left, target, next_ud, split, os, kernel, thread, memory, done>>

NextFlow ==
    /\ pc = "submit" /\ left = 0 /\ next_ud <= MaxFlows
    /\ next_ud' = next_ud + 1
    /\ submitted' = submitted + 1
    /\ UNCHANGED <<pc, associated, port, unheard, thread, conns, in_flight, reaped>>

\* The call succeeds or is pending: the kernel has the overlapped until the port
\* hands it to the reactor.
Starts(op, h) ==
    /\ h \in open
    /\ ovl' = ovl \cup {op}
    /\ started' = started \cup {<<op, h>>}
    /\ UNCHANGED cq

\* The call fails at once: the overlapped is freed and an error posted.
Fails(op) ==
    /\ cq' = Append(cq, op)
    /\ UNCHANGED <<ovl, started>>

\* Read and Write.
SubmitFile(h) ==
    /\ NextFlow
    /\ Starts(<<next_ud, 1>>, h) \/ Fails(<<next_ud, 1>>)
    /\ UNCHANGED <<open, left, target, split, sockets>>

\* Recv and Send.
SubmitSocket(h) ==
    /\ NextFlow
    /\ Starts(<<next_ud, 1>>, h) \/ Fails(<<next_ud, 1>>)
    /\ UNCHANGED <<open, left, target, split, sockets>>

\* Readv and Writev of n non-empty buffers: the loop over the buffers starts.
SubmitVectored(h, n) ==
    /\ NextFlow
    /\ left' = n
    /\ target' = IF n = 0 THEN {} ELSE {h}
    /\ split' = IF n = 1 THEN split ELSE split \cup {next_ud}
    /\ UNCHANGED <<open, ovl, started, sockets, cq>>

\* One buffer; the first that fails ends the loop.
VectoredBuffer ==
    LET op == <<next_ud - 1, left>> IN
    /\ pc = "submit" /\ left > 0
    /\ \/ \E h \in target : Starts(op, h) /\ left' = left - 1
       \/ Fails(op) /\ left' = 0
    /\ target' = IF left' = 0 THEN {} ELSE target
    /\ UNCHANGED <<pc, submitted, next_ud, split, os, port, unheard, thread, sockets, conns, in_flight, reaped>>

\* begin_accept: a socket is created for the connection, and closed again when
\* AcceptEx fails.
SubmitAccept(h) ==
    LET op == <<next_ud, 1>> IN
    /\ NextFlow
    /\ \/ Starts(op, h) /\ sockets' = sockets \cup {op}
       \/ Fails(op) /\ UNCHANGED sockets
    /\ UNCHANGED <<open, left, target, split>>

\* begin_connect: bind, look ConnectEx up, call it.
SubmitConnect(h) ==
    /\ NextFlow
    /\ Starts(<<next_ud, 1>>, h) \/ Fails(<<next_ud, 1>>)
    /\ UNCHANGED <<open, left, target, split, sockets>>

\* Close calls closesocket for every handle, which has no effect on a file, and
\* reports success.
SubmitClose(h) ==
    /\ NextFlow
    /\ open' = open \ ({h} \cap Sockets)
    /\ cq' = Append(cq, <<next_ud, 1>>)
    /\ UNCHANGED <<left, target, split, ovl, started, sockets>>

\* Fault: in_flight is raised once per batch.
SubmitEnd_CountOne ==
    /\ pc = "submit" /\ left = 0
    /\ pc' = "idle"
    /\ in_flight' = (in_flight + (IF submitted = 0 THEN 0 ELSE 1)) % U32
    /\ submitted' = 0
    /\ UNCHANGED <<left, target, next_ud, split, os, kernel, thread, memory, cq, reaped>>

SubmitEnd ==
    /\ pc = "submit" /\ left = 0
    /\ pc' = "idle"
    /\ in_flight' = (in_flight + submitted) % U32
    /\ submitted' = 0
    /\ UNCHANGED <<left, target, next_ud, split, os, kernel, thread, memory, cq, reaped>>

-----------------------------------------------------------------------------
(***************************************************************************)
(* The kernel (external) and the reactor.                                  *)
(***************************************************************************)

\* An operation ends; the port of its handle is told, if there is one.
KernelComplete(r) ==
    /\ r \in started
    /\ started' = started \ {r}
    /\ IF r[2] \in associated /\ pc # "dropped"
       THEN port' = Append(port, r[1]) /\ UNCHANGED unheard
       ELSE unheard' = unheard \cup {r[1]} /\ UNCHANGED port
    /\ UNCHANGED <<caller, os, thread, memory, done>>

ReactorTop ==
    /\ reactor = "top"
    /\ reactor' = IF shutdown THEN "exited" ELSE "port"
    /\ UNCHANGED <<caller, os, kernel, entries, shutdown, memory, done>>

\* GetQueuedCompletionStatusEx returns what there is, up to the array's size.
ReactorGet ==
    LET n == IF Len(port) < MaxCompletions THEN Len(port) ELSE MaxCompletions IN
    /\ reactor = "port" /\ n > 0
    /\ entries' = SubSeq(port, 1, n)
    /\ port' = SubSeq(port, n + 1, Len(port))
    /\ reactor' = "batch"
    /\ UNCHANGED <<caller, os, started, unheard, shutdown, memory, done>>

ReactorTimeout ==
    /\ reactor = "port" /\ port = << >>
    /\ reactor' = "top"
    /\ UNCHANGED <<caller, os, kernel, entries, shutdown, memory, done>>

\* Any other error ends the loop.
ReactorFails ==
    /\ reactor = "port" /\ PortFails
    /\ reactor' = "exited"
    /\ UNCHANGED <<caller, os, kernel, entries, shutdown, memory, done>>

\* Fault: the socket of a failed accept is forgotten.
FinishAccept_Forget(batch, failed) ==
    /\ failed \subseteq batch \cap sockets
    /\ conns' = conns \cup ((batch \cap sockets) \ failed)
    /\ UNCHANGED sockets

\* finish_accept: the socket is the result, or it is closed when the accept failed.
FinishAccept(batch, failed) ==
    /\ failed \subseteq batch \cap sockets
    /\ sockets' = sockets \ failed
    /\ conns' = conns \cup ((batch \cap sockets) \ failed)

\* Fault: only the first entry of a batch is looked at.
ReactorBatch_FirstOnly(failed) ==
    LET batch == RemoveFirst(entries, Wake) IN
    /\ reactor = "batch"
    /\ FinishAccept(InSeq(batch), failed)
    /\ ovl' = ovl \ InSeq(batch)
    /\ cq' = IF batch = << >> THEN cq ELSE Append(cq, Head(batch))
    /\ entries' = << >>
    /\ reactor' = "top"
    /\ UNCHANGED <<caller, os, kernel, shutdown, in_flight, reaped>>

\* The whole batch is handled under the lock of the completion queue.  An entry
\* without an overlapped is skipped: drop posts one.
ReactorBatch(failed) ==
    LET batch == RemoveFirst(entries, Wake) IN
    /\ reactor = "batch"
    /\ FinishAccept(InSeq(batch), failed)
    /\ ovl' = ovl \ InSeq(batch)
    /\ cq' = cq \o batch
    /\ entries' = << >>
    /\ reactor' = "top"
    /\ UNCHANGED <<caller, os, kernel, shutdown, in_flight, reaped>>

-----------------------------------------------------------------------------
(***************************************************************************)
(* reap, wait and drop.                                                    *)
(***************************************************************************)

\* Fault: the newest completion is taken first.
Reap_Newest ==
    /\ pc = "idle" /\ cq # << >>
    /\ in_flight' = (in_flight - Len(cq)) % U32
    /\ reaped' = reaped \o Reverse(cq)
    /\ cq' = << >>
    /\ UNCHANGED <<caller, os, kernel, thread, memory>>

Reap ==
    /\ pc = "idle" /\ cq # << >>
    /\ in_flight' = (in_flight - Len(cq)) % U32
    /\ reaped' = reaped \o cq
    /\ cq' = << >>
    /\ UNCHANGED <<caller, os, kernel, thread, memory>>

WaitBegin ==
    /\ pc = "idle" /\ in_flight # 0
    /\ pc' = "wait"
    /\ UNCHANGED <<submitted, left, target, next_ud, split, os, kernel, thread, memory, done>>

\* Ok, for a completion or because the deadline has passed; a timeout of 0 is a
\* deadline that has passed.
WaitReturn ==
    /\ pc = "wait"
    /\ pc' = "idle"
    /\ UNCHANGED <<submitted, left, target, next_ud, split, os, kernel, thread, memory, done>>

DropBegin ==
    /\ pc = "idle"
    /\ pc' = "join"
    /\ shutdown' = TRUE
    /\ port' = Append(port, Wake)
    /\ UNCHANGED <<submitted, left, target, next_ud, split, os, started, unheard, reactor, entries, memory, done>>

\* The reactor is joined and the port closed.
DropJoin ==
    /\ pc = "join" /\ reactor = "exited"
    /\ pc' = "dropped"
    /\ port' = << >>
    /\ unheard' = unheard \cup (InSeq(port) \ {Wake})
    /\ UNCHANGED <<submitted, left, target, next_ud, split, os, started, thread, memory, done>>

-----------------------------------------------------------------------------
Init ==
    /\ pc = "idle" /\ submitted = 0 /\ left = 0 /\ target = {}
    /\ next_ud = 1 /\ split = {}
    /\ open = Handles /\ associated = {}
    /\ started = {} /\ port = << >> /\ unheard = {}
    /\ reactor = "top" /\ entries = << >> /\ shutdown = FALSE
    /\ ovl = {} /\ sockets = {} /\ conns = {}
    /\ cq = << >> /\ in_flight = 0 /\ reaped = << >>

SubmitFlow ==
    \/ \E h \in Files : SubmitFile(h) \/ SubmitClose(h)
                        \/ \E n \in 0 .. MaxBufs : SubmitVectored(h, n)
    \/ \E h \in Sockets :
        SubmitSocket(h) \/ SubmitAccept(h) \/ SubmitConnect(h) \/ SubmitClose(h)

ReactorStep ==
    \/ ReactorTop \/ ReactorGet \/ ReactorTimeout \/ ReactorFails
    \/ \E failed \in SUBSET sockets : ReactorBatch(failed)

Next ==
    \/ \E h \in Handles : Associate(h)
    \/ SubmitBegin \/ SubmitFlow \/ VectoredBuffer \/ SubmitEnd
    \/ Reap \/ WaitBegin \/ WaitReturn \/ DropBegin \/ DropJoin
    \/ \E r \in started : KernelComplete(r)
    \/ ReactorStep

\* The reactor and the call in progress make progress, and the kernel ends every
\* operation at last.
Fairness ==
    /\ WF_vars(ReactorTop) /\ WF_vars(ReactorTimeout) /\ WF_vars(ReactorGet)
    /\ WF_vars(\E failed \in SUBSET sockets : ReactorBatch(failed))
    /\ WF_vars(VectoredBuffer) /\ WF_vars(SubmitEnd) /\ WF_vars(WaitReturn)
    /\ WF_vars(DropJoin)
    /\ WF_vars(\E r \in started : KernelComplete(r))

Spec == Init /\ [][Next]_vars /\ Fairness

-----------------------------------------------------------------------------
(***************************************************************************)
(* Properties.                                                             *)
(***************************************************************************)

\* Every variable has its type.
TypeOK ==
    /\ pc \in {"idle", "submit", "wait", "join", "dropped"}
    /\ submitted \in 0 .. MaxFlows /\ left \in 0 .. MaxBufs
    /\ target \subseteq Handles
    /\ next_ud \in 1 .. MaxFlows + 1 /\ split \subseteq 1 .. MaxFlows
    /\ open \subseteq Handles /\ associated \subseteq Handles
    /\ started \subseteq Operations \X Handles /\ unheard \subseteq Operations
    /\ port \in Seq(Operations \cup {Wake}) /\ entries \in Seq(Operations \cup {Wake})
    /\ reactor \in {"top", "port", "batch", "exited"} /\ shutdown \in BOOLEAN
    /\ ovl \subseteq Operations /\ sockets \subseteq Operations /\ conns \subseteq Operations
    /\ cq \in Seq(Operations) /\ in_flight \in 0 .. U32 - 1 /\ reaped \in Seq(Operations)

\* Operations started whose completion is not queued.
Pending == InKernel \cup InPort \cup unheard

\* As long as every flow was one operation, in_flight counts between two calls
\* exactly what is not reaped.  A vectored flow counts once and completes once per
\* buffer: after it the count is off, and fetch_sub may wrap below zero.
InFlightExact ==
    split = {} /\ pc \in {"idle", "wait"} =>
        in_flight = Cardinality(Pending) + Len(cq)
AccountExact == TypeOK /\ InFlightExact

\* The overlapped of an operation is allocated from the call to the completion,
\* on every path: the kernel never writes to a freed one and the reactor never
\* frees one twice.
OverlappedOwned == ovl = Pending

\* A socket created for an accept is in flight or it is the result of exactly one
\* completion: no error path leaks one, none closes one that was handed out.
AcceptSocketsOwned ==
    /\ conns \subseteq sockets \cap (InSeq(cq) \cup InSeq(reaped))
    /\ sockets \ conns \subseteq Pending

\* What the backend allocates for an operation has one owner at any time.
ResourcesOwned == OverlappedOwned /\ AcceptSocketsOwned

\* Each operation completes at most once and reap keeps the order.
Abstract == INSTANCE Backend WITH pending <- Pending, queue <- cq, reaped <- reaped
ImplementsBackend == Abstract!Spec

\* Operations nobody will complete: the handle was never associated with the
\* port, or the reactor is gone.
Stranded == unheard \cup (IF reactor = "exited" THEN Pending ELSE {})

\* Every other operation that was started reaches the completion queue: the
\* reactor drops none of a batch.
OperationsServed ==
    \A o \in Operations :
        o \in Pending ~> o \in InSeq(cq) \cup InSeq(reaped) \cup Stranded

\* drop returns.
DropReturns == pc = "join" ~> pc = "dropped"

\* The reactor neither drops an operation nor misses the wake-up of drop.
Progress == OperationsServed /\ DropReturns
=============================================================================

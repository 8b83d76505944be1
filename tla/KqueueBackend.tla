---------------------------- MODULE KqueueBackend ----------------------------
(***************************************************************************)
(* KqueueBackend (tpt-torus-backend-kqueue/src/lib.rs).  submit, reap,     *)
(* wait and drop run one at a time under the backend mutex of Torus.  Next *)
(* to them run the workers of FileThreadPool and the reactor thread; all   *)
(* of them push to one completion queue and ring one condition variable.   *)
(*                                                                         *)
(* A flow is its user_data, numbered in the order of submission.  An       *)
(* OpCtx is identified with the flow it was allocated for.                 *)
(***************************************************************************)
EXTENDS Integers, Sequences, SequencesExt, FiniteSets

CONSTANTS
    Fds,                \* file descriptors
    Workers,            \* threads of the file pool
    EventArraySize,     \* KEVENT_ARRAY_SIZE
    U32,                \* stands for 2^32, the modulus of in_flight
    KeventFails,        \* whether kevent may fail (EINTR, for one)
    MaxFlows            \* bound: flows ever submitted

ASSUME KqueueAssumption ==
    /\ EventArraySize \in Nat \ {0} /\ U32 \in Nat /\ MaxFlows \in Nat
    /\ MaxFlows < U32 /\ KeventFails \in BOOLEAN
    /\ Workers # {} /\ 0 \notin Workers    \* at least one: FileThreadPool::new takes max(1)

VARIABLES
    pc,             \* the call under the backend mutex, or how far drop has come
    submitted,      \* submit's local count; 0 outside of it
    timed,          \* wait was given a timeout
    asleep,         \* wait sleeps on the condition variable
    next_ud,        \* the user_data of the next flow
    open,           \* descriptors the process has open
    jobs,           \* the channel of the file pool
    closed,         \* the sender of that channel was dropped
    running,        \* the flow each worker works at; None, or Exited
    reg,            \* kqueue: the udata registered for each descriptor and filter
    reactor,        \* the reactor thread: "top", "kevent", "events" or "exited"
    events,         \* events the reactor fetched and has not handled
    ringing,        \* threads that pushed a completion and have not notified yet
    shutdown,       \* the AtomicBool
    ctx,            \* allocated OpCtx
    displaced,      \* history: flows whose registration another call removed
    cq,             \* completions
    in_flight,      \* the AtomicU32
    reaped          \* history: flows in the order reap returned them

caller  == <<pc, submitted, timed, next_ud>>
pool    == <<jobs, closed, running>>
kernel  == <<open, reg, displaced>>
thread  == <<reactor, events, shutdown>>
done    == <<cq, in_flight, reaped>>
vars    == <<caller, pool, kernel, thread, done, asleep, ringing, ctx>>

None == 0
Exited == -1
Reactor == 0                        \* the reactor, as a member of ringing
Slots == Fds \X {"read", "write"}   \* EVFILT_READ, EVFILT_WRITE

Flows == 1 .. next_ud - 1
InSeq(s) == {s[i] : i \in 1 .. Len(s)}
Working == {running[w] : w \in Workers} \ {None, Exited}
Registered == {reg[s] : s \in Slots} \ {None}

-----------------------------------------------------------------------------
(***************************************************************************)
(* submit: the loop over the flows.  Each turn hands one flow over while   *)
(* the other threads already work at the earlier ones; in_flight is raised *)
(* after the loop.                                                         *)
(***************************************************************************)

SubmitBegin ==
    /\ pc = "idle"
    /\ pc' = "submit"
    /\ UNCHANGED <<submitted, timed, next_ud, pool, kernel, thread, done, asleep, ringing, ctx>>

\* The flow of this turn.
NextFlow ==
    /\ pc = "submit" /\ next_ud <= MaxFlows
    /\ next_ud' = next_ud + 1
    /\ submitted' = submitted + 1
    /\ UNCHANGED <<pc, timed, closed, running, thread, in_flight, reaped, asleep, ringing>>

\* post_completion.  It notifies too, but nobody waits during a submit.
PostCompletion(ud) == cq' = Append(cq, ud)

\* register_socket: EV_ADD on a descriptor and filter that are registered
\* already only replaces the udata.
RegisterSocket(fd, filter) ==
    LET slot == <<fd, filter>> IN
    /\ fd \in open
    /\ reg' = [reg EXCEPT ![slot] = next_ud]
    /\ displaced' = displaced \cup ({reg[slot]} \ {None})
    /\ ctx' = ctx \cup {next_ud}
    /\ UNCHANGED <<open, cq>>

\* The registration fails, as it does for a closed descriptor and may for any: the
\* context is freed and an error posted.
RegisterFails ==
    /\ PostCompletion(next_ud)
    /\ UNCHANGED <<kernel, ctx>>

\* Read and Write, and in the same way Readv and Writev: a job for the pool.
SubmitFile ==
    /\ NextFlow
    /\ jobs' = Append(jobs, next_ud)
    /\ UNCHANGED <<kernel, cq, ctx>>

\* Accept, Recv and Send.
SubmitAccept(fd) ==
    /\ NextFlow
    /\ RegisterSocket(fd, "read") \/ RegisterFails
    /\ UNCHANGED jobs

SubmitRecvSend(fd, filter) ==
    /\ NextFlow
    /\ RegisterSocket(fd, filter) \/ RegisterFails
    /\ UNCHANGED jobs

\* Connect: connect is called at once and may fail at once; otherwise the
\* outcome is read when the socket becomes writable.
SubmitConnect(fd) ==
    /\ NextFlow
    /\ \/ RegisterSocket(fd, "write")
       \/ PostCompletion(next_ud) /\ UNCHANGED <<kernel, ctx>>
    /\ UNCHANGED jobs

\* Fault: the completion of the close is left to a reactor that never sees it.
SubmitClose_Silent(fd) ==
    /\ NextFlow
    /\ open' = open \ {fd}
    /\ reg' = [s \in Slots |-> IF s[1] = fd THEN None ELSE reg[s]]
    /\ displaced' = displaced \cup ({reg[s] : s \in {fd} \X {"read", "write"}} \ {None})
    /\ UNCHANGED <<jobs, ctx, cq>>

\* Close: the kernel removes the registrations of the descriptor with it.
SubmitClose(fd) ==
    /\ NextFlow
    /\ open' = open \ {fd}
    /\ reg' = [s \in Slots |-> IF s[1] = fd THEN None ELSE reg[s]]
    /\ displaced' = displaced \cup ({reg[s] : s \in {fd} \X {"read", "write"}} \ {None})
    /\ PostCompletion(next_ud)
    /\ UNCHANGED <<jobs, ctx>>

SubmitEnd ==
    /\ pc = "submit"
    /\ pc' = "idle"
    /\ in_flight' = (in_flight + submitted) % U32
    /\ submitted' = 0
    /\ UNCHANGED <<timed, next_ud, pool, kernel, thread, cq, reaped, asleep, ringing, ctx>>

-----------------------------------------------------------------------------
(***************************************************************************)
(* FileThreadPool: a worker takes a job, runs it, pushes the completion    *)
(* under the lock and notifies after it.                                   *)
(***************************************************************************)

WorkerTake(w) ==
    /\ running[w] = None /\ w \notin ringing /\ jobs # << >>
    /\ running' = [running EXCEPT ![w] = Head(jobs)]
    /\ jobs' = Tail(jobs)
    /\ UNCHANGED <<caller, closed, kernel, thread, done, asleep, ringing, ctx>>

WorkerPush(w) ==
    /\ running[w] \notin {None, Exited}
    /\ cq' = Append(cq, running[w])
    /\ running' = [running EXCEPT ![w] = None]
    /\ ringing' = ringing \cup {w}
    /\ UNCHANGED <<caller, jobs, closed, kernel, thread, in_flight, reaped, asleep, ctx>>

\* Fault: a worker that finds the channel empty ends.
WorkerExit_WhenEmpty(w) ==
    /\ running[w] = None /\ w \notin ringing /\ jobs = << >>
    /\ running' = [running EXCEPT ![w] = Exited]
    /\ UNCHANGED <<caller, jobs, closed, kernel, thread, done, asleep, ringing, ctx>>

\* recv fails once the sender is gone and the channel is empty.
WorkerExit(w) ==
    /\ running[w] = None /\ w \notin ringing /\ jobs = << >> /\ closed
    /\ running' = [running EXCEPT ![w] = Exited]
    /\ UNCHANGED <<caller, jobs, closed, kernel, thread, done, asleep, ringing, ctx>>

\* Fault: nobody is notified.
NotifyOne_Silent(t) ==
    /\ t \in ringing
    /\ ringing' = ringing \ {t}
    /\ UNCHANGED <<caller, pool, kernel, thread, done, ctx, asleep>>

\* notify_one: there is at most one thread in wait.
NotifyOne(t) ==
    /\ t \in ringing
    /\ ringing' = ringing \ {t}
    /\ asleep' = FALSE
    /\ UNCHANGED <<caller, pool, kernel, thread, done, ctx>>

-----------------------------------------------------------------------------
(***************************************************************************)
(* The reactor.  kevent returns some of the registrations that are ready   *)
(* and, they being EV_ONESHOT, removes them.  That a socket is ready is up *)
(* to its peer.                                                            *)
(***************************************************************************)

ReactorTop ==
    /\ reactor = "top" /\ Reactor \notin ringing
    /\ reactor' = IF shutdown THEN "exited" ELSE "kevent"
    /\ UNCHANGED <<caller, pool, kernel, events, shutdown, done, asleep, ringing, ctx>>

\* Fault: the registrations are not one-shot.
ReactorFetch_Level(S) ==
    /\ reactor = "kevent" /\ S \subseteq Registered /\ S # {}
    /\ Cardinality(S) <= EventArraySize
    /\ events' = S
    /\ reactor' = "events"
    /\ UNCHANGED <<caller, pool, kernel, shutdown, done, asleep, ringing, ctx>>

ReactorFetch(S) ==
    /\ reactor = "kevent" /\ S \subseteq Registered /\ S # {}
    /\ Cardinality(S) <= EventArraySize
    /\ events' = S
    /\ reg' = [s \in Slots |-> IF reg[s] \in S THEN None ELSE reg[s]]
    /\ reactor' = "events"
    /\ UNCHANGED <<caller, pool, open, displaced, shutdown, done, asleep, ringing, ctx>>

\* n = 0 after 100 ms.
ReactorTimeout ==
    /\ reactor = "kevent"
    /\ reactor' = "top"
    /\ UNCHANGED <<caller, pool, kernel, events, shutdown, done, asleep, ringing, ctx>>

\* n < 0 ends the loop.
ReactorFails ==
    /\ reactor = "kevent" /\ KeventFails
    /\ reactor' = "exited"
    /\ UNCHANGED <<caller, pool, kernel, events, shutdown, done, asleep, ringing, ctx>>

\* One event: free its context, do the recv, send, accept or getsockopt, push.
ReactorEvent(ud) ==
    /\ reactor = "events" /\ Reactor \notin ringing /\ ud \in events
    /\ ctx' = ctx \ {ud}
    /\ cq' = Append(cq, ud)
    /\ events' = events \ {ud}
    /\ reactor' = IF events = {ud} THEN "top" ELSE "events"
    /\ ringing' = ringing \cup {Reactor}
    /\ UNCHANGED <<caller, pool, kernel, shutdown, in_flight, reaped, asleep>>

-----------------------------------------------------------------------------
(***************************************************************************)
(* reap, wait and drop.                                                    *)
(***************************************************************************)

\* Fault: the newest completion is taken first.
Reap_Newest ==
    /\ pc = "idle" /\ cq # << >>
    /\ in_flight' = (in_flight - Len(cq)) % U32
    /\ reaped' = reaped \o Reverse(cq)
    /\ cq' = << >>
    /\ UNCHANGED <<caller, pool, kernel, thread, asleep, ringing, ctx>>

Reap ==
    /\ pc = "idle" /\ cq # << >>
    /\ in_flight' = (in_flight - Len(cq)) % U32
    /\ reaped' = reaped \o cq
    /\ cq' = << >>
    /\ UNCHANGED <<caller, pool, kernel, thread, asleep, ringing, ctx>>

\* wait returns at once when nothing is in flight.
WaitBegin(t) ==
    /\ pc = "idle" /\ in_flight # 0
    /\ pc' = "wait"
    /\ timed' = t
    /\ UNCHANGED <<submitted, next_ud, pool, kernel, thread, done, asleep, ringing, ctx>>

\* The queue is empty: the lock is released and the thread sleeps, in one step.
WaitSleep ==
    /\ pc = "wait" /\ ~asleep /\ cq = << >>
    /\ asleep' = TRUE
    /\ UNCHANGED <<caller, pool, kernel, thread, done, ringing, ctx>>

WaitReturn ==
    /\ pc = "wait" /\ ~asleep /\ cq # << >>
    /\ pc' = "idle"
    /\ timed' = FALSE
    /\ UNCHANGED <<submitted, next_ud, pool, kernel, thread, done, asleep, ringing, ctx>>

\* ETIMEDOUT, whatever the queue holds by now.  (Without a timeout the hour of
\* sleep only ends in another look at the queue.)
WaitTimeout ==
    /\ pc = "wait" /\ asleep /\ timed
    /\ pc' = "idle"
    /\ asleep' = FALSE
    /\ timed' = FALSE
    /\ UNCHANGED <<submitted, next_ud, pool, kernel, thread, done, ringing, ctx>>

\* Drop: the flag is set and the sender dropped.
DropBegin ==
    /\ pc = "idle"
    /\ pc' = "join_workers"
    /\ shutdown' = TRUE
    /\ closed' = TRUE
    /\ UNCHANGED <<submitted, timed, next_ud, jobs, running, kernel, reactor, events, done, asleep, ringing, ctx>>

DropJoinWorkers ==
    /\ pc = "join_workers" /\ \A w \in Workers : running[w] = Exited
    /\ pc' = "join_reactor"
    /\ UNCHANGED <<submitted, timed, next_ud, pool, kernel, thread, done, asleep, ringing, ctx>>

\* The reactor is joined and the kqueue closed.
DropJoinReactor ==
    /\ pc = "join_reactor" /\ reactor = "exited"
    /\ pc' = "dropped"
    /\ reg' = [s \in Slots |-> None]
    /\ displaced' = displaced \cup Registered
    /\ UNCHANGED <<submitted, timed, next_ud, open, pool, thread, done, asleep, ringing, ctx>>

-----------------------------------------------------------------------------
Init ==
    /\ pc = "idle" /\ submitted = 0 /\ timed = FALSE /\ asleep = FALSE
    /\ next_ud = 1 /\ open = Fds
    /\ jobs = << >> /\ closed = FALSE /\ running = [w \in Workers |-> None]
    /\ reg = [s \in Slots |-> None] /\ displaced = {} /\ ctx = {}
    /\ reactor = "top" /\ events = {} /\ ringing = {} /\ shutdown = FALSE
    /\ cq = << >> /\ in_flight = 0 /\ reaped = << >>

Worker(w) == WorkerTake(w) \/ WorkerPush(w) \/ WorkerExit(w) \/ NotifyOne(w)

ReactorStep ==
    \/ ReactorTop \/ ReactorTimeout \/ ReactorFails \/ NotifyOne(Reactor)
    \/ \E S \in SUBSET Flows : ReactorFetch(S)
    \/ \E ud \in Flows : ReactorEvent(ud)

SubmitFlow ==
    \/ SubmitFile
    \/ \E fd \in Fds :
        \/ SubmitAccept(fd) \/ SubmitConnect(fd) \/ SubmitClose(fd)
        \/ \E filter \in {"read", "write"} : SubmitRecvSend(fd, filter)

WaitStep == WaitSleep \/ WaitReturn \/ WaitTimeout

Drop == DropBegin \/ DropJoinWorkers \/ DropJoinReactor

Next ==
    \/ SubmitBegin \/ SubmitFlow \/ SubmitEnd
    \/ Reap \/ \E t \in BOOLEAN : WaitBegin(t)
    \/ WaitStep \/ Drop
    \/ \E w \in Workers : Worker(w)
    \/ ReactorStep

\* The threads and the call in progress make progress; a registered socket
\* becomes ready at last; nobody has to call anything.
Fairness ==
    /\ \A w \in Workers : WF_vars(Worker(w))
    /\ WF_vars(ReactorTop) /\ WF_vars(NotifyOne(Reactor))
    /\ WF_vars(\E ud \in Flows : ReactorEvent(ud))
    /\ SF_vars(\E S \in SUBSET Flows : ReactorFetch(S))
    /\ WF_vars(ReactorTimeout)
    /\ WF_vars(SubmitEnd) /\ WF_vars(WaitSleep \/ WaitReturn)
    /\ WF_vars(DropJoinWorkers \/ DropJoinReactor)

Spec == Init /\ [][Next]_vars /\ Fairness

-----------------------------------------------------------------------------
(***************************************************************************)
(* Properties.                                                             *)
(***************************************************************************)

\* Every variable has its type.
TypeOK ==
    /\ pc \in {"idle", "submit", "wait", "join_workers", "join_reactor", "dropped"}
    /\ submitted \in 0 .. MaxFlows /\ timed \in BOOLEAN /\ asleep \in BOOLEAN
    /\ next_ud \in 1 .. MaxFlows + 1 /\ open \subseteq Fds
    /\ jobs \in Seq(Flows) /\ closed \in BOOLEAN
    /\ running \in [Workers -> Flows \cup {None, Exited}]
    /\ reg \in [Slots -> Flows \cup {None}] /\ displaced \subseteq Flows
    /\ reactor \in {"top", "kevent", "events", "exited"} /\ events \subseteq Flows
    /\ ringing \subseteq Workers \cup {Reactor} /\ shutdown \in BOOLEAN
    /\ ctx \subseteq Flows
    /\ cq \in Seq(Flows) /\ in_flight \in 0 .. U32 - 1 /\ reaped \in Seq(Flows)

\* Flows submitted whose completion is neither queued nor reaped.
Pending == Flows \ (InSeq(cq) \cup InSeq(reaped))

\* Between two calls in_flight counts exactly the flows not reaped: submit
\* raises it after the reactor may have completed the flow, and reap may not
\* take it below zero (fetch_sub wraps).
InFlightExact ==
    pc \in {"idle", "wait"} => in_flight = Cardinality(Pending) + Len(cq)

\* A context is freed once, by the reactor: what kqueue or a fetched event still
\* points to is allocated, and what nobody points to belonged to a flow whose
\* registration another call removed.  Once drop has returned no thread touches a
\* context or a caller's buffer.
ContextsOwned ==
    /\ Registered \cup events \subseteq ctx
    /\ Registered \cap events = {}
    /\ ctx \ (Registered \cup events) \subseteq displaced
    /\ pc = "dropped" => Working = {} /\ jobs = << >> /\ events = {} /\ ringing = {}

\* A flow that has not completed is at exactly one thread's hands, or it lost its
\* registration to a second operation on the same descriptor and filter, to a
\* close, or to drop.
NoFlowLost ==
    /\ Pending = InSeq(jobs) \cup Working \cup Registered \cup events \cup displaced
    /\ Len(jobs) + Cardinality(Working) + Cardinality(Registered)
         + Cardinality(events) + Cardinality(displaced) = Cardinality(Pending)

\* Flows and their count agree: nothing is lost, counted twice or forgotten.
AccountExact == TypeOK /\ InFlightExact /\ NoFlowLost

\* The backend keeps the promises of the trait.
Abstract == INSTANCE Backend WITH
    Operations <- 1 .. MaxFlows, pending <- Pending, queue <- cq, reaped <- reaped
ImplementsBackend == Abstract!Spec

\* Flows nobody will complete: they lost their registration to another call, or
\* the reactor, whose loop ends at the first error of kevent, is gone.
Stranded == displaced \cup (IF reactor = "exited" THEN Registered ELSE {})

\* Every other flow completes, whatever the other threads do.
FlowsServed ==
    \A ud \in 1 .. MaxFlows : ud \in Pending ~> ud \notin Pending \/ ud \in Stranded

\* wait without a timeout returns once a flow has completed: it stays only when
\* the queue is empty and every flow in flight is stranded.
WaitReturns ==
    pc = "wait" ~> pc # "wait" \/ (cq = << >> /\ Pending \subseteq Stranded)

\* drop returns.
DropReturns == pc = "join_workers" ~> pc = "dropped"

\* No call blocks for ever on a notification it missed or a thread that does not end.
CallsReturn == WaitReturns /\ DropReturns
=============================================================================

-------------------------------- MODULE Torus --------------------------------
(***************************************************************************)
(* Torus (tpt-torus-core/src/lib.rs): a Backend behind a mutex, and the    *)
(* map of tracing spans behind a second one.  Every operation is given as  *)
(* the steps between which another thread may run: submit holds the        *)
(* backend mutex for the backend's submit and inserts the span after       *)
(* releasing it, reap removes spans and records them in the metrics after  *)
(* releasing it, wait holds it for as long as the backend waits, which the *)
(* three backends decide differently.                                      *)
(***************************************************************************)
EXTENDS Naturals, Sequences, FiniteSets

CONSTANTS Operations, Threads, Free

ASSUME TorusAssumption == Free \notin Threads

VARIABLES
    pending, queue, reaped,     \* the backend, see Backend
    backend,                    \* which Backend it is
    mutex,                      \* the thread that waits with the backend locked, or Free
    spans,                      \* user_data with a span in the map
    total                       \* Metrics::total, operations recorded

Device == INSTANCE Backend

observed == <<spans, total>>
torus == <<pending, queue, reaped, backend, mutex, observed>>

\* The backends of the platforms.
MakeBackend == {"uring", "kqueue", "iocp"}

TorusInit == backend \in MakeBackend /\ Device!Init /\ mutex = Free /\ spans = {} /\ total = 0

\* The locked part of submit and submit_batch.
SubmitLocked(S) ==
    /\ mutex = Free
    /\ Device!Submit(S)
    /\ UNCHANGED <<backend, mutex, observed>>

\* The same for a flow that the backend completes at once.
SubmitLockedAtOnce(o) ==
    /\ mutex = Free
    /\ Device!Reject(o)
    /\ UNCHANGED <<backend, mutex, observed>>

\* The part of submit after the lock.
InsertSpans(S) ==
    /\ spans' = spans \cup S
    /\ UNCHANGED <<pending, queue, reaped, backend, mutex, total>>

\* wait: the backend returns at once when nothing is in flight, or keeps the lock.
WaitLocked(t) ==
    /\ mutex = Free
    /\ pending # {} \/ queue # << >>
    /\ mutex' = t
    /\ UNCHANGED <<pending, queue, reaped, backend, observed>>

WaitNothing ==
    /\ mutex = Free /\ pending = {} /\ queue = << >>
    /\ UNCHANGED torus

\* The backend's wait has what it waits for.  UringBackend ignores the timeout and
\* asks the kernel for as many completions as are in flight; KqueueBackend waits
\* for one, or until the time is up; IocpBackend does too, and takes no timeout for
\* a time that is already up.
WaitOver(timed) ==
    \/ backend = "uring"  /\ pending = {}
    \/ backend = "kqueue" /\ (queue # << >> \/ timed)
    \/ backend = "iocp"

\* Fault: the lock is kept when nothing has completed.
WaitEnds_Locked(t, timed) ==
    /\ mutex = t
    /\ WaitOver(timed)
    /\ mutex' = IF queue = << >> THEN t ELSE Free
    /\ UNCHANGED <<pending, queue, reaped, backend, observed>>

\* wait returns and releases the lock.
WaitEnds(t, timed) ==
    /\ mutex = t
    /\ WaitOver(timed)
    /\ mutex' = Free
    /\ UNCHANGED <<pending, queue, reaped, backend, observed>>

\* A signal ends io_uring_enter, and wait returns the error.
WaitInterrupted(t) ==
    /\ mutex = t /\ backend = "uring"
    /\ mutex' = Free
    /\ UNCHANGED <<pending, queue, reaped, backend, observed>>

\* The locked part of reap.
ReapLocked ==
    /\ mutex = Free
    /\ Device!Reap
    /\ UNCHANGED <<backend, mutex, observed>>

\* Metrics::record, n times: a histogram and the total are raised.  (The latencies
\* and the count of errors are left out.)
Record(n) == total' = total + n

\* FlowSpan::complete consumes the spans and records each.
CompleteSpans(found) ==
    /\ Record(Cardinality(found))
    /\ spans' = spans \ found

\* Fault: the span is looked up, and stays.
RemoveSpans_Kept(results) ==
    /\ Record(Cardinality(spans \cap Device!InSeq(results)))
    /\ UNCHANGED <<pending, queue, reaped, backend, mutex, spans>>

\* The part of reap after the lock.
RemoveSpans(results) ==
    /\ CompleteSpans(spans \cap Device!InSeq(results))
    /\ UNCHANGED <<pending, queue, reaped, backend, mutex>>

\* The backend completes an operation, whoever holds the mutex.
BackendComplete(o) ==
    /\ Device!Complete(<<o>>)
    /\ UNCHANGED <<backend, mutex, observed>>
=============================================================================

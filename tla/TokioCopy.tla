------------------------------ MODULE TokioCopy ------------------------------
(***************************************************************************)
(* A task that copies a file with the two tokio adapters over one          *)
(* TorusAsync (the use that async_tokio.rs names, tokio::io::copy): it     *)
(* reads into a buffer, writes the buffer out and reads again.  The two    *)
(* adapters share the WakerRegistry: next_id, results and wakers.          *)
(*                                                                         *)
(* The task is polled when it was woken.  A first poll submits before it   *)
(* registers the waker, and a completion in between wakes nobody; a later  *)
(* poll registers first and then looks, and a completion is stored before  *)
(* its waker is called, so each of the two is one step here (TorusAsync    *)
(* takes them apart).                                                      *)
(***************************************************************************)
EXTENDS TokioReader

VARIABLES
    w_submitted, w_user_data, w_offset, w_op,   \* the writer, see TokioWriter
    chunk, writing, w_switched, accepted, file,
    task,           \* "running" (or scheduled), "registering", "first_pending" or "pending"
    wakers          \* WakerRegistry::wakers: the user_data with the task's waker

writer_vars == <<w_submitted, w_user_data, w_offset, w_op, chunk, writing, w_switched, accepted, file>>
wake_vars == <<task, wakers>>
vars == <<reader_vars, writer_vars, wake_vars>>

Writer == INSTANCE TokioWriter
    WITH submitted <- w_submitted, user_data <- w_user_data, offset <- w_offset,
         op <- w_op, switched <- w_switched

Init == ReaderInit /\ Writer!Init /\ task = "running" /\ wakers = {}

-----------------------------------------------------------------------------
(***************************************************************************)
(* The wakers.                                                             *)
(***************************************************************************)

\* A first poll was accepted; its waker is not registered yet.
Submitted == task' = "registering" /\ UNCHANGED wakers

\* The end of a first poll: register the waker, return Pending, look at nothing.
RegisterFirst ==
    /\ task = "registering"
    /\ task' = "first_pending"
    /\ wakers' = wakers \cup {IF writing THEN w_user_data ELSE user_data}
    /\ UNCHANGED <<reader_vars, writer_vars>>

\* A later poll has its waker registered and finds no completion ...
Parked(u) == task' = "pending" /\ wakers' = wakers \cup {u}

\* ... or finds one, and unregisters.
Unregistered(u) == wakers' = wakers \ {u} /\ UNCHANGED task

\* WakerRegistry::complete takes the waker out and calls it, if there is one.
Woken(u) ==
    /\ task' = IF u \in wakers /\ task \in {"first_pending", "pending"} THEN "running" ELSE task
    /\ wakers' = wakers \ {u}

\* The task runs for another reason than its waker: a timer, another branch of
\* select! or join!.
WokenOtherwise == task # "registering" /\ task' = "running" /\ UNCHANGED wakers

SpuriousWake ==
    /\ task \in {"first_pending", "pending"}
    /\ WokenOtherwise
    /\ UNCHANGED <<reader_vars, writer_vars>>

-----------------------------------------------------------------------------
\* The task reads when its buffer is empty.
ReadCall == \E n \in Needs \ {0} : (need = 0 => chunk.bytes = << >>) /\ Call(n)

\* What is read becomes what is to be written.
ReadOk ==
    /\ PollOk
    /\ chunk' = [chunk EXCEPT !.bytes = SubSeq(delivered', Len(delivered) + 1, Len(delivered'))]
    /\ UNCHANGED <<w_submitted, w_user_data, w_offset, w_op, writing, w_switched, accepted, file>>

ReadPoll ==
    /\ task = "running"
    /\ \/ PollSubmit /\ Submitted /\ UNCHANGED writer_vars
       \/ PollRefused /\ UNCHANGED <<wake_vars, writer_vars>>
       \/ PollPending /\ Parked(user_data) /\ UNCHANGED writer_vars
       \/ PollErr /\ Unregistered(user_data) /\ UNCHANGED writer_vars
       \/ ReadOk /\ Unregistered(user_data)

\* A step of the writer leaves the reader alone.
reader_own == <<reader, op, need, switched, delivered, overrun>>

WritePoll ==
    /\ task = "running"
    /\ \/ Writer!PollSubmit /\ Submitted
       \/ Writer!PollRefused /\ UNCHANGED wake_vars
       \/ Writer!PollPending /\ Parked(w_user_data)
       \/ (Writer!PollOk \/ Writer!PollErr) /\ Unregistered(w_user_data)
    /\ UNCHANGED reader_own

Device ==
    \/ (DeviceOk \/ DeviceErr) /\ Woken(op.user_data) /\ UNCHANGED writer_vars
    \/ (Writer!DeviceOk \/ Writer!DeviceErr) /\ Woken(w_op.user_data) /\ UNCHANGED reader_own

Next ==
    \/ ReadCall /\ WokenOtherwise /\ UNCHANGED writer_vars
    \/ PollNoRoom /\ UNCHANGED <<wake_vars, writer_vars>>
    \/ need = 0 /\ Writer!Call /\ UNCHANGED <<wake_vars, reader_own>>
    \/ Writer!Switch /\ WokenOtherwise /\ UNCHANGED reader_own
    \/ SpuriousWake
    \/ ReadPoll \/ WritePoll \/ RegisterFirst \/ Device

\* The executor runs the task while it is scheduled (which it is not before a
\* waker was called), and the device finishes what it took.
Fairness == WF_vars(ReadPoll \/ WritePoll \/ RegisterFirst) /\ WF_vars(Device)

Spec == Init /\ [][Next]_vars /\ Fairness

-----------------------------------------------------------------------------
(***************************************************************************)
(* Properties of the task; those of the reader alone are in TokioReader.   *)
(***************************************************************************)

\* Fields have their declared types, and an operation in flight is the last
\* one its adapter submitted.
TypeOK ==
    /\ submitted \in BOOLEAN /\ overrun \in BOOLEAN /\ switched \in BOOLEAN
    /\ w_submitted \in BOOLEAN /\ writing \in BOOLEAN /\ w_switched \in BOOLEAN
    /\ offset \in Nat /\ user_data \in 0 .. MaxOps /\ next_id \in 1 .. MaxOps + 1
    /\ w_offset \in Nat /\ w_user_data \in 0 .. MaxOps
    /\ scratch.bytes \in Seq(Nat) /\ scratch.alloc \in Nat /\ need \in Nat
    /\ chunk.slice \in Nat /\ chunk.bytes \in Seq(Nat) /\ accepted \in Seq(Nat)
    /\ op # None => op.user_data = user_data
    /\ w_op # Writer!None => w_op.user_data = w_user_data
    /\ DOMAIN results \subseteq {user_data, w_user_data}

\* The task is parked only within a read or a write.
TaskTyped ==
    /\ task \in {"running", "registering", "first_pending", "pending"}
    /\ wakers \subseteq Nat
    /\ task # "running" => need > 0 \/ writing

\* A task that never gives a read or a write up copies exactly: what the writer
\* has accepted and what is still in the buffer are what the reader has
\* delivered, in order, and the destination starts with what was accepted:
\* short writes, refused submissions and failed operations of either adapter
\* included.
CopyExact ==
    /\ TypeOK /\ TaskTyped
    /\ ~switched /\ ~w_switched =>
          /\ accepted \o chunk.bytes = delivered
          /\ w_offset = Len(accepted) /\ w_offset <= Len(file)
          /\ SubSeq(file, 1, w_offset) = accepted

\* A task parked by a later poll is not asleep over a stored completion, and the
\* waker that its completion will call is registered.
ParkedIsWoken ==
    task = "pending" =>
        LET u == IF writing THEN w_user_data ELSE user_data IN
        u \in wakers /\ u \notin DOMAIN results

\* The operation of the reader, or of the writer, will complete or has.
ReadOnItsWay == op # None \/ user_data \in DOMAIN results
WriteOnItsWay == w_op # Writer!None \/ w_user_data \in DOMAIN results

\* A task that is polled only when woken is answered, with the bytes or with the
\* error, if the poll that parked it was not the first one of its operation (for the first one
\* see TorusAsync: a completion before RegisterFirst wakes nobody), whatever
\* submissions were refused before and whatever buffers it switches to.  And as
\* long as no operation completes with an error it is never parked there without
\* an operation on its way.
RepolledAnswered ==
    /\ (task = "pending" /\ need > 0 /\ ReadOnItsWay) ~> need = 0
    /\ (task = "pending" /\ writing /\ WriteOnItsWay) ~> ~writing
    /\ [](\A u \in DOMAIN results : results[u] >= 0) =>
          /\ (task = "pending" /\ need > 0) ~> need = 0
          /\ (task = "pending" /\ writing) ~> ~writing
=============================================================================

---------------------------- MODULE SpdkNamespace ----------------------------
(***************************************************************************)
(* The blocking commands of tpt-torus-hw/src/spdk.rs and the DmaPool their *)
(* buffers come from.  read, write and flush of NvmeNamespace allocate an  *)
(* I/O queue pair, start one command whose callback writes to a            *)
(* CompletionState on the stack, poll for thirty seconds, free the queue   *)
(* pair and return.  Several threads use one namespace; a pool behind a    *)
(* lock (alloc and free take &mut self) hands out their buffers.           *)
(***************************************************************************)
EXTENDS Naturals, Sequences, FiniteSets, SequencesExt

CONSTANTS
    Threads,        \* threads that use the namespace
    Count,          \* buffers of the DmaPool
    NoBuffer        \* not the index of a buffer

ASSUME SpdkAssumption ==
    /\ Count \in Nat \ {0} /\ NoBuffer \notin Nat

VARIABLES
    pc,         \* where each thread is in its command, "idle" outside
    done,       \* CompletionState.done of the call
    cpl,        \* CompletionState.cpl: "none", "success", "error" or "aborted"
    res,        \* what poll returned, then what the call returned
    expired,    \* the deadline of poll has passed
    qpairs,     \* threads that hold a queue pair
    device,     \* the command on that queue pair: "none", "started" or its status
    target,     \* the buffer that the device reads or writes
    free_list,  \* DmaPool.free_list
    buf,        \* the pool buffer each thread holds, or NoBuffer
    heard,      \* history: process_completions delivered the completion
    called      \* history: how often the last call ran its callback

state == <<done, cpl>>
history == <<heard, called>>
hw == <<qpairs, device, target>>
vars == <<pc, state, res, expired, hw, free_list, buf, history>>

Buffers == 0 .. Count - 1
Statuses == {"success", "error", "null"}
Results == {"none", "Ok", "Failed", "NoStatus", "Timeout", "Refused", "OutOfMemory"}

\* DmaPool::new puts every index on the free list.
Init ==
    /\ pc = [t \in Threads |-> "idle"]
    /\ done = [t \in Threads |-> FALSE]
    /\ cpl = [t \in Threads |-> "none"]
    /\ res = [t \in Threads |-> "none"]
    /\ expired = [t \in Threads |-> FALSE]
    /\ qpairs = {}
    /\ device = [t \in Threads |-> "none"]
    /\ target = [t \in Threads |-> NoBuffer]
    /\ free_list = [i \in 1 .. Count |-> i - 1]
    /\ buf = [t \in Threads |-> NoBuffer]
    /\ heard = [t \in Threads |-> FALSE]
    /\ called = [t \in Threads |-> 0]

Goto(t, place) == pc' = [pc EXCEPT ![t] = place]

-----------------------------------------------------------------------------
(***************************************************************************)
(* spdk::DmaPool: the free list is a stack.                                *)
(***************************************************************************)
PoolAlloc(t) ==
    /\ pc[t] = "idle" /\ buf[t] = NoBuffer /\ free_list # << >>
    /\ buf' = [buf EXCEPT ![t] = Last(free_list)]
    /\ free_list' = Front(free_list)
    /\ UNCHANGED <<pc, state, res, expired, hw, history>>

\* A caller frees its buffer once, when no call of its own uses it: the offset is
\* a multiple of the stride inside the region.
PoolFree(t) ==
    /\ pc[t] = "idle" /\ buf[t] # NoBuffer
    /\ free_list' = Append(free_list, buf[t])
    /\ buf' = [buf EXCEPT ![t] = NoBuffer]
    /\ UNCHANGED <<pc, state, res, expired, hw, history>>

-----------------------------------------------------------------------------
(***************************************************************************)
(* NvmeNamespace::read, write and flush.                                   *)
(***************************************************************************)
\* The locals of a new call.
Begin(t, b) ==
    /\ done' = [done EXCEPT ![t] = FALSE]
    /\ cpl' = [cpl EXCEPT ![t] = "none"]
    /\ expired' = [expired EXCEPT ![t] = FALSE]
    /\ target' = [target EXCEPT ![t] = b]
    /\ heard' = [heard EXCEPT ![t] = FALSE]
    /\ called' = [called EXCEPT ![t] = 0]

\* The controller has no queue pair to give: OutOfMemory before anything else.
NoQpair(t) ==
    /\ pc[t] = "idle"
    /\ Begin(t, NoBuffer)
    /\ res' = [res EXCEPT ![t] = "OutOfMemory"]
    /\ UNCHANGED <<pc, qpairs, device, free_list, buf>>

\* read or write with the thread's buffer, flush with none.
Call(t, b) ==
    /\ pc[t] = "idle"
    /\ b \in {buf[t], NoBuffer}
    /\ Begin(t, b)
    /\ qpairs' = qpairs \cup {t}
    /\ res' = [res EXCEPT ![t] = "none"]
    /\ Goto(t, "submit")
    /\ UNCHANGED <<device, free_list, buf>>

\* spdk_nvme_ns_cmd_read, _write or _flush accepts the command.
Submit(t) ==
    /\ pc[t] = "submit"
    /\ device' = [device EXCEPT ![t] = "started"]
    /\ Goto(t, "poll")
    /\ UNCHANGED <<state, res, expired, qpairs, target, free_list, buf, history>>

\* Fault: this path returns at once.
SubmitRefused_Leak(t) ==
    /\ pc[t] = "submit"
    /\ res' = [res EXCEPT ![t] = "Refused"]
    /\ Goto(t, "idle")
    /\ UNCHANGED <<state, expired, hw, free_list, buf, history>>

\* It returns an error: the queue pair is freed on this path, too.
SubmitRefused(t) ==
    /\ pc[t] = "submit"
    /\ qpairs' = qpairs \ {t}
    /\ res' = [res EXCEPT ![t] = "Refused"]
    /\ Goto(t, "idle")
    /\ UNCHANGED <<state, expired, device, target, free_list, buf, history>>

\* The device ends the command; its status waits on the queue pair.
DeviceEnds(t, s) ==
    /\ device[t] = "started"
    /\ device' = [device EXCEPT ![t] = s]
    /\ UNCHANGED <<pc, state, res, expired, qpairs, target, free_list, buf, history>>

\* The thirty seconds of poll are over.
DeadlinePasses(t) ==
    /\ pc[t] \in {"poll", "check", "late"} /\ ~expired[t]
    /\ expired' = [expired EXCEPT ![t] = TRUE]
    /\ UNCHANGED <<pc, state, res, hw, free_list, buf, history>>

\* on_complete: a null completion leaves cpl as it is.
OnComplete(t, s) ==
    /\ done' = [done EXCEPT ![t] = TRUE]
    /\ cpl' = [cpl EXCEPT ![t] = IF s = "null" THEN @ ELSE s]

\* spdk_nvme_qpair_process_completions runs on_complete if the command has ended.
Process(t) ==
    /\ pc[t] = "poll"
    /\ IF device[t] \in Statuses
       THEN /\ OnComplete(t, device[t])
            /\ device' = [device EXCEPT ![t] = "none"]
            /\ heard' = [heard EXCEPT ![t] = TRUE]
       ELSE UNCHANGED <<state, device, heard>>
    /\ Goto(t, "check")
    /\ UNCHANGED <<res, expired, qpairs, target, free_list, buf, called>>

\* Fault: the deadline is looked at first.
CheckDone_DeadlineFirst(t) ==
    /\ pc[t] = "check"
    /\ res' = [res EXCEPT ![t] = IF done[t] /\ ~expired[t] THEN "Ok" ELSE @]
    /\ Goto(t, IF done[t] /\ ~expired[t] THEN "free" ELSE "late")
    /\ UNCHANGED <<state, expired, hw, free_list, buf, history>>

\* poll looks at done, and leaves with Ok.
CheckDone(t) ==
    /\ pc[t] = "check"
    /\ res' = [res EXCEPT ![t] = IF done[t] THEN "Ok" ELSE @]
    /\ Goto(t, IF done[t] THEN "free" ELSE "late")
    /\ UNCHANGED <<state, expired, hw, free_list, buf, history>>

\* Fault: the poll of a command without a deadline.
CheckDeadline_Never(t) ==
    /\ pc[t] = "late"
    /\ Goto(t, "poll")
    /\ UNCHANGED <<state, res, expired, hw, free_list, buf, history>>

\* Fault: a timeout returns before the queue pair is freed.
CheckDeadline_Early(t) ==
    /\ pc[t] = "late"
    /\ res' = [res EXCEPT ![t] = IF expired[t] THEN "Timeout" ELSE @]
    /\ Goto(t, IF expired[t] THEN "idle" ELSE "poll")
    /\ UNCHANGED <<state, expired, hw, free_list, buf, history>>

\* Then at the clock; it sleeps ten microseconds before the next turn.
CheckDeadline(t) ==
    /\ pc[t] = "late"
    /\ res' = [res EXCEPT ![t] = IF expired[t] THEN "Timeout" ELSE @]
    /\ Goto(t, IF expired[t] THEN "free" ELSE "poll")
    /\ UNCHANGED <<state, expired, hw, free_list, buf, history>>

\* free_io_qpair aborts a command that has not been delivered: on_complete runs
\* from here, while the call's frame is still there.
FreeQpair(t) ==
    /\ pc[t] = "free"
    /\ IF device[t] # "none" THEN OnComplete(t, "aborted") ELSE UNCHANGED state
    /\ device' = [device EXCEPT ![t] = "none"]
    /\ qpairs' = qpairs \ {t}
    /\ Goto(t, "finish")
    /\ UNCHANGED <<res, expired, target, free_list, buf, history>>

\* `res?`, then finish: the caller's callback runs for a successful command only.
Finish(t) ==
    /\ pc[t] = "finish"
    /\ res' = [res EXCEPT ![t] =
                   IF @ = "Timeout" THEN @
                   ELSE CASE cpl[t] = "success" -> "Ok"
                          [] cpl[t] = "none"    -> "NoStatus"
                          [] OTHER              -> "Failed"]
    /\ called' = [called EXCEPT ![t] = IF res'[t] = "Ok" THEN @ + 1 ELSE @]
    /\ Goto(t, "idle")
    /\ UNCHANGED <<state, expired, hw, free_list, buf, heard>>

CallStep(t) ==
    \/ Submit(t) \/ SubmitRefused(t) \/ Process(t) \/ CheckDone(t) \/ CheckDeadline(t)
    \/ FreeQpair(t) \/ Finish(t)

Next == \E t \in Threads :
    \/ PoolAlloc(t) \/ PoolFree(t)
    \/ NoQpair(t)
    \/ \E b \in {buf[t], NoBuffer} : Call(t, b)
    \/ CallStep(t)
    \/ DeadlinePasses(t)
    \/ \E s \in Statuses : DeviceEnds(t, s)

\* A call runs on its own thread and time passes; the device owes nothing.
Fairness == \A t \in Threads : WF_vars(CallStep(t)) /\ WF_vars(DeadlinePasses(t))

Spec == Init /\ [][Next]_vars /\ Fairness

-----------------------------------------------------------------------------
(***************************************************************************)
(* Properties                                                              *)
(***************************************************************************)
\* Every variable has its type.
TypeOK ==
    /\ pc \in [Threads -> {"idle", "submit", "poll", "check", "late", "free", "finish"}]
    /\ done \in [Threads -> BOOLEAN]
    /\ cpl \in [Threads -> {"none", "success", "error", "aborted"}]
    /\ res \in [Threads -> Results]
    /\ expired \in [Threads -> BOOLEAN]
    /\ qpairs \subseteq Threads
    /\ device \in [Threads -> {"none", "started"} \cup Statuses]
    /\ target \in [Threads -> Buffers \cup {NoBuffer}]
    /\ free_list \in Seq(Buffers) /\ Len(free_list) <= Count
    /\ buf \in [Threads -> Buffers \cup {NoBuffer}]
    /\ heard \in [Threads -> BOOLEAN]
    /\ called \in [Threads -> Nat]

\* The device works on a command only while the call that started it has not
\* returned: it never writes to a CompletionState whose frame is gone, nor to a
\* buffer that another thread has got from the pool since.
DeviceInsideCall ==
    \A t \in Threads : device[t] # "none" =>
        /\ pc[t] \in {"poll", "check", "late", "free"}
        /\ target[t] # NoBuffer =>
              /\ buf[t] = target[t]
              /\ ~Contains(free_list, target[t])
              /\ \A u \in Threads \ {t} : buf[u] # target[t]

\* A buffer is on the free list or with one thread, once, and never lost.
BuffersConserved ==
    LET held == {t \in Threads : buf[t] # NoBuffer} IN
    /\ Range(free_list) \cup {buf[t] : t \in held} = Buffers
    /\ Len(free_list) + Cardinality(held) = Count

\* The controller's queue pairs are with calls in progress: no path leaks one of
\* the few that there are.
QpairsReturned ==
    qpairs = {t \in Threads : pc[t] \in {"submit", "poll", "check", "late", "free"}}

\* Queue pairs and buffers come back on every path.
Conserved == TypeOK /\ BuffersConserved /\ QpairsReturned

\* Timeout means that poll never saw the completion: one that arrives in the
\* last turn of the loop wins over the deadline.
TimeoutUnanswered == \A t \in Threads : res[t] = "Timeout" => ~heard[t]

\* The callback ran exactly once if the call returned Ok, and not otherwise, and
\* Ok is only said of a command the device reported as successful.
CallbackMatchesResult ==
    \A t \in Threads : pc[t] = "idle" =>
        /\ called[t] = IF res[t] = "Ok" THEN 1 ELSE 0
        /\ res[t] = "Ok" => heard[t] /\ cpl[t] = "success"

\* What a call returns is what poll saw, in time or not.
AnswerFaithful == TimeoutUnanswered /\ CallbackMatchesResult

\* Every command returns, even when the device never answers.
CommandsReturn == \A t \in Threads : pc[t] # "idle" ~> pc[t] = "idle"
=============================================================================

-------------------------------- MODULE CApi ---------------------------------
(***************************************************************************)
(* The C API (tpt-torus-cxx/src/lib.rs) over one handle that several       *)
(* threads share.  torus_read, torus_write, torus_recv, torus_send and     *)
(* torus_close submit, wait (for a second, if the backend honours the      *)
(* timeout), reap every completion there is and call back with the first,  *)
(* whoever submitted it.  torus_submit_batch, torus_wait and torus_reap    *)
(* give the three steps one by one.                                        *)
(*                                                                         *)
(* An operation is its user_data, which callers choose; it is used once.   *)
(***************************************************************************)
EXTENDS Torus

CONSTANTS
    MaxResults,     \* size of the array given to torus_reap
    MaxCalls        \* bound: calls ever made

\* An operation is a u64, told apart from the other things a callback is given.
ASSUME CApiAssumption ==
    /\ MaxResults \in Nat \ {0} /\ MaxCalls \in Nat
    /\ IsFiniteSet(Operations) /\ Operations \cap {"none", "timeout", "zero", "refused"} = {}

VARIABLES
    pc,         \* where each thread is in its call, "idle" outside
    kind,       \* "data", "close", "batch", "wait", "forever" (timeout 0) or "reap"
    own,        \* the operations the call submitted
    results,    \* what the call's reap returned
    answer,     \* history: what the callback of each operation was given
    given,      \* history: completions handed to a caller, by callback or array
    calls,      \* number of calls made
    users,      \* history: threads that have used the handle
    overlap,    \* history: an operation was submitted while another was in flight
    alive       \* torus_destroy has not been called

thread  == <<pc, kind, own, results>>
history == <<answer, given, calls, users, overlap>>
vars    == <<torus, thread, history, alive>>

Answers == Operations \cup {"none", "timeout", "zero", "refused"}
Fresh == {o \in Device!Unused : answer[o] = "none"}

\* Thread t goes on to a place of its call.
Goto(t, place) == pc' = [pc EXCEPT ![t] = place] /\ UNCHANGED <<kind, own>>

\* Thread t returns from its call.
Return(t) ==
    /\ pc' = [pc EXCEPT ![t] = "idle"]
    /\ kind' = [kind EXCEPT ![t] = "reap"]
    /\ own' = [own EXCEPT ![t] = {}]

-----------------------------------------------------------------------------
\* A call begins: the handle and the other pointers are valid.
Begin(t, k, S, place) ==
    /\ alive /\ pc[t] = "idle" /\ calls < MaxCalls
    /\ pc' = [pc EXCEPT ![t] = place]
    /\ calls' = calls + 1
    /\ users' = users \cup {t}
    /\ kind' = [kind EXCEPT ![t] = k]
    /\ own' = [own EXCEPT ![t] = S]
    /\ UNCHANGED <<results, given, alive>>

\* Another operation is in flight, or the blocking call that submitted one is.
NoteOverlap(S) ==
    overlap' = \/ overlap \/ pending # {} \/ queue # << >> \/ Cardinality(S) > 1
               \/ \E u \in Threads : pc[u] # "idle" /\ kind[u] \in {"data", "close"}

\* The first part of the five blocking calls: submit, with its three outcomes.
Blocking(t, k, o) ==
    \/ /\ Begin(t, k, {o}, "span")
       /\ SubmitLocked({o}) \/ SubmitLockedAtOnce(o)
       /\ NoteOverlap({o})
       /\ UNCHANGED answer
    \/ /\ Begin(t, "reap", {}, "idle")
       /\ mutex = Free
       /\ answer' = [answer EXCEPT ![o] = "refused"]
       /\ UNCHANGED <<torus, overlap>>

TorusRead(t, o)  == Blocking(t, "data", o)
TorusWrite(t, o) == Blocking(t, "data", o)
TorusRecv(t, o)  == Blocking(t, "data", o)
TorusSend(t, o)  == Blocking(t, "data", o)
TorusClose(t, o) == Blocking(t, "close", o)

\* torus_submit_batch.  (An unknown op_type refuses the whole batch before
\* anything is submitted, and a refused batch changes nothing.)
TorusSubmitBatch(t, S) ==
    /\ Begin(t, "batch", S, "span")
    /\ SubmitLocked(S)
    /\ NoteOverlap(S)
    /\ UNCHANGED answer

\* torus_wait, with a timeout or for ever.
TorusWait(t, k) ==
    /\ Begin(t, k, {}, "wait")
    /\ UNCHANGED <<torus, answer, overlap>>

\* torus_reap.
TorusReap(t) ==
    /\ Begin(t, "reap", {}, "reap")
    /\ UNCHANGED <<torus, answer, overlap>>

-----------------------------------------------------------------------------
(***************************************************************************)
(* The steps of the calls.                                                 *)
(***************************************************************************)

StepSpan(t) ==
    /\ pc[t] = "span"
    /\ InsertSpans(own[t])
    /\ IF kind[t] = "batch" THEN Return(t) ELSE Goto(t, "wait")
    /\ UNCHANGED <<results, history, alive>>

AfterWait(t) == IF kind[t] \in {"data", "close"} THEN Goto(t, "reap") ELSE Return(t)

StepWait(t) ==
    /\ pc[t] = "wait"
    /\ \/ WaitLocked(t) /\ Goto(t, "waiting")
       \/ WaitNothing /\ AfterWait(t)
    /\ UNCHANGED <<results, history, alive>>

StepWaiting(t) ==
    /\ pc[t] = "waiting"
    /\ WaitEnds(t, kind[t] # "forever")
    /\ AfterWait(t)
    /\ UNCHANGED <<results, history, alive>>

StepInterrupted(t) ==
    /\ pc[t] = "waiting"
    /\ WaitInterrupted(t)
    /\ AfterWait(t)
    /\ UNCHANGED <<results, history, alive>>

\* Fault: the vector of an earlier call is filled again.
StepReap_Again(t) ==
    /\ pc[t] = "reap"
    /\ ReapLocked
    /\ results' = [results EXCEPT ![t] = reaped \o queue]
    /\ Goto(t, "reaped")
    /\ UNCHANGED <<history, alive>>

StepReap(t) ==
    /\ pc[t] = "reap"
    /\ ReapLocked
    /\ results' = [results EXCEPT ![t] = queue]
    /\ Goto(t, "reaped")
    /\ UNCHANGED <<history, alive>>

\* What the callback of operation o is given when res was reaped: the first
\* completion, or ETIMEDOUT, or, from torus_close, success.
Callback(o, res, k) ==
    [answer EXCEPT ![o] = IF res # << >> THEN res[1] ELSE IF k = "close" THEN "zero" ELSE "timeout"]

\* Copied to the caller: one completion by a callback, the first max_results by
\* torus_reap.  The others are dropped.
HandedOver(res, k) ==
    SubSeq(res, 1, IF k # "reap" THEN IF res = << >> THEN 0 ELSE 1
                   ELSE IF Len(res) < MaxResults THEN Len(res) ELSE MaxResults)

\* Back from reap: the spans go, and the caller gets its answer.
StepReturn(t) ==
    /\ pc[t] = "reaped"
    /\ RemoveSpans(results[t])
    /\ given' = given \o HandedOver(results[t], kind[t])
    /\ IF kind[t] = "reap" THEN UNCHANGED answer
       ELSE \E o \in own[t] : answer' = Callback(o, results[t], kind[t])
    /\ results' = [results EXCEPT ![t] = << >>]
    /\ Return(t)
    /\ UNCHANGED <<calls, users, overlap, alive>>

\* torus_destroy; its contract is that no call is in progress.
TorusDestroy ==
    /\ alive /\ \A t \in Threads : pc[t] = "idle"
    /\ alive' = FALSE
    /\ UNCHANGED <<torus, thread, history>>

Completion(o) ==
    /\ alive /\ BackendComplete(o)
    /\ UNCHANGED <<thread, history, alive>>

-----------------------------------------------------------------------------
\* torus_create.
Init ==
    /\ TorusInit
    /\ pc = [t \in Threads |-> "idle"] /\ kind = [t \in Threads |-> "reap"]
    /\ own = [t \in Threads |-> {}] /\ results = [t \in Threads |-> << >>]
    /\ answer = [o \in Operations |-> "none"] /\ given = << >> /\ calls = 0
    /\ users = {} /\ overlap = FALSE /\ alive = TRUE

Call(t) ==
    \/ \E o \in Fresh : TorusRead(t, o) \/ TorusWrite(t, o) \/ TorusRecv(t, o)
                        \/ TorusSend(t, o) \/ TorusClose(t, o)
    \/ \E S \in SUBSET Fresh : S # {} /\ TorusSubmitBatch(t, S)
    \/ \E k \in {"wait", "forever"} : TorusWait(t, k)
    \/ TorusReap(t)

LockStep(t) == StepWait(t) \/ StepReap(t)
OwnStep(t) == StepSpan(t) \/ StepWaiting(t) \/ StepReturn(t)

Next ==
    \/ \E t \in Threads : Call(t) \/ LockStep(t) \/ OwnStep(t) \/ StepInterrupted(t)
    \/ \E o \in Operations : Completion(o)
    \/ TorusDestroy

\* A thread in a call goes on, and gets the mutex if it is free time and again;
\* a wait returns once its backend has what it waits for, which for kqueue and IOCP
\* may be that the time is up.  Nothing has to complete, and no signal has to come.
Fairness == \A t \in Threads : WF_vars(OwnStep(t)) /\ SF_vars(LockStep(t))

Spec == Init /\ [][Next]_vars /\ Fairness

-----------------------------------------------------------------------------
(***************************************************************************)
(* Properties.                                                             *)
(***************************************************************************)

\* Every variable has its type.
TypeOK ==
    /\ pending \subseteq Operations /\ spans \subseteq Operations
    /\ queue \in Seq(Operations) /\ reaped \in Seq(Operations) /\ given \in Seq(Operations)
    /\ backend \in MakeBackend
    /\ mutex \in Threads \cup {Free} /\ total \in Nat
    /\ pc \in [Threads -> {"idle", "span", "wait", "waiting", "reap", "reaped"}]
    /\ kind \in [Threads -> {"data", "close", "batch", "wait", "forever", "reap"}]
    /\ own \in [Threads -> SUBSET Operations]
    /\ results \in [Threads -> Seq(Operations)]
    /\ answer \in [Operations -> Answers]
    /\ calls \in 0 .. MaxCalls /\ users \subseteq Threads
    /\ overlap \in BOOLEAN /\ alive \in BOOLEAN

\* Completions that were reaped and that no caller will ever see.
Dropped ==
    Device!InSeq(reaped) \ (Device!InSeq(given) \cup UNION {Device!InSeq(results[t]) : t \in Threads})

\* As long as no two operations were in flight together, a callback is given the
\* completion of its own operation or none, and no completion is dropped, however
\* torus_wait and torus_reap of other threads come in between.
OwnCompletion ==
    ~overlap => /\ \A o \in Operations : answer[o] \in Operations => answer[o] = o
                /\ Dropped = {}

\* A completion is handed over once, whatever the threads do.
HandedOverOnce == TypeOK /\ \A i, j \in 1 .. Len(given) : given[i] = given[j] => i = j

\* Between the calls every operation submitted has its span in the map or was
\* recorded in the metrics, once.  With a single user of the handle the recorded
\* ones are those that were reaped.  (A second thread may reap an operation before
\* its submitter has inserted the span, which then stays and is not recorded.)
SpansConsumed ==
    (\A t \in Threads : pc[t] = "idle") =>
        /\ total + Cardinality(spans) = Cardinality(pending) + Len(queue) + Len(reaped)
        /\ Cardinality(users) <= 1 => spans = pending \cup Device!InSeq(queue)

\* A thread waits, with the backend locked, for what nothing brings about: with
\* kqueue in a torus_wait without timeout, and with io_uring, which ignores the
\* timeout, in any wait, those of torus_read and its like included, as long as one
\* operation is in flight.
LockedForever ==
    \E t \in Threads : /\ mutex = t
                       /\ \/ backend = "kqueue" /\ kind[t] = "forever" /\ queue = << >>
                          \/ backend = "uring" /\ pending # {}

\* Every call of every thread returns, although nothing has to complete, unless the
\* backend stays locked by a wait of that kind: nobody can submit or reap then.
\* With IOCP every call returns.
CallsReturn ==
    \A t \in Threads : pc[t] # "idle" ~> (pc[t] = "idle" \/ []LockedForever)
=============================================================================

------------------------------- MODULE AsyncIo -------------------------------
(***************************************************************************)
(* What TorusAsync promises to the tasks that use it, with no user_data,    *)
(* no registry, no reaper and no queues: every future performs one I/O     *)
(* operation; the device decides the operation's outcome once, and the     *)
(* future either returns exactly that outcome or is cancelled (dropped).   *)
(*                                                                         *)
(* This is the specification TorusAsync implements; see the refinement     *)
(* mapping at the end of TorusAsync.tla.                                   *)
(***************************************************************************)
EXTENDS TorusResult

CONSTANTS
    Futures,        \* the futures handed out by TorusAsync::read, write, ...
    Outcomes,       \* raw i64 results the device may produce
    SubmitErrors,   \* error codes a refused submission may return
    NoValue         \* "nothing yet"

VARIABLES
    status,         \* life of each future
    outcome,        \* what the device produced for the future's operation
    answer          \* what poll returned to the task

vars == <<status, outcome, answer>>

Init ==
    /\ status  = [f \in Futures |-> "new"]
    /\ outcome = [f \in Futures |-> NoValue]
    /\ answer  = [f \in Futures |-> NoValue]

\* The operation is accepted by the device.
Issue(f) ==
    /\ status[f] = "new"
    /\ status' = [status EXCEPT ![f] = "issued"]
    /\ UNCHANGED <<outcome, answer>>

\* The operation is refused: the task is told at once, nothing is in flight.
Refuse(f) ==
    /\ status[f] = "new"
    /\ status' = [status EXCEPT ![f] = "answered"]
    /\ \E e \in SubmitErrors : answer' = [answer EXCEPT ![f] = ErrOs(e)]
    /\ UNCHANGED outcome

\* The device finishes the operation, even one whose future is gone: a drop
\* does not cancel what was submitted.
Finish(f) ==
    /\ status[f] \in {"issued", "detached"}
    /\ outcome[f] = NoValue
    /\ \E r \in Outcomes : outcome' = [outcome EXCEPT ![f] = r]
    /\ UNCHANGED <<status, answer>>

\* The task receives the outcome of its own operation, once.
Answer(f) ==
    /\ status[f] = "issued"
    /\ outcome[f] # NoValue
    /\ status' = [status EXCEPT ![f] = "answered"]
    /\ answer' = [answer EXCEPT ![f] = ToPoll(outcome[f])]
    /\ UNCHANGED outcome

\* The task drops a future it never polled, or one whose operation the device
\* still holds.
Cancel(f) ==
    /\ status[f] = "new"
    /\ status' = [status EXCEPT ![f] = "cancelled"]
    /\ UNCHANGED <<outcome, answer>>

Detach(f) ==
    /\ status[f] = "issued"
    /\ status' = [status EXCEPT ![f] = "detached"]
    /\ UNCHANGED <<outcome, answer>>

Next ==
    \E f \in Futures :
        \/ Issue(f) \/ Refuse(f) \/ Finish(f)
        \/ Answer(f) \/ Cancel(f) \/ Detach(f)

Spec == Init /\ [][Next]_vars
=============================================================================

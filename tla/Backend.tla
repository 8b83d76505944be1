------------------------------- MODULE Backend -------------------------------
(***************************************************************************)
(* What the Backend trait (tpt-torus-core/src/backend.rs) promises of the  *)
(* operations handed to submit: each completes at most once, and reap      *)
(* returns all available completions in completion order.  The backends    *)
(* that run a reactor thread are shown to implement it, and the C API is   *)
(* built over it.                                                          *)
(*                                                                         *)
(* An operation is one unit of work of a flow.  Whether an operation does  *)
(* complete is not promised here: a connection may stay silent.            *)
(***************************************************************************)
EXTENDS Naturals, Sequences

CONSTANT Operations

VARIABLES
    pending,    \* operations submitted and not completed
    queue,      \* completions not reaped yet, oldest first
    reaped      \* completions returned by reap, oldest first

vars == <<pending, queue, reaped>>

InSeq(s) == {s[i] : i \in 1 .. Len(s)}

Unused == Operations \ (pending \cup InSeq(queue) \cup InSeq(reaped))

Init == pending = {} /\ queue = << >> /\ reaped = << >>

\* submit hands operations over.
Submit(S) ==
    /\ S \subseteq Unused
    /\ pending' = pending \cup S
    /\ UNCHANGED <<queue, reaped>>

\* submit finds that an operation cannot be started and completes it at once.
Reject(o) ==
    /\ o \in Unused
    /\ queue' = Append(queue, o)
    /\ UNCHANGED <<pending, reaped>>

\* Operations complete, in the order of s.
Complete(s) ==
    /\ InSeq(s) \subseteq pending
    /\ \A i, j \in 1 .. Len(s) : s[i] = s[j] => i = j
    /\ pending' = pending \ InSeq(s)
    /\ queue' = queue \o s
    /\ UNCHANGED reaped

\* reap takes every completion there is.
Reap ==
    /\ reaped' = reaped \o queue
    /\ queue' = << >>
    /\ UNCHANGED pending

\* What a step appended to the queue.
Added == SubSeq(queue', Len(queue) + 1, Len(queue'))

Next ==
    \/ \E S \in SUBSET Operations : Submit(S)
    \/ \E o \in Operations : Reject(o)
    \/ Complete(Added)
    \/ Reap

Spec == Init /\ [][Next]_vars
=============================================================================

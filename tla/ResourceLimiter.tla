--------------------------- MODULE ResourceLimiter ---------------------------
(***************************************************************************)
(* ResourceLimiter (tpt-torus-core/src/cgroup.rs): an atomic u32 counter    *)
(* that callers increment before an operation and decrement after it.      *)
(*                                                                         *)
(* try_reserve is a load and a fetch_add, two atomic steps, and other      *)
(* callers run between them.                                               *)
(***************************************************************************)
EXTENDS Integers, FiniteSets

CONSTANTS
    Callers,        \* the operations that reserve and release a slot
    max_in_flight,  \* ResourceLimits::max_in_flight
    U32             \* 2^32, the modulus of the counter

ASSUME CallersAssumption == IsFiniteSet(Callers)
ASSUME LimitAssumption == max_in_flight \in Nat /\ U32 \in Nat
\* There are fewer callers at one time than the counter has room above the limit.
ASSUME WidthAssumption == max_in_flight + Cardinality(Callers) < U32

VARIABLES
    in_flight,      \* the AtomicU32
    pc              \* where each caller is

limiter_vars == <<in_flight, pc>>

LimiterInit ==
    /\ in_flight = 0
    /\ pc = [c \in Callers |-> "idle"]

\* try_reserve: load, and go on below the limit.
TryReserveLoad(c) ==
    /\ pc[c] = "idle"
    /\ in_flight < max_in_flight
    /\ pc' = [pc EXCEPT ![c] = "add"]
    /\ UNCHANGED in_flight

\* try_reserve returns false at the limit and changes nothing.
TryReserveRefused(c) ==
    /\ pc[c] = "idle"
    /\ in_flight >= max_in_flight
    /\ UNCHANGED limiter_vars

\* Fault: the value that fetch_add returns is not tested again.
TryReserveAdd_Unchecked(c) ==
    /\ pc[c] = "add"
    /\ in_flight' = (in_flight + 1) % U32
    /\ pc' = [pc EXCEPT ![c] = "reserved"]

\* try_reserve: fetch_add, whose old value decides between true and false.
\* The caller that is told false leaves its increment behind.
TryReserveAdd(c) ==
    /\ pc[c] = "add"
    /\ in_flight' = (in_flight + 1) % U32
    /\ pc' = [pc EXCEPT ![c] = IF in_flight < max_in_flight THEN "reserved" ELSE "idle"]

\* Fault: an operation that completes gives its slot back twice.
Release_Twice(c) ==
    /\ pc[c] = "reserved"
    /\ in_flight' = (in_flight - 2) % U32
    /\ pc' = [pc EXCEPT ![c] = "idle"]

\* release: fetch_sub.
Release(c) ==
    /\ pc[c] = "reserved"
    /\ in_flight' = (in_flight - 1) % U32
    /\ pc' = [pc EXCEPT ![c] = "idle"]

LimiterNext ==
    \E c \in Callers :
        TryReserveLoad(c) \/ TryReserveRefused(c) \/ TryReserveAdd(c) \/ Release(c)

LimiterSpec == LimiterInit /\ [][LimiterNext]_limiter_vars

-----------------------------------------------------------------------------
(***************************************************************************)
(* Properties.                                                             *)
(***************************************************************************)

Reserved == {c \in Callers : pc[c] = "reserved"}
Adding   == {c \in Callers : pc[c] = "add"}

\* The counter is a u32.
LimiterTypeOK ==
    /\ in_flight \in 0 .. U32 - 1
    /\ pc \in [Callers -> {"idle", "add", "reserved"}]

\* At most max_in_flight callers hold a slot, whatever races in try_reserve.
LimitKept == Cardinality(Reserved) <= max_in_flight

\* The counter covers the slots that are held, so release never takes it below
\* zero, and races push it past the limit by less than the number of callers,
\* so it never wraps.
CounterBounded ==
    /\ Cardinality(Reserved) <= in_flight
    /\ in_flight <= max_in_flight + Cardinality(Callers)

\* The increments made and about to be made, the invariant behind CounterBounded.
OvershootBounded == in_flight + Cardinality(Adding) <= max_in_flight + Cardinality(Callers)
=============================================================================

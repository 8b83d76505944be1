---------------------------- MODULE LeaseRegistry ----------------------------
(***************************************************************************)
(* LeaseRegistry (tpt-torus-core/src/lease.rs): the ordered map of          *)
(* registered memory regions and the count of in-flight operations that    *)
(* each of them carries.                                                   *)
(*                                                                         *)
(* Every method runs under the registry's RwLock, so a method is one step  *)
(* and threads interleave between them.  The leases variable is not in the *)
(* code: it is what the callers hold, the (addr, len) of every checkout    *)
(* they have not checked in.  in_flight is a u32 that saturates: fewer than *)
(* 2^32 operations are in flight at once.                                  *)
(***************************************************************************)
EXTENDS Integers, FiniteSets

CONSTANTS
    AddrMax,    \* usize::MAX
    Ops         \* the I/O operations that may hold a lease

ASSUME AddrMaxAssumption == AddrMax \in Nat
ASSUME OpsAssumption == IsFiniteSet(Ops)

VARIABLES
    regions,    \* start -> [len, in_flight], the BTreeMap of LeaseRegion
    leases      \* the operations in flight -> the [addr, len] they checked out

lease_vars == <<regions, leases>>

Addr == 0 .. AddrMax

\* What the caller of the unsafe register promises: ptr points to live memory
\* of len bytes.  No allocation reaches the end of the address space, so its
\* end is a usize, and smaller than the value saturating_add saturates to.
Buffers == {b \in [addr : Addr, len : Addr] : b.addr + b.len < AddrMax}

saturating_add(a, b) == IF a + b > AddrMax THEN AddrMax ELSE a + b

\* regions.range(..end).next_back(): the last region that starts before end.
LastBefore(start, end) ==
    /\ start \in DOMAIN regions /\ start < end
    /\ \A s \in DOMAIN regions : s < end => s <= start

\* The end of the region that starts at start.
EndOf(start) == start + regions[start].len

contains(start, addr) == addr >= start /\ addr < EndOf(start)

-----------------------------------------------------------------------------
LeaseInit ==
    /\ regions = [s \in {} |-> [len |-> 0, in_flight |-> 0]]
    /\ leases = [o \in {} |-> [addr |-> 0, len |-> 0]]

\* Fault: register looks only at regions that start at or before the new one.
Overlaps_Below(b) ==
    \E start \in DOMAIN regions :
        /\ LastBefore(start, saturating_add(b.addr, 1))
        /\ EndOf(start) > b.addr

\* The overlap test of register: only the last region that starts before the
\* end of the new one is looked at.
Overlaps(b) ==
    \E start \in DOMAIN regions :
        /\ LastBefore(start, saturating_add(b.addr, b.len))
        /\ EndOf(start) > b.addr

InsertRegion(start, region) ==
    [s \in DOMAIN regions \cup {start} |-> IF s = start THEN region ELSE regions[s]]

\* register and register_mut.  An empty buffer at the start of a registered
\* region passes the overlap test and would replace that region; the caller
\* must not do that ("The region is not already registered").
Register(b) ==
    /\ b.len = 0 => b.addr \notin DOMAIN regions
    /\ ~Overlaps(b)
    /\ regions' = InsertRegion(b.addr, [len |-> b.len, in_flight |-> 0])
    /\ UNCHANGED leases

\* Fault: unregister drops the region before it looks at in_flight.
Unregister_Unguarded(start) ==
    /\ start \in DOMAIN regions
    /\ regions' = [s \in DOMAIN regions \ {start} |-> regions[s]]
    /\ UNCHANGED leases

\* unregister succeeds; a region in flight is put back (LeaseError::InFlight).
Unregister(start) ==
    /\ start \in DOMAIN regions
    /\ regions[start].in_flight = 0
    /\ regions' = [s \in DOMAIN regions \ {start} |-> regions[s]]
    /\ UNCHANGED leases

\* Fault: checkout of an address one past the end of its region.
RegionOf_OffByOne(start, addr) ==
    LastBefore(start, saturating_add(addr, 1)) /\ addr >= start /\ addr <= EndOf(start)

\* The region a checkout, a checkin or a verify of addr works on.
RegionOf(start, addr) == LastBefore(start, saturating_add(addr, 1)) /\ contains(start, addr)

\* Fault: checkout tests the address of the buffer and not its end.
InRegion_NoEnd(start, b) == RegionOf(start, b.addr)

\* checkout and verify accept the buffer: not NotRegistered, not OutOfBounds.
InRegion(start, b) ==
    RegionOf(start, b.addr) /\ saturating_add(b.addr, b.len) <= EndOf(start)

\* checkout succeeds for operation o.
Checkout(o, b) ==
    /\ o \notin DOMAIN leases
    /\ \E start \in DOMAIN regions :
          /\ InRegion(start, b)
          /\ regions' = [regions EXCEPT ![start].in_flight = @ + 1]
    /\ leases' = [p \in DOMAIN leases \cup {o} |-> IF p = o THEN b ELSE leases[p]]

\* Fault: checkin releases every region that starts at or before the address.
Checkin_AllBelow(o) ==
    /\ o \in DOMAIN leases
    /\ regions' = [s \in DOMAIN regions |->
                      IF s <= leases[o].addr /\ regions[s].in_flight > 0
                      THEN [regions[s] EXCEPT !.in_flight = @ - 1] ELSE regions[s]]
    /\ leases' = [p \in DOMAIN leases \ {o} |-> leases[p]]

\* checkin of operation o when it completes.  An address that is in no region,
\* or in a region with nothing in flight, changes no region.
Checkin(o) ==
    /\ o \in DOMAIN leases
    /\ regions' = [s \in DOMAIN regions |->
                      IF RegionOf(s, leases[o].addr) /\ regions[s].in_flight > 0
                      THEN [regions[s] EXCEPT !.in_flight = @ - 1] ELSE regions[s]]
    /\ leases' = [p \in DOMAIN leases \ {o} |-> leases[p]]

LeaseNext ==
    \/ \E b \in Buffers : Register(b)
    \/ \E start \in DOMAIN regions : Unregister(start)
    \/ \E o \in Ops, b \in [addr : Addr, len : Addr] : Checkout(o, b)
    \/ \E o \in DOMAIN leases : Checkin(o)

LeaseSpec == LeaseInit /\ [][LeaseNext]_lease_vars

-----------------------------------------------------------------------------
(***************************************************************************)
(* Properties.                                                             *)
(***************************************************************************)

\* Regions are keyed by their start and fit the address space.
LeaseTypeOK ==
    /\ DOMAIN regions \subseteq Addr
    /\ regions \in [DOMAIN regions -> [len : Addr, in_flight : Nat]]
    /\ \A s \in DOMAIN regions : EndOf(s) < AddrMax
    /\ DOMAIN leases \subseteq Ops
    /\ leases \in [DOMAIN leases -> [addr : Addr, len : Addr]]

\* No two registered regions share a byte, although register compares a new
\* region with one neighbour only; an empty one is not inside another either.
NoOverlap ==
    \A s, t \in DOMAIN regions : s < t => EndOf(s) <= t

\* The operations whose lease starts in the region that starts at start.
Holders(start) == {o \in DOMAIN leases : contains(start, leases[o].addr)}

\* Every byte of a buffer in flight stays inside one registered region: the
\* region is neither unregistered nor replaced while it is leased.
LeaseCovered ==
    \A o \in DOMAIN leases :
        \E s \in DOMAIN regions :
            /\ contains(s, leases[o].addr)
            /\ leases[o].addr + leases[o].len <= EndOf(s)

\* A region's in_flight is the number of operations that lease from it, so
\* unregister and verify decide on the truth.
CountExact ==
    \A s \in DOMAIN regions : regions[s].in_flight = Cardinality(Holders(s))

\* A buffer is accepted by checkout and verify exactly when some registered
\* region holds all of it: the search for the last region at or before the
\* address misses no region.
LookupComplete ==
    \A b \in Buffers :
        (\E s \in DOMAIN regions : InRegion(s, b)) <=>
        (\E s \in DOMAIN regions : contains(s, b.addr) /\ b.addr + b.len <= EndOf(s))
=============================================================================

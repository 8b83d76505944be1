----------------------------- MODULE CoreProofs ------------------------------
(***************************************************************************)
(* Proofs about the sequential parts and the adapters of tpt-torus-core:   *)
(* LeaseRegistry for every address space and any finite set of operations, *)
(* ResourceLimiter for every limit and any finite set of callers, and      *)
(* TokioCopy, the two tokio adapters over one registry, for a file, buffers *)
(* and a number of operations of any size.  The three share no variable; the *)
(* names of their specifications are LeaseSpec, LimiterSpec and Spec.      *)
(***************************************************************************)
EXTENDS LeaseRegistry, ResourceLimiter, TokioCopy, FiniteSetTheorems, SequenceTheorems, TLAPS

-----------------------------------------------------------------------------
(***************************************************************************)
(* LeaseRegistry.                                                          *)
(***************************************************************************)

\* A non-empty set of addresses has a greatest element: what makes
\* range(..end).next_back() well defined.
LEMMA GreatestAddr ==
    ASSUME NEW T \in SUBSET Addr, T # {}
    PROVE  \E m \in T : \A t \in T : t <= m
<1> DEFINE D == {AddrMax - t : t \in T}
<1>1. D \subseteq Nat /\ D # {}
  <2>1. \A t \in T : AddrMax - t \in Nat
    BY AddrMaxAssumption DEF Addr
  <2>2. QED
    BY <2>1
<1> DEFINE R == OpToRel(<, Nat)
<1>2. PICK d \in D : \A e \in D : ~(<<e, d>> \in R)
  <2>1. IsWellFoundedOn(R, Nat)
    BY NatLessThanWellFounded
  <2> HIDE DEF D, R
  <2>2. QED
    BY <1>1, <2>1, WFMin
<1>3. \A e \in D : ~(e < d)
  BY <1>1, <1>2 DEF OpToRel
<1>4. PICK m \in T : d = AddrMax - m
  OBVIOUS
<1>5. ASSUME NEW t \in T PROVE t <= m
  <2>1. AddrMax - t \in D
    OBVIOUS
  <2>2. ~(AddrMax - t < AddrMax - m)
    BY <2>1, <1>3, <1>4
  <2>3. t \in Int /\ m \in Int /\ AddrMax \in Int
    BY AddrMaxAssumption DEF Addr
  <2>4. QED
    BY <2>2, <2>3
<1>6. QED
  BY <1>5

\* The regions that start before an address have a last one, or there is none.
LEMMA LastBeforeExists ==
    ASSUME LeaseTypeOK, NEW end, NEW s \in DOMAIN regions, s < end
    PROVE  \E m \in DOMAIN regions : LastBefore(m, end) /\ s <= m
<1> DEFINE T == {t \in DOMAIN regions : t < end}
<1>1. T \in SUBSET Addr /\ T # {}
  BY DEF LeaseTypeOK
<1>2. PICK m \in T : \A t \in T : t <= m
  <2> HIDE DEF T
  <2>1. QED
    BY <1>1, GreatestAddr
<1>3. QED
  BY <1>2 DEF LastBefore

\* Ends of regions are integers.
LEMMA EndType ==
    ASSUME LeaseTypeOK, NEW s \in DOMAIN regions
    PROVE  /\ s \in Int /\ 0 <= s /\ EndOf(s) \in Int /\ s <= EndOf(s) /\ EndOf(s) < AddrMax
           /\ regions[s].in_flight \in Nat /\ regions[s].len \in Addr
  BY AddrMaxAssumption DEF LeaseTypeOK, Addr, EndOf

\* The overlap test with one neighbour is a test with every region.
LEMMA OverlapTest ==
    ASSUME LeaseTypeOK, NoOverlap, NEW b \in Buffers, ~Overlaps(b), NEW s \in DOMAIN regions
    PROVE  \/ EndOf(s) <= b.addr
           \/ b.addr + b.len <= s
<1> DEFINE end == b.addr + b.len
<1>1. /\ b.addr \in Int /\ b.len \in Int /\ 0 <= b.len /\ end < AddrMax /\ AddrMax \in Int
      /\ saturating_add(b.addr, b.len) = end
  BY AddrMaxAssumption DEF Buffers, Addr, saturating_add
<1>2. CASE s < end
  <2>1. PICK m \in DOMAIN regions : LastBefore(m, end) /\ s <= m
    BY <1>2, LastBeforeExists
  <2>2. EndOf(m) <= b.addr
    BY <1>1, <2>1, EndType DEF Overlaps
  <2>3. EndOf(s) <= EndOf(m)
    BY <2>1, EndType DEF NoOverlap
  <2>4. QED
    BY <1>1, <2>2, <2>3, EndType
<1>3. CASE ~(s < end)
  BY <1>1, <1>3, EndType
<1>4. QED
  BY <1>2, <1>3

\* An address is in at most one region.
LEMMA RegionUnique ==
    ASSUME LeaseTypeOK, NoOverlap, NEW s \in DOMAIN regions, NEW t \in DOMAIN regions,
           NEW a \in Int, contains(s, a), contains(t, a)
    PROVE  s = t
  BY EndType DEF NoOverlap, contains

\* The search for the last region at or before an address finds the region
\* that contains it.
LEMMA RegionFound ==
    ASSUME LeaseTypeOK, NoOverlap, NEW s \in DOMAIN regions, NEW a \in Addr
    PROVE  RegionOf(s, a) <=> contains(s, a)
<1>1. RegionOf(s, a) => contains(s, a)
  BY DEF RegionOf
<1>2. ASSUME contains(s, a) PROVE RegionOf(s, a)
  <2>1. s \in Int /\ EndOf(s) \in Int /\ s <= a /\ a < EndOf(s) /\ EndOf(s) < AddrMax
    BY <1>2, EndType DEF contains
  <2>2. a \in Int /\ AddrMax \in Int /\ saturating_add(a, 1) = a + 1
    BY <2>1, AddrMaxAssumption DEF saturating_add, Addr
  <2>3. \A t \in DOMAIN regions : t < a + 1 => t <= s
    BY <2>1, <2>2, EndType DEF NoOverlap
  <2>4. QED
    BY <1>2, <2>1, <2>2, <2>3 DEF RegionOf, LastBefore
<1>3. QED
  BY <1>1, <1>2

-----------------------------------------------------------------------------
(***************************************************************************)
(* The inductive invariant.                                                *)
(***************************************************************************)

\* NoOverlap, LeaseCovered and CountExact need each other: unregister relies on
\* the count, the count on coverage, and coverage on disjoint regions.
LeaseInv == LeaseTypeOK /\ NoOverlap /\ LeaseCovered /\ CountExact

\* The holders of a region are finitely many.
LEMMA HoldersFinite ==
    ASSUME LeaseTypeOK, NEW s
    PROVE  IsFiniteSet(Holders(s)) /\ Cardinality(Holders(s)) \in Nat
<1>1. Holders(s) \subseteq Ops
  BY DEF Holders, LeaseTypeOK
<1>2. QED
  BY <1>1, OpsAssumption, FS_Subset, FS_CardinalityType

\* LeaseInv holds of the empty registry.
LEMMA LeaseInvInit == LeaseInit => LeaseInv
  BY DEF LeaseInit, LeaseInv, LeaseTypeOK, NoOverlap, LeaseCovered, CountExact, Addr

\* register keeps LeaseInv.
LEMMA RegisterStep ==
    ASSUME LeaseInv, NEW b \in Buffers, Register(b)
    PROVE  LeaseInv'
<1> USE DEF LeaseInv
<1> DEFINE n == b.addr
<1>1. /\ DOMAIN regions' = DOMAIN regions \cup {n}
      /\ regions'[n] = [len |-> b.len, in_flight |-> 0]
      /\ \A s \in DOMAIN regions : s # n => regions'[s] = regions[s]
      /\ leases' = leases
  BY DEF Register, InsertRegion
<1>2. n \in Addr /\ b.len \in Addr /\ n + b.len < AddrMax
  BY DEF Buffers
<1>3. /\ EndOf(n)' = n + b.len
      /\ \A s \in DOMAIN regions : s # n => EndOf(s)' = EndOf(s)
  BY <1>1 DEF EndOf
<1>4. LeaseTypeOK'
  <2>1. regions' \in [DOMAIN regions' -> [len : Addr, in_flight : Nat]]
    BY <1>2 DEF LeaseTypeOK, Register, InsertRegion
  <2>2. \A s \in DOMAIN regions' : EndOf(s)' < AddrMax
    BY <1>1, <1>2, <1>3 DEF LeaseTypeOK
  <2>3. QED
    BY <1>1, <1>2, <2>1, <2>2 DEF LeaseTypeOK
<1>5. \A s \in DOMAIN regions : EndOf(s) <= n \/ n + b.len <= s
  BY OverlapTest DEF Register
<1>6. \A s \in DOMAIN regions : s = n => EndOf(s) = n
  BY <1>2, <1>5, EndType, AddrMaxAssumption DEF Register, Addr
<1>7. NoOverlap'
  <2> SUFFICES ASSUME NEW s \in DOMAIN regions', NEW t \in DOMAIN regions', s < t
               PROVE  EndOf(s)' <= t
    BY DEF NoOverlap
  <2>1. n \in Int /\ b.len \in Int /\ 0 <= b.len
    BY <1>2, AddrMaxAssumption DEF Addr
  <2>2. CASE s # n /\ t # n
    BY <1>1, <1>3, <2>2 DEF NoOverlap
  <2>3. CASE s = n /\ t # n
    BY <1>1, <1>3, <1>5, <2>1, <2>3, EndType
  <2>4. CASE s # n /\ t = n
    BY <1>1, <1>3, <1>5, <2>1, <2>4, EndType
  <2>5. QED
    BY <2>1, <2>2, <2>3, <2>4, <1>1
<1>8. ASSUME NEW s \in DOMAIN regions, NEW a \in Int, contains(s, a)
      PROVE  s # n /\ contains(s, a)' /\ ~(contains(n, a)')
  <2>1. n \in Int /\ b.len \in Int /\ 0 <= b.len
    BY <1>2, AddrMaxAssumption DEF Addr
  <2>2. s # n
    BY <1>6, <1>8, EndType DEF contains
  <2>3. contains(s, a)'
    BY <1>3, <1>8, <2>2 DEF contains
  <2>4. ~(contains(n, a)')
    BY <1>3, <1>5, <1>8, <2>1, EndType DEF contains
  <2>5. QED
    BY <2>2, <2>3, <2>4
<1>9. \A o \in DOMAIN leases : leases[o].addr \in Int /\ leases[o].addr + leases[o].len \in Int
  BY AddrMaxAssumption DEF LeaseTypeOK, Addr
<1>10. LeaseCovered'
  BY <1>1, <1>3, <1>8, <1>9 DEF LeaseCovered
<1>11. CountExact'
  <2>1. ASSUME NEW s \in DOMAIN regions, s # n PROVE Holders(s)' = Holders(s)
    BY <1>1, <1>3, <2>1 DEF Holders, contains
  <2>2. Holders(n)' = {}
    BY <1>1, <1>8, <1>9 DEF Holders, LeaseCovered
  <2>3. Cardinality(Holders(n)') = 0
    BY <2>2, FS_EmptySet
  <2>4. QED
    BY <1>1, <2>1, <2>3 DEF CountExact
<1>12. QED
  BY <1>4, <1>7, <1>10, <1>11

\* unregister keeps LeaseInv: a region with nothing in flight covers no lease.
LEMMA UnregisterStep ==
    ASSUME LeaseInv, NEW n \in DOMAIN regions, Unregister(n)
    PROVE  LeaseInv'
<1> USE DEF LeaseInv
<1>1. /\ DOMAIN regions' = DOMAIN regions \ {n}
      /\ \A s \in DOMAIN regions' : regions'[s] = regions[s] /\ EndOf(s)' = EndOf(s)
      /\ leases' = leases
  BY DEF Unregister, EndOf
<1>2. LeaseTypeOK'
  BY <1>1 DEF LeaseTypeOK, Unregister
<1>3. NoOverlap'
  BY <1>1 DEF NoOverlap
<1>4. Holders(n) = {}
  <2>1. Cardinality(Holders(n)) = 0
    BY DEF Unregister, CountExact
  <2>2. QED
    BY <2>1, HoldersFinite, FS_EmptySet
<1>5. LeaseCovered'
  BY <1>1, <1>4 DEF LeaseCovered, Holders, contains
<1>6. \A s \in DOMAIN regions' : Holders(s)' = Holders(s)
  BY <1>1 DEF Holders, contains
<1>7. CountExact'
  BY <1>1, <1>6 DEF CountExact
<1>8. QED
  BY <1>2, <1>3, <1>5, <1>7

\* checkout keeps LeaseInv: it counts the lease in the one region that covers it.
LEMMA CheckoutStep ==
    ASSUME LeaseInv, NEW o \in Ops, NEW b \in [addr : Addr, len : Addr], Checkout(o, b)
    PROVE  LeaseInv'
<1> USE DEF LeaseInv
<1>1. PICK n \in DOMAIN regions :
          InRegion(n, b) /\ regions' = [regions EXCEPT ![n].in_flight = @ + 1]
  BY DEF Checkout
<1>2. /\ o \notin DOMAIN leases /\ DOMAIN leases' = DOMAIN leases \cup {o}
      /\ leases'[o] = b /\ \A p \in DOMAIN leases : leases'[p] = leases[p]
  BY DEF Checkout
<1>3. /\ DOMAIN regions' = DOMAIN regions
      /\ \A s \in DOMAIN regions : /\ regions'[s].len = regions[s].len
                                   /\ EndOf(s)' = EndOf(s)
                                   /\ s # n => regions'[s] = regions[s]
      /\ regions'[n].in_flight = regions[n].in_flight + 1
  BY <1>1 DEF EndOf, LeaseTypeOK
<1>4. LeaseTypeOK'
  <2>1. regions' \in [DOMAIN regions' -> [len : Addr, in_flight : Nat]]
    BY <1>1 DEF LeaseTypeOK
  <2>2. leases' \in [DOMAIN leases' -> [addr : Addr, len : Addr]]
    BY DEF LeaseTypeOK, Checkout
  <2>3. QED
    BY <1>2, <1>3, <2>1, <2>2 DEF LeaseTypeOK
<1>5. NoOverlap'
  BY <1>3 DEF NoOverlap
<1>6. contains(n, b.addr) /\ b.addr + b.len <= EndOf(n)
  BY <1>1, EndType, AddrMaxAssumption DEF InRegion, RegionOf, saturating_add, Addr
<1>7. LeaseCovered'
  BY <1>2, <1>3, <1>6 DEF LeaseCovered, contains
<1>8. \A s \in DOMAIN regions : s # n => Holders(s)' = Holders(s)
  <2>1. b.addr \in Int
    BY AddrMaxAssumption DEF Addr
  <2>2. \A s \in DOMAIN regions : s # n => ~contains(s, b.addr)
    BY <1>6, <2>1, RegionUnique
  <2>3. QED
    BY <1>2, <1>3, <2>2 DEF Holders, contains
<1>9. Holders(n)' = Holders(n) \cup {o} /\ o \notin Holders(n)
  BY <1>2, <1>3, <1>6 DEF Holders, contains
<1>10. Cardinality(Holders(n)') = Cardinality(Holders(n)) + 1
  BY <1>9, HoldersFinite, FS_AddElement
<1>11. CountExact'
  BY <1>3, <1>8, <1>10 DEF CountExact
<1>12. QED
  BY <1>4, <1>5, <1>7, <1>11

\* checkin keeps LeaseInv: it uncounts the lease in the same region.
LEMMA CheckinStep ==
    ASSUME LeaseInv, NEW o \in DOMAIN leases, Checkin(o)
    PROVE  LeaseInv'
<1> USE DEF LeaseInv
<1> DEFINE a == leases[o].addr
<1>1. PICK n \in DOMAIN regions : contains(n, a)
  BY DEF LeaseCovered
<1>2. a \in Addr /\ a \in Int
  BY AddrMaxAssumption DEF LeaseTypeOK, Addr
<1>3. \A s \in DOMAIN regions : RegionOf(s, a) <=> s = n
  BY <1>1, <1>2, RegionFound, RegionUnique
<1>4. o \in Holders(n)
  BY <1>1 DEF Holders
<1>5. /\ Cardinality(Holders(n) \ {o}) = Cardinality(Holders(n)) - 1
      /\ Cardinality(Holders(n) \ {o}) \in Nat /\ Cardinality(Holders(n)) \in Nat
  BY <1>4, HoldersFinite, FS_RemoveElement, FS_CardinalityType
<1>6. regions[n].in_flight = Cardinality(Holders(n)) /\ regions[n].in_flight > 0
  BY <1>5 DEF CountExact
<1>7. /\ DOMAIN regions' = DOMAIN regions
      /\ \A s \in DOMAIN regions : s # n => regions'[s] = regions[s]
      /\ regions'[n] = [regions[n] EXCEPT !.in_flight = @ - 1]
  BY <1>3, <1>6 DEF Checkin
<1>8. /\ \A s \in DOMAIN regions : regions'[s].len = regions[s].len /\ EndOf(s)' = EndOf(s)
      /\ regions'[n].in_flight = regions[n].in_flight - 1
  BY <1>7 DEF EndOf, LeaseTypeOK
<1>9. /\ DOMAIN leases' = DOMAIN leases \ {o}
      /\ \A p \in DOMAIN leases' : leases'[p] = leases[p]
  BY DEF Checkin
<1>10. LeaseTypeOK'
  <2>1. \A s \in DOMAIN regions : regions'[s] \in [len : Addr, in_flight : Nat]
    BY <1>6, <1>7 DEF LeaseTypeOK
  <2>2. regions' \in [DOMAIN regions' -> [len : Addr, in_flight : Nat]]
    BY <1>7, <2>1 DEF Checkin
  <2>3. leases' \in [DOMAIN leases' -> [addr : Addr, len : Addr]]
    BY DEF LeaseTypeOK, Checkin
  <2>4. QED
    BY <1>7, <1>8, <1>9, <2>2, <2>3 DEF LeaseTypeOK
<1>11. NoOverlap'
  BY <1>7, <1>8 DEF NoOverlap
<1>12. LeaseCovered'
  BY <1>7, <1>8, <1>9 DEF LeaseCovered, contains
<1>13. \A s \in DOMAIN regions : s # n => Holders(s)' = Holders(s)
  <2>1. \A s \in DOMAIN regions : s # n => ~contains(s, a)
    BY <1>1, <1>2, RegionUnique
  <2>2. QED
    BY <1>8, <1>9, <2>1 DEF Holders, contains
<1>14. Holders(n)' = Holders(n) \ {o}
  BY <1>8, <1>9 DEF Holders, contains
<1>15. CountExact'
  BY <1>5, <1>6, <1>7, <1>8, <1>13, <1>14 DEF CountExact
<1>16. QED
  BY <1>10, <1>11, <1>12, <1>15

\* LeaseInv holds in every reachable state of the registry.
THEOREM LeaseInvariance == LeaseSpec => []LeaseInv
<1>1. LeaseInv /\ [LeaseNext]_lease_vars => LeaseInv'
  <2> SUFFICES ASSUME LeaseInv, [LeaseNext]_lease_vars PROVE LeaseInv'
    OBVIOUS
  <2>1. CASE UNCHANGED lease_vars
    BY <2>1 DEF lease_vars, LeaseInv, LeaseTypeOK, NoOverlap, LeaseCovered, CountExact, Holders,
                contains, EndOf
  <2>2. QED
    BY <2>1, RegisterStep, UnregisterStep, CheckoutStep, CheckinStep DEF LeaseNext
<1>2. QED
  BY LeaseInvInit, <1>1, PTL DEF LeaseSpec

\* The map of regions and the leases of the callers are well typed: counts never
\* fall below zero in checkin, and every region fits the address space.
THEOREM LeaseTypeCorrect == LeaseSpec => []LeaseTypeOK
<1>1. LeaseInv => LeaseTypeOK
  BY DEF LeaseInv
<1>2. QED
  BY LeaseInvariance, <1>1, PTL

\* Registered regions never share a byte.
THEOREM NoOverlapHolds == LeaseSpec => []NoOverlap
<1>1. LeaseInv => NoOverlap
  BY DEF LeaseInv
<1>2. QED
  BY LeaseInvariance, <1>1, PTL

\* A buffer in flight always lies inside one registered region.
THEOREM LeaseCoveredHolds == LeaseSpec => []LeaseCovered
<1>1. LeaseInv => LeaseCovered
  BY DEF LeaseInv
<1>2. QED
  BY LeaseInvariance, <1>1, PTL

\* in_flight of a region is the number of leases taken from it.
THEOREM CountExactHolds == LeaseSpec => []CountExact
<1>1. LeaseInv => CountExact
  BY DEF LeaseInv
<1>2. QED
  BY LeaseInvariance, <1>1, PTL

\* checkout and verify accept a buffer exactly when a region holds all of it.
THEOREM LookupCompleteHolds == LeaseSpec => []LookupComplete
<1>1. LeaseInv => LookupComplete
  <2> SUFFICES ASSUME LeaseInv, NEW b \in Buffers, NEW s \in DOMAIN regions
               PROVE  InRegion(s, b) <=> contains(s, b.addr) /\ b.addr + b.len <= EndOf(s)
    BY DEF LookupComplete
  <2>1. b.addr \in Addr /\ saturating_add(b.addr, b.len) = b.addr + b.len
    BY AddrMaxAssumption DEF Buffers, Addr, saturating_add
  <2>2. RegionOf(s, b.addr) <=> contains(s, b.addr)
    BY <2>1, RegionFound DEF LeaseInv
  <2>3. QED
    BY <2>1, <2>2 DEF InRegion
<1>2. QED
  BY LeaseInvariance, <1>1, PTL

-----------------------------------------------------------------------------
(***************************************************************************)
(* ResourceLimiter.                                                        *)
(***************************************************************************)

\* The counter covers the reserved slots, so a caller whose fetch_add returned
\* less than the limit found fewer than the limit reserved.
LimiterInv == LimiterTypeOK /\ LimitKept /\ CounterBounded /\ OvershootBounded

\* The cardinalities the invariant speaks of are naturals.
LEMMA LimiterCounts ==
    /\ IsFiniteSet(Reserved) /\ Cardinality(Reserved) \in Nat
    /\ IsFiniteSet(Adding) /\ Cardinality(Adding) \in Nat
    /\ Cardinality(Adding) <= Cardinality(Callers) /\ Cardinality(Callers) \in Nat
<1>1. Reserved \subseteq Callers /\ Adding \subseteq Callers
  BY DEF Reserved, Adding
<1>2. QED
  BY <1>1, CallersAssumption, FS_Subset, FS_CardinalityType

\* The counter starts at zero and nothing is reserved.
LEMMA LimiterInvInit == LimiterInit => LimiterInv
<1> SUFFICES ASSUME LimiterInit PROVE LimiterInv
  OBVIOUS
<1>1. Reserved = {} /\ Adding = {}
  BY DEF LimiterInit, Reserved, Adding
<1>2. Cardinality(Reserved) = 0 /\ Cardinality(Adding) = 0
  BY <1>1, FS_EmptySet
<1>3. QED
  BY <1>2, LimiterCounts, LimitAssumption, WidthAssumption
  DEF LimiterInit, LimiterInv, LimiterTypeOK, LimitKept, CounterBounded, OvershootBounded

\* A caller passes the load.
LEMMA LoadStep ==
    ASSUME LimiterInv, NEW c \in Callers, TryReserveLoad(c)
    PROVE  LimiterInv'
<1>1. Reserved' = Reserved /\ Adding' = Adding \cup {c} /\ c \notin Adding
  BY DEF LimiterInv, LimiterTypeOK, TryReserveLoad, Reserved, Adding
<1>2. Adding' \subseteq Callers
  BY DEF Adding
<1>3. Cardinality(Adding') <= Cardinality(Callers) /\ Cardinality(Adding') \in Nat
  BY <1>2, CallersAssumption, FS_Subset, FS_CardinalityType
<1>4. in_flight' = in_flight /\ in_flight < max_in_flight /\ in_flight \in Int
  BY DEF TryReserveLoad, LimiterInv, LimiterTypeOK
<1>5. LimiterTypeOK'
  BY DEF LimiterInv, LimiterTypeOK, TryReserveLoad
<1>6. LimitKept' /\ CounterBounded'
  BY <1>1, <1>4 DEF LimiterInv, LimitKept, CounterBounded
<1>7. OvershootBounded'
  BY <1>3, <1>4, LimiterCounts, LimitAssumption DEF OvershootBounded
<1>8. QED
  BY <1>5, <1>6, <1>7 DEF LimiterInv

\* A caller's fetch_add: one fewer is about to add, and it holds a slot or not.
LEMMA AddStep ==
    ASSUME LimiterInv, NEW c \in Callers, TryReserveAdd(c)
    PROVE  LimiterInv'
<1>1. Adding' = Adding \ {c} /\ c \in Adding
  BY DEF LimiterInv, LimiterTypeOK, TryReserveAdd, Adding
<1>2. Cardinality(Adding') = Cardinality(Adding) - 1 /\ Cardinality(Adding') \in Nat
  BY <1>1, LimiterCounts, FS_RemoveElement, FS_CardinalityType
<1>3. in_flight' = in_flight + 1 /\ in_flight \in Nat
  <2>1. in_flight \in Nat /\ U32 \in Nat /\ in_flight + 1 < U32
    <3>1. Cardinality(Adding) >= 1
      BY <1>2, LimiterCounts
    <3>2. QED
      BY <3>1, LimiterCounts, LimitAssumption, WidthAssumption DEF LimiterInv, LimiterTypeOK, OvershootBounded
  <2>2. QED
    BY <2>1 DEF TryReserveAdd
<1>4. in_flight' <= max_in_flight + Cardinality(Callers) /\ OvershootBounded'
  BY <1>2, <1>3, LimiterCounts, LimitAssumption DEF LimiterInv, OvershootBounded
<1>5. LimiterTypeOK'
  <2>1. in_flight' \in 0 .. U32 - 1
    BY <1>3, <1>4, LimiterCounts, LimitAssumption, WidthAssumption
  <2>2. QED
    BY <2>1 DEF LimiterInv, LimiterTypeOK, TryReserveAdd
<1>6. CASE in_flight < max_in_flight
  <2>1. Reserved' = Reserved \cup {c} /\ c \notin Reserved
    BY <1>6 DEF LimiterInv, LimiterTypeOK, TryReserveAdd, Reserved
  <2>2. Cardinality(Reserved') = Cardinality(Reserved) + 1
    BY <2>1, LimiterCounts, FS_AddElement
  <2>3. LimitKept' /\ CounterBounded'
    BY <1>3, <1>4, <1>6, <2>2, LimiterCounts, LimitAssumption DEF LimiterInv, LimitKept, CounterBounded
  <2>4. QED
    BY <1>4, <1>5, <2>3 DEF LimiterInv
<1>7. CASE ~(in_flight < max_in_flight)
  <2>1. Reserved' = Reserved
    BY <1>7 DEF LimiterInv, LimiterTypeOK, TryReserveAdd, Reserved
  <2>2. LimitKept' /\ CounterBounded'
    BY <1>3, <1>4, <2>1, LimiterCounts DEF LimiterInv, LimitKept, CounterBounded
  <2>3. QED
    BY <1>4, <1>5, <2>2 DEF LimiterInv
<1>8. QED
  BY <1>6, <1>7

\* A holder gives its slot back.
LEMMA ReleaseStep ==
    ASSUME LimiterInv, NEW c \in Callers, Release(c)
    PROVE  LimiterInv'
<1>1. Reserved' = Reserved \ {c} /\ c \in Reserved /\ Adding' = Adding
  BY DEF LimiterInv, LimiterTypeOK, Release, Reserved, Adding
<1>2. Cardinality(Reserved') = Cardinality(Reserved) - 1 /\ Cardinality(Reserved') \in Nat
  BY <1>1, LimiterCounts, FS_RemoveElement, FS_CardinalityType
<1>3. in_flight' = in_flight - 1 /\ in_flight \in Nat /\ in_flight >= 1
  <2>1. in_flight \in Nat /\ U32 \in Nat /\ in_flight < U32 /\ in_flight >= 1
    BY <1>2, LimiterCounts, LimitAssumption DEF LimiterInv, LimiterTypeOK, CounterBounded
  <2>2. QED
    BY <2>1 DEF Release
<1>4. LimiterTypeOK'
  <2>1. in_flight' \in 0 .. U32 - 1
    BY <1>3, LimitAssumption DEF LimiterInv, LimiterTypeOK
  <2>2. QED
    BY <2>1 DEF LimiterInv, LimiterTypeOK, Release
<1>5. LimitKept' /\ CounterBounded' /\ OvershootBounded'
  BY <1>1, <1>2, <1>3, LimiterCounts, LimitAssumption
  DEF LimiterInv, LimitKept, CounterBounded, OvershootBounded
<1>6. QED
  BY <1>4, <1>5 DEF LimiterInv

\* LimiterInv holds in every reachable state of the limiter.
THEOREM LimiterInvariance == LimiterSpec => []LimiterInv
<1>1. LimiterInv /\ [LimiterNext]_limiter_vars => LimiterInv'
  <2> SUFFICES ASSUME LimiterInv, [LimiterNext]_limiter_vars PROVE LimiterInv'
    OBVIOUS
  <2>1. CASE UNCHANGED limiter_vars
    BY <2>1 DEF limiter_vars, LimiterInv, LimiterTypeOK, LimitKept, CounterBounded, OvershootBounded,
                Reserved, Adding
  <2>2. QED
    BY <2>1, LoadStep, AddStep, ReleaseStep DEF LimiterNext, TryReserveRefused
<1>2. QED
  BY LimiterInvInit, <1>1, PTL DEF LimiterSpec

\* The counter stays a u32: no interleaving of release and try_reserve takes it
\* out of range.
THEOREM LimiterTypeCorrect == LimiterSpec => []LimiterTypeOK
<1>1. LimiterInv => LimiterTypeOK
  BY DEF LimiterInv
<1>2. QED
  BY LimiterInvariance, <1>1, PTL

\* No race in try_reserve lets more than max_in_flight callers hold a slot.
THEOREM LimitKeptHolds == LimiterSpec => []LimitKept
<1>1. LimiterInv => LimitKept
  BY DEF LimiterInv
<1>2. QED
  BY LimiterInvariance, <1>1, PTL

\* The counter neither falls below the slots held nor wraps.
THEOREM CounterBoundedHolds == LimiterSpec => []CounterBounded
<1>1. LimiterInv => CounterBounded
  BY DEF LimiterInv
<1>2. QED
  BY LimiterInvariance, <1>1, PTL

-----------------------------------------------------------------------------
(***************************************************************************)
(* TokioReader, TokioWriter and TokioCopy.                                 *)
(***************************************************************************)

\* TypeOK and what it leaves out.
Typed ==
    /\ TypeOK
    /\ scratch \in [alloc : Nat, bytes : Seq(Nat)] /\ chunk \in [slice : Nat, bytes : Seq(Nat)]
    /\ op \in [user_data : Nat, alloc : Nat, len : Nat, offset : Nat]
    /\ w_op \in [user_data : Nat, slice : Nat, bytes : Seq(Nat), offset : Nat]
    /\ results \in [DOMAIN results -> Int] /\ delivered \in Seq(Nat)

\* The task reads with an empty buffer and writes one that is not; a poll that is
\* to submit has an id.
Turns ==
    /\ need > 0 => chunk.bytes = << >>
    /\ writing => chunk.bytes # << >>
    /\ need > 0 /\ ~submitted => next_id <= MaxOps
    /\ writing /\ ~w_submitted => next_id <= MaxOps

\* The ids that the adapters hold are their own, and an operation is in flight or
\* has its result waiting, not both, while its adapter is polled.
Ids ==
    /\ user_data < next_id /\ w_user_data < next_id
    /\ user_data = w_user_data => user_data = 0
    /\ 0 \notin DOMAIN results
    /\ op # None => user_data > 0 /\ submitted /\ need > 0 /\ user_data \notin DOMAIN results
    /\ user_data \in DOMAIN results => submitted /\ need > 0
    /\ w_op # Writer!None => w_user_data > 0 /\ w_submitted /\ writing /\ w_user_data \notin DOMAIN results
    /\ w_user_data \in DOMAIN results => w_submitted /\ writing

\* The scratch buffer is never smaller than the read it is used for.
Fits ==
    /\ op # None => op.len <= Len(scratch.bytes)
    /\ user_data \in DOMAIN results => results[user_data] <= Len(scratch.bytes)

\* A caller that does not switch gets the file, and what it will get next is the
\* file's next bytes.
Reading ==
    ~switched =>
        /\ \A i \in 1 .. Len(delivered) : delivered[i] = i - 1
        /\ offset = Len(delivered) /\ ~overrun
        /\ op # None => op.len = need /\ op.offset = offset /\ op.alloc = scratch.alloc
        /\ user_data \in DOMAIN results =>
              /\ need <= Len(scratch.bytes) /\ results[user_data] <= need
              /\ \A i \in 1 .. results[user_data] : scratch.bytes[i] = offset + i - 1

\* What is accepted is in the file, and what the device has written and the task
\* has not been told is what the task has in its buffer.
Writing ==
    ~switched /\ ~w_switched =>
        /\ accepted \o chunk.bytes = delivered
        /\ file \in Seq(Nat) /\ w_offset = Len(accepted) /\ w_offset <= Len(file)
        /\ \A i \in 1 .. w_offset : file[i] = accepted[i]
        /\ w_op # Writer!None =>
              w_op.offset = w_offset /\ w_op.bytes = chunk.bytes /\ w_op.slice = chunk.slice
        /\ w_user_data \in DOMAIN results =>
              /\ results[w_user_data] <= Len(chunk.bytes)
              /\ results[w_user_data] >= 0 => w_offset + results[w_user_data] <= Len(file)
              /\ \A i \in 1 .. results[w_user_data] : file[w_offset + i] = chunk.bytes[i]

CopyInv == Typed /\ Turns /\ Ids /\ Fits /\ Reading /\ Writing

-----------------------------------------------------------------------------
(***************************************************************************)
(* The scratch buffer and the map of results.                              *)
(***************************************************************************)

\* s is the scratch buffer, grown to n bytes if it was smaller.
Grown(s, n) ==
    /\ s \in [alloc : Nat, bytes : Seq(Nat)]
    /\ n <= Len(s.bytes) /\ Len(scratch.bytes) <= Len(s.bytes)
    /\ n <= Len(scratch.bytes) => s = scratch

\* Vec::resize grows it.
LEMMA ResizedGrows ==
    ASSUME Typed, NEW n \in Nat, NEW s \in Resized(n)
    PROVE  Grown(s, n)
<1>1. scratch \in [alloc : Nat, bytes : Seq(Nat)]
    BY DEF Typed
<1> DEFINE b == scratch.bytes
           a == scratch.alloc
<1>2. b \in Seq(Nat) /\ a \in Nat /\ Len(b) \in Nat
    BY <1>1, LenProperties
<1>3. CASE n <= Len(b)
    <2>1. s = scratch
        BY <1>2, <1>3 DEF Resized
    <2> QED
        BY <2>1, <1>1, <1>2, <1>3 DEF Grown
<1>4. CASE ~(n <= Len(b))
    <2> DEFINE m == n - Len(b)
               z == [i \in 1 .. m |-> 0]
    <2>1. m \in Nat /\ Len(b) + m = n
        BY <1>2, <1>4
    <2>2. s \in {[alloc |-> x, bytes |-> b \o z] : x \in {a, a + 1}}
        BY <1>2, <1>4 DEF Resized
    <2> HIDE DEF m
    <2>3. z \in [1 .. m -> Nat]
        OBVIOUS
    <2> HIDE DEF z
    <2>4. z \in Seq(Nat) /\ Len(z) = m
        BY <2>1, <2>3, IsASeq, LenProperties
    <2>5. b \o z \in Seq(Nat) /\ Len(b \o z) = n
        BY <2>1, <2>4, <1>2, ConcatProperties
    <2> DEFINE c == b \o z
    <2>6. s.alloc \in Nat /\ s.bytes = c /\ s \in [alloc : Nat, bytes : Seq(Nat)]
        <3> HIDE DEF c, b, a
        <3>1. a + 1 \in Nat
            BY <1>2
        <3>2. c \in Seq(Nat) /\ s \in {[alloc |-> x, bytes |-> c] : x \in {a, a + 1}}
            BY <2>2, <2>5 DEF c
        <3> QED
            BY <3>1, <3>2, <1>2
    <2> QED
        BY <2>5, <2>6, <1>2, <1>4 DEF Grown
<1> QED
    BY <1>3, <1>4

\* The completion of k is put into the map.
Puts(k, r) ==
    results' = [u \in DOMAIN results \cup {k} |-> IF u = k THEN r ELSE results[u]]

\* It is there then, and the others are as they were.
LEMMA PutsIs ==
    ASSUME Typed, NEW k, NEW r \in Int, Puts(k, r)
    PROVE  /\ DOMAIN results' = DOMAIN results \cup {k} /\ results' \in [DOMAIN results' -> Int]
           /\ results'[k] = r /\ \A u \in DOMAIN results : u # k => results'[u] = results[u]
BY DEF Puts, Typed

\* take_result of k removes it.
Takes(k) == results' = [u \in DOMAIN results \ {k} |-> results[u]]

\* The others are as they were.
LEMMA TakesIs ==
    ASSUME Typed, NEW k, Takes(k)
    PROVE  /\ DOMAIN results' = DOMAIN results \ {k} /\ results' \in [DOMAIN results' -> Int]
           /\ \A u \in DOMAIN results' : results'[u] = results[u]
BY DEF Takes, Typed

-----------------------------------------------------------------------------
(***************************************************************************)
(* Steps of the reader.                                                    *)
(***************************************************************************)

\* One adapter is polled at a time, and the other has nothing in flight.
LEMMA Exclusive ==
    ASSUME CopyInv
    PROVE  /\ need > 0 => ~writing /\ w_op = Writer!None /\ w_user_data \notin DOMAIN results
           /\ writing => ~(need > 0) /\ op = None /\ user_data \notin DOMAIN results
BY DEF CopyInv, Turns, Ids

\* The caller of the reader comes, or comes with another buffer.
LEMMA ReadCallKeeps ==
    ASSUME CopyInv, ReadCall, UNCHANGED writer_vars
    PROVE  CopyInv'
<1>1. PICK n \in Needs \ {0} : (need = 0 => chunk.bytes = << >>) /\ Call(n)
    BY DEF ReadCall
<1>2. /\ n \in Nat /\ n > 0 /\ next_id <= MaxOps /\ need' = n /\ switched' = (switched \/ need # 0)
      /\ UNCHANGED <<submitted, user_data, offset, scratch, next_id, op, results, delivered, overrun>>
      /\ UNCHANGED <<w_submitted, w_user_data, w_offset, w_op, chunk, writing, w_switched, accepted, file>>
      /\ need \in Nat
    <2>1. n \in Nat /\ n > 0
        BY NeedsAssumption
    <2>2. need \in Nat
        BY DEF CopyInv, Typed, TypeOK
    <2> QED
        BY <2>1, <2>2, <1>1 DEF Call, reader, writer_vars
<1>3. Typed'
    BY <1>2 DEF CopyInv, Typed, TypeOK
<1>4. Turns'
    <2>1. chunk.bytes = << >>
        BY <1>1, <1>2 DEF CopyInv, Turns
    <2>2. ~writing
        BY <2>1 DEF CopyInv, Turns
    <2> QED
        BY <2>1, <2>2, <1>2 DEF Turns
<1>5. Ids'
    BY <1>2 DEF CopyInv, Ids
<1>6. Fits'
    BY <1>2 DEF CopyInv, Fits
<1>7. Reading'
    <2> SUFFICES ASSUME ~switched' PROVE Reading'
        BY DEF Reading
    <2>1. ~switched /\ need = 0
        BY <1>2
    <2>2. op = None /\ user_data \notin DOMAIN results
        BY <2>1 DEF CopyInv, Ids
    <2> QED
        BY <2>1, <2>2, <1>2 DEF CopyInv, Reading
<1>8. Writing'
    <2> SUFFICES ASSUME ~switched' PROVE Writing'
        BY DEF Writing
    <2>1. ~switched
        BY <1>2
    <2> QED
        BY <2>1, <1>2 DEF CopyInv, Writing
<1> QED
    BY <1>3, <1>4, <1>5, <1>6, <1>7, <1>8 DEF CopyInv

\* Frame of the polls that deliver nothing: the writer, and what was delivered.
Undelivered ==
    /\ UNCHANGED <<w_submitted, w_user_data, w_offset, w_op, chunk, writing, w_switched, accepted, file>>
    /\ UNCHANGED <<offset, switched, delivered, overrun>>
    /\ need > 0 /\ need' \in {0, need}

\* They keep what the writer has.
LEMMA UndeliveredWriting ==
    ASSUME CopyInv, Undelivered, w_user_data \notin DOMAIN results'
    PROVE  Writing'
BY DEF CopyInv, Writing, Undelivered

\* A read is submitted.
LEMMA ReadSubmitKeeps ==
    ASSUME CopyInv, PollSubmit, UNCHANGED writer_vars
    PROVE  CopyInv'
<1>1. /\ need > 0 /\ ~submitted /\ scratch' \in Resized(need) /\ submitted' = TRUE
      /\ user_data' = next_id /\ next_id' = next_id + 1
      /\ op' = [user_data |-> next_id, alloc |-> scratch'.alloc, len |-> need, offset |-> offset]
      /\ UNCHANGED <<results, need>> /\ Undelivered
    BY DEF PollSubmit, writer_vars, Undelivered
<1>2. /\ need \in Nat /\ offset \in Nat /\ next_id \in 1 .. MaxOps /\ MaxOps \in Nat /\ Typed /\ TypeOK
    <2>1. need \in Nat /\ offset \in Nat /\ next_id \in 1 .. MaxOps + 1 /\ Typed /\ TypeOK
        BY DEF CopyInv, Typed, TypeOK
    <2>2. next_id <= MaxOps
        BY <1>1 DEF CopyInv, Turns
    <2>3. MaxOps \in Nat
        BY NeedsAssumption
    <2>4. next_id \in 1 .. MaxOps
        BY <2>1, <2>2, <2>3
    <2> QED
        BY <2>1, <2>3, <2>4
<1>3. Grown(scratch', need)
    BY <1>1, <1>2, ResizedGrows
<1>4. scratch' \in [alloc : Nat, bytes : Seq(Nat)] /\ scratch'.alloc \in Nat /\ scratch'.bytes \in Seq(Nat)
      /\ need <= Len(scratch'.bytes)
    BY <1>3 DEF Grown
<1>5. /\ op' \in [user_data : Nat, alloc : Nat, len : Nat, offset : Nat]
      /\ op'.user_data = next_id /\ op'.alloc = scratch'.alloc /\ op'.len = need /\ op'.offset = offset
    BY <1>1, <1>2, <1>4
<1>6. ~writing /\ w_op = Writer!None /\ w_user_data \notin DOMAIN results /\ user_data \notin DOMAIN results
    BY <1>1, Exclusive DEF CopyInv, Ids
<1>7. DOMAIN results = {} /\ w_user_data < next_id /\ w_user_data \in Nat
    <2>1. DOMAIN results \subseteq {user_data, w_user_data} /\ w_user_data \in 0 .. MaxOps
        BY <1>2 DEF TypeOK
    <2>2. w_user_data \in Nat /\ w_user_data < next_id
        BY <2>1, <1>2 DEF CopyInv, Ids
    <2> QED
        BY <2>1, <2>2, <1>6
<1>8. next_id \in Nat /\ next_id > 0 /\ next_id \in 0 .. MaxOps /\ next_id + 1 \in 1 .. MaxOps + 1
    BY <1>2
<1>9. Typed'
    <2>1. TypeOK'
        BY <1>1, <1>2, <1>4, <1>5, <1>7, <1>8 DEF TypeOK, Undelivered
    <2> QED
        BY <2>1, <1>1, <1>2, <1>4, <1>5 DEF Typed, Undelivered
<1>10. Turns'
    BY <1>1, <1>6 DEF CopyInv, Turns, Undelivered
<1>11. Ids'
    BY <1>1, <1>6, <1>7, <1>8 DEF Ids, Undelivered
<1>12. Fits'
    BY <1>1, <1>4, <1>5, <1>7 DEF Fits
<1>13. Reading'
    BY <1>1, <1>5, <1>7 DEF CopyInv, Reading, Undelivered
<1>14. Writing'
    BY <1>1, <1>7, UndeliveredWriting
<1> QED
    BY <1>9, <1>10, <1>11, <1>12, <1>13, <1>14 DEF CopyInv

\* A read is refused.
LEMMA ReadRefusedKeeps ==
    ASSUME CopyInv, PollRefused, UNCHANGED writer_vars
    PROVE  CopyInv'
<1>1. /\ need > 0 /\ ~submitted /\ scratch' \in Resized(need) /\ submitted' = submitted
      /\ user_data' = next_id /\ next_id' = next_id + 1 /\ need' = 0
      /\ UNCHANGED <<results, op>> /\ Undelivered
    BY DEF PollRefused, Answered, writer_vars, Undelivered
<1>2. /\ need \in Nat /\ next_id \in 1 .. MaxOps /\ MaxOps \in Nat /\ Typed /\ TypeOK
    <2>1. need \in Nat /\ next_id \in 1 .. MaxOps + 1 /\ Typed /\ TypeOK
        BY DEF CopyInv, Typed, TypeOK
    <2>2. next_id <= MaxOps
        BY <1>1 DEF CopyInv, Turns
    <2>3. MaxOps \in Nat
        BY NeedsAssumption
    <2>4. next_id \in 1 .. MaxOps
        BY <2>1, <2>2, <2>3
    <2> QED
        BY <2>1, <2>3, <2>4
<1>3. Grown(scratch', need)
    BY <1>1, <1>2, ResizedGrows
<1>4. scratch' \in [alloc : Nat, bytes : Seq(Nat)] /\ scratch'.alloc \in Nat /\ scratch'.bytes \in Seq(Nat)
    BY <1>3 DEF Grown
<1>5. ~writing /\ w_op = Writer!None /\ w_user_data \notin DOMAIN results /\ user_data \notin DOMAIN results
      /\ op = None
    BY <1>1, Exclusive DEF CopyInv, Ids
<1>6. DOMAIN results = {} /\ w_user_data < next_id /\ w_user_data \in Nat
    <2>1. DOMAIN results \subseteq {user_data, w_user_data} /\ w_user_data \in 0 .. MaxOps
        BY <1>2 DEF TypeOK
    <2>2. w_user_data \in Nat /\ w_user_data < next_id
        BY <2>1, <1>2 DEF CopyInv, Ids
    <2> QED
        BY <2>1, <2>2, <1>5
<1>7. next_id \in Nat /\ next_id > 0 /\ next_id \in 0 .. MaxOps /\ next_id + 1 \in 1 .. MaxOps + 1
    BY <1>2
<1>8. Typed'
    <2>1. TypeOK'
        BY <1>1, <1>2, <1>4, <1>5, <1>6, <1>7 DEF TypeOK, Undelivered
    <2> QED
        BY <2>1, <1>1, <1>2, <1>4 DEF Typed, Undelivered
<1>9. Turns'
    BY <1>1, <1>5 DEF CopyInv, Turns, Undelivered
<1>10. Ids'
    BY <1>1, <1>5, <1>6, <1>7 DEF Ids, Undelivered
<1>11. Fits'
    BY <1>1, <1>5, <1>6 DEF Fits
<1>12. Reading'
    BY <1>1, <1>5, <1>6 DEF CopyInv, Reading, Undelivered
<1>13. Writing'
    BY <1>1, <1>6, UndeliveredWriting
<1> QED
    BY <1>8, <1>9, <1>10, <1>11, <1>12, <1>13 DEF CopyInv

\* A poll finds no completion.
LEMMA ReadPendingKeeps ==
    ASSUME CopyInv, PollPending, UNCHANGED writer_vars
    PROVE  CopyInv'
<1>1. /\ need > 0 /\ submitted /\ user_data \notin DOMAIN results /\ scratch' \in Resized(need)
      /\ UNCHANGED <<submitted, user_data, next_id, op, results, need>> /\ Undelivered
    BY DEF PollPending, writer_vars, Undelivered
<1>2. need \in Nat /\ Typed /\ TypeOK
    BY DEF CopyInv, Typed, TypeOK
<1>3. Grown(scratch', need)
    BY <1>1, <1>2, ResizedGrows
<1>4. /\ scratch' \in [alloc : Nat, bytes : Seq(Nat)] /\ scratch'.alloc \in Nat /\ scratch'.bytes \in Seq(Nat)
      /\ Len(scratch.bytes) <= Len(scratch'.bytes) /\ (need <= Len(scratch.bytes) => scratch' = scratch)
      /\ Len(scratch.bytes) \in Nat /\ Len(scratch'.bytes) \in Nat
    BY <1>2, <1>3, LenProperties DEF Grown, Typed
<1>5. Typed'
    <2>1. TypeOK'
        BY <1>1, <1>2, <1>4 DEF TypeOK, Undelivered
    <2> QED
        BY <2>1, <1>1, <1>2, <1>4 DEF Typed, Undelivered
<1>6. Turns'
    BY <1>1 DEF CopyInv, Turns, Undelivered
<1>7. Ids'
    BY <1>1 DEF CopyInv, Ids, Undelivered
<1>8. Fits'
    <2>1. op # None => op.len \in Nat /\ op.len <= Len(scratch.bytes)
        BY <1>2 DEF Typed, CopyInv, Fits
    <2>2. op # None => op.len <= Len(scratch'.bytes)
        BY <2>1, <1>4
    <2> QED
        BY <2>2, <1>1 DEF Fits
<1>9. Reading'
    <2> SUFFICES ASSUME ~switched PROVE Reading'
        BY <1>1 DEF Reading, Undelivered
    <2>1. op # None => op.len = need /\ need <= Len(scratch.bytes)
        BY DEF CopyInv, Reading, Fits
    <2>2. op # None => scratch' = scratch
        BY <2>1, <1>4
    <2> QED
        BY <2>2, <1>1 DEF CopyInv, Reading, Undelivered
<1>10. Writing'
    <2>1. w_user_data \notin DOMAIN results
        BY <1>1, Exclusive
    <2> QED
        BY <2>1, <1>1, UndeliveredWriting
<1> QED
    BY <1>5, <1>6, <1>7, <1>8, <1>9, <1>10 DEF CopyInv

\* A poll finds an error.
LEMMA ReadErrKeeps ==
    ASSUME CopyInv, PollErr, UNCHANGED writer_vars
    PROVE  CopyInv'
<1>1. /\ need > 0 /\ submitted /\ user_data \in DOMAIN results /\ scratch' \in Resized(need)
      /\ Takes(user_data) /\ need' = 0
      /\ UNCHANGED <<submitted, user_data, next_id, op>> /\ Undelivered
    BY DEF PollErr, Taken, Takes, Answered, writer_vars, Undelivered
<1>2. need \in Nat /\ Typed /\ TypeOK
    BY DEF CopyInv, Typed, TypeOK
<1>3. Grown(scratch', need)
    BY <1>1, <1>2, ResizedGrows
<1>4. scratch' \in [alloc : Nat, bytes : Seq(Nat)] /\ scratch'.alloc \in Nat /\ scratch'.bytes \in Seq(Nat)
    BY <1>3 DEF Grown
<1>5. /\ DOMAIN results' = DOMAIN results \ {user_data} /\ results' \in [DOMAIN results' -> Int]
    BY <1>1, <1>2, TakesIs
<1>6. ~writing /\ w_op = Writer!None /\ w_user_data \notin DOMAIN results /\ op = None
    BY <1>1, Exclusive DEF CopyInv, Ids
<1>7. DOMAIN results' = {}
    BY <1>2, <1>5, <1>6 DEF TypeOK
<1>8. Typed'
    <2>1. TypeOK'
        BY <1>1, <1>2, <1>4, <1>6, <1>7 DEF TypeOK, Undelivered
    <2> QED
        BY <2>1, <1>1, <1>2, <1>4, <1>5 DEF Typed, Undelivered
<1>9. Turns'
    BY <1>1, <1>6 DEF CopyInv, Turns, Undelivered
<1>10. Ids'
    BY <1>1, <1>6, <1>7 DEF CopyInv, Ids, Undelivered
<1>11. Fits'
    BY <1>1, <1>6, <1>7 DEF Fits
<1>12. Reading'
    BY <1>1, <1>6, <1>7 DEF CopyInv, Reading, Undelivered
<1>13. Writing'
    BY <1>1, <1>7, UndeliveredWriting
<1> QED
    BY <1>8, <1>9, <1>10, <1>11, <1>12, <1>13 DEF CopyInv

-----------------------------------------------------------------------------
(***************************************************************************)
(* Bytes.                                                                  *)
(***************************************************************************)

\* The first n bytes.
LEMMA PrefixIs ==
    ASSUME NEW s \in Seq(Nat), NEW n \in Nat, n <= Len(s)
    PROVE  /\ SubSeq(s, 1, n) \in Seq(Nat) /\ Len(SubSeq(s, 1, n)) = n
           /\ \A i \in 1 .. n : SubSeq(s, 1, n)[i] = s[i]
<1>1. Len(s) \in Nat
    BY LenProperties
<1>2. \A i \in 1 .. n : s[i] \in Nat
    <2> SUFFICES ASSUME NEW i \in 1 .. n PROVE s[i] \in Nat
        OBVIOUS
    <2>1. i \in 1 .. Len(s)
        BY <1>1
    <2> QED
        BY <2>1, ElementOfSeq
<1> DEFINE p == SubSeq(s, 1, n)
<1>3. /\ p \in Seq(Nat) /\ Len(p) = (IF 1 <= n THEN n - 1 + 1 ELSE 0)
      /\ \A i \in 1 .. n - 1 + 1 : p[i] = s[1 + i - 1]
    BY <1>2, SubSeqProperties
<1> HIDE DEF p
<1>4. Len(p) = n /\ \A i \in 1 .. n : p[i] = s[i]
    BY <1>3
<1> QED
    BY <1>3, <1>4 DEF p

\* The bytes after them.
LEMMA SuffixIs ==
    ASSUME NEW s \in Seq(Nat), NEW n \in Nat, n <= Len(s)
    PROVE  /\ SubSeq(s, n + 1, Len(s)) \in Seq(Nat) /\ Len(SubSeq(s, n + 1, Len(s))) = Len(s) - n
           /\ \A i \in 1 .. Len(s) - n : SubSeq(s, n + 1, Len(s))[i] = s[n + i]
<1>1. PICK l \in Nat : l = Len(s)
    BY LenProperties
<1>2. \A i \in n + 1 .. l : s[i] \in Nat
    <2> SUFFICES ASSUME NEW i \in n + 1 .. l PROVE s[i] \in Nat
        OBVIOUS
    <2>1. i \in 1 .. Len(s)
        BY <1>1
    <2> QED
        BY <2>1, ElementOfSeq
<1> DEFINE m == n + 1
           p == SubSeq(s, m, l)
<1>3. m \in Int /\ m = n + 1
    OBVIOUS
<1> HIDE DEF m
<1>4. \A i \in m .. l : s[i] \in Nat
    BY <1>2, <1>3
<1>5. /\ p \in Seq(Nat) /\ Len(p) = (IF m <= l THEN l - m + 1 ELSE 0)
      /\ \A i \in 1 .. l - m + 1 : p[i] = s[m + i - 1]
    BY <1>3, <1>4, SubSeqProperties
<1> HIDE DEF p
<1>6. Len(p) = l - n
    BY <1>1, <1>3, <1>5
<1>7. \A i \in 1 .. l - n : p[i] = s[n + i]
    <2> SUFFICES ASSUME NEW i \in 1 .. l - n PROVE p[i] = s[n + i]
        OBVIOUS
    <2>1. i \in 1 .. l - m + 1 /\ m + i - 1 = n + i
        BY <1>3
    <2> QED
        BY <2>1, <1>5
<1> QED
    BY <1>1, <1>5, <1>6, <1>7 DEF m, p

\* Together they are all of them.
LEMMA SplitJoin ==
    ASSUME NEW s \in Seq(Nat), NEW n \in Nat, n <= Len(s)
    PROVE  SubSeq(s, 1, n) \o SubSeq(s, n + 1, Len(s)) = s
<1> DEFINE a == SubSeq(s, 1, n)
           b == SubSeq(s, n + 1, Len(s))
           c == a \o b
<1>1. a \in Seq(Nat) /\ Len(a) = n /\ \A i \in 1 .. n : a[i] = s[i]
    BY PrefixIs
<1>2. b \in Seq(Nat) /\ Len(b) = Len(s) - n /\ \A i \in 1 .. Len(s) - n : b[i] = s[n + i]
    BY SuffixIs
<1> HIDE DEF a, b
<1>3. /\ c \in Seq(Nat) /\ Len(c) = Len(a) + Len(b)
      /\ \A i \in 1 .. Len(a) + Len(b) : c[i] = IF i <= Len(a) THEN a[i] ELSE b[i - Len(a)]
    BY <1>1, <1>2, ConcatProperties
<1> HIDE DEF c
<1>4. PICK l \in Nat : l = Len(s)
    BY LenProperties
<1>5. Len(c) = l /\ n <= l /\ Len(a) = n /\ Len(b) = l - n /\ Len(a) + Len(b) = l
    BY <1>1, <1>2, <1>3, <1>4
<1>6. ASSUME NEW i \in 1 .. l PROVE c[i] = s[i]
    <2>1. CASE i <= n
        <3>1. i \in 1 .. n
            BY <2>1
        <3> QED
            BY <3>1, <2>1, <1>1, <1>3, <1>5
    <2>2. CASE ~(i <= n)
        <3>1. i - n \in 1 .. l - n /\ n + (i - n) = i
            BY <2>2, <1>5
        <3>2. c[i] = b[i - n]
            BY <2>2, <1>3, <1>5
        <3> QED
            BY <3>1, <3>2, <1>2, <1>4
    <2> QED
        BY <2>1, <2>2
<1>7. c = s
    BY <1>3, <1>4, <1>5, <1>6, SeqEqual
<1> QED
    BY <1>7 DEF c, a, b

\* One string of bytes behind another.
LEMMA JoinIs ==
    ASSUME NEW s \in Seq(Nat), NEW t \in Seq(Nat), NEW g, g = s \o t
    PROVE  /\ g \in Seq(Nat) /\ Len(g) = Len(s) + Len(t)
           /\ \A i \in 1 .. Len(s) + Len(t) : g[i] = IF i <= Len(s) THEN s[i] ELSE t[i - Len(s)]
BY ConcatProperties

\* Three of them, joined from either end.
LEMMA JoinThree ==
    ASSUME NEW s \in Seq(Nat), NEW t \in Seq(Nat), NEW u \in Seq(Nat)
    PROVE  (s \o t) \o u = s \o (t \o u)
BY ConcatAssociative

\* What was put behind s.
LEMMA BehindIs ==
    ASSUME NEW s \in Seq(Nat), NEW t \in Seq(Nat)
    PROVE  SubSeq(s \o t, Len(s) + 1, Len(s \o t)) = t
<1> DEFINE c == s \o t
           d == SubSeq(c, Len(s) + 1, Len(c))
<1>1. PICK l \in Nat, m \in Nat : l = Len(s) /\ m = Len(t)
    BY LenProperties
<1>2. /\ c \in Seq(Nat) /\ Len(c) = l + m
      /\ \A i \in 1 .. l + m : c[i] = IF i <= l THEN s[i] ELSE t[i - l]
    BY <1>1, ConcatProperties
<1> HIDE DEF c
<1>3. l <= Len(c) /\ Len(c) - l = m
    BY <1>2
<1>4. d \in Seq(Nat) /\ Len(d) = m /\ \A i \in 1 .. m : d[i] = c[l + i]
    <2>1. /\ SubSeq(c, l + 1, Len(c)) \in Seq(Nat) /\ Len(SubSeq(c, l + 1, Len(c))) = Len(c) - l
          /\ \A i \in 1 .. Len(c) - l : SubSeq(c, l + 1, Len(c))[i] = c[l + i]
        BY <1>2, <1>3, SuffixIs
    <2> QED
        BY <2>1, <1>1, <1>3
<1> HIDE DEF d
<1>5. ASSUME NEW i \in 1 .. m PROVE d[i] = t[i]
    <2> DEFINE j == l + i
    <2>1. j \in 1 .. l + m /\ ~(j <= l) /\ j - l = i
        OBVIOUS
    <2>2. d[i] = c[j]
        BY <1>4
    <2> HIDE DEF j
    <2>3. c[j] = t[j - l]
        BY <2>1, <1>2
    <2> QED
        BY <2>1, <2>2, <2>3
<1>6. d = t
    BY <1>1, <1>4, <1>5, SeqEqual
<1> QED
    BY <1>6 DEF c, d

-----------------------------------------------------------------------------
(***************************************************************************)
(* The reader's completions.                                               *)
(***************************************************************************)

\* A poll finds the bytes.
LEMMA ReadOkKeeps ==
    ASSUME CopyInv, ReadOk
    PROVE  CopyInv'
<1> DEFINE r == results[user_data]
           X == SubSeq(scratch'.bytes, 1, r)
<1>1. /\ need > 0 /\ submitted /\ user_data \in DOMAIN results /\ r >= 0 /\ scratch' \in Resized(need)
      /\ Takes(user_data) /\ need' = 0 /\ submitted' = FALSE
      /\ delivered' = delivered \o X /\ offset' = offset + r /\ overrun' = (overrun \/ r > need)
      /\ chunk' = [chunk EXCEPT !.bytes = SubSeq(delivered', Len(delivered) + 1, Len(delivered'))]
      /\ UNCHANGED <<user_data, next_id, op, switched>>
      /\ UNCHANGED <<w_submitted, w_user_data, w_offset, w_op, writing, w_switched, accepted, file>>
    BY DEF ReadOk, PollOk, Taken, Takes, Answered
<1>2. need \in Nat /\ Typed /\ TypeOK /\ r \in Nat /\ offset \in Nat /\ delivered \in Seq(Nat)
    <2>1. need \in Nat /\ Typed /\ TypeOK /\ r \in Int /\ offset \in Nat /\ delivered \in Seq(Nat)
        BY <1>1 DEF CopyInv, Typed, TypeOK
    <2> HIDE DEF r
    <2> QED
        BY <2>1, <1>1
<1>3. Grown(scratch', need)
    BY <1>1, <1>2, ResizedGrows
<1>4. /\ scratch' \in [alloc : Nat, bytes : Seq(Nat)] /\ scratch'.alloc \in Nat /\ scratch'.bytes \in Seq(Nat)
      /\ Len(scratch.bytes) <= Len(scratch'.bytes) /\ (need <= Len(scratch.bytes) => scratch' = scratch)
      /\ Len(scratch.bytes) \in Nat /\ Len(scratch'.bytes) \in Nat
    BY <1>2, <1>3, LenProperties DEF Grown, Typed
<1>5. r <= Len(scratch'.bytes)
    <2>1. r <= Len(scratch.bytes)
        BY <1>1 DEF CopyInv, Fits
    <2> HIDE DEF r
    <2> QED
        BY <2>1, <1>2, <1>4
<1>6. X \in Seq(Nat) /\ Len(X) = r /\ \A i \in 1 .. r : X[i] = scratch'.bytes[i]
    <2> HIDE DEF r
    <2> QED
        BY <1>2, <1>4, <1>5, PrefixIs
<1>7. /\ DOMAIN results' = DOMAIN results \ {user_data} /\ results' \in [DOMAIN results' -> Int]
    BY <1>1, <1>2, TakesIs
<1>8. ~writing /\ w_op = Writer!None /\ w_user_data \notin DOMAIN results /\ op = None
      /\ chunk.bytes = << >>
    BY <1>1, Exclusive DEF CopyInv, Ids, Turns
<1>9. DOMAIN results' = {}
    BY <1>2, <1>7, <1>8 DEF TypeOK
<1> HIDE DEF X, r
<1>10. PICK l \in Nat : l = Len(delivered)
    BY <1>2, LenProperties
<1>11. /\ delivered' \in Seq(Nat) /\ Len(delivered') = l + r
       /\ \A i \in 1 .. l + r : delivered'[i] = IF i <= l THEN delivered[i] ELSE X[i - l]
       /\ SubSeq(delivered', Len(delivered) + 1, Len(delivered')) = X
    BY <1>1, <1>2, <1>6, <1>10, ConcatProperties, BehindIs
<1>12. chunk' \in [slice : Nat, bytes : Seq(Nat)] /\ chunk'.slice = chunk.slice /\ chunk'.bytes = X
    <2>1. chunk \in [slice : Nat, bytes : Seq(Nat)] /\ chunk' = [chunk EXCEPT !.bytes = X]
        BY <1>1, <1>2, <1>11 DEF Typed
    <2> QED
        BY <2>1, <1>6
<1>13. Typed'
    <2>1. offset' \in Nat /\ overrun' \in BOOLEAN
        BY <1>1, <1>2
    <2>2. chunk'.slice \in Nat /\ chunk'.bytes \in Seq(Nat)
        BY <1>12
    <2>3. TypeOK'
        BY <2>1, <2>2, <1>1, <1>2, <1>4, <1>8, <1>9 DEF TypeOK
    <2> QED
        BY <2>3, <1>1, <1>2, <1>4, <1>7, <1>11, <1>12 DEF Typed
<1>14. Turns'
    BY <1>1, <1>8 DEF Turns
<1>15. Ids'
    BY <1>1, <1>8, <1>9 DEF CopyInv, Ids
<1>16. Fits'
    BY <1>1, <1>8, <1>9 DEF Fits
<1>17. ASSUME ~switched PROVE Reading'
    <2>1. /\ need <= Len(scratch.bytes) /\ r <= need
          /\ \A i \in 1 .. r : scratch.bytes[i] = offset + i - 1
          /\ \A i \in 1 .. l : delivered[i] = i - 1
          /\ offset = l /\ ~overrun
        BY <1>1, <1>10, <1>17 DEF CopyInv, Reading, r
    <2>2. scratch' = scratch
        BY <2>1, <1>4
    <2>3. ASSUME NEW i \in 1 .. l + r PROVE delivered'[i] = i - 1
        <3>1. CASE i <= l
            <4>1. i \in 1 .. l
                BY <3>1
            <4> QED
                BY <4>1, <3>1, <2>1, <1>11
        <3>2. CASE ~(i <= l)
            <4> DEFINE j == i - l
            <4>1. j \in 1 .. r /\ l + j - 1 = i - 1
                BY <3>2, <1>2
            <4>2. delivered'[i] = X[j]
                BY <3>2, <1>11
            <4> HIDE DEF j
            <4>3. X[j] = offset + j - 1
                BY <4>1, <2>1, <2>2, <1>6
            <4> QED
                BY <4>1, <4>2, <4>3, <2>1
        <3> QED
            BY <3>1, <3>2
    <2>4. offset' = l + r
        BY <2>1, <1>1
    <2>5. ~overrun'
        <3>1. r <= need /\ r \in Nat /\ need \in Nat
            BY <2>1, <1>2
        <3>2. ~(r > need)
            BY <3>1
        <3>3. ~overrun /\ overrun' = (overrun \/ r > need)
            BY <2>1, <1>1
        <3> QED
            BY <3>2, <3>3
    <2> QED
        BY <2>3, <2>4, <2>5, <1>1, <1>8, <1>9, <1>11 DEF Reading
<1>18. ASSUME ~switched, ~w_switched PROVE Writing'
    <2>1. accepted \o << >> = delivered /\ accepted \in Seq(Nat)
        BY <1>2, <1>8, <1>18 DEF CopyInv, Writing, TypeOK
    <2>2. accepted = delivered
        BY <2>1, ConcatEmptySeq
    <2>3. accepted' \o chunk'.bytes = delivered'
        BY <2>2, <1>1, <1>12
    <2> QED
        BY <2>3, <1>1, <1>8, <1>9, <1>18 DEF CopyInv, Writing
<1>19. Reading' /\ Writing'
    BY <1>1, <1>17, <1>18 DEF Reading, Writing
<1> QED
    BY <1>13, <1>14, <1>15, <1>16, <1>19 DEF CopyInv

\* What a completion of a read leaves alone.
ReadCompletes ==
    /\ op # None /\ op' = None
    /\ UNCHANGED <<submitted, user_data, offset, next_id, need, switched, delivered, overrun>>
    /\ UNCHANGED writer_vars

\* The device completes a read.
LEMMA ReadCompletesKeeps ==
    ASSUME CopyInv, ReadCompletes, NEW n \in Int, Puts(op.user_data, n), n <= op.len,
           scratch' \in [alloc : Nat, bytes : Seq(Nat)], Len(scratch'.bytes) = Len(scratch.bytes),
           op.alloc = scratch.alloc => \A i \in 1 .. n : scratch'.bytes[i] = op.offset + i - 1
    PROVE  CopyInv'
<1>1. /\ op # None /\ op' = None
      /\ UNCHANGED <<submitted, user_data, offset, next_id, need, switched, delivered, overrun>>
      /\ UNCHANGED <<w_submitted, w_user_data, w_offset, w_op, chunk, writing, w_switched, accepted, file>>
    BY DEF ReadCompletes, writer_vars
<1>2. /\ Typed /\ TypeOK /\ op.user_data = user_data /\ op.len \in Nat /\ op.offset \in Nat /\ need \in Nat
    BY <1>1 DEF CopyInv, Typed, TypeOK
<1>3. /\ submitted /\ need > 0 /\ user_data \notin DOMAIN results /\ user_data > 0
      /\ op.len <= Len(scratch.bytes)
    BY <1>1 DEF CopyInv, Ids, Fits
<1>4. ~writing /\ w_op = Writer!None /\ w_user_data \notin DOMAIN results
    BY <1>3, Exclusive
<1>5. DOMAIN results = {}
    BY <1>2, <1>3, <1>4 DEF TypeOK
<1>6. DOMAIN results' = {user_data} /\ results' \in [DOMAIN results' -> Int] /\ results'[user_data] = n
    BY <1>2, <1>5, PutsIs
<1>7. user_data # w_user_data
    <2>1. user_data # 0
        BY <1>2, <1>3
    <2> QED
        BY <2>1 DEF CopyInv, Ids
<1>8. Typed'
    <2>1. scratch'.bytes \in Seq(Nat) /\ scratch'.alloc \in Nat
        OBVIOUS
    <2>2. TypeOK'
        BY <2>1, <1>1, <1>2, <1>4, <1>6 DEF TypeOK
    <2>3. None \in [user_data : Nat, alloc : Nat, len : Nat, offset : Nat]
        BY DEF None
    <2> QED
        BY <2>2, <2>3, <1>1, <1>2, <1>6 DEF Typed
<1>9. Turns'
    BY <1>1 DEF CopyInv, Turns
<1>10. Ids'
    <2>1. 0 \notin DOMAIN results'
        BY <1>2, <1>3, <1>6
    <2> QED
        BY <2>1, <1>1, <1>3, <1>4, <1>6, <1>7 DEF CopyInv, Ids
<1>11. Fits'
    <2>1. Len(scratch.bytes) \in Nat
        BY <1>2, LenProperties DEF Typed
    <2>2. n <= Len(scratch'.bytes)
        BY <2>1, <1>2, <1>3
    <2> QED
        BY <2>2, <1>1, <1>6 DEF Fits
<1>12. ASSUME ~switched PROVE Reading'
    <2>1. /\ op.len = need /\ op.offset = offset /\ op.alloc = scratch.alloc
        BY <1>1, <1>12 DEF CopyInv, Reading
    <2>2. n <= need /\ need <= Len(scratch'.bytes) /\ \A i \in 1 .. n : scratch'.bytes[i] = offset + i - 1
        BY <2>1, <1>3
    <2> QED
        BY <2>2, <1>1, <1>6, <1>12 DEF CopyInv, Reading
<1>13. Reading'
    BY <1>1, <1>12 DEF Reading
<1>14. Writing'
    <2>1. w_user_data' \notin DOMAIN results'
        BY <1>1, <1>6, <1>7
    <2> QED
        BY <2>1, <1>1 DEF CopyInv, Writing
<1> QED
    BY <1>8, <1>9, <1>10, <1>11, <1>13, <1>14 DEF CopyInv

\* The device reads bytes.
LEMMA ReadDeviceOkKeeps ==
    ASSUME CopyInv, DeviceOk, UNCHANGED writer_vars
    PROVE  CopyInv'
<1>1. PICK n \in 0 .. op.len :
          /\ Puts(op.user_data, n)
          /\ scratch' = IF scratch.alloc # op.alloc THEN scratch
                        ELSE [scratch EXCEPT !.bytes =
                                 [i \in DOMAIN @ |-> IF i <= n THEN op.offset + i - 1 ELSE @[i]]]
    BY DEF DeviceOk, Puts
<1>2. ReadCompletes
    BY DEF DeviceOk, ReadCompletes
<1>3. op.len \in Nat /\ op.offset \in Nat /\ scratch \in [alloc : Nat, bytes : Seq(Nat)]
      /\ op.len <= Len(scratch.bytes)
    BY <1>2 DEF CopyInv, Typed, Fits, ReadCompletes
<1>4. n \in Nat /\ n \in Int /\ n <= op.len
    BY <1>3
<1> DEFINE b == scratch.bytes
           c == [i \in DOMAIN b |-> IF i <= n THEN op.offset + i - 1 ELSE b[i]]
<1>5. PICK l \in Nat : l = Len(b) /\ b \in [1 .. l -> Nat] /\ DOMAIN b = 1 .. l
    <2>1. b \in Seq(Nat)
        BY <1>3
    <2> QED
        BY <2>1, LenProperties
<1>6. c \in Seq(Nat) /\ Len(c) = l /\ \A i \in 1 .. n : c[i] = op.offset + i - 1
    <2>1. c = [i \in 1 .. l |-> IF i <= n THEN op.offset + i - 1 ELSE b[i]]
        BY <1>5
    <2> HIDE DEF c
    <2>2. \A i \in 1 .. l : (IF i <= n THEN op.offset + i - 1 ELSE b[i]) \in Nat
        BY <1>3, <1>4, <1>5
    <2>3. c \in [1 .. l -> Nat]
        BY <2>1, <2>2
    <2>4. c \in Seq(Nat) /\ Len(c) = l
        BY <2>3, <1>5, IsASeq, LenProperties
    <2>5. ASSUME NEW i \in 1 .. n PROVE c[i] = op.offset + i - 1
        <3>1. i \in 1 .. l /\ i <= n
            BY <1>3, <1>4, <1>5
        <3> QED
            BY <3>1, <2>1
    <2> QED
        BY <2>4, <2>5
<1>7. CASE scratch.alloc # op.alloc
    <2>1. scratch' = scratch
        BY <1>1, <1>7
    <2> QED
        BY <2>1, <1>1, <1>2, <1>3, <1>4, <1>7, ReadCompletesKeeps
<1>8. CASE scratch.alloc = op.alloc
    <2>1. scratch' = [scratch EXCEPT !.bytes = c]
        BY <1>1, <1>8
    <2> HIDE DEF c
    <2>2. scratch' \in [alloc : Nat, bytes : Seq(Nat)] /\ scratch'.bytes = c
        BY <2>1, <1>3, <1>6
    <2>3. Len(scratch'.bytes) = Len(scratch.bytes) /\ \A i \in 1 .. n : scratch'.bytes[i] = op.offset + i - 1
        BY <2>2, <1>5, <1>6
    <2> QED
        BY <2>2, <2>3, <1>1, <1>2, <1>4, ReadCompletesKeeps
<1> QED
    BY <1>7, <1>8

\* The device fails a read.
LEMMA ReadDeviceErrKeeps ==
    ASSUME CopyInv, DeviceErr, UNCHANGED writer_vars
    PROVE  CopyInv'
<1>1. ReadCompletes /\ scratch' = scratch /\ Puts(op.user_data, -5)
    BY DEF DeviceErr, ReadCompletes, Puts, reader
<1>2. op.len \in Nat /\ scratch \in [alloc : Nat, bytes : Seq(Nat)]
    BY DEF CopyInv, Typed
<1>3. -5 \in Int /\ -5 <= op.len /\ 1 .. -5 = {}
    BY <1>2
<1> QED
    BY <1>1, <1>2, <1>3, ReadCompletesKeeps

-----------------------------------------------------------------------------
(***************************************************************************)
(* Steps of the writer.                                                    *)
(***************************************************************************)

\* What a step of the writer leaves alone.
ReaderKept ==
    UNCHANGED <<submitted, user_data, offset, scratch, op, need, switched, delivered, overrun>>

\* The reader, between its reads, keeps what it has.
LEMMA KeptReading ==
    ASSUME CopyInv, ReaderKept, user_data \notin DOMAIN results'
    PROVE  Fits' /\ Reading'
<1>1. Fits'
    BY DEF CopyInv, Fits, ReaderKept
<1>2. Reading'
    BY DEF CopyInv, Reading, ReaderKept
<1> QED
    BY <1>1, <1>2

\* While the writer is polled nothing is in flight for the reader.
LEMMA WriterPolled ==
    ASSUME CopyInv, writing
    PROVE  /\ Typed /\ TypeOK /\ ~(need > 0) /\ op = None /\ user_data \notin DOMAIN results
           /\ DOMAIN results \subseteq {w_user_data} /\ chunk.bytes # << >>
           /\ chunk \in [slice : Nat, bytes : Seq(Nat)] /\ chunk.slice \in Nat /\ chunk.bytes \in Seq(Nat)
           /\ accepted \in Seq(Nat) /\ w_offset \in Nat
<1>1. Typed /\ TypeOK
    BY DEF CopyInv, Typed
<1>2. ~(need > 0) /\ op = None /\ user_data \notin DOMAIN results /\ chunk.bytes # << >>
    BY Exclusive DEF CopyInv, Turns
<1>3. DOMAIN results \subseteq {w_user_data}
    BY <1>1, <1>2 DEF TypeOK
<1> QED
    BY <1>1, <1>2, <1>3 DEF Typed, TypeOK

\* The caller of the writer comes.
LEMMA WriteCallKeeps ==
    ASSUME CopyInv, need = 0, Writer!Call, UNCHANGED reader_own
    PROVE  CopyInv'
<1>1. /\ ~writing /\ chunk.bytes # << >> /\ next_id <= MaxOps /\ writing' = TRUE /\ ReaderKept
      /\ UNCHANGED <<w_submitted, w_user_data, w_offset, next_id, results, w_op, chunk, w_switched, accepted, file>>
    BY DEF Writer!Call, Writer!writer, reader_own, reader, ReaderKept
<1>2. Typed'
    BY <1>1 DEF CopyInv, Typed, TypeOK, ReaderKept
<1>3. Turns'
    BY <1>1 DEF CopyInv, Turns, ReaderKept
<1>4. Ids'
    BY <1>1 DEF CopyInv, Ids, ReaderKept
<1>5. Fits'
    BY <1>1 DEF CopyInv, Fits, ReaderKept
<1>6. Reading'
    BY <1>1 DEF CopyInv, Reading, ReaderKept
<1>7. Writing'
    BY <1>1 DEF CopyInv, Writing, ReaderKept
<1> QED
    BY <1>2, <1>3, <1>4, <1>5, <1>6, <1>7 DEF CopyInv

\* One that gave its write up comes with another slice.
LEMMA WriteSwitchKeeps ==
    ASSUME CopyInv, Writer!Switch, UNCHANGED reader_own
    PROVE  CopyInv'
<1>1. /\ writing /\ Len(chunk.bytes) > 1 /\ w_switched' = TRUE /\ ReaderKept
      /\ chunk' = [slice |-> chunk.slice + 1, bytes |-> Tail(chunk.bytes)]
      /\ UNCHANGED <<w_submitted, w_user_data, w_offset, next_id, results, w_op, writing, accepted, file>>
    BY DEF Writer!Switch, Writer!writer, reader_own, reader, ReaderKept
<1>2. /\ Typed /\ TypeOK /\ ~(need > 0) /\ user_data \notin DOMAIN results
      /\ chunk.bytes # << >> /\ chunk.slice \in Nat /\ chunk.bytes \in Seq(Nat)
    BY <1>1, WriterPolled
<1>3. /\ chunk' \in [slice : Nat, bytes : Seq(Nat)] /\ chunk'.slice \in Nat
      /\ chunk'.bytes \in Seq(Nat) /\ chunk'.bytes # << >>
    <2> DEFINE b == chunk.bytes
               t == Tail(b)
    <2>1. t \in Seq(Nat) /\ Len(t) = Len(b) - 1 /\ Len(b) \in Nat
        BY <1>2, HeadTailProperties, LenProperties
    <2>2. chunk.slice + 1 \in Nat /\ chunk' = [slice |-> chunk.slice + 1, bytes |-> t]
        BY <1>1, <1>2
    <2> HIDE DEF t
    <2>3. Len(t) # 0
        <3> HIDE DEF b
        <3>1. PICK m \in Nat : Len(b) = m /\ m > 1
            BY <1>1, <2>1 DEF b
        <3>2. Len(t) = m - 1
            BY <3>1, <2>1
        <3> QED
            BY <3>1, <3>2
    <2>4. t # << >>
        BY <2>3, EmptySeq
    <2> QED
        BY <2>1, <2>2, <2>4
<1>4. Typed'
    <2>1. TypeOK'
        BY <1>1, <1>2, <1>3 DEF TypeOK, ReaderKept
    <2> QED
        BY <2>1, <1>1, <1>2, <1>3 DEF Typed, ReaderKept
<1>5. Turns'
    BY <1>1, <1>2, <1>3 DEF CopyInv, Turns, ReaderKept
<1>6. Ids'
    BY <1>1 DEF CopyInv, Ids, ReaderKept
<1>7. Fits' /\ Reading'
    BY <1>1, <1>2, KeptReading
<1>8. Writing'
    BY <1>1 DEF Writing
<1> QED
    BY <1>4, <1>5, <1>6, <1>7, <1>8 DEF CopyInv

\* A write takes a new id: it has no result, and it is not the reader's.
LEMMA WriteIdFresh ==
    ASSUME CopyInv, writing, ~w_submitted
    PROVE  /\ DOMAIN results = {} /\ w_op = Writer!None /\ next_id \in Nat /\ next_id > 0 /\ next_id \in 0 .. MaxOps
           /\ next_id + 1 \in 1 .. MaxOps + 1 /\ user_data \in Nat /\ user_data < next_id
<1>1. /\ TypeOK /\ DOMAIN results \subseteq {w_user_data}
    BY WriterPolled
<1>2. w_user_data \notin DOMAIN results /\ w_op = Writer!None /\ user_data < next_id
    BY DEF CopyInv, Ids
<1>3. next_id \in 1 .. MaxOps + 1 /\ user_data \in 0 .. MaxOps /\ next_id <= MaxOps
    BY <1>1 DEF TypeOK, CopyInv, Turns
<1>4. MaxOps \in Nat
    BY NeedsAssumption
<1>5. /\ next_id \in Nat /\ next_id > 0 /\ next_id \in 0 .. MaxOps
      /\ next_id + 1 \in 1 .. MaxOps + 1 /\ user_data \in Nat
    BY <1>3, <1>4
<1>6. DOMAIN results = {}
    BY <1>1, <1>2
<1> QED
    BY <1>2, <1>5, <1>6

\* A write is submitted.
LEMMA WriteSubmitKeeps ==
    ASSUME CopyInv, Writer!PollSubmit, UNCHANGED reader_own
    PROVE  CopyInv'
<1>1. /\ writing /\ ~w_submitted /\ w_submitted' = TRUE /\ ReaderKept
      /\ w_user_data' = next_id /\ next_id' = next_id + 1
      /\ w_op' = [user_data |-> next_id, slice |-> chunk.slice, bytes |-> chunk.bytes, offset |-> w_offset]
      /\ UNCHANGED <<w_offset, results, chunk, writing, w_switched, accepted, file>>
    BY DEF Writer!PollSubmit, Writer!caller, reader_own, reader, ReaderKept
<1>2. /\ Typed /\ TypeOK /\ ~(need > 0) /\ op = None /\ user_data \notin DOMAIN results
      /\ chunk.slice \in Nat /\ chunk.bytes \in Seq(Nat) /\ w_offset \in Nat
    BY <1>1, WriterPolled
<1>3. /\ DOMAIN results = {} /\ next_id \in Nat /\ next_id > 0 /\ next_id \in 0 .. MaxOps
      /\ next_id + 1 \in 1 .. MaxOps + 1 /\ user_data \in Nat /\ user_data < next_id
    BY <1>1, WriteIdFresh
<1>4. /\ w_op' \in [user_data : Nat, slice : Nat, bytes : Seq(Nat), offset : Nat]
      /\ w_op'.user_data = next_id /\ w_op'.slice = chunk.slice /\ w_op'.bytes = chunk.bytes
      /\ w_op'.offset = w_offset
    BY <1>1, <1>2, <1>3
<1>5. Typed'
    <2>1. TypeOK'
        BY <1>1, <1>2, <1>3, <1>4 DEF TypeOK, ReaderKept
    <2> QED
        BY <2>1, <1>1, <1>2, <1>4 DEF Typed, ReaderKept
<1>6. Turns'
    BY <1>1, <1>2 DEF CopyInv, Turns, ReaderKept
<1>7. Ids'
    BY <1>1, <1>2, <1>3 DEF Ids, ReaderKept
<1>8. Fits' /\ Reading'
    BY <1>1, <1>2, KeptReading
<1>9. Writing'
    BY <1>1, <1>3, <1>4 DEF CopyInv, Writing, ReaderKept
<1> QED
    BY <1>5, <1>6, <1>7, <1>8, <1>9 DEF CopyInv

\* A write is refused.
LEMMA WriteRefusedKeeps ==
    ASSUME CopyInv, Writer!PollRefused, UNCHANGED reader_own
    PROVE  CopyInv'
<1>1. /\ writing /\ ~w_submitted /\ writing' = FALSE /\ ReaderKept
      /\ w_user_data' = next_id /\ next_id' = next_id + 1
      /\ UNCHANGED <<w_submitted, w_offset, results, w_op, chunk, w_switched, accepted, file>>
    BY DEF Writer!PollRefused, reader_own, reader, ReaderKept
<1>2. /\ Typed /\ TypeOK /\ ~(need > 0) /\ op = None /\ user_data \notin DOMAIN results
    BY <1>1, WriterPolled
<1>3. /\ DOMAIN results = {} /\ next_id \in Nat /\ next_id > 0 /\ next_id \in 0 .. MaxOps
      /\ next_id + 1 \in 1 .. MaxOps + 1 /\ user_data \in Nat /\ user_data < next_id /\ w_op = Writer!None
    BY <1>1, WriteIdFresh
<1>4. Typed'
    <2>1. TypeOK'
        BY <1>1, <1>2, <1>3 DEF TypeOK, ReaderKept
    <2> QED
        BY <2>1, <1>1, <1>2 DEF Typed, ReaderKept
<1>5. Turns'
    BY <1>1, <1>2 DEF Turns, ReaderKept
<1>6. Ids'
    BY <1>1, <1>2, <1>3 DEF Ids, ReaderKept
<1>7. Fits' /\ Reading'
    BY <1>1, <1>2, KeptReading
<1>8. Writing'
    BY <1>1, <1>3 DEF CopyInv, Writing, ReaderKept
<1> QED
    BY <1>4, <1>5, <1>6, <1>7, <1>8 DEF CopyInv

\* A poll finds an error.
LEMMA WriteErrKeeps ==
    ASSUME CopyInv, Writer!PollErr, UNCHANGED reader_own
    PROVE  CopyInv'
<1>1. /\ writing /\ w_submitted /\ w_user_data \in DOMAIN results /\ Takes(w_user_data)
      /\ writing' = FALSE /\ ReaderKept
      /\ UNCHANGED <<w_submitted, w_user_data, w_offset, next_id, w_op, chunk, w_switched, accepted, file>>
    BY DEF Writer!PollErr, Writer!Taken, Writer!writer, Takes, reader_own, reader, ReaderKept
<1>2. /\ Typed /\ TypeOK /\ ~(need > 0) /\ op = None /\ DOMAIN results \subseteq {w_user_data}
    BY <1>1, WriterPolled
<1>3. DOMAIN results' = {} /\ results' \in [DOMAIN results' -> Int] /\ w_op = Writer!None
    <2>1. DOMAIN results' = DOMAIN results \ {w_user_data} /\ results' \in [DOMAIN results' -> Int]
        BY <1>1, <1>2, TakesIs
    <2> QED
        BY <2>1, <1>1, <1>2 DEF CopyInv, Ids
<1>4. Typed'
    <2>1. TypeOK'
        BY <1>1, <1>2, <1>3 DEF TypeOK, ReaderKept
    <2> QED
        BY <2>1, <1>1, <1>2, <1>3 DEF Typed, ReaderKept
<1>5. Turns'
    BY <1>1, <1>2 DEF Turns, ReaderKept
<1>6. Ids'
    BY <1>1, <1>2, <1>3 DEF CopyInv, Ids, ReaderKept
<1>7. Fits' /\ Reading'
    BY <1>1, <1>3, KeptReading
<1>8. Writing'
    BY <1>1, <1>3 DEF CopyInv, Writing, ReaderKept
<1> QED
    BY <1>4, <1>5, <1>6, <1>7, <1>8 DEF CopyInv

\* A poll finds no completion.
LEMMA WritePendingKeeps ==
    ASSUME CopyInv, Writer!PollPending, UNCHANGED reader_own
    PROVE  CopyInv'
<1>1. /\ ReaderKept
      /\ UNCHANGED <<w_submitted, w_user_data, w_offset, next_id, results, w_op, chunk, writing, w_switched, accepted, file>>
    BY DEF Writer!PollPending, Writer!writer, Writer!caller, reader_own, reader, ReaderKept
<1>2. Typed' /\ Turns' /\ Ids'
    BY <1>1 DEF CopyInv, Typed, TypeOK, Turns, Ids, ReaderKept
<1>3. Fits' /\ Reading' /\ Writing'
    BY <1>1 DEF CopyInv, Fits, Reading, Writing, ReaderKept
<1> QED
    BY <1>2, <1>3 DEF CopyInv

\* A poll finds the count.
LEMMA WriteOkKeeps ==
    ASSUME CopyInv, Writer!PollOk, UNCHANGED reader_own
    PROVE  CopyInv'
<1> DEFINE n == results[w_user_data]
           b == chunk.bytes
           k == IF n <= Len(b) THEN n ELSE Len(b)
           P == SubSeq(b, 1, k)
           S == SubSeq(b, k + 1, Len(b))
<1>1. /\ writing /\ w_submitted /\ w_user_data \in DOMAIN results /\ n >= 0 /\ Takes(w_user_data)
      /\ w_submitted' = FALSE /\ writing' = FALSE /\ w_offset' = w_offset + n
      /\ accepted' = accepted \o P /\ chunk' = [chunk EXCEPT !.bytes = S] /\ ReaderKept
      /\ UNCHANGED <<w_user_data, next_id, w_op, w_switched, file>>
    BY DEF Writer!PollOk, Writer!Accept, Writer!Taken, Takes, reader_own, reader, ReaderKept
<1>2. /\ Typed /\ TypeOK /\ ~(need > 0) /\ op = None /\ DOMAIN results \subseteq {w_user_data}
      /\ chunk \in [slice : Nat, bytes : Seq(Nat)] /\ b \in Seq(Nat) /\ accepted \in Seq(Nat)
      /\ w_offset \in Nat /\ chunk.slice \in Nat
    BY <1>1, WriterPolled
<1>3. DOMAIN results' = {} /\ results' \in [DOMAIN results' -> Int] /\ w_op = Writer!None
    <2>1. DOMAIN results' = DOMAIN results \ {w_user_data} /\ results' \in [DOMAIN results' -> Int]
        BY <1>1, <1>2, TakesIs
    <2> QED
        BY <2>1, <1>1, <1>2 DEF CopyInv, Ids
<1>4. n \in Nat
    <2>1. n \in Int
        BY <1>1, <1>2 DEF Typed
    <2> HIDE DEF n
    <2> QED
        BY <2>1, <1>1
<1>5. k \in Nat /\ k <= Len(b) /\ Len(b) \in Nat
    <2>1. Len(b) \in Nat
        BY <1>2, LenProperties
    <2> HIDE DEF n, b
    <2> QED
        BY <2>1, <1>4
<1> HIDE DEF n, b, k
<1>6. P \in Seq(Nat) /\ Len(P) = k /\ \A i \in 1 .. k : P[i] = b[i]
    BY <1>2, <1>5, PrefixIs
<1>7. S \in Seq(Nat)
    BY <1>2, <1>5, SuffixIs
<1>8. P \o S = b
    BY <1>2, <1>5, SplitJoin
<1> HIDE DEF P, S
<1>9. chunk' \in [slice : Nat, bytes : Seq(Nat)] /\ chunk'.slice \in Nat /\ chunk'.bytes = S
    BY <1>1, <1>2, <1>7
<1>10. PICK l \in Nat : l = Len(accepted)
    BY <1>2, LenProperties
<1>11. /\ accepted' \in Seq(Nat) /\ Len(accepted') = l + k
       /\ \A i \in 1 .. l + k : accepted'[i] = IF i <= l THEN accepted[i] ELSE P[i - l]
    BY <1>1, <1>2, <1>6, <1>10, ConcatProperties
<1>12. Typed'
    <2>1. w_offset' \in Nat
        BY <1>1, <1>2, <1>4
    <2>2. TypeOK'
        BY <2>1, <1>1, <1>2, <1>3, <1>7, <1>9, <1>11 DEF TypeOK, ReaderKept
    <2> QED
        BY <2>2, <1>1, <1>2, <1>3, <1>9 DEF Typed, ReaderKept
<1>13. Turns'
    BY <1>1, <1>2 DEF Turns, ReaderKept
<1>14. Ids'
    BY <1>1, <1>2, <1>3 DEF CopyInv, Ids, ReaderKept
<1>15. Fits' /\ Reading'
    BY <1>1, <1>3, KeptReading
<1>16. ASSUME ~switched, ~w_switched PROVE Writing'
    <2>1. /\ accepted \o b = delivered /\ file \in Seq(Nat) /\ w_offset = l
          /\ \A i \in 1 .. l : file[i] = accepted[i]
          /\ n <= Len(b) /\ (n >= 0 => l + n <= Len(file))
          /\ \A i \in 1 .. n : file[l + i] = b[i]
        BY <1>1, <1>10, <1>16 DEF CopyInv, Writing, n, b
    <2>2. k = n /\ l + n <= Len(file)
        BY <2>1, <1>1 DEF k
    <2>3. accepted' \o chunk'.bytes = delivered'
        <3>1. (accepted \o P) \o S = accepted \o (P \o S)
            <4>1. accepted \in Seq(Nat) /\ P \in Seq(Nat) /\ S \in Seq(Nat)
                BY <1>2, <1>6, <1>7
            <4> QED
                BY <4>1, JoinThree, Zenon
        <3> QED
            BY <3>1, <2>1, <1>1, <1>8, <1>9 DEF ReaderKept
    <2>4. w_offset' = l + n
        BY <2>1, <1>1
    <2>5. ASSUME NEW i \in 1 .. l + n PROVE file[i] = accepted'[i]
        <3>1. CASE i <= l
            <4>1. i \in 1 .. l
                BY <3>1
            <4> QED
                BY <4>1, <3>1, <2>1, <2>2, <1>11
        <3>2. CASE ~(i <= l)
            <4> DEFINE j == i - l
            <4>1. j \in 1 .. n /\ l + j = i
                BY <3>2, <1>4
            <4>2. accepted'[i] = P[j]
                BY <3>2, <2>2, <1>11
            <4> HIDE DEF j
            <4> QED
                BY <4>1, <4>2, <2>1, <2>2, <1>6
        <3> QED
            BY <3>1, <3>2
    <2>6. w_offset' = Len(accepted') /\ w_offset' <= Len(file)
        BY <2>2, <2>4, <1>11
    <2> QED
        BY <2>1, <2>3, <2>4, <2>5, <2>6, <1>1, <1>3 DEF Writing
<1>17. Writing'
    BY <1>1, <1>16 DEF Writing, ReaderKept
<1> QED
    BY <1>12, <1>13, <1>14, <1>15, <1>17 DEF CopyInv

\* What a completion of a write leaves alone.
WriteCompletes ==
    /\ w_op # Writer!None /\ w_op' = Writer!None /\ ReaderKept
    /\ UNCHANGED <<w_submitted, w_user_data, w_offset, next_id, chunk, writing, w_switched, accepted>>

\* n bytes of the caller's are in the file behind what was accepted.
Written(n) ==
    /\ file' \in Seq(Nat) /\ Len(file') >= w_offset /\ \A i \in 1 .. w_offset : file'[i] = file[i]
    /\ n >= 0 => w_offset + n <= Len(file')
    /\ \A i \in 1 .. n : file'[w_offset + i] = chunk.bytes[i]

\* The device completes a write.
LEMMA WriteCompletesKeeps ==
    ASSUME CopyInv, WriteCompletes, NEW n \in Int, Puts(w_op.user_data, n), n <= Len(w_op.bytes),
           ~switched /\ ~w_switched => Written(n)
    PROVE  CopyInv'
<1>1. /\ w_op # Writer!None /\ w_op' = Writer!None /\ ReaderKept
      /\ UNCHANGED <<w_submitted, w_user_data, w_offset, next_id, chunk, writing, w_switched, accepted>>
    BY DEF WriteCompletes
<1>2. writing /\ w_submitted /\ w_user_data > 0 /\ w_user_data \notin DOMAIN results
    BY <1>1 DEF CopyInv, Ids
<1>3. /\ Typed /\ TypeOK /\ ~(need > 0) /\ op = None /\ DOMAIN results \subseteq {w_user_data}
      /\ user_data \notin DOMAIN results /\ w_offset \in Nat /\ w_op.user_data = w_user_data
    BY <1>1, <1>2, WriterPolled DEF TypeOK
<1>4. DOMAIN results' = {w_user_data} /\ results' \in [DOMAIN results' -> Int] /\ results'[w_user_data] = n
    BY <1>2, <1>3, PutsIs
<1>5. w_user_data # 0 /\ user_data # w_user_data
    <2>1. w_user_data # 0
        BY <1>2, <1>3 DEF TypeOK
    <2> QED
        BY <2>1 DEF CopyInv, Ids
<1>6. Typed'
    <2>1. TypeOK'
        BY <1>1, <1>3, <1>4 DEF TypeOK, ReaderKept
    <2>2. Writer!None \in [user_data : Nat, slice : Nat, bytes : Seq(Nat), offset : Nat]
        <3>1. << >> \in Seq(Nat)
            BY EmptySeq
        <3> QED
            BY <3>1 DEF Writer!None
    <2> QED
        BY <2>1, <2>2, <1>1, <1>3, <1>4 DEF Typed, ReaderKept
<1>7. Turns'
    BY <1>1 DEF CopyInv, Turns, ReaderKept
<1>8. Ids'
    BY <1>1, <1>2, <1>3, <1>4, <1>5 DEF CopyInv, Ids, ReaderKept
<1>9. Fits' /\ Reading'
    <2>1. user_data \notin DOMAIN results'
        BY <1>4, <1>5
    <2> QED
        BY <2>1, <1>1, KeptReading
<1>10. ASSUME ~switched, ~w_switched PROVE Writing'
    <2>1. /\ accepted \o chunk.bytes = delivered /\ w_offset = Len(accepted)
          /\ \A i \in 1 .. w_offset : file[i] = accepted[i]
        BY <1>1, <1>10 DEF CopyInv, Writing
    <2>2. Written(n)
        BY <1>10
    <2>3. w_op.bytes = chunk.bytes
        BY <1>1, <1>10 DEF CopyInv, Writing
    <2>4. \A i \in 1 .. w_offset : file'[i] = accepted[i]
        BY <2>1, <2>2 DEF Written
    <2>5. w_offset <= Len(file')
        <3>1. file' \in Seq(Nat) /\ Len(file') >= w_offset
            BY <2>2 DEF Written
        <3>2. Len(file') \in Nat
            BY <3>1, LenProperties
        <3> QED
            BY <3>1, <3>2, <1>3
    <2>6. n <= Len(chunk.bytes)
        BY <2>3
    <2> QED
        BY <2>1, <2>2, <2>4, <2>5, <2>6, <1>1, <1>4 DEF Writing, Written, ReaderKept
<1>11. Writing'
    BY <1>1, <1>10 DEF Writing, ReaderKept
<1> QED
    BY <1>6, <1>7, <1>8, <1>9, <1>11 DEF CopyInv

\* g is f with the first n bytes of s written at o, behind what f has or over it.
Overwrites(f, s, o, n, g) == g = SubSeq(f, 1, o) \o SubSeq(s, 1, n) \o SubSeq(f, o + n + 1, Len(f))

\* It has what f had before o, and then those bytes.
LEMMA OverwriteIs ==
    ASSUME NEW f \in Seq(Nat), NEW s \in Seq(Nat), NEW o \in Nat, o <= Len(f), NEW n \in Nat, n <= Len(s),
           NEW g, Overwrites(f, s, o, n, g)
    PROVE  /\ g \in Seq(Nat) /\ Len(g) >= o + n
           /\ \A i \in 1 .. o : g[i] = f[i]
           /\ \A j \in 1 .. n : g[o + j] = s[j]
<1> DEFINE A == SubSeq(f, 1, o)
           B == SubSeq(s, 1, n)
           C == SubSeq(f, o + n + 1, Len(f))
           D == A \o B
<1>1. A \in Seq(Nat) /\ Len(A) = o /\ \A i \in 1 .. o : A[i] = f[i]
    BY PrefixIs
<1>2. B \in Seq(Nat) /\ Len(B) = n /\ \A i \in 1 .. n : B[i] = s[i]
    BY PrefixIs
<1>3. C \in Seq(Nat)
    <2>1. PICK l \in Nat : l = Len(f)
        BY LenProperties
    <2>2. PICK m \in Nat : m = o + n + 1
        OBVIOUS
    <2>3. \A i \in m .. l : f[i] \in Nat
        <3> SUFFICES ASSUME NEW i \in m .. l PROVE f[i] \in Nat
            OBVIOUS
        <3>1. i \in 1 .. Len(f)
            BY <2>1, <2>2
        <3> QED
            BY <3>1, ElementOfSeq
    <2>4. SubSeq(f, m, l) \in Seq(Nat)
        BY <2>3, SubSeqProperties
    <2> QED
        BY <2>1, <2>2, <2>4
<1>4. g = (A \o B) \o C
    BY DEF Overwrites
<1> HIDE DEF A, B, C
<1>5. /\ D \in Seq(Nat) /\ Len(D) = o + n
      /\ \A i \in 1 .. o + n : D[i] = IF i <= o THEN A[i] ELSE B[i - o]
    BY <1>1, <1>2, ConcatProperties
<1> HIDE DEF D
<1>6. PICK c \in Nat : c = Len(C)
    BY <1>3, LenProperties
<1>7. /\ g \in Seq(Nat) /\ Len(g) = (o + n) + c
      /\ \A i \in 1 .. (o + n) + c : g[i] = IF i <= o + n THEN D[i] ELSE C[i - (o + n)]
    <2>1. g = D \o C
        BY <1>4 DEF D
    <2>2. /\ g \in Seq(Nat) /\ Len(g) = Len(D) + Len(C)
          /\ \A i \in 1 .. Len(D) + Len(C) : g[i] = IF i <= Len(D) THEN D[i] ELSE C[i - Len(D)]
        <3>1. D \in Seq(Nat)
            BY <1>5
        <3> QED
            BY <3>1, <2>1, <1>3, JoinIs
    <2> QED
        BY <2>2, <1>5, <1>6
<1>8. \A i \in 1 .. o + n : g[i] = D[i]
    <2> SUFFICES ASSUME NEW i \in 1 .. o + n PROVE g[i] = D[i]
        OBVIOUS
    <2>1. i \in 1 .. (o + n) + c /\ i <= o + n
        OBVIOUS
    <2> QED
        BY <2>1, <1>7
<1>9. ASSUME NEW i \in 1 .. o PROVE g[i] = f[i]
    <2>1. i \in 1 .. o + n /\ i <= o
        OBVIOUS
    <2> QED
        BY <2>1, <1>1, <1>5, <1>8
<1>10. ASSUME NEW j \in 1 .. n PROVE g[o + j] = s[j]
    <2> DEFINE i == o + j
    <2>1. i \in 1 .. o + n /\ ~(i <= o) /\ i - o = j
        OBVIOUS
    <2> HIDE DEF i
    <2>2. D[i] = B[i - o]
        BY <2>1, <1>5
    <2>3. g[i] = s[j]
        BY <2>1, <2>2, <1>2, <1>8
    <2> QED
        BY <2>3 DEF i
<1>11. Len(g) >= o + n
    BY <1>7
<1> QED
    BY <1>7, <1>9, <1>10, <1>11

\* The device writes bytes.
LEMMA WriteDeviceOkKeeps ==
    ASSUME CopyInv, Writer!DeviceOk, UNCHANGED reader_own
    PROVE  CopyInv'
<1>1. PICK n \in 1 .. Len(w_op.bytes), bytes \in Writer!Found :
          /\ Writer!Completed(n)
          /\ file' = SubSeq(file, 1, w_op.offset) \o SubSeq(bytes, 1, n)
                     \o SubSeq(file, w_op.offset + n + 1, Len(file))
    BY DEF Writer!DeviceOk
<1>2. WriteCompletes /\ Puts(w_op.user_data, n)
    BY <1>1 DEF Writer!DeviceOk, Writer!Completed, Writer!writer, Writer!caller, WriteCompletes, Puts,
                reader_own, reader, ReaderKept
<1>3. w_op.bytes \in Seq(Nat) /\ w_offset \in Nat
    BY DEF CopyInv, Typed, TypeOK
<1>4. n \in Int /\ n \in Nat /\ n <= Len(w_op.bytes)
    BY <1>3, LenProperties
<1>5. ASSUME ~switched, ~w_switched PROVE Written(n)
    <2>1. /\ file \in Seq(Nat) /\ w_offset <= Len(file)
          /\ w_op.offset = w_offset /\ w_op.bytes = chunk.bytes /\ w_op.slice = chunk.slice
        BY <1>2, <1>5 DEF CopyInv, Writing, WriteCompletes
    <2>2. bytes = chunk.bytes
        BY <1>1, <2>1 DEF Writer!Found
    <2>3. /\ chunk.bytes \in Seq(Nat) /\ n <= Len(chunk.bytes)
          /\ Overwrites(file, chunk.bytes, w_offset, n, file')
        BY <1>1, <1>3, <1>4, <2>1, <2>2 DEF Overwrites
    <2>4. /\ file' \in Seq(Nat) /\ Len(file') >= w_offset + n
          /\ \A i \in 1 .. w_offset : file'[i] = file[i]
          /\ \A j \in 1 .. n : file'[w_offset + j] = chunk.bytes[j]
        BY <2>1, <2>3, <1>3, <1>4, OverwriteIs
    <2>5. Len(file') >= w_offset /\ w_offset + n <= Len(file')
        <3>1. PICK l \in Nat : l = Len(file')
            BY <2>4, LenProperties
        <3> QED
            BY <3>1, <2>4, <1>3, <1>4
    <2> QED
        BY <2>4, <2>5 DEF Written
<1> QED
    BY <1>2, <1>4, <1>5, WriteCompletesKeeps

\* The device fails a write.
LEMMA WriteDeviceErrKeeps ==
    ASSUME CopyInv, Writer!DeviceErr, UNCHANGED reader_own
    PROVE  CopyInv'
<1>1. WriteCompletes /\ Puts(w_op.user_data, -5) /\ file' = file
    BY DEF Writer!DeviceErr, Writer!Completed, Writer!writer, Writer!caller, WriteCompletes, Puts,
           reader_own, reader, ReaderKept
<1>2. w_op.bytes \in Seq(Nat) /\ w_offset \in Nat
    BY DEF CopyInv, Typed, TypeOK
<1>3. -5 \in Int /\ ~(-5 >= 0) /\ 1 .. -5 = {} /\ -5 <= Len(w_op.bytes)
    <2>1. Len(w_op.bytes) \in Nat
        BY <1>2, LenProperties
    <2> QED
        BY <2>1
<1>4. ASSUME ~switched, ~w_switched PROVE Written(-5)
    <2>1. file \in Seq(Nat) /\ w_offset <= Len(file)
        BY <1>4 DEF CopyInv, Writing
    <2>2. Len(file) >= w_offset
        <3>1. PICK l \in Nat : l = Len(file)
            BY <2>1, LenProperties
        <3> QED
            BY <3>1, <2>1, <1>2
    <2> QED
        BY <2>1, <2>2, <1>1, <1>3 DEF Written
<1> QED
    BY <1>1, <1>3, <1>4, WriteCompletesKeeps

-----------------------------------------------------------------------------
(***************************************************************************)
(* The specification.                                                      *)
(***************************************************************************)

\* Nothing is read or written yet.
LEMMA CopyInvInit ==
    ASSUME Init
    PROVE  CopyInv
<1>1. /\ submitted = FALSE /\ user_data = 0 /\ offset = 0 /\ scratch = [alloc |-> 0, bytes |-> << >>]
      /\ next_id = 1 /\ op = None /\ results = [u \in {} |-> 0]
      /\ need = 0 /\ switched = FALSE /\ delivered = << >> /\ overrun = FALSE
      /\ w_submitted = FALSE /\ w_user_data = 0 /\ w_offset = 0 /\ w_op = Writer!None
      /\ chunk = [slice |-> 1, bytes |-> << >>]
      /\ writing = FALSE /\ w_switched = FALSE /\ accepted = << >> /\ file = << >>
    BY DEF Init, ReaderInit, Writer!Init
<1>2. << >> \in Seq(Nat) /\ Len(<< >>) = 0 /\ << >> \o << >> = << >>
    BY EmptySeq, ConcatEmptySeq
<1>3. DOMAIN results = {} /\ results \in [DOMAIN results -> Int]
    BY <1>1
<1>4. 0 \in 0 .. MaxOps /\ 1 \in 1 .. MaxOps + 1
    BY NeedsAssumption
<1>5. /\ op \in [user_data : Nat, alloc : Nat, len : Nat, offset : Nat]
      /\ w_op \in [user_data : Nat, slice : Nat, bytes : Seq(Nat), offset : Nat]
    BY <1>1, <1>2 DEF None, Writer!None
<1>6. /\ scratch \in [alloc : Nat, bytes : Seq(Nat)] /\ scratch.alloc = 0 /\ scratch.bytes = << >>
      /\ chunk \in [slice : Nat, bytes : Seq(Nat)] /\ chunk.slice = 1 /\ chunk.bytes = << >>
    BY <1>1, <1>2
<1>7. Typed
    <2>1. TypeOK
        BY <1>1, <1>2, <1>3, <1>4, <1>6 DEF TypeOK
    <2> QED
        BY <2>1, <1>1, <1>2, <1>3, <1>5, <1>6 DEF Typed
<1>8. Turns /\ Ids /\ Fits
    BY <1>1, <1>3, <1>6 DEF Turns, Ids, Fits
<1>9. Reading
    BY <1>1, <1>2, <1>3 DEF Reading
<1>10. Writing
    BY <1>1, <1>2, <1>3, <1>6 DEF Writing
<1> QED
    BY <1>7, <1>8, <1>9, <1>10 DEF CopyInv

\* Every step keeps it.
LEMMA CopyInvNext ==
    ASSUME CopyInv, [Next]_vars
    PROVE  CopyInv'
<1>1. CASE ReadCall /\ UNCHANGED writer_vars
    BY <1>1, ReadCallKeeps
<1>2. CASE need = 0 /\ Writer!Call /\ UNCHANGED reader_own
    BY <1>2, WriteCallKeeps
<1>3. CASE Writer!Switch /\ UNCHANGED reader_own
    BY <1>3, WriteSwitchKeeps
<1>4. CASE (PollSubmit \/ PollRefused \/ PollPending \/ PollErr) /\ UNCHANGED writer_vars
    BY <1>4, ReadSubmitKeeps, ReadRefusedKeeps, ReadPendingKeeps, ReadErrKeeps
<1>5. CASE ReadOk
    BY <1>5, ReadOkKeeps
<1>6. CASE WritePoll
    BY <1>6, WriteSubmitKeeps, WriteRefusedKeeps, WritePendingKeeps, WriteOkKeeps, WriteErrKeeps
       DEF WritePoll
<1>7. CASE Device
    BY <1>7, ReadDeviceOkKeeps, ReadDeviceErrKeeps, WriteDeviceOkKeeps, WriteDeviceErrKeeps DEF Device
<1>8. CASE (PollNoRoom /\ UNCHANGED writer_vars) \/ SpuriousWake \/ RegisterFirst \/ UNCHANGED vars
    <2>1. /\ ReaderKept /\ UNCHANGED <<next_id, results>>
          /\ UNCHANGED <<w_submitted, w_user_data, w_offset, w_op, chunk, writing, w_switched, accepted, file>>
        BY <1>8 DEF PollNoRoom, SpuriousWake, RegisterFirst, vars, reader_vars, reader, writer_vars, ReaderKept
    <2>2. Typed' /\ Turns' /\ Ids'
        BY <2>1 DEF CopyInv, Typed, TypeOK, Turns, Ids, ReaderKept
    <2>3. Fits' /\ Reading' /\ Writing'
        BY <2>1 DEF CopyInv, Fits, Reading, Writing, ReaderKept
    <2> QED
        BY <2>2, <2>3 DEF CopyInv
<1> QED
    BY <1>1, <1>2, <1>3, <1>4, <1>5, <1>6, <1>7, <1>8 DEF Next, ReadPoll, wake_vars

\* The invariant holds of every run of the copying task, for a file, buffers and a
\* number of operations of any size.
THEOREM CopyInvariance == Spec => []CopyInv
<1>1. Init => CopyInv
    BY CopyInvInit
<1>2. CopyInv /\ [Next]_vars => CopyInv'
    BY CopyInvNext
<1> QED
    BY <1>1, <1>2, PTL DEF Spec

\* Where the task is and whom a completion wakes.
TaskInv == TaskTyped /\ ParkedIsWoken

\* The polled adapter's user_data.
Polled == IF writing THEN w_user_data ELSE user_data

\* A step of the task itself keeps the task's invariant.
LEMMA TaskInvPoll ==
    ASSUME CopyInv, TaskInv, ReadPoll \/ WritePoll \/ RegisterFirst
    PROVE  TaskInv'
<1>1. user_data \in Nat /\ w_user_data \in Nat /\ wakers \subseteq Nat
    BY NeedsAssumption DEF CopyInv, Typed, TypeOK, TaskInv, TaskTyped
<1>2. CASE RegisterFirst
    <2>1. /\ task = "registering" /\ task' = "first_pending" /\ wakers' = wakers \cup {Polled}
          /\ UNCHANGED <<need, writing>>
        BY <1>2 DEF RegisterFirst, Polled, reader_vars, writer_vars
    <2> QED
        BY <2>1, <1>1 DEF TaskInv, TaskTyped, ParkedIsWoken, Polled
<1>3. CASE task = "running" /\ (task' = "registering" \/ task' = "running")
           /\ (wakers' = wakers \/ wakers' = wakers \ {user_data} \/ wakers' = wakers \ {w_user_data})
           /\ (task' = "registering" => need' > 0 \/ writing')
    BY <1>3, <1>1 DEF TaskInv, TaskTyped, ParkedIsWoken
<1>4. CASE ReadPoll
    <2>1. CASE PollSubmit /\ Submitted /\ UNCHANGED writer_vars
        BY <2>1, <1>3, <1>4 DEF ReadPoll, PollSubmit, Submitted
    <2>2. CASE PollPending /\ Parked(user_data) /\ UNCHANGED writer_vars
        <3>1. /\ user_data \notin DOMAIN results /\ need > 0 /\ task' = "pending"
              /\ wakers' = wakers \cup {user_data} /\ UNCHANGED <<user_data, results, need, writing, w_user_data>>
            BY <2>2 DEF PollPending, Parked, writer_vars
        <3>2. ~writing
            BY <3>1 DEF CopyInv, Turns
        <3> QED
            BY <3>1, <3>2, <1>1 DEF TaskInv, TaskTyped, ParkedIsWoken
    <2>3. CASE (PollRefused /\ UNCHANGED <<wake_vars, writer_vars>>)
               \/ (PollErr /\ Unregistered(user_data) /\ UNCHANGED writer_vars)
               \/ (ReadOk /\ Unregistered(user_data))
        BY <2>3, <1>3, <1>4 DEF ReadPoll, Unregistered, wake_vars
    <2> QED
        BY <1>4, <2>1, <2>2, <2>3 DEF ReadPoll
<1>5. CASE WritePoll
    <2>1. CASE Writer!PollSubmit /\ Submitted /\ UNCHANGED reader_own
        BY <2>1, <1>3, <1>5 DEF WritePoll, Writer!PollSubmit, Writer!caller, Submitted
    <2>2. CASE Writer!PollPending /\ Parked(w_user_data) /\ UNCHANGED reader_own
        <3>1. /\ w_user_data \notin DOMAIN results /\ writing /\ task' = "pending"
              /\ wakers' = wakers \cup {w_user_data} /\ UNCHANGED <<w_user_data, results, writing>>
            BY <2>2 DEF Writer!PollPending, Writer!writer, Writer!caller, Parked
        <3> QED
            BY <3>1, <1>1 DEF TaskInv, TaskTyped, ParkedIsWoken
    <2>3. CASE (Writer!PollRefused /\ UNCHANGED wake_vars)
               \/ ((Writer!PollOk \/ Writer!PollErr) /\ Unregistered(w_user_data))
        BY <2>3, <1>3, <1>5 DEF WritePoll, Unregistered, wake_vars
    <2> QED
        BY <1>5, <2>1, <2>2, <2>3 DEF WritePoll
<1> QED
    BY <1>2, <1>4, <1>5

\* A completion of operation u, whoever waits, keeps it: the one that is parked is
\* woken if u is its operation.
LEMMA TaskInvWoken ==
    ASSUME TaskInv, NEW u, Woken(u), DOMAIN results' = DOMAIN results \cup {u},
           UNCHANGED <<need, writing, user_data, w_user_data>>
    PROVE  TaskInv'
<1>1. /\ task' = IF u \in wakers /\ task \in {"first_pending", "pending"} THEN "running" ELSE task
      /\ wakers' = wakers \ {u}
    BY DEF Woken
<1>2. TaskTyped'
    BY <1>1 DEF TaskInv, TaskTyped
<1>3. ParkedIsWoken'
    <2>1. SUFFICES ASSUME task' = "pending" PROVE Polled \in wakers' /\ Polled \notin DOMAIN results'
        BY DEF ParkedIsWoken, Polled
    <2>2. task = "pending" /\ u \notin wakers
        BY <2>1, <1>1
    <2>3. Polled \in wakers /\ Polled \notin DOMAIN results
        BY <2>2 DEF TaskInv, ParkedIsWoken, Polled
    <2> QED
        BY <2>2, <2>3, <1>1
<1> QED
    BY <1>2, <1>3 DEF TaskInv

\* So does every step.
LEMMA TaskInvNext ==
    ASSUME CopyInv, TaskInv, [Next]_vars
    PROVE  TaskInv'
<1>1. CASE ReadPoll \/ WritePoll \/ RegisterFirst
    BY <1>1, TaskInvPoll
<1>2. CASE Device
    <2>1. ASSUME DeviceOk \/ DeviceErr, Woken(op.user_data), UNCHANGED writer_vars
          PROVE  TaskInv'
        <3>1. /\ DOMAIN results' = DOMAIN results \cup {op.user_data}
              /\ UNCHANGED <<need, writing, user_data, w_user_data>>
            BY <2>1 DEF DeviceOk, DeviceErr, reader, writer_vars
        <3> QED
            BY <2>1, <3>1, TaskInvWoken
    <2>2. ASSUME Writer!DeviceOk \/ Writer!DeviceErr, Woken(w_op.user_data), UNCHANGED reader_own
          PROVE  TaskInv'
        <3>1. /\ DOMAIN results' = DOMAIN results \cup {w_op.user_data}
              /\ UNCHANGED <<need, writing, user_data, w_user_data>>
            BY <2>2 DEF Writer!DeviceOk, Writer!DeviceErr, Writer!Completed, Writer!writer, Writer!caller,
                        reader, reader_own
        <3> QED
            BY <2>2, <3>1, TaskInvWoken
    <2> QED
        BY <1>2, <2>1, <2>2 DEF Device
<1>3. CASE WokenOtherwise
    BY <1>3 DEF WokenOtherwise, TaskInv, TaskTyped, ParkedIsWoken
<1>4. CASE need = 0 /\ Writer!Call /\ UNCHANGED <<wake_vars, reader_own>>
    <2>1. task = "running"
        BY <1>4 DEF Writer!Call, TaskInv, TaskTyped
    <2> QED
        BY <1>4, <2>1 DEF wake_vars, TaskInv, TaskTyped, ParkedIsWoken
<1>5. CASE (PollNoRoom /\ UNCHANGED <<wake_vars, writer_vars>>) \/ UNCHANGED vars
    <2>1. UNCHANGED <<task, wakers, need, writing, user_data, w_user_data, results>>
        BY <1>5 DEF PollNoRoom, vars, wake_vars, reader_vars, reader, writer_vars
    <2> QED
        BY <2>1 DEF TaskInv, TaskTyped, ParkedIsWoken
<1> QED
    BY <1>1, <1>2, <1>3, <1>4, <1>5 DEF Next, SpuriousWake

\* A task that was parked by a later poll of either adapter is woken by its
\* completion: in every run, its waker is registered and its completion not stored.
THEOREM TaskInvariance == Spec => []TaskInv
<1>1. Init => TaskInv
    BY DEF Init, TaskInv, TaskTyped, ParkedIsWoken
<1>2. CopyInv /\ TaskInv /\ [Next]_vars => TaskInv'
    BY TaskInvNext
<1> QED
    BY <1>1, <1>2, CopyInvariance, PTL DEF Spec

\* TorusAsync::poll_read_op and poll_write_op: no wake-up is lost after the first
\* poll, whatever the two adapters, their callers and the device do.
THEOREM ParkedIsWokenHolds == Spec => []ParkedIsWoken
<1>1. TaskInv => ParkedIsWoken
    BY DEF TaskInv
<1> QED
    BY <1>1, TaskInvariance, PTL

\* TorusAsyncReader: a caller that polls one buffer until it is answered gets the
\* file's bytes from the start, in order, never more than it has room for, and the
\* device writes to memory that the reader owns.
THEOREM ReaderExactHolds == Spec => []ReaderExact
<1>1. CopyInv => ReaderExact
    <2> SUFFICES ASSUME CopyInv, ~switched PROVE SequentialBytes /\ ~overrun /\ InFlightOwned
        BY DEF ReaderExact
    <2>1. delivered \in Seq(Nat)
        BY DEF CopyInv, Typed
    <2>2. PICK l \in Nat : l = Len(delivered) /\ delivered \in [1 .. l -> Nat]
        BY <2>1, LenProperties
    <2>3. /\ \A i \in 1 .. l : delivered[i] = i - 1
          /\ offset = l /\ ~overrun /\ (op # None => op.alloc = scratch.alloc)
        BY <2>2 DEF CopyInv, Reading
    <2>4. delivered = [i \in 1 .. l |-> i - 1]
        BY <2>2, <2>3
    <2> QED
        BY <2>2, <2>3, <2>4 DEF SequentialBytes, InFlightOwned
<1> QED
    BY <1>1, CopyInvariance, PTL

\* Both adapters over one registry: what the writer has accepted and what is still
\* in the task's buffer are what the reader has delivered, and the destination
\* starts with what was accepted.
THEOREM CopyExactHolds == Spec => []CopyExact
<1>1. CopyInv /\ TaskInv => CopyExact
    <2> SUFFICES ASSUME CopyInv, TaskInv PROVE CopyExact
        OBVIOUS
    <2>1. TypeOK /\ TaskTyped
        BY DEF CopyInv, Typed, TaskInv
    <2>2. ASSUME ~switched, ~w_switched
          PROVE  /\ accepted \o chunk.bytes = delivered /\ w_offset = Len(accepted) /\ w_offset <= Len(file)
                 /\ SubSeq(file, 1, w_offset) = accepted
        <3>1. /\ accepted \o chunk.bytes = delivered /\ w_offset = Len(accepted) /\ w_offset <= Len(file)
              /\ file \in Seq(Nat) /\ \A i \in 1 .. w_offset : file[i] = accepted[i]
            BY <2>2 DEF CopyInv, Writing
        <3>2. accepted \in Seq(Nat) /\ w_offset \in Nat
            BY <2>1 DEF TypeOK
        <3> DEFINE p == SubSeq(file, 1, w_offset)
        <3>3. p \in Seq(Nat) /\ Len(p) = w_offset /\ \A i \in 1 .. w_offset : p[i] = file[i]
            BY <3>1, <3>2, PrefixIs
        <3> HIDE DEF p
        <3>4. p = accepted
            BY <3>1, <3>2, <3>3, SeqEqual
        <3> QED
            BY <3>1, <3>4 DEF p
    <2> QED
        BY <2>1, <2>2 DEF CopyExact
<1> QED
    BY <1>1, CopyInvariance, TaskInvariance, PTL
=============================================================================

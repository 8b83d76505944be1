------------------------ MODULE ZeroCopyDmaPoolProofs ------------------------
(***************************************************************************)
(* Proofs about ZeroCopyDmaPool for any number of slots and threads and    *)
(* any set of aligned slots.                                               *)
(***************************************************************************)
EXTENDS ZeroCopyDmaPool, FiniteSetTheorems, TLAPS

\* What a thread saw of the peak was the peak once, and the peak never falls.
PeakSeen == \A t \in Threads : pc[t] = "swap_peak" => peak[t] <= peak_in_flight

\* What a quiet scan has passed is taken or does not suit it, and a slot that
\* it is about to release does not suit it.
QuietSoFar ==
    \A t \in Threads :
        /\ pc[t] = "misaligned" => Misfit(t)
        /\ pc[t] \in Scanning /\ quiet[t] =>
              \A s \in Slots : s < slot[t] /\ Suits(t, s) => allocated[s]

\* The map's pointers while the pool lives, whoever holds the handles.
GpuMapped ==
    pool = "live" =>
        /\ \A s \in Slots : gpu_bufs[s] # 0 => gpu_bufs[s] \in gpu_live
        /\ \A r, s \in Slots : gpu_bufs[r] = gpu_bufs[s] /\ gpu_bufs[r] # 0 => r = s
        /\ \A s \in for_gpu : gpu_bufs[s] # 0

\* A step that moves no slot from one owner to another keeps SlotsOwned.
LEMMA OwnedFrame ==
    ASSUME SlotsOwned, handles' = handles, allocated' = allocated,
           \A u \in Threads, s \in Slots : Owns(u, s)' <=> Owns(u, s)
    PROVE  SlotsOwned'
BY DEF SlotsOwned

\* Every step keeps the types.
LEMMA TypeStep ==
    ASSUME TypeOK, [Next]_vars
    PROVE  TypeOK'
<1>1. CASE UNCHANGED vars
  BY <1>1 DEF vars, stats, locals, gpu, TypeOK, Slots, Scanning, Recording, Allocating, Dropping
<1>2. ASSUME NEW t \in Threads, NEW k \in {"any", "aligned", "gpu"}, AllocBegin(t, k)
     PROVE  TypeOK'
  BY <1>2, PoolAssumption DEF AllocBegin, Goto, stats, gpu, TypeOK, Slots, Scanning, Recording, Allocating, Dropping
<1>3. ASSUME NEW t \in Threads, ScanTaken(t)
     PROVE  TypeOK'
  BY <1>3, PoolAssumption DEF ScanTaken, stats, gpu, TypeOK, Slots, Scanning, Recording, Allocating, Dropping
<1>4. ASSUME NEW t \in Threads, ScanTake(t)
     PROVE  TypeOK'
  BY <1>4, PoolAssumption DEF ScanTake, Goto, Disturb, stats, locals, gpu, TypeOK, Slots, Scanning, Recording, Allocating, Dropping
<1>5. ASSUME NEW t \in Threads, ReleaseMisaligned(t)
     PROVE  TypeOK'
  BY <1>5, PoolAssumption DEF ReleaseMisaligned, Goto, Disturb, stats, gpu, TypeOK, Slots, Scanning, Recording, Allocating, Dropping
<1>6. ASSUME NEW t \in Threads, ScanNone(t)
     PROVE  TypeOK'
  BY <1>6, PoolAssumption DEF ScanNone, Return, stats, gpu, Goto, TypeOK, Slots, Scanning, Recording, Allocating, Dropping
<1>7. ASSUME NEW t \in Threads, RaiseInFlight(t)
     PROVE  TypeOK'
  BY <1>7, PoolAssumption DEF RaiseInFlight, Goto, gpu, TypeOK, Slots, Scanning, Recording, Allocating, Dropping
<1>8. ASSUME NEW t \in Threads, LoadPeak(t)
     PROVE  TypeOK'
  BY <1>8, PoolAssumption DEF LoadPeak, Goto, stats, gpu, TypeOK, Slots, Scanning, Recording, Allocating, Dropping
<1>9. ASSUME NEW t \in Threads, PeakDone(t)
     PROVE  TypeOK'
  <2>1. slot[t] \in Slots /\ current[t] \in Int
    BY <1>9 DEF PeakDone, TypeOK
  <2>2. peak_in_flight' \in Int /\ in_flight' \in Int /\ calls' \in 0 .. MaxCalls
    BY <1>9, <2>1 DEF PeakDone, TypeOK
  <2>3. CASE kind[t] = "gpu"
    BY <1>9, <2>1, <2>2, <2>3 DEF PeakDone, Recorded, Goto, locals, TypeOK, Recording, Allocating
  <2>4. CASE kind[t] # "gpu"
    <3>1. handles' \in [Slots -> Nat] /\ for_gpu' \subseteq Slots
      BY <1>9, <2>1, <2>4 DEF PeakDone, Recorded, TypeOK
    <3>2. slot' = [slot EXCEPT ![t] = 1] /\ 1 \in 1 .. Capacity + 1
      BY <1>9, <2>4, PoolAssumption DEF PeakDone, Recorded, Return
    <3>3. QED
      BY <1>9, <2>2, <2>4, <3>1, <3>2 DEF PeakDone, Recorded, Return, Goto, TypeOK
  <2>5. QED
    BY <2>3, <2>4
<1>10. ASSUME NEW t \in Threads, PeakRaced(t)
     PROVE  TypeOK'
  BY <1>10, PoolAssumption DEF PeakRaced, stats, gpu, TypeOK, Slots, Scanning, Recording, Allocating, Dropping
<1>11. ASSUME NEW t \in Threads, GpuAlloc(t)
     PROVE  TypeOK'
  <2>1. slot[t] \in Slots
    BY <1>11 DEF GpuAlloc, TypeOK
  <2>2. handles' \in [Slots -> Nat] /\ for_gpu' \subseteq Slots
    BY <1>11, <2>1 DEF GpuAlloc, TypeOK
  <2>3. gpu_live' \subseteq GpuPtrs /\ gpu_bufs' \in [Slots -> GpuPtrs \cup {0}]
    BY <1>11, <2>1 DEF GpuAlloc, TypeOK
  <2>4. slot' = [slot EXCEPT ![t] = 1] /\ 1 \in 1 .. Capacity + 1
    BY <1>11, PoolAssumption DEF GpuAlloc, Return
  <2>5. QED
    BY <1>11, <2>2, <2>3, <2>4 DEF GpuAlloc, Return, Goto, stats, TypeOK
<1>12. ASSUME NEW t \in Threads, GpuAllocFails(t)
     PROVE  TypeOK'
  BY <1>12, PoolAssumption DEF GpuAllocFails, Goto, stats, gpu, TypeOK, Slots, Scanning, Recording, Allocating, Dropping
<1>13. ASSUME NEW t \in Threads, FreeSlot(t)
     PROVE  TypeOK'
  BY <1>13, PoolAssumption DEF FreeSlot, Goto, Disturb, stats, locals, gpu, TypeOK, Slots, Scanning, Recording, Allocating, Dropping
<1>14. ASSUME NEW t \in Threads, LowerInFlight(t)
     PROVE  TypeOK'
  BY <1>14, PoolAssumption DEF LowerInFlight, Return, gpu, Goto, TypeOK, Slots, Scanning, Recording, Allocating, Dropping
<1>15. ASSUME NEW t \in Threads, NEW s \in Slots, DropHandle(t, s)
     PROVE  TypeOK'
  BY <1>15, PoolAssumption DEF DropHandle, Goto, stats, gpu, TypeOK, Slots, Scanning, Recording, Allocating, Dropping
<1>16. CASE DropGpuPool
  BY <1>16, PoolAssumption DEF DropGpuPool, stats, locals, TypeOK, Slots, Scanning, Recording, Allocating, Dropping
<1>17. CASE DropPool
  BY <1>17, PoolAssumption DEF DropPool, stats, locals, gpu, TypeOK, Slots, Scanning, Recording, Allocating, Dropping
<1>18. QED
  BY <1>1, <1>2, <1>3, <1>4, <1>5, <1>6, <1>7, <1>8, <1>9, <1>10, <1>11, <1>12, <1>13, <1>14, <1>15, <1>16, <1>17 DEF Next, ThreadStep, RecordAlloc

\* Every step keeps each slot's single owner: the compare_exchange takes a slot
\* that nobody owns.
LEMMA OwnedStep ==
    ASSUME TypeOK, SlotsOwned, [Next]_vars
    PROVE  SlotsOwned'
<1>1. CASE UNCHANGED vars
  BY <1>1, OwnedFrame DEF vars, locals, Owns
<1>2. ASSUME NEW t \in Threads, NEW k \in {"any", "aligned", "gpu"}, AllocBegin(t, k)
     PROVE  SlotsOwned'
  <2>1. \A u \in Threads, r \in Slots : Owns(u, r)' <=> Owns(u, r)
    BY <1>2, PoolAssumption DEF AllocBegin, Goto, stats, gpu, TypeOK, Owns, Recording
  <2>2. QED
    BY <2>1, <1>2, OwnedFrame DEF AllocBegin, Goto, stats, gpu, TypeOK, Owns, Recording
<1>3. ASSUME NEW t \in Threads, ScanTaken(t)
     PROVE  SlotsOwned'
  <2>1. \A u \in Threads, r \in Slots : Owns(u, r)' <=> Owns(u, r)
    BY <1>3, PoolAssumption DEF ScanTaken, stats, gpu, TypeOK, Owns, Recording
  <2>2. QED
    BY <2>1, <1>3, OwnedFrame DEF ScanTaken, stats, gpu, TypeOK, Owns, Recording
<1>4. ASSUME NEW t \in Threads, ScanTake(t)
     PROVE  SlotsOwned'
  <2>1. slot[t] \in Slots /\ handles[slot[t]] = 0 /\ \A u \in Threads : ~Owns(u, slot[t])
    BY <1>4 DEF ScanTake, SlotsOwned, TypeOK
  <2>2. \A u \in Threads, r \in Slots : Owns(u, r)' <=> Owns(u, r) \/ (u = t /\ r = slot[t])
    BY <1>4, PoolAssumption DEF ScanTake, Goto, locals, TypeOK, Owns, Recording
  <2>3. handles' = handles /\ \A r \in Slots : allocated'[r] <=> allocated[r] \/ r = slot[t]
    BY <1>4, <2>1 DEF ScanTake, TypeOK
  <2>4. QED
    BY <2>1, <2>2, <2>3 DEF SlotsOwned
<1>5. ASSUME NEW t \in Threads, ReleaseMisaligned(t)
     PROVE  SlotsOwned'
  <2>1. slot[t] \in Slots /\ Owns(t, slot[t]) /\ slot[t] \in Nat
    <3>1. slot[t] \in Slots /\ Owns(t, slot[t])
      BY <1>5 DEF ReleaseMisaligned, Owns, TypeOK
    <3>2. QED
      BY <3>1, PoolAssumption DEF Slots
  <2>2. \A u \in Threads, r \in Slots : Owns(u, r)' <=> Owns(u, r) /\ u # t
    BY <1>5, PoolAssumption DEF ReleaseMisaligned, Goto, TypeOK, Owns, Recording
  <2>3. handles' = handles /\ \A r \in Slots : allocated'[r] <=> allocated[r] /\ r # slot[t]
    BY <1>5, <2>1 DEF ReleaseMisaligned, TypeOK
  <2>4. \A r \in Slots : Owns(t, r) <=> r = slot[t]
    BY <2>1 DEF Owns
  <2>5. QED
    BY <2>1, <2>2, <2>3, <2>4 DEF SlotsOwned
<1>6. ASSUME NEW t \in Threads, ScanNone(t)
     PROVE  SlotsOwned'
  <2>1. \A u \in Threads, r \in Slots : Owns(u, r)' <=> Owns(u, r)
    BY <1>6, PoolAssumption DEF ScanNone, Return, stats, gpu, Goto, TypeOK, Owns, Recording
  <2>2. QED
    BY <2>1, <1>6, OwnedFrame DEF ScanNone, Return, stats, gpu, Goto, TypeOK, Owns, Recording
<1>7. ASSUME NEW t \in Threads, RaiseInFlight(t)
     PROVE  SlotsOwned'
  <2>1. \A u \in Threads, r \in Slots : Owns(u, r)' <=> Owns(u, r)
    BY <1>7, PoolAssumption DEF RaiseInFlight, Goto, gpu, TypeOK, Owns, Recording
  <2>2. QED
    BY <2>1, <1>7, OwnedFrame DEF RaiseInFlight, Goto, gpu, TypeOK, Owns, Recording
<1>8. ASSUME NEW t \in Threads, LoadPeak(t)
     PROVE  SlotsOwned'
  <2>1. \A u \in Threads, r \in Slots : Owns(u, r)' <=> Owns(u, r)
    BY <1>8, PoolAssumption DEF LoadPeak, Goto, stats, gpu, TypeOK, Owns, Recording
  <2>2. QED
    BY <2>1, <1>8, OwnedFrame DEF LoadPeak, Goto, stats, gpu, TypeOK, Owns, Recording
<1>9. ASSUME NEW t \in Threads, PeakDone(t)
     PROVE  SlotsOwned'
  <2>1. CASE kind[t] = "gpu"
    <3>1. handles' = handles /\ allocated' = allocated
      BY <1>9, <2>1 DEF PeakDone, Recorded
    <3>2. \A u \in Threads, r \in Slots : Owns(u, r)' <=> Owns(u, r)
      BY <1>9, <2>1 DEF PeakDone, Recorded, Goto, locals, TypeOK, Owns, Recording
    <3>3. QED
      BY <3>1, <3>2, OwnedFrame
  <2>2. CASE kind[t] # "gpu"
    <3>1. slot[t] \in Slots /\ Owns(t, slot[t]) /\ \A r \in Slots : Owns(t, r) <=> r = slot[t]
      BY <1>9 DEF PeakDone, Owns, Recording, TypeOK
    <3>2. \A u \in Threads, r \in Slots : Owns(u, r)' <=> Owns(u, r) /\ u # t
      BY <1>9, <2>2, PoolAssumption DEF PeakDone, Recorded, Return, Goto, TypeOK, Owns, Recording
    <3>3. allocated' = allocated /\ \A r \in Slots : handles'[r] = IF r = slot[t] THEN handles[r] + 1 ELSE handles[r]
      BY <1>9, <2>2, <3>1 DEF PeakDone, Recorded, TypeOK
    <3>4. QED
      BY <3>1, <3>2, <3>3 DEF SlotsOwned
  <2>3. QED
    BY <2>1, <2>2
<1>10. ASSUME NEW t \in Threads, PeakRaced(t)
     PROVE  SlotsOwned'
  <2>1. \A u \in Threads, r \in Slots : Owns(u, r)' <=> Owns(u, r)
    BY <1>10, PoolAssumption DEF PeakRaced, stats, gpu, TypeOK, Owns, Recording
  <2>2. QED
    BY <2>1, <1>10, OwnedFrame DEF PeakRaced, stats, gpu, TypeOK, Owns, Recording
<1>11. ASSUME NEW t \in Threads, GpuAlloc(t)
     PROVE  SlotsOwned'
  <2>1. slot[t] \in Slots /\ Owns(t, slot[t]) /\ \A r \in Slots : Owns(t, r) <=> r = slot[t]
    BY <1>11 DEF GpuAlloc, Owns, Recording, TypeOK
  <2>2. \A u \in Threads, r \in Slots : Owns(u, r)' <=> Owns(u, r) /\ u # t
    BY <1>11, PoolAssumption DEF GpuAlloc, Return, Goto, TypeOK, Owns, Recording
  <2>3. allocated' = allocated /\ \A r \in Slots : handles'[r] = IF r = slot[t] THEN handles[r] + 1 ELSE handles[r]
    BY <1>11, <2>1 DEF GpuAlloc, TypeOK
  <2>4. QED
    BY <2>1, <2>2, <2>3 DEF SlotsOwned
<1>12. ASSUME NEW t \in Threads, GpuAllocFails(t)
     PROVE  SlotsOwned'
  <2>1. \A u \in Threads, r \in Slots : Owns(u, r)' <=> Owns(u, r)
    BY <1>12, PoolAssumption DEF GpuAllocFails, Goto, stats, gpu, TypeOK, Owns, Recording
  <2>2. QED
    BY <2>1, <1>12, OwnedFrame DEF GpuAllocFails, Goto, stats, gpu, TypeOK, Owns, Recording
<1>13. ASSUME NEW t \in Threads, FreeSlot(t)
     PROVE  SlotsOwned'
  <2>1. slot[t] \in Slots /\ Owns(t, slot[t]) /\ slot[t] \in Nat
    <3>1. slot[t] \in Slots /\ Owns(t, slot[t])
      BY <1>13 DEF FreeSlot, Owns, TypeOK
    <3>2. QED
      BY <3>1, PoolAssumption DEF Slots
  <2>2. \A u \in Threads, r \in Slots : Owns(u, r)' <=> Owns(u, r) /\ u # t
    BY <1>13, PoolAssumption DEF FreeSlot, Goto, locals, TypeOK, Owns, Recording
  <2>3. handles' = handles /\ \A r \in Slots : allocated'[r] <=> allocated[r] /\ r # slot[t]
    BY <1>13, <2>1 DEF FreeSlot, TypeOK
  <2>4. \A r \in Slots : Owns(t, r) <=> r = slot[t]
    BY <2>1 DEF Owns
  <2>5. QED
    BY <2>1, <2>2, <2>3, <2>4 DEF SlotsOwned
<1>14. ASSUME NEW t \in Threads, LowerInFlight(t)
     PROVE  SlotsOwned'
  <2>1. \A u \in Threads, r \in Slots : Owns(u, r)' <=> Owns(u, r)
    BY <1>14, PoolAssumption DEF LowerInFlight, Return, gpu, Goto, TypeOK, Owns, Recording
  <2>2. QED
    BY <2>1, <1>14, OwnedFrame DEF LowerInFlight, Return, gpu, Goto, TypeOK, Owns, Recording
<1>15. ASSUME NEW t \in Threads, NEW s \in Slots, DropHandle(t, s)
     PROVE  SlotsOwned'
  <2>1. handles[s] = 1 /\ allocated[s] /\ \A u \in Threads : ~Owns(u, s)
    BY <1>15 DEF DropHandle, SlotsOwned, TypeOK
  <2>2. \A u \in Threads, r \in Slots : Owns(u, r)' <=> Owns(u, r) \/ (u = t /\ r = s)
    BY <1>15 DEF DropHandle, Goto, TypeOK, Owns, Recording
  <2>3. allocated' = allocated /\ \A r \in Slots : handles'[r] = IF r = s THEN 0 ELSE handles[r]
    BY <1>15, <2>1 DEF DropHandle, TypeOK
  <2>4. QED
    BY <2>1, <2>2, <2>3 DEF SlotsOwned
<1>16. CASE DropGpuPool
  BY <1>16, OwnedFrame DEF DropGpuPool, locals, Owns
<1>17. CASE DropPool
  BY <1>17, OwnedFrame DEF DropPool, locals, Owns
<1>18. QED
  BY <1>1, <1>2, <1>3, <1>4, <1>5, <1>6, <1>7, <1>8, <1>9, <1>10, <1>11, <1>12, <1>13, <1>14, <1>15, <1>16, <1>17 DEF Next, ThreadStep, RecordAlloc

\* Every step keeps the peak covered.
LEMMA PeakStep ==
    ASSUME TypeOK, PeakSeen, PeakCovers, [Next]_vars
    PROVE  (PeakSeen /\ PeakCovers)'
<1>1. CASE UNCHANGED vars
  BY <1>1 DEF vars, stats, locals, gpu, TypeOK, PeakSeen, PeakCovers
<1>2. ASSUME NEW t \in Threads, NEW k \in {"any", "aligned", "gpu"}, AllocBegin(t, k)
     PROVE  (PeakSeen /\ PeakCovers)'
  BY <1>2, PoolAssumption DEF AllocBegin, Goto, stats, gpu, TypeOK, PeakSeen, PeakCovers
<1>3. ASSUME NEW t \in Threads, ScanTaken(t)
     PROVE  (PeakSeen /\ PeakCovers)'
  BY <1>3, PoolAssumption DEF ScanTaken, stats, gpu, TypeOK, PeakSeen, PeakCovers
<1>4. ASSUME NEW t \in Threads, ScanTake(t)
     PROVE  (PeakSeen /\ PeakCovers)'
  BY <1>4, PoolAssumption DEF ScanTake, Goto, Disturb, stats, locals, gpu, TypeOK, PeakSeen, PeakCovers
<1>5. ASSUME NEW t \in Threads, ReleaseMisaligned(t)
     PROVE  (PeakSeen /\ PeakCovers)'
  BY <1>5, PoolAssumption DEF ReleaseMisaligned, Goto, Disturb, stats, gpu, TypeOK, PeakSeen, PeakCovers
<1>6. ASSUME NEW t \in Threads, ScanNone(t)
     PROVE  (PeakSeen /\ PeakCovers)'
  BY <1>6, PoolAssumption DEF ScanNone, Return, stats, gpu, Goto, TypeOK, PeakSeen, PeakCovers
<1>7. ASSUME NEW t \in Threads, RaiseInFlight(t)
     PROVE  (PeakSeen /\ PeakCovers)'
  BY <1>7, PoolAssumption DEF RaiseInFlight, Goto, gpu, TypeOK, PeakSeen, PeakCovers
<1>8. ASSUME NEW t \in Threads, LoadPeak(t)
     PROVE  (PeakSeen /\ PeakCovers)'
  BY <1>8, PoolAssumption DEF LoadPeak, Goto, stats, gpu, TypeOK, PeakSeen, PeakCovers
<1>9. ASSUME NEW t \in Threads, PeakDone(t)
     PROVE  (PeakSeen /\ PeakCovers)'
  <2>1. current[t] \in Int /\ peak[t] \in Int /\ peak_in_flight \in Int /\ in_flight' = in_flight
    BY <1>9 DEF PeakDone, TypeOK
  <2>2. current[t] <= peak_in_flight' /\ peak_in_flight <= peak_in_flight' /\ peak_in_flight' \in Int
    BY <1>9, <2>1 DEF PeakDone, PeakSeen
  <2>3. \A u \in Threads : pc'[u] \in {"load_peak", "swap_peak"} <=> u # t /\ pc[u] \in {"load_peak", "swap_peak"}
    BY <1>9 DEF PeakDone, Recorded, Goto, Return, TypeOK
  <2>4. \A u \in Threads \ {t} : pc'[u] = pc[u] /\ peak'[u] = peak[u] /\ current'[u] = current[u]
    BY <1>9 DEF PeakDone, Recorded, Goto, Return, locals, TypeOK
  <2>5. PeakSeen'
    BY <2>2, <2>3, <2>4 DEF PeakSeen, TypeOK
  <2>6. PeakCovers'
    <3>1. CASE in_flight <= peak_in_flight
      BY <3>1, <2>1, <2>2 DEF PeakCovers, TypeOK
    <3>2. ASSUME NEW u \in Threads, pc[u] \in {"load_peak", "swap_peak"}, in_flight <= current[u]
          PROVE  PeakCovers'
      <4>1. CASE u = t
        BY <3>2, <4>1, <2>1, <2>2 DEF PeakCovers, TypeOK
      <4>2. CASE u # t
        BY <3>2, <4>2, <2>1, <2>3, <2>4 DEF PeakCovers
      <4>3. QED
        BY <4>1, <4>2
    <3>3. QED
      BY <3>1, <3>2 DEF PeakCovers
  <2>7. QED
    BY <2>5, <2>6
<1>10. ASSUME NEW t \in Threads, PeakRaced(t)
     PROVE  (PeakSeen /\ PeakCovers)'
  BY <1>10, PoolAssumption DEF PeakRaced, stats, gpu, TypeOK, PeakSeen, PeakCovers
<1>11. ASSUME NEW t \in Threads, GpuAlloc(t)
     PROVE  (PeakSeen /\ PeakCovers)'
  BY <1>11, PoolAssumption DEF GpuAlloc, Return, stats, Goto, TypeOK, PeakSeen, PeakCovers
<1>12. ASSUME NEW t \in Threads, GpuAllocFails(t)
     PROVE  (PeakSeen /\ PeakCovers)'
  BY <1>12, PoolAssumption DEF GpuAllocFails, Goto, stats, gpu, TypeOK, PeakSeen, PeakCovers
<1>13. ASSUME NEW t \in Threads, FreeSlot(t)
     PROVE  (PeakSeen /\ PeakCovers)'
  BY <1>13, PoolAssumption DEF FreeSlot, Goto, Disturb, stats, locals, gpu, TypeOK, PeakSeen, PeakCovers
<1>14. ASSUME NEW t \in Threads, LowerInFlight(t)
     PROVE  (PeakSeen /\ PeakCovers)'
  <2>1. in_flight' = in_flight - 1 /\ peak_in_flight' = peak_in_flight
    BY <1>14 DEF LowerInFlight
  <2>2. pc'[t] = "idle" /\ \A u \in Threads \ {t} : pc'[u] = pc[u] /\ peak'[u] = peak[u] /\ current'[u] = current[u]
    BY <1>14 DEF LowerInFlight, Return, Goto, TypeOK
  <2>3. PeakSeen'
    BY <2>1, <2>2 DEF PeakSeen
  <2>4. PeakCovers'
    <3>1. CASE in_flight <= peak_in_flight
      BY <3>1, <2>1 DEF PeakCovers, TypeOK
    <3>2. ASSUME NEW u \in Threads, pc[u] \in {"load_peak", "swap_peak"}, in_flight <= current[u]
          PROVE  PeakCovers'
      <4>1. u # t /\ current[u] \in Int /\ in_flight \in Int
        BY <3>2, <1>14 DEF LowerInFlight, TypeOK
      <4>2. in_flight - 1 <= current[u]
        BY <3>2, <4>1
      <4>3. QED
        BY <3>2, <4>1, <4>2, <2>1, <2>2 DEF PeakCovers
    <3>3. QED
      BY <3>1, <3>2 DEF PeakCovers
  <2>5. QED
    BY <2>3, <2>4
<1>15. ASSUME NEW t \in Threads, NEW s \in Slots, DropHandle(t, s)
     PROVE  (PeakSeen /\ PeakCovers)'
  BY <1>15, PoolAssumption DEF DropHandle, Goto, stats, gpu, TypeOK, PeakSeen, PeakCovers
<1>16. CASE DropGpuPool
  BY <1>16, PoolAssumption DEF DropGpuPool, stats, locals, TypeOK, PeakSeen, PeakCovers
<1>17. CASE DropPool
  BY <1>17, PoolAssumption DEF DropPool, stats, locals, gpu, TypeOK, PeakSeen, PeakCovers
<1>18. QED
  BY <1>1, <1>2, <1>3, <1>4, <1>5, <1>6, <1>7, <1>8, <1>9, <1>10, <1>11, <1>12, <1>13, <1>14, <1>15, <1>16, <1>17 DEF Next, ThreadStep, RecordAlloc

\* Another thread that frees a slot disturbs the scan; its own releases do not
\* concern it.
LEMMA QuietStep ==
    ASSUME TypeOK, QuietSoFar, [Next]_vars
    PROVE  QuietSoFar'
<1>1. CASE UNCHANGED vars
  BY <1>1 DEF vars, stats, locals, gpu, TypeOK, QuietSoFar, Suits, Misfit, Slots, Scanning
<1>2. ASSUME NEW t \in Threads, NEW k \in {"any", "aligned", "gpu"}, AllocBegin(t, k)
     PROVE  QuietSoFar'
  BY <1>2, PoolAssumption DEF AllocBegin, Goto, stats, gpu, TypeOK, QuietSoFar, Suits, Misfit, Slots, Scanning
<1>3. ASSUME NEW t \in Threads, ScanTaken(t)
     PROVE  QuietSoFar'
  BY <1>3, PoolAssumption DEF ScanTaken, stats, gpu, TypeOK, QuietSoFar, Suits, Misfit, Slots, Scanning
<1>4. ASSUME NEW t \in Threads, ScanTake(t)
     PROVE  QuietSoFar'
  BY <1>4, PoolAssumption DEF ScanTake, Goto, Disturb, stats, locals, gpu, TypeOK, QuietSoFar, Suits, Misfit, Slots, Scanning
<1>5. ASSUME NEW t \in Threads, ReleaseMisaligned(t)
     PROVE  QuietSoFar'
  <2>1. slot[t] \in Slots /\ slot[t] \in Int /\ Misfit(t) /\ slot'[t] = slot[t] + 1
    <3>1. slot[t] \in Slots /\ Misfit(t) /\ slot'[t] = slot[t] + 1
      BY <1>5 DEF ReleaseMisaligned, QuietSoFar, TypeOK
    <3>2. QED
      BY <3>1, PoolAssumption DEF Slots
  <2>2. pc'[t] = "scan" /\ kind' = kind /\ \A u \in Threads \ {t} : pc'[u] = pc[u] /\ ~quiet'[u]
    BY <1>5 DEF ReleaseMisaligned, Goto, Disturb, TypeOK
  <2>3. quiet'[t] = quiet[t] /\ \A s \in Slots : s # slot[t] => allocated'[s] = allocated[s]
    BY <1>5 DEF ReleaseMisaligned, Disturb, TypeOK
  <2>4. \A u \in Threads : pc'[u] = "misaligned" => Misfit(u)'
    BY <1>5, <2>2 DEF ReleaseMisaligned, QuietSoFar, Misfit, TypeOK
  <2>5. ASSUME quiet[t], NEW s \in Slots, s < slot[t] + 1, Suits(t, s)
        PROVE  allocated'[s]
    <3>1. s # slot[t]
      BY <2>1, <2>5 DEF Misfit, Suits
    <3>2. s < slot[t]
      BY <3>1, <2>1, <2>5 DEF Slots
    <3>3. QED
      BY <3>1, <3>2, <2>3, <2>5, <1>5 DEF ReleaseMisaligned, QuietSoFar, Scanning
  <2>6. \A s \in Slots : Suits(t, s)' <=> Suits(t, s)
    BY <2>2 DEF Suits
  <2>7. \A u \in Threads : quiet'[u] => u = t
    BY <2>2
  <2>8. QED
    BY <2>1, <2>2, <2>3, <2>4, <2>5, <2>6, <2>7 DEF QuietSoFar
<1>6. ASSUME NEW t \in Threads, ScanNone(t)
     PROVE  QuietSoFar'
  BY <1>6, PoolAssumption DEF ScanNone, Return, stats, gpu, Goto, TypeOK, QuietSoFar, Suits, Misfit, Slots, Scanning
<1>7. ASSUME NEW t \in Threads, RaiseInFlight(t)
     PROVE  QuietSoFar'
  BY <1>7, PoolAssumption DEF RaiseInFlight, Goto, gpu, TypeOK, QuietSoFar, Suits, Misfit, Slots, Scanning
<1>8. ASSUME NEW t \in Threads, LoadPeak(t)
     PROVE  QuietSoFar'
  BY <1>8, PoolAssumption DEF LoadPeak, Goto, stats, gpu, TypeOK, QuietSoFar, Suits, Misfit, Slots, Scanning
<1>9. ASSUME NEW t \in Threads, PeakDone(t)
     PROVE  QuietSoFar'
  BY <1>9, PoolAssumption DEF PeakDone, Recorded, Goto, Return, locals, TypeOK, QuietSoFar, Suits, Misfit, Slots, Scanning
<1>10. ASSUME NEW t \in Threads, PeakRaced(t)
     PROVE  QuietSoFar'
  BY <1>10, PoolAssumption DEF PeakRaced, stats, gpu, TypeOK, QuietSoFar, Suits, Misfit, Slots, Scanning
<1>11. ASSUME NEW t \in Threads, GpuAlloc(t)
     PROVE  QuietSoFar'
  BY <1>11, PoolAssumption DEF GpuAlloc, Return, stats, Goto, TypeOK, QuietSoFar, Suits, Misfit, Slots, Scanning
<1>12. ASSUME NEW t \in Threads, GpuAllocFails(t)
     PROVE  QuietSoFar'
  BY <1>12, PoolAssumption DEF GpuAllocFails, Goto, stats, gpu, TypeOK, QuietSoFar, Suits, Misfit, Slots, Scanning
<1>13. ASSUME NEW t \in Threads, FreeSlot(t)
     PROVE  QuietSoFar'
  BY <1>13, PoolAssumption DEF FreeSlot, Goto, Disturb, stats, locals, gpu, TypeOK, QuietSoFar, Suits, Misfit, Slots, Scanning
<1>14. ASSUME NEW t \in Threads, LowerInFlight(t)
     PROVE  QuietSoFar'
  BY <1>14, PoolAssumption DEF LowerInFlight, Return, gpu, Goto, TypeOK, QuietSoFar, Suits, Misfit, Slots, Scanning
<1>15. ASSUME NEW t \in Threads, NEW s \in Slots, DropHandle(t, s)
     PROVE  QuietSoFar'
  BY <1>15, PoolAssumption DEF DropHandle, Goto, stats, gpu, TypeOK, QuietSoFar, Suits, Misfit, Slots, Scanning
<1>16. CASE DropGpuPool
  BY <1>16, PoolAssumption DEF DropGpuPool, stats, locals, TypeOK, QuietSoFar, Suits, Misfit, Slots, Scanning
<1>17. CASE DropPool
  BY <1>17, PoolAssumption DEF DropPool, stats, locals, gpu, TypeOK, QuietSoFar, Suits, Misfit, Slots, Scanning
<1>18. QED
  BY <1>1, <1>2, <1>3, <1>4, <1>5, <1>6, <1>7, <1>8, <1>9, <1>10, <1>11, <1>12, <1>13, <1>14, <1>15, <1>16, <1>17 DEF Next, ThreadStep, RecordAlloc

\* Every step keeps the map of device pointers sound.
LEMMA GpuStep ==
    ASSUME TypeOK, GpuMapped, [Next]_vars
    PROVE  GpuMapped'
<1>1. CASE UNCHANGED vars
  BY <1>1 DEF vars, stats, locals, gpu, TypeOK, GpuMapped
<1>2. ASSUME NEW t \in Threads, NEW k \in {"any", "aligned", "gpu"}, AllocBegin(t, k)
     PROVE  GpuMapped'
  BY <1>2, PoolAssumption DEF AllocBegin, Goto, stats, gpu, TypeOK, GpuMapped
<1>3. ASSUME NEW t \in Threads, ScanTaken(t)
     PROVE  GpuMapped'
  BY <1>3, PoolAssumption DEF ScanTaken, stats, gpu, TypeOK, GpuMapped
<1>4. ASSUME NEW t \in Threads, ScanTake(t)
     PROVE  GpuMapped'
  BY <1>4, PoolAssumption DEF ScanTake, Goto, Disturb, stats, locals, gpu, TypeOK, GpuMapped
<1>5. ASSUME NEW t \in Threads, ReleaseMisaligned(t)
     PROVE  GpuMapped'
  BY <1>5, PoolAssumption DEF ReleaseMisaligned, Goto, Disturb, stats, gpu, TypeOK, GpuMapped
<1>6. ASSUME NEW t \in Threads, ScanNone(t)
     PROVE  GpuMapped'
  BY <1>6, PoolAssumption DEF ScanNone, Return, stats, gpu, Goto, TypeOK, GpuMapped
<1>7. ASSUME NEW t \in Threads, RaiseInFlight(t)
     PROVE  GpuMapped'
  BY <1>7, PoolAssumption DEF RaiseInFlight, Goto, gpu, TypeOK, GpuMapped
<1>8. ASSUME NEW t \in Threads, LoadPeak(t)
     PROVE  GpuMapped'
  BY <1>8, PoolAssumption DEF LoadPeak, Goto, stats, gpu, TypeOK, GpuMapped
<1>9. ASSUME NEW t \in Threads, PeakDone(t)
     PROVE  GpuMapped'
  BY <1>9, PoolAssumption DEF PeakDone, Recorded, Goto, Return, locals, TypeOK, GpuMapped
<1>10. ASSUME NEW t \in Threads, PeakRaced(t)
     PROVE  GpuMapped'
  BY <1>10, PoolAssumption DEF PeakRaced, stats, gpu, TypeOK, GpuMapped
<1>11. ASSUME NEW t \in Threads, GpuAlloc(t)
     PROVE  GpuMapped'
  <2>1. PICK p \in GpuPtrs \ gpu_live :
            gpu_live' = gpu_live \cup {p} /\ gpu_bufs' = [gpu_bufs EXCEPT ![slot[t]] = p]
    BY <1>11 DEF GpuAlloc
  <2>2. slot[t] \in Slots /\ p # 0 /\ pool' = pool /\ for_gpu' = for_gpu \cup {slot[t]}
    BY <1>11, PoolAssumption DEF GpuAlloc, TypeOK
  <2>3. gpu_bufs'[slot[t]] = p /\ \A s \in Slots : s # slot[t] => gpu_bufs'[s] = gpu_bufs[s]
    BY <2>1, <2>2 DEF TypeOK
  <2>4. QED
    BY <2>1, <2>2, <2>3 DEF GpuMapped, TypeOK
<1>12. ASSUME NEW t \in Threads, GpuAllocFails(t)
     PROVE  GpuMapped'
  BY <1>12, PoolAssumption DEF GpuAllocFails, Goto, stats, gpu, TypeOK, GpuMapped
<1>13. ASSUME NEW t \in Threads, FreeSlot(t)
     PROVE  GpuMapped'
  BY <1>13, PoolAssumption DEF FreeSlot, Goto, Disturb, stats, locals, gpu, TypeOK, GpuMapped
<1>14. ASSUME NEW t \in Threads, LowerInFlight(t)
     PROVE  GpuMapped'
  BY <1>14, PoolAssumption DEF LowerInFlight, Return, gpu, Goto, TypeOK, GpuMapped
<1>15. ASSUME NEW t \in Threads, NEW s \in Slots, DropHandle(t, s)
     PROVE  GpuMapped'
  BY <1>15, PoolAssumption DEF DropHandle, Goto, stats, gpu, TypeOK, GpuMapped
<1>16. CASE DropGpuPool
  BY <1>16, PoolAssumption DEF DropGpuPool, stats, locals, TypeOK, GpuMapped
<1>17. CASE DropPool
  BY <1>17, PoolAssumption DEF DropPool, stats, locals, gpu, TypeOK, GpuMapped
<1>18. QED
  BY <1>1, <1>2, <1>3, <1>4, <1>5, <1>6, <1>7, <1>8, <1>9, <1>10, <1>11, <1>12, <1>13, <1>14, <1>15, <1>16, <1>17 DEF Next, ThreadStep, RecordAlloc

\* The sets that in_flight counts are finite.
LEMMA CountedFinite ==
    /\ IsFiniteSet(Counted) /\ Cardinality(Counted) \in Nat
    /\ IsFiniteSet(Uncounted) /\ Cardinality(Uncounted) \in Nat
<1>1. IsFiniteSet(Slots)
  BY PoolAssumption, FS_Interval DEF Slots
<1>2. Counted \subseteq Slots /\ Uncounted \subseteq Threads
  BY DEF Counted, Uncounted
<1>3. QED
  BY <1>1, <1>2, PoolAssumption, FS_Subset, FS_CardinalityType

\* A thread in a counted place holds a slot that is counted.
CountedHere(t) == pc[t] \in {"load_peak", "swap_peak", "gpu_alloc", "free"}

\* Every step keeps in_flight exact: record_alloc raises it with the slot, and a
\* drop moves from the slot it frees to itself.
LEMMA InFlightStep ==
    ASSUME TypeOK, SlotsOwned, InFlightExact, [Next]_vars
    PROVE  InFlightExact'
<1>a. ASSUME in_flight' = in_flight, Counted' = Counted, Uncounted' = Uncounted
      PROVE  InFlightExact'
  BY <1>a DEF InFlightExact
<1>1. CASE UNCHANGED vars
  BY <1>1 DEF vars, stats, locals, InFlightExact, Counted, Uncounted, Owns
<1>2. ASSUME NEW t \in Threads, NEW k \in {"any", "aligned", "gpu"}, AllocBegin(t, k)
     PROVE  InFlightExact'
  <2>1. in_flight' = in_flight /\ handles' = handles
    BY <1>2 DEF AllocBegin, Goto, stats
  <2>2. \A u \in Threads, r \in Slots :
            (Owns(u, r) /\ CountedHere(u))' <=> Owns(u, r) /\ CountedHere(u)
    BY <1>2 DEF AllocBegin, Goto, stats, TypeOK, Owns, Recording, CountedHere
  <2>3. \A u \in Threads : pc'[u] = "lower" <=> pc[u] = "lower"
    BY <1>2 DEF AllocBegin, Goto, stats, TypeOK
  <2>4. Counted' = Counted
    BY <2>1, <2>2 DEF Counted, CountedHere
  <2>5. Uncounted' = Uncounted
    BY <2>3 DEF Uncounted
  <2>6. QED
    BY <2>1, <2>4, <2>5, <1>a
<1>3. ASSUME NEW t \in Threads, ScanTaken(t)
     PROVE  InFlightExact'
  <2>1. in_flight' = in_flight /\ handles' = handles
    BY <1>3 DEF ScanTaken, stats
  <2>2. \A u \in Threads, r \in Slots :
            (Owns(u, r) /\ CountedHere(u))' <=> Owns(u, r) /\ CountedHere(u)
    BY <1>3 DEF ScanTaken, stats, TypeOK, Owns, Recording, CountedHere
  <2>3. \A u \in Threads : pc'[u] = "lower" <=> pc[u] = "lower"
    BY <1>3 DEF ScanTaken, stats, TypeOK
  <2>4. Counted' = Counted
    BY <2>1, <2>2 DEF Counted, CountedHere
  <2>5. Uncounted' = Uncounted
    BY <2>3 DEF Uncounted
  <2>6. QED
    BY <2>1, <2>4, <2>5, <1>a
<1>4. ASSUME NEW t \in Threads, ScanTake(t)
     PROVE  InFlightExact'
  <2>1. in_flight' = in_flight /\ handles' = handles
    BY <1>4 DEF ScanTake, Goto, stats, locals
  <2>2. \A u \in Threads, r \in Slots :
            (Owns(u, r) /\ CountedHere(u))' <=> Owns(u, r) /\ CountedHere(u)
    BY <1>4 DEF ScanTake, Goto, stats, locals, TypeOK, Owns, Recording, CountedHere
  <2>3. \A u \in Threads : pc'[u] = "lower" <=> pc[u] = "lower"
    BY <1>4 DEF ScanTake, Goto, stats, locals, TypeOK
  <2>4. Counted' = Counted
    BY <2>1, <2>2 DEF Counted, CountedHere
  <2>5. Uncounted' = Uncounted
    BY <2>3 DEF Uncounted
  <2>6. QED
    BY <2>1, <2>4, <2>5, <1>a
<1>5. ASSUME NEW t \in Threads, ReleaseMisaligned(t)
     PROVE  InFlightExact'
  <2>1. in_flight' = in_flight /\ handles' = handles
    BY <1>5 DEF ReleaseMisaligned, Goto, stats
  <2>2. \A u \in Threads, r \in Slots :
            (Owns(u, r) /\ CountedHere(u))' <=> Owns(u, r) /\ CountedHere(u)
    BY <1>5 DEF ReleaseMisaligned, Goto, stats, TypeOK, Owns, Recording, CountedHere
  <2>3. \A u \in Threads : pc'[u] = "lower" <=> pc[u] = "lower"
    BY <1>5 DEF ReleaseMisaligned, Goto, stats, TypeOK
  <2>4. Counted' = Counted
    BY <2>1, <2>2 DEF Counted, CountedHere
  <2>5. Uncounted' = Uncounted
    BY <2>3 DEF Uncounted
  <2>6. QED
    BY <2>1, <2>4, <2>5, <1>a
<1>6. ASSUME NEW t \in Threads, ScanNone(t)
     PROVE  InFlightExact'
  <2>1. in_flight' = in_flight /\ handles' = handles
    BY <1>6 DEF ScanNone, Return, stats, Goto
  <2>2. \A u \in Threads, r \in Slots :
            (Owns(u, r) /\ CountedHere(u))' <=> Owns(u, r) /\ CountedHere(u)
    BY <1>6 DEF ScanNone, Return, stats, Goto, TypeOK, Owns, Recording, CountedHere
  <2>3. \A u \in Threads : pc'[u] = "lower" <=> pc[u] = "lower"
    BY <1>6 DEF ScanNone, Return, stats, Goto, TypeOK
  <2>4. Counted' = Counted
    BY <2>1, <2>2 DEF Counted, CountedHere
  <2>5. Uncounted' = Uncounted
    BY <2>3 DEF Uncounted
  <2>6. QED
    BY <2>1, <2>4, <2>5, <1>a
<1>7. ASSUME NEW t \in Threads, RaiseInFlight(t)
     PROVE  InFlightExact'
  <2>1. slot[t] \in Slots /\ Owns(t, slot[t]) /\ ~CountedHere(t) /\ in_flight' = in_flight + 1
    BY <1>7 DEF RaiseInFlight, TypeOK, Owns, Recording, CountedHere
  <2>2. slot[t] \notin Counted
    BY <2>1 DEF SlotsOwned, Counted, CountedHere
  <2>3. handles' = handles /\ slot' = slot
    BY <1>7 DEF RaiseInFlight
  <2>4. \A u \in Threads \ {t} : pc'[u] = pc[u]
    BY <1>7 DEF RaiseInFlight, Goto, TypeOK
  <2>5. pc[t] = "record" /\ pc'[t] = "load_peak"
    BY <1>7 DEF RaiseInFlight, Goto, TypeOK
  <2>6. Counted' = Counted \cup {slot[t]}
    BY <2>1, <2>3, <2>4, <2>5 DEF Counted, Owns, Recording
  <2>7. Uncounted' = Uncounted
    BY <2>4, <2>5 DEF Uncounted
  <2>8. Cardinality(Counted') = Cardinality(Counted) + 1
    BY <2>2, <2>6, CountedFinite, FS_AddElement
  <2>9. QED
    BY <2>1, <2>7, <2>8, CountedFinite DEF InFlightExact
<1>8. ASSUME NEW t \in Threads, LoadPeak(t)
     PROVE  InFlightExact'
  <2>1. in_flight' = in_flight /\ handles' = handles
    BY <1>8 DEF LoadPeak, Goto, stats
  <2>2. \A u \in Threads, r \in Slots :
            (Owns(u, r) /\ CountedHere(u))' <=> Owns(u, r) /\ CountedHere(u)
    BY <1>8 DEF LoadPeak, Goto, stats, TypeOK, Owns, Recording, CountedHere
  <2>3. \A u \in Threads : pc'[u] = "lower" <=> pc[u] = "lower"
    BY <1>8 DEF LoadPeak, Goto, stats, TypeOK
  <2>4. Counted' = Counted
    BY <2>1, <2>2 DEF Counted, CountedHere
  <2>5. Uncounted' = Uncounted
    BY <2>3 DEF Uncounted
  <2>6. QED
    BY <2>1, <2>4, <2>5, <1>a
<1>9. ASSUME NEW t \in Threads, PeakDone(t)
     PROVE  InFlightExact'
  <2>1. in_flight' = in_flight /\ slot[t] \in Slots /\ Owns(t, slot[t]) /\ CountedHere(t)
    BY <1>9 DEF PeakDone, Recorded, Goto, Return, locals, TypeOK, Owns, Recording, CountedHere
  <2>2. \A r \in Slots : handles'[r] = handles[r] \/ (r = slot[t] /\ handles'[r] > 0)
    BY <1>9, <2>1 DEF PeakDone, Recorded, Goto, Return, locals, TypeOK, SlotsOwned
  <2>3. \A u \in Threads \ {t}, r \in Slots :
            (Owns(u, r) /\ CountedHere(u))' <=> Owns(u, r) /\ CountedHere(u)
    BY <1>9 DEF PeakDone, Recorded, Goto, Return, locals, TypeOK, Owns, Recording, CountedHere
  <2>4. \A u \in Threads : pc'[u] = "lower" <=> pc[u] = "lower"
    BY <1>9 DEF PeakDone, Recorded, Goto, Return, locals, TypeOK
  <2>5. \A r \in Slots : r = slot[t] => handles'[r] > 0 \/ (Owns(t, r) /\ CountedHere(t))'
    BY <1>9, <2>1 DEF PeakDone, Recorded, Goto, Return, locals, TypeOK, SlotsOwned, Owns, Recording, CountedHere
  <2>6. \A r \in Slots : r # slot[t] => ~Owns(t, r)'
    BY <1>9, <2>1 DEF PeakDone, Recorded, Goto, Return, locals, TypeOK, Owns, Recording
  <2>7. Counted' = Counted
    <3>1. \A r \in Slots : r = slot[t] => r \in Counted /\ r \in Counted'
      BY <2>1, <2>5 DEF Counted, CountedHere
    <3>2. \A r \in Slots : r # slot[t] => handles'[r] = handles[r] /\ ~Owns(t, r) /\ ~Owns(t, r)'
      BY <2>2, <2>6 DEF Owns
    <3>3. \A r \in Slots : r # slot[t] => (r \in Counted' <=> r \in Counted)
      BY <3>2, <2>3 DEF Counted, CountedHere
    <3>4. Counted \subseteq Slots /\ Counted' \subseteq Slots
      BY DEF Counted
    <3>5. QED
      BY <3>1, <3>3, <3>4
  <2>8. Uncounted' = Uncounted
    BY <2>4 DEF Uncounted
  <2>9. QED
    BY <2>1, <2>7, <2>8, <1>a
<1>10. ASSUME NEW t \in Threads, PeakRaced(t)
     PROVE  InFlightExact'
  <2>1. in_flight' = in_flight /\ handles' = handles
    BY <1>10 DEF PeakRaced, stats
  <2>2. \A u \in Threads, r \in Slots :
            (Owns(u, r) /\ CountedHere(u))' <=> Owns(u, r) /\ CountedHere(u)
    BY <1>10 DEF PeakRaced, stats, TypeOK, Owns, Recording, CountedHere
  <2>3. \A u \in Threads : pc'[u] = "lower" <=> pc[u] = "lower"
    BY <1>10 DEF PeakRaced, stats, TypeOK
  <2>4. Counted' = Counted
    BY <2>1, <2>2 DEF Counted, CountedHere
  <2>5. Uncounted' = Uncounted
    BY <2>3 DEF Uncounted
  <2>6. QED
    BY <2>1, <2>4, <2>5, <1>a
<1>11. ASSUME NEW t \in Threads, GpuAlloc(t)
     PROVE  InFlightExact'
  <2>1. in_flight' = in_flight /\ slot[t] \in Slots /\ Owns(t, slot[t]) /\ CountedHere(t)
    BY <1>11 DEF GpuAlloc, Return, stats, Goto, TypeOK, Owns, Recording, CountedHere
  <2>2. \A r \in Slots : handles'[r] = handles[r] \/ (r = slot[t] /\ handles'[r] > 0)
    BY <1>11, <2>1 DEF GpuAlloc, Return, stats, Goto, TypeOK, SlotsOwned
  <2>3. \A u \in Threads \ {t}, r \in Slots :
            (Owns(u, r) /\ CountedHere(u))' <=> Owns(u, r) /\ CountedHere(u)
    BY <1>11 DEF GpuAlloc, Return, stats, Goto, TypeOK, Owns, Recording, CountedHere
  <2>4. \A u \in Threads : pc'[u] = "lower" <=> pc[u] = "lower"
    BY <1>11 DEF GpuAlloc, Return, stats, Goto, TypeOK
  <2>5. \A r \in Slots : r = slot[t] => handles'[r] > 0 \/ (Owns(t, r) /\ CountedHere(t))'
    BY <1>11, <2>1 DEF GpuAlloc, Return, stats, Goto, TypeOK, SlotsOwned, Owns, Recording, CountedHere
  <2>6. \A r \in Slots : r # slot[t] => ~Owns(t, r)'
    BY <1>11, <2>1 DEF GpuAlloc, Return, stats, Goto, TypeOK, Owns, Recording
  <2>7. Counted' = Counted
    <3>1. \A r \in Slots : r = slot[t] => r \in Counted /\ r \in Counted'
      BY <2>1, <2>5 DEF Counted, CountedHere
    <3>2. \A r \in Slots : r # slot[t] => handles'[r] = handles[r] /\ ~Owns(t, r) /\ ~Owns(t, r)'
      BY <2>2, <2>6 DEF Owns
    <3>3. \A r \in Slots : r # slot[t] => (r \in Counted' <=> r \in Counted)
      BY <3>2, <2>3 DEF Counted, CountedHere
    <3>4. Counted \subseteq Slots /\ Counted' \subseteq Slots
      BY DEF Counted
    <3>5. QED
      BY <3>1, <3>3, <3>4
  <2>8. Uncounted' = Uncounted
    BY <2>4 DEF Uncounted
  <2>9. QED
    BY <2>1, <2>7, <2>8, <1>a
<1>12. ASSUME NEW t \in Threads, GpuAllocFails(t)
     PROVE  InFlightExact'
  <2>1. in_flight' = in_flight /\ handles' = handles
    BY <1>12 DEF GpuAllocFails, Goto, stats
  <2>2. \A u \in Threads, r \in Slots :
            (Owns(u, r) /\ CountedHere(u))' <=> Owns(u, r) /\ CountedHere(u)
    BY <1>12 DEF GpuAllocFails, Goto, stats, TypeOK, Owns, Recording, CountedHere
  <2>3. \A u \in Threads : pc'[u] = "lower" <=> pc[u] = "lower"
    BY <1>12 DEF GpuAllocFails, Goto, stats, TypeOK
  <2>4. Counted' = Counted
    BY <2>1, <2>2 DEF Counted, CountedHere
  <2>5. Uncounted' = Uncounted
    BY <2>3 DEF Uncounted
  <2>6. QED
    BY <2>1, <2>4, <2>5, <1>a
<1>13. ASSUME NEW t \in Threads, FreeSlot(t)
     PROVE  InFlightExact'
  <2>1. slot[t] \in Slots /\ Owns(t, slot[t]) /\ CountedHere(t) /\ in_flight' = in_flight
    BY <1>13 DEF FreeSlot, stats, TypeOK, Owns, Recording, CountedHere
  <2>2. slot[t] \in Counted /\ t \notin Uncounted
    BY <2>1 DEF Counted, Uncounted, CountedHere
  <2>3. handles' = handles /\ slot' = slot /\ handles[slot[t]] = 0
    BY <1>13, <2>1 DEF FreeSlot, locals, SlotsOwned
  <2>4. \A u \in Threads \ {t} : pc'[u] = pc[u] /\ ~Owns(u, slot[t])
    BY <1>13, <2>1 DEF FreeSlot, Goto, TypeOK, SlotsOwned
  <2>5. pc[t] = "free" /\ pc'[t] = "lower"
    BY <1>13 DEF FreeSlot, Goto, TypeOK
  <2>6. Counted' = Counted \ {slot[t]}
    BY <2>1, <2>3, <2>4, <2>5 DEF Counted, Owns, Recording
  <2>7. Uncounted' = Uncounted \cup {t}
    BY <2>4, <2>5 DEF Uncounted
  <2>8. Cardinality(Counted') = Cardinality(Counted) - 1
    BY <2>2, <2>6, CountedFinite, FS_RemoveElement
  <2>9. Cardinality(Uncounted') = Cardinality(Uncounted) + 1
    BY <2>2, <2>7, CountedFinite, FS_AddElement
  <2>10. QED
    BY <2>1, <2>8, <2>9, CountedFinite DEF InFlightExact
<1>14. ASSUME NEW t \in Threads, LowerInFlight(t)
     PROVE  InFlightExact'
  <2>1. pc[t] = "lower" /\ pc'[t] = "idle" /\ in_flight' = in_flight - 1 /\ handles' = handles
    BY <1>14 DEF LowerInFlight, Return, Goto, TypeOK
  <2>2. \A u \in Threads \ {t} : pc'[u] = pc[u] /\ slot'[u] = slot[u]
    BY <1>14 DEF LowerInFlight, Return, Goto, TypeOK
  <2>3. Counted' = Counted
    BY <2>1, <2>2 DEF Counted, Owns, Recording
  <2>4. Uncounted' = Uncounted \ {t} /\ t \in Uncounted
    BY <2>1, <2>2 DEF Uncounted
  <2>5. Cardinality(Uncounted') = Cardinality(Uncounted) - 1
    BY <2>4, CountedFinite, FS_RemoveElement
  <2>6. QED
    BY <2>1, <2>3, <2>5, CountedFinite DEF InFlightExact
<1>15. ASSUME NEW t \in Threads, NEW s \in Slots, DropHandle(t, s)
     PROVE  InFlightExact'
  <2>1. in_flight' = in_flight /\ handles[s] = 1 /\ pc[t] = "idle" /\ pc'[t] = "free" /\ slot'[t] = s
    BY <1>15 DEF DropHandle, Goto, stats, TypeOK, SlotsOwned
  <2>2. \A u \in Threads \ {t} : pc'[u] = pc[u] /\ slot'[u] = slot[u]
    BY <1>15 DEF DropHandle, Goto, TypeOK
  <2>3. \A r \in Slots : r # s => handles'[r] = handles[r]
    BY <1>15 DEF DropHandle, TypeOK
  <2>4. s \in Counted /\ s \in Counted'
    BY <2>1 DEF Counted, Owns, Recording
  <2>5. \A r \in Slots : r # s => (r \in Counted' <=> r \in Counted)
    BY <2>1, <2>2, <2>3 DEF Counted, Owns, Recording
  <2>6. Counted \subseteq Slots /\ Counted' \subseteq Slots
    BY DEF Counted
  <2>7. Counted' = Counted
    BY <2>4, <2>5, <2>6
  <2>8. Uncounted' = Uncounted
    BY <2>1, <2>2 DEF Uncounted
  <2>9. QED
    BY <2>1, <2>7, <2>8, <1>a
<1>16. CASE DropGpuPool
  BY <1>16 DEF DropGpuPool, stats, locals, InFlightExact, Counted, Uncounted, Owns
<1>17. CASE DropPool
  BY <1>17 DEF DropPool, stats, locals, InFlightExact, Counted, Uncounted, Owns
<1>18. QED
  BY <1>1, <1>2, <1>3, <1>4, <1>5, <1>6, <1>7, <1>8, <1>9, <1>10, <1>11, <1>12, <1>13, <1>14, <1>15, <1>16, <1>17 DEF Next, ThreadStep, RecordAlloc

\* The inductive invariant: who owns a slot, what a thread saw of the peak, what
\* a quiet scan has passed.
IInv == /\ TypeOK /\ SlotsOwned /\ PeakSeen /\ PeakCovers /\ QuietSoFar /\ GpuMapped
        /\ InFlightExact

\* The pool starts with every slot free and nothing counted.
LEMMA IInvInit == Init => IInv
<1> SUFFICES ASSUME Init PROVE IInv
  OBVIOUS
<1>1. TypeOK
  BY PoolAssumption DEF Init, TypeOK, Slots
<1>2. SlotsOwned
  BY DEF Init, SlotsOwned, Owns, Recording
<1>3. PeakSeen /\ PeakCovers /\ QuietSoFar /\ GpuMapped
  BY DEF Init, PeakSeen, PeakCovers, QuietSoFar, GpuMapped, Scanning
<1>4. InFlightExact
  <2>1. Counted = {} /\ Uncounted = {}
    BY DEF Init, Counted, Uncounted, Owns, Recording
  <2>2. QED
    BY <2>1, FS_EmptySet DEF Init, InFlightExact
<1>5. QED
  BY <1>1, <1>2, <1>3, <1>4 DEF IInv

\* The invariant of the pool holds always, for every capacity and set of threads.
THEOREM Invariance == Spec => []IInv
<1>1. IInv /\ [Next]_vars => IInv'
  BY TypeStep, OwnedStep, PeakStep, QuietStep, GpuStep, InFlightStep DEF IInv
<1>2. QED
  BY <1>1, IInvInit, PTL DEF Spec

\* The types hold always.
THEOREM TypeCorrect == Spec => []TypeOK
<1>1. IInv => TypeOK
  BY DEF IInv
<1>2. QED
  BY <1>1, Invariance, PTL

\* alloc, alloc_aligned and the drops never share a buffer and never lose one.
THEOREM SlotsOwnedHolds == Spec => []SlotsOwned
<1>1. IInv => SlotsOwned
  BY DEF IInv
<1>2. QED
  BY <1>1, Invariance, PTL

\* in_flight counts the slots in use and the drops half done, exactly.
THEOREM InFlightExactHolds == Spec => []InFlightExact
<1>1. IInv => InFlightExact
  BY DEF IInv
<1>2. QED
  BY <1>1, Invariance, PTL

\* record_alloc's loop loses no peak, however many threads race.
THEOREM PeakCoversHolds == Spec => []PeakCovers
<1>1. IInv => PeakCovers
  BY DEF IInv
<1>2. QED
  BY <1>1, Invariance, PTL

\* PoolStats is right about what the threads do, together.
THEOREM StatsExactHolds == Spec => []StatsExact
<1>1. InFlightExact /\ PeakCovers => StatsExact
  BY DEF StatsExact
<1>2. QED
  BY <1>1, InFlightExactHolds, PeakCoversHolds, PTL

\* alloc returns None to a thread that was left alone only if nothing was there.
THEOREM QuietScanFindsHolds == Spec => []QuietScanFinds
<1>1. IInv => QuietScanFinds
  <2> SUFFICES ASSUME IInv, NEW t \in Threads, pc[t] = "scan", slot[t] \notin Slots, quiet[t],
                      NEW s \in Slots, Suits(t, s)
               PROVE  allocated[s]
    BY DEF QuietScanFinds
  <2>1. s < slot[t]
    BY PoolAssumption DEF IInv, TypeOK, Slots
  <2>2. QED
    BY <2>1 DEF IInv, QuietSoFar, Scanning
<1>2. QED
  BY <1>1, Invariance, PTL

\* The device pointers of a GpuDmaPool are live and its own.
THEOREM GpuMemoryOwnedHolds == Spec => []GpuMemoryOwned
<1>1. IInv => GpuMemoryOwned
  BY DEF IInv, GpuMapped, GpuMemoryOwned
<1>2. QED
  BY <1>1, Invariance, PTL
=============================================================================

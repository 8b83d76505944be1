------------------------- MODULE UringBackendProofs --------------------------
(***************************************************************************)
(* Proofs about UringBackend for rings of any size, any numbers of buffers *)
(* of a flow and of shots, and any number of flows.                        *)
(***************************************************************************)
EXTENDS UringBackend, FiniteSetTheorems, SequenceTheorems, TLAPS

\* A submission ring.
RingType(s) ==
    /\ s \in [head : Nat, tail : Nat, slot : [0 .. SqEntries - 1 -> SqeType \cup {NoSqe}]]
    /\ s.head <= s.tail

\* Every position that was ever published has been written.
Written(s) == \A p \in 0 .. s.tail - 1 : s.slot[p % SqEntries] \in SqeType

\* The SQEs published are n, no more than the ring holds, and they are those of
\* the buffers asked for.
Batch(s, n, buffers) ==
    /\ s.tail - s.head = n /\ n <= SqEntries
    /\ \A b \in buffers : \E p \in s.head .. s.tail - 1 :
          b = <<s.slot[p % SqEntries].user_data, s.slot[p % SqEntries].buf>>

\* None of them is multishot.
NoMulti(s) == \A p \in s.head .. s.tail - 1 : s.slot[p % SqEntries].kind # "multi"

\* A flow takes one position of the submission ring, whatever a vectored one
\* published for a while, and the kernel has had those before the head.
Positions ==
    /\ accepted = sq.head /\ Written(sq)
    /\ pc # "vectored" => sq.tail = next_ud - 1
    /\ pc = "vectored" =>
          /\ ~careful /\ vec.tail = next_ud - 2
          /\ sq.head <= vec.tail /\ vec.tail <= sq.tail
          /\ sq.slot[vec.tail % SqEntries] \in SqeType

\* Within the limits the ring holds the flows of the submit under way.
Handing ==
    careful => /\ Batch(sq, submitted, asked) /\ NoMulti(sq)
               /\ told \subseteq taken

\* The completion ring and the overflow list are what was posted and not reaped.
Ordered ==
    /\ cq.head = Len(reaped) /\ Len(posted) = cq.tail + Len(overflow)
    /\ \A i \in 1 .. Len(reaped) : reaped[i] = posted[i]
    /\ \A i \in cq.head + 1 .. cq.tail : cq.slot[(i - 1) % CqEntries] = posted[i]
    /\ \A i \in 1 .. Len(overflow) : overflow[i] = posted[cq.tail + i]
    /\ pc = "cqe" => cq.head < cq.tail

\* An operation that was accepted is armed or has ended, and it ends once.
Ending ==
    /\ \A a, b \in armed : a.seq = b.seq => a = b
    /\ \A i \in 1 .. Len(posted) : posted[i].seq < accepted
    /\ \A i, j \in 1 .. Len(posted) : i < j /\ posted[i].seq = posted[j].seq => posted[i].more
    /\ \A i \in 1 .. Len(posted), a \in armed : posted[i].seq = a.seq => posted[i].more
    /\ \A id \in 0 .. accepted - 1 :
          \/ \E a \in armed : a.seq = id
          \/ \E i \in 1 .. Len(posted) : posted[i].seq = id /\ ~posted[i].more

\* So many operations were accepted, and so many of them in_flight still counts.
Counted ==
    /\ IsFiniteSet(armed)
    /\ accepted = Cardinality(armed) + LastOnes(posted)
    /\ careful => in_flight - dec + LastOnes(reaped) = accepted

\* Within the limits the completion ring never gets full: it has room for every
\* completion there is or will be.
RoomKept == careful => Outstanding < CqEntries /\ overflow = << >>

IInv == TypeOK /\ Positions /\ Handing /\ Ordered /\ Ending /\ Counted /\ RoomKept

-----------------------------------------------------------------------------
(***************************************************************************)
(* Positions in a ring.                                                    *)
(***************************************************************************)

\* Division with remainder.
LEMMA DivMod ==
    ASSUME NEW n \in Nat \ {0}, NEW p \in Nat
    PROVE  p = n * (p \div n) + (p % n) /\ p \div n \in Nat
OBVIOUS

\* A multiple of n is at least n or at most zero.
LEMMA Multiple ==
    ASSUME NEW n \in Nat \ {0}, NEW d \in Int
    PROVE  (d >= 1 => n * d >= n) /\ (d <= 0 => n * d <= 0)
OBVIOUS

\* The factor n comes out of a difference.
LEMMA Distributes ==
    ASSUME NEW n \in Nat \ {0}, NEW x \in Int, NEW y \in Int
    PROVE  n * (x - y) = n * x - n * y
OBVIOUS

\* Two positions less than a ring apart have different slots.
LEMMA SlotsDiffer ==
    ASSUME NEW n \in Nat \ {0}, NEW p \in Nat, NEW q \in Nat, p < q, q < p + n
    PROVE  p % n # q % n
<1> DEFINE dp == p \div n
           dq == q \div n
           rp == p % n
           rq == q % n
           mp == n * dp
           mq == n * dq
<1>1. p = mp + rp /\ dp \in Nat
    BY DivMod
<1>2. q = mq + rq /\ dq \in Nat
    BY DivMod
<1>3. rp \in Int /\ rq \in Int
    OBVIOUS
<1>4. mp \in Int /\ mq \in Int /\ n * (dq - dp) = mq - mp /\ dq - dp \in Int
    BY <1>1, <1>2, Distributes
<1> HIDE DEF dp, dq, rp, rq, mp, mq
<1>5. SUFFICES ASSUME rp = rq PROVE FALSE
    BY DEF rp, rq
<1>6. n * (dq - dp) = q - p
    BY <1>1, <1>2, <1>3, <1>4, <1>5
<1> QED
    BY <1>6, <1>4, Multiple

\* A remainder of a small number is the number.
LEMMA SmallMod ==
    ASSUME NEW n \in Nat \ {0}, NEW p \in Int, 0 <= p, p < n
    PROVE  p % n = p
OBVIOUS

-----------------------------------------------------------------------------
(***************************************************************************)
(* The submission ring.                                                    *)
(***************************************************************************)

\* The slots of ring s once e is written at its tail.
Stores(s, slot, e) == slot = [s.slot EXCEPT ![s.tail % SqEntries] = e]

\* What that does: the other positions of the ring keep their entries.
Stored(s, slot, e) ==
    /\ slot \in [0 .. SqEntries - 1 -> SqeType \cup {NoSqe}]
    /\ slot[s.tail % SqEntries] = e
    /\ \A p \in Nat : slot[p % SqEntries] \in {e, s.slot[p % SqEntries]}
    /\ \A p \in Nat : p < s.tail /\ s.tail < p + SqEntries
          => slot[p % SqEntries] = s.slot[p % SqEntries]

\* Writing a slot.
LEMMA WriteSlot ==
    ASSUME NEW s, RingType(s), NEW e \in SqeType,
           NEW slot, Stores(s, slot, e)
    PROVE  Stored(s, slot, e)
<1>1. s.tail \in Nat /\ SqEntries \in Nat \ {0}
      /\ s.slot \in [0 .. SqEntries - 1 -> SqeType \cup {NoSqe}]
    BY RingAssumption DEF RingType
<1> DEFINE i == s.tail % SqEntries
<1>2. i \in 0 .. SqEntries - 1
    BY <1>1
<1>3. ASSUME NEW p \in Nat
      PROVE  /\ slot[p % SqEntries] \in {e, s.slot[p % SqEntries]}
             /\ p < s.tail /\ s.tail < p + SqEntries => slot[p % SqEntries] = s.slot[p % SqEntries]
    <2> DEFINE j == p % SqEntries
    <2>1. j \in 0 .. SqEntries - 1
        BY <1>1
    <2>2. p < s.tail /\ s.tail < p + SqEntries => j # i
        BY <1>1, SlotsDiffer
    <2>3. slot = [s.slot EXCEPT ![i] = e]
        BY DEF Stores
    <2> HIDE DEF i, j
    <2>4. /\ slot[j] \in {e, s.slot[j]}
          /\ j # i => slot[j] = s.slot[j]
        BY <2>1, <2>3, <1>1, <1>2
    <2> QED
        BY <2>2, <2>4 DEF j
<1>4. slot = [s.slot EXCEPT ![i] = e]
    BY DEF Stores
<1> HIDE DEF i
<1>5. slot \in [0 .. SqEntries - 1 -> SqeType \cup {NoSqe}] /\ slot[i] = e
    BY <1>1, <1>2, <1>4
<1> QED
    BY <1>3, <1>5 DEF i, Stored

\* What Push does to a ring.
LEMMA PushRing ==
    ASSUME NEW s, RingType(s), NEW e \in SqeType
    PROVE  /\ RingType(Push(s, e))
           /\ Push(s, e).head = s.head /\ Push(s, e).tail = s.tail + 1
           /\ Stores(s, Push(s, e).slot, e)
<1> DEFINE i == s.tail % SqEntries
<1>1. PICK h \in Nat, l \in Nat, f \in [0 .. SqEntries - 1 -> SqeType \cup {NoSqe}] :
           s = [head |-> h, tail |-> l, slot |-> f] /\ h <= l
    BY DEF RingType
<1>2. Push(s, e) = [s EXCEPT !.slot[i] = e, !.tail = @ + 1]
    BY DEF Push
<1> HIDE DEF i
<1>3. Push(s, e) = [head |-> h, tail |-> l + 1, slot |-> [f EXCEPT ![i] = e]]
    BY <1>1, <1>2
<1>4. [f EXCEPT ![i] = e] \in [0 .. SqEntries - 1 -> SqeType \cup {NoSqe}]
    <2> DEFINE g == [f EXCEPT ![i] = e]
    <2>1. Stores(s, g, e)
        BY <1>1 DEF Stores, i
    <2> HIDE DEF g
    <2>2. g \in [0 .. SqEntries - 1 -> SqeType \cup {NoSqe}]
        BY <2>1, WriteSlot DEF Stored
    <2> QED
        BY <2>2 DEF g
<1>5. s.head = h /\ s.tail = l /\ s.slot = f
    BY <1>1
<1>6. Push(s, e).head = h /\ Push(s, e).tail = l + 1 /\ Push(s, e).slot = [f EXCEPT ![i] = e]
    BY <1>3
<1>7. RingType(Push(s, e))
    <2> DEFINE g == [f EXCEPT ![i] = e]
               P == Push(s, e)
    <2>1. P = [head |-> h, tail |-> l + 1, slot |-> g]
          /\ g \in [0 .. SqEntries - 1 -> SqeType \cup {NoSqe}]
        BY <1>3, <1>4
    <2> HIDE DEF g, P
    <2>2. h \in Nat /\ l + 1 \in Nat /\ h <= l + 1
        BY <1>1
    <2>3. RingType(P)
        BY <2>1, <2>2 DEF RingType
    <2> QED
        BY <2>3 DEF P
<1> QED
    BY <1>5, <1>6, <1>7 DEF i, Stores

\* Publishing an SQE keeps what was published.
LEMMA PushKeeps ==
    ASSUME NEW s, RingType(s), NEW e \in SqeType, Written(s)
    PROVE  /\ Written(Push(s, e))
           /\ \A n \in Nat : \A B : Batch(s, n, B) /\ n < SqEntries
                 => Batch(Push(s, e), n + 1, B \cup {<<e.user_data, e.buf>>})
           /\ NoMulti(s) /\ e.kind # "multi" /\ s.tail - s.head < SqEntries => NoMulti(Push(s, e))
<1> DEFINE t == Push(s, e)
<1>1. /\ s.head \in Nat /\ s.tail \in Nat /\ s.head <= s.tail
      /\ t.head = s.head /\ t.tail = s.tail + 1
      /\ Stores(s, t.slot, e)
      /\ SqEntries \in Nat \ {0}
    BY PushRing, RingAssumption DEF RingType
<1>2. /\ t.slot[s.tail % SqEntries] = e
      /\ \A p \in Nat : t.slot[p % SqEntries] \in {e, s.slot[p % SqEntries]}
      /\ \A p \in Nat : p < s.tail /\ s.tail < p + SqEntries
            => t.slot[p % SqEntries] = s.slot[p % SqEntries]
    <2>1. Stored(s, t.slot, e)
        BY <1>1, WriteSlot
    <2> QED
        BY <2>1 DEF Stored
<1> HIDE DEF t
<1>3. Written(t)
    <2> SUFFICES ASSUME NEW p \in 0 .. t.tail - 1 PROVE t.slot[p % SqEntries] \in SqeType
        BY DEF Written
    <2>1. p \in Nat /\ (p = s.tail \/ p \in 0 .. s.tail - 1)
        BY <1>1
    <2> QED
        BY <2>1, <1>2 DEF Written
<1>4. ASSUME NEW n \in Nat, NEW B, Batch(s, n, B), n < SqEntries
      PROVE  Batch(t, n + 1, B \cup {<<e.user_data, e.buf>>})
    <2>1. s.tail - s.head = n
        BY <1>4 DEF Batch
    <2>2. t.tail - t.head = n + 1 /\ n + 1 <= SqEntries
        BY <2>1, <1>1, <1>4
    <2>3. ASSUME NEW b \in B \cup {<<e.user_data, e.buf>>}
          PROVE  \E p \in t.head .. t.tail - 1 :
                    b = <<t.slot[p % SqEntries].user_data, t.slot[p % SqEntries].buf>>
        <3>1. CASE b = <<e.user_data, e.buf>>
            <4>1. s.tail \in t.head .. t.tail - 1
                BY <1>1
            <4> QED
                BY <3>1, <4>1, <1>2
        <3>2. CASE b \in B
            <4>1. PICK p \in s.head .. s.tail - 1 :
                        b = <<s.slot[p % SqEntries].user_data, s.slot[p % SqEntries].buf>>
                BY <3>2, <1>4 DEF Batch
            <4>2. p \in Nat /\ p < s.tail /\ s.tail < p + SqEntries /\ p \in t.head .. t.tail - 1
                BY <2>1, <1>1, <1>4
            <4>3. t.slot[p % SqEntries] = s.slot[p % SqEntries]
                BY <4>2, <1>2
            <4> QED
                BY <4>1, <4>2, <4>3
        <3> QED
            BY <2>3, <3>1, <3>2
    <2> QED
        BY <2>2, <2>3 DEF Batch
<1>5. ASSUME NoMulti(s), e.kind # "multi", s.tail - s.head < SqEntries PROVE NoMulti(t)
    <2> SUFFICES ASSUME NEW p \in t.head .. t.tail - 1 PROVE t.slot[p % SqEntries].kind # "multi"
        BY DEF NoMulti
    <2>1. CASE p = s.tail
        BY <2>1, <1>2, <1>5
    <2>2. CASE p # s.tail
        <3>1. p \in s.head .. s.tail - 1 /\ p \in Nat /\ p < s.tail /\ s.tail < p + SqEntries
            BY <2>2, <1>1, <1>5
        <3> QED
            BY <3>1, <1>2, <1>5 DEF NoMulti
    <2> QED
        BY <2>1, <2>2
<1> QED
    BY <1>3, <1>4, <1>5 DEF t

-----------------------------------------------------------------------------
(***************************************************************************)
(* Completions to come.                                                    *)
(***************************************************************************)

\* The completions that the operations in A may still have.
Shots(A) == UNION {{<<a.seq, i>> : i \in 0 .. a.shots} : a \in A}

\* They are finitely many.
LEMMA ShotsFinite ==
    ASSUME NEW A, A \subseteq ArmedType
    PROVE  IsFiniteSet(Shots(A)) /\ Cardinality(Shots(A)) \in Nat
<1> DEFINE All == (0 .. MaxFlows - 1) \X (0 .. MaxShots)
<1>1. IsFiniteSet(0 .. MaxFlows - 1) /\ IsFiniteSet(0 .. MaxShots)
    BY FS_Interval, RingAssumption
<1>2. IsFiniteSet(All)
    BY <1>1, FS_Product
<1>3. Shots(A) \in SUBSET All
    <2> SUFFICES ASSUME NEW a \in A, NEW i \in 0 .. a.shots PROVE <<a.seq, i>> \in All
        BY DEF Shots
    <2>1. a.seq \in 0 .. MaxFlows - 1 /\ a.shots \in 0 .. MaxShots
        BY DEF ArmedType
    <2> QED
        BY <2>1, RingAssumption
<1>4. IsFiniteSet(Shots(A))
    BY <1>2, <1>3, FS_Subset
<1> QED
    BY <1>4, FS_CardinalityType

\* Outstanding in terms of Shots.
LEMMA OutstandingIs ==
    ASSUME TypeOK
    PROVE  /\ Outstanding = Cardinality(Shots(armed)) + (cq.tail - cq.head) + Len(overflow)
                            + (sq.tail - sq.head)
           /\ Cardinality(Shots(armed)) \in Nat
<1>1. armed \subseteq ArmedType
    BY DEF TypeOK
<1>2. Cardinality(Shots(armed)) \in Nat
    BY <1>1, ShotsFinite
<1> QED
    BY <1>2 DEF Outstanding, Shots

-----------------------------------------------------------------------------
(***************************************************************************)
(* submit before it enters the kernel.                                     *)
(***************************************************************************)

\* The submission ring is one.
LEMMA SqIsRing == TypeOK => RingType(sq)
BY DEF TypeOK, RingType

\* An SQE of a flow.
LEMMA SqeTyped ==
    ASSUME NEW ud \in 1 .. MaxFlows, NEW kind \in {"one", "multi", "cancel"},
           NEW target \in 0 .. MaxFlows, NEW bufs, NEW buf \in Nat
    PROVE  LET e == Sqe(Flow(ud, kind, bufs, target), buf)
           IN  e \in SqeType /\ e.user_data = ud /\ e.kind = kind /\ e.buf = buf
BY DEF Sqe, Flow, SqeType

\* What the steps that fill the ring leave alone.
Fills ==
    /\ UNCHANGED <<armed, accepted, taken, told, in_flight, cq, overflow, posted, reaped,
                   dec, min_complete, careful>>
    /\ pc' \in {"submit", "vectored"} /\ pc \in {"idle", "submit", "vectored"}
    /\ submitted' \in Nat

\* A step that fills the ring keeps the invariant if it keeps the ring.
LEMMA FillsKeeps ==
    ASSUME IInv, Fills, RingType(sq'), next_ud' \in 1 .. MaxFlows + 1,
           vec' \in [bufs : Nat, buf : Nat, tail : Nat], pc' # "vectored" => vec' = NoVec,
           Positions', Handing',
           careful => sq'.tail - sq'.head = sq.tail - sq.head + 1 /\ Outstanding + 1 < CqEntries
    PROVE  IInv'
<1>1. TypeOK'
    BY DEF IInv, TypeOK, Fills, RingType
<1>2. Ordered'
    BY DEF IInv, Ordered, Fills
<1>3. Ending'
    BY DEF IInv, Ending, Fills
<1>4. Counted'
    BY DEF IInv, Counted, Fills
<1>5. RoomKept'
    <2> SUFFICES ASSUME careful PROVE Outstanding' < CqEntries
        BY DEF IInv, RoomKept, Fills
    <2>1. sq.tail - sq.head \in Int /\ cq.tail - cq.head \in Int /\ Len(overflow) \in Int
        <3>1. overflow \in Seq(CqeType)
            BY DEF IInv, TypeOK
        <3> QED
            BY <3>1, LenProperties DEF IInv, TypeOK
    <2>2. /\ Outstanding = Cardinality(Shots(armed)) + (cq.tail - cq.head) + Len(overflow)
                             + (sq.tail - sq.head)
          /\ Cardinality(Shots(armed)) \in Nat
        BY OutstandingIs DEF IInv
    <2>3. Outstanding' = Cardinality(Shots(armed)) + (cq.tail - cq.head) + Len(overflow)
                             + (sq'.tail - sq'.head)
        BY DEF Outstanding, Shots, Fills
    <2> QED
        BY <2>1, <2>2, <2>3
<1> QED
    BY <1>1, <1>2, <1>3, <1>4, <1>5 DEF IInv

\* A turn for a flow of at most one buffer publishes its SQE.
LEMMA SubmitOneKeeps ==
    ASSUME IInv, NEW bufs \in BufCounts, SubmitOne(bufs)
    PROVE  IInv'
<1> DEFINE e == Sqe(Flow(next_ud, "one", bufs, 0), bufs)
<1>1. /\ bufs \in {0, 1} /\ next_ud \in 1 .. MaxFlows /\ next_ud' = next_ud + 1
      /\ pc \in {"idle", "submit"} /\ pc' = "submit" /\ vec' = vec
      /\ submitted \in Nat /\ submitted' = submitted + 1
    BY RingAssumption DEF SubmitOne, MaySubmit, IInv, TypeOK
<1>2. /\ e \in SqeType /\ e.user_data = next_ud /\ e.kind = "one" /\ e.buf = bufs
    BY <1>1, SqeTyped, RingAssumption
<1>3. BuffersOf(Flow(next_ud, "one", bufs, 0)) = {<<e.user_data, e.buf>>}
    <2>1. 1 .. 1 = {1}
        OBVIOUS
    <2>2. BuffersOf(Flow(next_ud, "one", bufs, 0)) = {<<next_ud, bufs>>}
        BY <1>1, <2>1 DEF BuffersOf, Flow
    <2> QED
        BY <2>2, <1>2
<1>4. sq' = Push(sq, e) /\ asked' = asked \cup {<<e.user_data, e.buf>>}
    BY <1>3 DEF SubmitOne
<1>5. Fills
    BY <1>1 DEF SubmitOne, MaySubmit, Fills
<1>6. careful => Outstanding + 1 < CqEntries /\ sq.tail - sq.head < SqEntries
    BY DEF SubmitOne, MaySubmit, Limits
<1> HIDE DEF e
<1>7. RingType(sq) /\ Written(sq)
    BY SqIsRing DEF IInv, Positions
<1>8. RingType(sq') /\ sq'.head = sq.head /\ sq'.tail = sq.tail + 1 /\ Written(sq')
    BY <1>2, <1>4, <1>7, PushRing, PushKeeps
<1>9. sq.head \in Nat /\ sq.tail \in Nat /\ sq.tail = next_ud - 1
    BY <1>1, <1>7 DEF IInv, Positions, RingType
<1>10. Positions'
    BY <1>1, <1>5, <1>8, <1>9 DEF IInv, Positions, Fills
<1>11. Handing'
    <2> SUFFICES ASSUME careful PROVE Batch(sq', submitted', asked') /\ NoMulti(sq') /\ told \subseteq taken
        BY <1>5 DEF Handing, Fills
    <2>1. Batch(sq, submitted, asked) /\ NoMulti(sq) /\ told \subseteq taken
        BY DEF IInv, Handing
    <2>2. sq.tail - sq.head < SqEntries /\ submitted < SqEntries
        BY <2>1, <1>6 DEF Batch
    <2>3. Batch(sq', submitted', asked')
        BY <2>1, <2>2, <1>1, <1>2, <1>4, <1>7, PushKeeps
    <2>4. NoMulti(sq')
        BY <2>1, <2>2, <1>2, <1>4, <1>7, PushKeeps
    <2> QED
        BY <2>1, <2>3, <2>4
<1>12. sq'.tail - sq'.head = sq.tail - sq.head + 1
    BY <1>8, <1>9
<1>13. vec' \in [bufs : Nat, buf : Nat, tail : Nat] /\ vec' = NoVec /\ next_ud' \in 1 .. MaxFlows + 1
    BY <1>1, RingAssumption DEF IInv, TypeOK
<1> QED
    BY <1>5, <1>6, <1>8, <1>10, <1>11, <1>12, <1>13, FillsKeeps

\* A turn for a vectored flow writes one SQE and leaves the tail alone.
LEMMA SubmitVectoredKeeps ==
    ASSUME IInv, NEW bufs \in BufCounts, SubmitVectored(bufs)
    PROVE  IInv'
<1> DEFINE e == Sqe(Flow(next_ud, "one", bufs, 0), 1)
<1>1. /\ bufs \in Nat /\ bufs > 1 /\ next_ud \in 1 .. MaxFlows /\ next_ud' = next_ud + 1
      /\ pc \in {"idle", "submit"} /\ pc' = "vectored" /\ ~careful
      /\ submitted \in Nat /\ submitted' = submitted
      /\ vec' = [bufs |-> bufs, buf |-> 1, tail |-> sq.tail]
    <2>1. bufs \in Nat /\ bufs > 1 /\ next_ud \in 1 .. MaxFlows + 1 /\ submitted \in Nat
        BY RingAssumption DEF SubmitVectored, IInv, TypeOK
    <2>2. ~careful
        BY <2>1 DEF SubmitVectored, MaySubmit, Limits
    <2>3. next_ud <= MaxFlows /\ MaxFlows \in Nat
        BY RingAssumption DEF SubmitVectored, MaySubmit
    <2> QED
        BY <2>1, <2>2, <2>3 DEF SubmitVectored, MaySubmit
<1>2. e \in SqeType
    BY <1>1, SqeTyped, RingAssumption
<1>3. sq' = [sq EXCEPT !.slot[sq.tail % SqEntries] = e]
    BY DEF SubmitVectored
<1>4. Fills
    BY <1>1 DEF SubmitVectored, MaySubmit, Fills
<1> HIDE DEF e
<1>5. RingType(sq) /\ Written(sq)
    BY SqIsRing DEF IInv, Positions
<1>6. sq.head \in Nat /\ sq.tail \in Nat /\ sq.head <= sq.tail /\ sq.tail = next_ud - 1
    BY <1>1, <1>5 DEF IInv, Positions, RingType
<1>7. Stored(sq, sq'.slot, e) /\ RingType(sq') /\ sq'.head = sq.head /\ sq'.tail = sq.tail
    <2> DEFINE i == sq.tail % SqEntries
    <2>1. PICK f \in [0 .. SqEntries - 1 -> SqeType \cup {NoSqe}] :
             sq = [head |-> sq.head, tail |-> sq.tail, slot |-> f]
        BY <1>5 DEF RingType
    <2>2. sq' = [sq EXCEPT !.slot[i] = e]
        BY <1>3
    <2> HIDE DEF i
    <2>3. sq' = [head |-> sq.head, tail |-> sq.tail, slot |-> [f EXCEPT ![i] = e]]
        BY <2>1, <2>2
    <2>4. sq'.head = sq.head /\ sq'.tail = sq.tail /\ sq'.slot = [f EXCEPT ![i] = e] /\ sq.slot = f
        BY <2>1, <2>3
    <2>5. Stores(sq, sq'.slot, e)
        BY <2>4 DEF Stores, i
    <2>6. Stored(sq, sq'.slot, e)
        BY <2>5, <1>2, <1>5, WriteSlot
    <2>7. sq'.slot \in [0 .. SqEntries - 1 -> SqeType \cup {NoSqe}]
        BY <2>6 DEF Stored
    <2>8. sq' = [head |-> sq.head, tail |-> sq.tail, slot |-> sq'.slot]
        BY <2>3, <2>4
    <2> QED
        BY <2>4, <2>6, <2>7, <2>8, <1>6 DEF RingType
<1>8. Written(sq') /\ sq'.slot[sq.tail % SqEntries] \in SqeType
    <2>1. \A p \in Nat : sq'.slot[p % SqEntries] \in {e, sq.slot[p % SqEntries]}
        BY <1>7 DEF Stored
    <2>2. sq'.slot[sq.tail % SqEntries] = e
        BY <1>7 DEF Stored
    <2>3. ASSUME NEW p \in 0 .. sq'.tail - 1 PROVE sq'.slot[p % SqEntries] \in SqeType
        <3>1. p \in Nat /\ p \in 0 .. sq.tail - 1
            BY <1>6, <1>7
        <3> QED
            BY <3>1, <2>1, <1>2, <1>5 DEF Written
    <2> QED
        BY <2>2, <2>3, <1>2 DEF Written
<1>9. Positions'
    <2>1. accepted' = sq'.head /\ ~careful'
        BY <1>1, <1>4, <1>7 DEF IInv, Positions, Fills
    <2>2. vec'.tail = sq.tail
        BY <1>1
    <2> QED
        BY <2>1, <2>2, <1>1, <1>6, <1>7, <1>8 DEF Positions
<1>10. Handing'
    BY <1>1, <1>4 DEF Handing, Fills
<1>11. vec' \in [bufs : Nat, buf : Nat, tail : Nat] /\ next_ud' \in 1 .. MaxFlows + 1
    BY <1>1, <1>6, RingAssumption
<1> QED
    BY <1>1, <1>4, <1>7, <1>9, <1>10, <1>11, FillsKeeps

\* The inner loop publishes the SQE of one more buffer.
LEMMA SubmitBufferKeeps ==
    ASSUME IInv, SubmitBuffer
    PROVE  IInv'
<1> DEFINE e == Sqe(Flow(next_ud - 1, "one", vec.bufs, 0), vec.buf + 1)
<1>1. RingType(sq) /\ Written(sq)
    BY SqIsRing DEF IInv, Positions
<1>2. /\ pc = "vectored" /\ pc' = pc /\ next_ud' = next_ud /\ vec' = [vec EXCEPT !.buf = @ + 1]
      /\ submitted \in Nat /\ submitted' = submitted + 1
      /\ vec \in [bufs : Nat, buf : Nat, tail : Nat] /\ next_ud \in 1 .. MaxFlows + 1
    BY DEF SubmitBuffer, IInv, TypeOK, caller
<1>3. /\ ~careful /\ vec.tail = next_ud - 2 /\ accepted = sq.head
      /\ sq.head <= vec.tail /\ vec.tail <= sq.tail
      /\ sq.slot[vec.tail % SqEntries] \in SqeType
    BY <1>2 DEF IInv, Positions
<1>4. vec' \in [bufs : Nat, buf : Nat, tail : Nat] /\ vec'.tail = vec.tail /\ vec.tail \in Nat
      /\ vec.buf + 1 \in Nat
    BY <1>2
<1>5. next_ud - 1 \in 1 .. MaxFlows
    BY <1>2, <1>3, <1>4, RingAssumption
<1>6. e \in SqeType
    BY <1>4, <1>5, SqeTyped, RingAssumption
<1>7. sq' = Push(sq, e) /\ Fills
    BY <1>2 DEF SubmitBuffer, Fills, caller
<1> HIDE DEF e
<1>8. RingType(sq') /\ sq'.head = sq.head /\ sq'.tail = sq.tail + 1 /\ Written(sq')
      /\ Stored(sq, sq'.slot, e)
    BY <1>1, <1>6, <1>7, PushRing, PushKeeps, WriteSlot
<1>9. sq'.slot[vec.tail % SqEntries] \in SqeType
    BY <1>3, <1>4, <1>6, <1>8 DEF Stored
<1>10. Positions'
    <2>1. sq.head \in Nat /\ sq.tail \in Nat
        BY <1>1 DEF RingType
    <2>2. accepted' = sq'.head /\ ~careful'
        BY <1>3, <1>7, <1>8 DEF Fills
    <2> QED
        BY <2>1, <2>2, <1>2, <1>3, <1>4, <1>8, <1>9 DEF Positions
<1>11. Handing'
    BY <1>3, <1>7 DEF Handing, Fills
<1> QED
    BY <1>2, <1>3, <1>4, <1>7, <1>8, <1>10, <1>11, FillsKeeps

\* The end of the turn takes the tail back to one past the first SQE.
LEMMA SubmitVectoredEndKeeps ==
    ASSUME IInv, SubmitVectoredEnd
    PROVE  IInv'
<1>1. RingType(sq) /\ Written(sq)
    BY SqIsRing DEF IInv, Positions
<1>2. /\ pc = "vectored" /\ pc' = "submit" /\ next_ud' = next_ud /\ vec' = NoVec
      /\ submitted \in Nat /\ submitted' = submitted + 1
      /\ vec \in [bufs : Nat, buf : Nat, tail : Nat] /\ next_ud \in 1 .. MaxFlows + 1
      /\ sq' = [sq EXCEPT !.tail = vec.tail + 1]
    BY DEF SubmitVectoredEnd, IInv, TypeOK, caller
<1>3. /\ ~careful /\ vec.tail = next_ud - 2 /\ accepted = sq.head
      /\ sq.head <= vec.tail /\ vec.tail <= sq.tail
      /\ sq.slot[vec.tail % SqEntries] \in SqeType
    BY <1>2 DEF IInv, Positions
<1>4. vec.tail \in Nat /\ vec' \in [bufs : Nat, buf : Nat, tail : Nat]
    BY <1>2 DEF NoVec
<1>5. Fills
    BY <1>2 DEF SubmitVectoredEnd, Fills, caller
<1>6. sq'.head = sq.head /\ sq'.tail = vec.tail + 1 /\ sq'.slot = sq.slot /\ RingType(sq')
    BY <1>1, <1>2, <1>3, <1>4 DEF RingType
<1>7. Written(sq')
    <2> SUFFICES ASSUME NEW p \in 0 .. sq'.tail - 1 PROVE sq'.slot[p % SqEntries] \in SqeType
        BY DEF Written
    <2>1. CASE p = vec.tail
        BY <2>1, <1>3, <1>6
    <2>2. CASE p # vec.tail
        <3>1. p \in 0 .. sq.tail - 1
            BY <2>2, <1>1, <1>3, <1>4, <1>6 DEF RingType
        <3> QED
            BY <3>1, <1>1, <1>6 DEF Written
    <2> QED
        BY <2>1, <2>2
<1>8. Positions'
    <2>1. accepted' = sq'.head
        BY <1>3, <1>5, <1>6 DEF Fills
    <2> QED
        BY <2>1, <1>2, <1>3, <1>6, <1>7 DEF Positions
<1>9. Handing'
    BY <1>3, <1>5 DEF Handing, Fills
<1> QED
    BY <1>2, <1>3, <1>4, <1>5, <1>6, <1>8, <1>9, FillsKeeps

-----------------------------------------------------------------------------
(***************************************************************************)
(* Counting the operations that ended.                                     *)
(***************************************************************************)

\* Where the last completions are.
Lasts(s) == {i \in 1 .. Len(s) : ~s[i].more}

\* There are at most as many as there are completions.
LEMMA LastOnesType ==
    ASSUME NEW s \in Seq(CqeType)
    PROVE  /\ IsFiniteSet(Lasts(s)) /\ LastOnes(s) = Cardinality(Lasts(s))
           /\ LastOnes(s) \in Nat /\ LastOnes(s) <= Len(s) /\ Len(s) \in Nat
<1>1. Len(s) \in Nat
    BY LenProperties
<1>2. IsFiniteSet(1 .. Len(s)) /\ Cardinality(1 .. Len(s)) = Len(s)
    BY <1>1, FS_Interval
<1>3. Lasts(s) \in SUBSET (1 .. Len(s))
    BY DEF Lasts
<1>4. IsFiniteSet(Lasts(s)) /\ Cardinality(Lasts(s)) <= Cardinality(1 .. Len(s))
    BY <1>2, <1>3, FS_Subset
<1>5. Cardinality(Lasts(s)) \in Nat
    BY <1>4, FS_CardinalityType
<1> QED
    BY <1>1, <1>2, <1>4, <1>5 DEF LastOnes, Lasts

\* An empty sequence has none.
LEMMA LastOnesEmpty == LastOnes(<< >>) = 0
<1>1. Lasts(<< >>) = {}
    BY DEF Lasts
<1> QED
    BY <1>1, FS_EmptySet DEF LastOnes, Lasts

\* A completion more.
LEMMA LastOnesAppend ==
    ASSUME NEW s \in Seq(CqeType), NEW c \in CqeType
    PROVE  LastOnes(Append(s, c)) = LastOnes(s) + (IF c.more THEN 0 ELSE 1)
<1> DEFINE t == Append(s, c)
<1>1. /\ t \in Seq(CqeType) /\ Len(t) = Len(s) + 1 /\ t[Len(s) + 1] = c
      /\ \A i \in 1 .. Len(s) : t[i] = s[i]
    BY AppendProperties
<1>2. IsFiniteSet(Lasts(s)) /\ Len(s) \in Nat /\ LastOnes(s) = Cardinality(Lasts(s)) /\ LastOnes(s) \in Nat
    BY LastOnesType
<1>3. LastOnes(t) = Cardinality(Lasts(t))
    BY <1>1, LastOnesType
<1> HIDE DEF t
<1>4. CASE c.more
    <2>1. Lasts(t) = Lasts(s)
        BY <1>1, <1>2, <1>4 DEF Lasts
    <2> QED
        BY <2>1, <1>2, <1>3, <1>4 DEF t
<1>5. CASE ~c.more
    <2>1. Lasts(t) = Lasts(s) \cup {Len(s) + 1}
        BY <1>1, <1>2, <1>5 DEF Lasts
    <2>2. Len(s) + 1 \notin Lasts(s)
        BY <1>2 DEF Lasts
    <2>3. Cardinality(Lasts(t)) = Cardinality(Lasts(s)) + 1
        BY <2>1, <2>2, <1>2, FS_AddElement
    <2> QED
        BY <2>3, <1>2, <1>3, <1>5 DEF t
<1> QED
    BY <1>4, <1>5

\* Two sequences together.
LEMMA LastOnesConcat ==
    ASSUME NEW s \in Seq(CqeType), NEW t \in Seq(CqeType)
    PROVE  LastOnes(s \o t) = LastOnes(s) + LastOnes(t)
<1> DEFINE u == s \o t
           D == Lasts(u) \ Lasts(s)
           f == [i \in Lasts(t) |-> i + Len(s)]
<1>1. /\ u \in Seq(CqeType) /\ Len(u) = Len(s) + Len(t)
      /\ \A i \in 1 .. Len(s) + Len(t) : u[i] = IF i <= Len(s) THEN s[i] ELSE t[i - Len(s)]
    BY ConcatProperties
<1>2. /\ IsFiniteSet(Lasts(s)) /\ Len(s) \in Nat /\ LastOnes(s) = Cardinality(Lasts(s)) /\ LastOnes(s) \in Nat
      /\ IsFiniteSet(Lasts(t)) /\ Len(t) \in Nat /\ LastOnes(t) = Cardinality(Lasts(t)) /\ LastOnes(t) \in Nat
      /\ IsFiniteSet(Lasts(u)) /\ LastOnes(u) = Cardinality(Lasts(u)) /\ LastOnes(u) \in Nat
    BY <1>1, LastOnesType
<1> HIDE DEF u
<1>3. Lasts(s) \subseteq Lasts(u)
    BY <1>1, <1>2 DEF Lasts
<1>4. f \in Bijection(Lasts(t), D)
    <2>1. \A i \in Lasts(t) : f[i] = i + Len(s) /\ i \in 1 .. Len(t) /\ f[i] \in D
        <3> SUFFICES ASSUME NEW i \in Lasts(t)
                     PROVE  i + Len(s) \in Lasts(u) \ Lasts(s) /\ i \in 1 .. Len(t)
            OBVIOUS
        <3>1. i \in 1 .. Len(t) /\ ~t[i].more
            BY DEF Lasts
        <3>2. i + Len(s) \in 1 .. Len(s) + Len(t) /\ ~(i + Len(s) <= Len(s)) /\ i + Len(s) - Len(s) = i
            BY <3>1, <1>2
        <3>3. u[i + Len(s)] = t[i]
            <4> DEFINE j == i + Len(s)
            <4>1. j \in 1 .. Len(s) + Len(t) /\ ~(j <= Len(s)) /\ j - Len(s) = i
                BY <3>1, <1>2
            <4> HIDE DEF j
            <4>2. u[j] = t[j - Len(s)]
                BY <4>1, <1>1
            <4> QED
                BY <4>1, <4>2 DEF j
        <3> QED
            BY <3>1, <3>2, <3>3, <1>1 DEF Lasts
    <2>2. \A j \in D : j - Len(s) \in Lasts(t) /\ f[j - Len(s)] = j
        <3> SUFFICES ASSUME NEW j \in D PROVE j - Len(s) \in Lasts(t) /\ f[j - Len(s)] = j
            OBVIOUS
        <3>1. j \in 1 .. Len(s) + Len(t) /\ ~u[j].more /\ j > Len(s)
            BY <1>1, <1>2 DEF Lasts
        <3>2. j - Len(s) \in 1 .. Len(t) /\ u[j] = t[j - Len(s)]
            BY <3>1, <1>1, <1>2
        <3>3. j - Len(s) \in Lasts(t)
            BY <3>1, <3>2 DEF Lasts
        <3> QED
            BY <3>1, <3>3, <1>2
    <2>3. \A i, j \in Lasts(t) : f[i] = f[j] => i = j
        BY <2>1, <1>2
    <2>4. f \in [Lasts(t) -> D]
        BY <2>1
    <2> HIDE DEF f, D
    <2>5. f \in Injection(Lasts(t), D)
        BY <2>3, <2>4 DEF Injection, IsInjective
    <2>6. f \in Surjection(Lasts(t), D)
        BY <2>2, <2>4 DEF Surjection
    <2> QED
        BY <2>5, <2>6 DEF Bijection
<1>5. IsFiniteSet(D) /\ Cardinality(D) = Cardinality(Lasts(t))
    <2>1. ExistsBijection(Lasts(t), D)
        BY <1>4 DEF ExistsBijection
    <2> QED
        BY <2>1, <1>2, FS_Bijection
<1>6. Lasts(u) \cap Lasts(s) = Lasts(s)
    BY <1>3
<1>7. Cardinality(D) = Cardinality(Lasts(u)) - Cardinality(Lasts(s))
    <2>1. Cardinality(Lasts(u) \ Lasts(s)) = Cardinality(Lasts(u)) - Cardinality(Lasts(u) \cap Lasts(s))
        BY <1>2, FS_Difference
    <2> QED
        BY <2>1, <1>6
<1> QED
    BY <1>2, <1>5, <1>7 DEF u

\* The completions in the ring are a sequence.
LEMMA UnreapedType ==
    ASSUME TypeOK, Ordered
    PROVE  Unreaped \in Seq(CqeType) /\ Len(Unreaped) = cq.tail - cq.head
           /\ \A i \in 1 .. cq.tail - cq.head : Unreaped[i] = posted[cq.head + i]
<1>1. /\ cq.head \in Nat /\ cq.tail \in Nat /\ cq.tail - cq.head \in Nat
      /\ posted \in Seq(CqeType) /\ overflow \in Seq(CqeType)
    BY DEF TypeOK
<1>2. Len(posted) = cq.tail + Len(overflow) /\ Len(posted) \in Nat /\ Len(overflow) \in Nat
      /\ \A i \in 1 .. Len(posted) : posted[i] \in CqeType
    BY <1>1, LenProperties DEF Ordered
<1> DEFINE n == cq.tail - cq.head
<1>3. ASSUME NEW i \in 1 .. n
      PROVE  cq.slot[(cq.head + i - 1) % CqEntries] = posted[cq.head + i] /\ posted[cq.head + i] \in CqeType
    <2>1. cq.head + i \in cq.head + 1 .. cq.tail /\ cq.head + i \in 1 .. Len(posted)
        BY <1>1, <1>2
    <2> QED
        BY <2>1, <1>2 DEF Ordered
<1>4. Unreaped = [i \in 1 .. n |-> cq.slot[(cq.head + i - 1) % CqEntries]]
    BY DEF Unreaped
<1>5. Unreaped = [i \in 1 .. n |-> posted[cq.head + i]]
    BY <1>3, <1>4
<1>6. n \in Nat
    BY <1>1
<1> HIDE DEF n
<1>7. Unreaped \in [1 .. n -> CqeType]
    BY <1>3, <1>5
<1>8. Unreaped \in Seq(CqeType) /\ Len(Unreaped) = n
    BY <1>6, <1>7, IsASeq, LenProperties
<1> QED
    BY <1>5, <1>8 DEF n

\* The order of completions, from the invariant.
LEMMA OrderedFifo ==
    ASSUME TypeOK, Ordered
    PROVE  FifoOrder /\ LastOnes(posted) = LastOnes(reaped) + LastOnes(Unreaped) + LastOnes(overflow)
<1>1. /\ cq.head \in Nat /\ cq.tail \in Nat /\ cq.tail - cq.head \in Nat
      /\ posted \in Seq(CqeType) /\ overflow \in Seq(CqeType) /\ reaped \in Seq(CqeType)
    BY DEF TypeOK
<1>2. /\ Unreaped \in Seq(CqeType) /\ Len(Unreaped) = cq.tail - cq.head
      /\ \A i \in 1 .. cq.tail - cq.head : Unreaped[i] = posted[cq.head + i]
    BY UnreapedType
<1> DEFINE a == reaped \o Unreaped
           b == a \o overflow
<1>3. /\ a \in Seq(CqeType) /\ Len(a) = Len(reaped) + Len(Unreaped)
      /\ \A i \in 1 .. Len(reaped) + Len(Unreaped) :
            a[i] = IF i <= Len(reaped) THEN reaped[i] ELSE Unreaped[i - Len(reaped)]
    BY <1>1, <1>2, ConcatProperties
<1> HIDE DEF a
<1>4. /\ b \in Seq(CqeType) /\ Len(b) = Len(a) + Len(overflow)
      /\ \A i \in 1 .. Len(a) + Len(overflow) :
            b[i] = IF i <= Len(a) THEN a[i] ELSE overflow[i - Len(a)]
    BY <1>1, <1>3, ConcatProperties
<1> HIDE DEF b
<1>5. /\ Len(posted) \in Nat /\ Len(overflow) \in Nat /\ Len(reaped) \in Nat
      /\ cq.head = Len(reaped) /\ Len(posted) = cq.tail + Len(overflow)
    BY <1>1, LenProperties DEF Ordered
<1>6. Len(a) = cq.tail /\ Len(b) = Len(posted)
    BY <1>1, <1>2, <1>3, <1>4, <1>5
<1>7. ASSUME NEW i \in 1 .. Len(posted) PROVE b[i] = posted[i]
    <2>1. CASE i <= Len(reaped)
        <3>1. b[i] = a[i] /\ a[i] = reaped[i]
            BY <2>1, <1>1, <1>2, <1>3, <1>4, <1>5, <1>6
        <3> QED
            BY <3>1, <2>1, <1>5 DEF Ordered
    <2>2. CASE i > Len(reaped) /\ i <= cq.tail
        <3>1. b[i] = a[i] /\ a[i] = Unreaped[i - Len(reaped)]
            BY <2>2, <1>1, <1>2, <1>3, <1>4, <1>5, <1>6
        <3>2. i - Len(reaped) \in 1 .. cq.tail - cq.head /\ cq.head + (i - Len(reaped)) = i
            BY <2>2, <1>1, <1>5
        <3> QED
            BY <3>1, <3>2, <1>2
    <2>3. CASE i > cq.tail
        <3>1. b[i] = overflow[i - cq.tail]
            BY <2>3, <1>1, <1>4, <1>5, <1>6
        <3>2. i - cq.tail \in 1 .. Len(overflow) /\ cq.tail + (i - cq.tail) = i
            BY <2>3, <1>1, <1>5
        <3> QED
            BY <3>1, <3>2 DEF Ordered
    <2> QED
        BY <2>1, <2>2, <2>3, <1>1, <1>5
<1>8. b = posted
    BY <1>1, <1>4, <1>6, <1>7, SeqEqual
<1>9. LastOnes(posted) = LastOnes(a) + LastOnes(overflow)
    BY <1>1, <1>3, <1>8, LastOnesConcat DEF b
<1>10. LastOnes(a) = LastOnes(reaped) + LastOnes(Unreaped)
    BY <1>1, <1>2, LastOnesConcat DEF a
<1> QED
    BY <1>8, <1>9, <1>10 DEF FifoOrder, a, b

-----------------------------------------------------------------------------
(***************************************************************************)
(* io_uring_enter.                                                         *)
(***************************************************************************)

\* An armed operation has a completion to come.
LEMMA ArmedShots ==
    ASSUME NEW A, A \subseteq ArmedType, \A a, b \in A : a.seq = b.seq => a = b
    PROVE  IsFiniteSet(A) /\ Cardinality(A) <= Cardinality(Shots(A))
<1> DEFINE f == [a \in A |-> <<a.seq, 0>>]
<1>1. \A a \in A : f[a] \in Shots(A)
    <2> SUFFICES ASSUME NEW a \in A PROVE <<a.seq, 0>> \in Shots(A)
        OBVIOUS
    <2>1. 0 \in 0 .. a.shots
        BY DEF ArmedType
    <2> QED
        BY <2>1 DEF Shots
<1>2. f \in [A -> Shots(A)]
    BY <1>1
<1>3. \A a, b \in A : f[a] = f[b] => a = b
    OBVIOUS
<1> HIDE DEF f
<1>4. f \in Injection(A, Shots(A))
    BY <1>2, <1>3 DEF Injection, IsInjective
<1> QED
    BY <1>4, ShotsFinite, FS_Injection

\* The first k numbers.
LEMMA Initials ==
    ASSUME NEW k \in Nat
    PROVE  IsFiniteSet(0 .. k - 1) /\ Cardinality(0 .. k - 1) = k
<1> DEFINE l == k - 1
<1>1. l \in Int /\ l + 1 = k
    OBVIOUS
<1> HIDE DEF l
<1>2. 0 \in Int
    OBVIOUS
<1>3. IsFiniteSet(0 .. l) /\ Cardinality(0 .. l) = IF 0 > l THEN 0 ELSE l - 0 + 1
    BY <1>1, <1>2, FS_Interval
<1> QED
    BY <1>1, <1>3 DEF l

\* The operation that the kernel makes of position head + i.
NewOp(s, i) ==
    [seq |-> accepted + i, sqe |-> s.slot[(s.head + i) % SqEntries],
     shots |-> IF s.slot[(s.head + i) % SqEntries].kind = "multi" THEN MaxShots ELSE 0]
NewOps(s, k) == {NewOp(s, i) : i \in 0 .. k - 1}

\* What Accept does.
LEMMA AcceptIs ==
    ASSUME NEW s, NEW k, Accept(s, k)
    PROVE  /\ armed' = armed \cup NewOps(s, k)
           /\ sq' = [s EXCEPT !.head = @ + k] /\ accepted' = accepted + k
           /\ taken' = taken \cup {<<s.slot[(s.head + i) % SqEntries].user_data,
                                     s.slot[(s.head + i) % SqEntries].buf>> : i \in 0 .. k - 1}
BY DEF Accept, NewOps, NewOp

\* The kernel takes at most what is published and what it is told.
LEMMA VisibleBound ==
    ASSUME NEW s, RingType(s), NEW n \in Nat
    PROVE  /\ Visible(s, n) \in Nat
           /\ Visible(s, n) <= n /\ Visible(s, n) <= s.tail - s.head /\ Visible(s, n) <= SqEntries
           /\ n = s.tail - s.head /\ n <= SqEntries => Visible(s, n) = n
<1>1. s.tail - s.head \in Nat /\ SqEntries \in Nat
    BY RingAssumption DEF RingType
<1> DEFINE d == s.tail - s.head
           P(k) == k <= n /\ k <= d /\ k <= SqEntries
<1>2. d \in Nat
    BY <1>1
<1>3. Visible(s, n) = CHOOSE k \in {n, d, SqEntries} : P(k)
    BY DEF Visible
<1> HIDE DEF d
<1>4. \E k \in {n, d, SqEntries} : P(k)
    BY <1>1, <1>2
<1>5. Visible(s, n) \in {n, d, SqEntries} /\ P(Visible(s, n))
    BY <1>3, <1>4
<1> QED
    BY <1>1, <1>2, <1>5 DEF d

\* The operations of published positions.
LEMMA NewOpsFacts ==
    ASSUME NEW s, RingType(s), Written(s), accepted = s.head, s.tail <= MaxFlows,
           NEW k \in Nat, k <= s.tail - s.head
    PROVE  /\ NewOps(s, k) \subseteq ArmedType
           /\ \A a \in NewOps(s, k) : accepted <= a.seq /\ a.seq < accepted + k
           /\ \A a, b \in NewOps(s, k) : a.seq = b.seq => a = b
           /\ \A id \in accepted .. accepted + k - 1 : \E a \in NewOps(s, k) : a.seq = id
           /\ IsFiniteSet(NewOps(s, k)) /\ Cardinality(NewOps(s, k)) = k
<1>1. s.head \in Nat /\ s.tail \in Nat /\ accepted \in Nat /\ MaxShots \in Nat /\ MaxFlows \in Nat
    BY RingAssumption DEF RingType
<1>2. ASSUME NEW i \in 0 .. k - 1
      PROVE  NewOp(s, i) \in ArmedType /\ NewOp(s, i).seq = accepted + i
    <2>1. s.head + i \in 0 .. s.tail - 1
        BY <1>1
    <2>2. s.slot[(s.head + i) % SqEntries] \in SqeType
        BY <2>1 DEF Written
    <2>3. accepted + i \in 0 .. MaxFlows - 1
        BY <1>1
    <2>4. MaxShots \in 0 .. MaxShots /\ 0 \in 0 .. MaxShots
        BY <1>1
    <2> QED
        BY <2>2, <2>3, <2>4 DEF NewOp, ArmedType
<1>3. \A a \in NewOps(s, k) : \E i \in 0 .. k - 1 : a = NewOp(s, i)
    BY DEF NewOps
<1>4. /\ NewOps(s, k) \subseteq ArmedType
      /\ \A a \in NewOps(s, k) : accepted <= a.seq /\ a.seq < accepted + k
      /\ \A a, b \in NewOps(s, k) : a.seq = b.seq => a = b
    BY <1>1, <1>2, <1>3
<1>5. ASSUME NEW id \in accepted .. accepted + k - 1 PROVE \E a \in NewOps(s, k) : a.seq = id
    <2>1. id - accepted \in 0 .. k - 1 /\ accepted + (id - accepted) = id
        BY <1>1
    <2> QED
        BY <2>1, <1>2 DEF NewOps
<1> DEFINE I == 0 .. k - 1
           f == [i \in I |-> NewOp(s, i)]
<1>6. IsFiniteSet(I) /\ Cardinality(I) = k
    BY Initials
<1>7. f \in Bijection(I, NewOps(s, k))
    <2>1. f \in [I -> NewOps(s, k)]
        BY DEF NewOps
    <2>2. \A a \in NewOps(s, k) : \E i \in I : f[i] = a
        BY DEF NewOps
    <2>3. \A i, j \in I : f[i] = f[j] => i = j
        <3> SUFFICES ASSUME NEW i \in I, NEW j \in I, NewOp(s, i) = NewOp(s, j) PROVE i = j
            OBVIOUS
        <3>1. accepted + i = accepted + j
            BY <1>2
        <3> QED
            BY <3>1, <1>1
    <2> HIDE DEF f, I
    <2> QED
        BY <2>1, <2>2, <2>3 DEF Bijection, Injection, IsInjective, Surjection
<1>8. IsFiniteSet(NewOps(s, k)) /\ Cardinality(NewOps(s, k)) = k
    <2>1. ExistsBijection(I, NewOps(s, k))
        BY <1>7 DEF ExistsBijection
    <2> HIDE DEF I
    <2> QED
        BY <2>1, <1>6, FS_Bijection
<1> QED
    BY <1>4, <1>5, <1>8

\* Operations that are not multishot have one completion each.
LEMMA NewShots ==
    ASSUME NEW s, RingType(s), NoMulti(s), accepted = s.head,
           NEW k \in Nat, k <= s.tail - s.head
    PROVE  Cardinality(Shots(NewOps(s, k))) <= k
<1>1. s.head \in Nat /\ s.tail \in Nat /\ accepted \in Nat
    BY DEF RingType
<1> DEFINE I == 0 .. k - 1
           f == [i \in I |-> <<accepted + i, 0>>]
<1>2. IsFiniteSet(I) /\ Cardinality(I) = k
    BY Initials
<1>3. ASSUME NEW i \in I PROVE NewOp(s, i).shots = 0 /\ NewOp(s, i).seq = accepted + i
    <2>1. s.head + i \in s.head .. s.tail - 1
        BY <1>1
    <2>2. s.slot[(s.head + i) % SqEntries].kind # "multi"
        BY <2>1 DEF NoMulti
    <2> QED
        BY <2>2 DEF NewOp
<1>4. 0 .. 0 = {0}
    OBVIOUS
<1>5. \A i \in I : <<accepted + i, 0>> \in Shots(NewOps(s, k))
    BY <1>3, <1>4 DEF Shots, NewOps
<1>6. \A x \in Shots(NewOps(s, k)) : \E i \in I : x = <<accepted + i, 0>>
    BY <1>3, <1>4 DEF Shots, NewOps
<1>7. f \in Surjection(I, Shots(NewOps(s, k)))
    <2>1. f \in [I -> Shots(NewOps(s, k))]
        BY <1>5
    <2>2. \A x \in Shots(NewOps(s, k)) : \E i \in I : f[i] = x
        BY <1>6
    <2> HIDE DEF f, I
    <2> QED
        BY <2>1, <2>2 DEF Surjection
<1> HIDE DEF f, I
<1> QED
    BY <1>2, <1>7, FS_Surjection

\* One operation has at most MaxShots + 1.
LEMMA NewShotsOne ==
    ASSUME NEW s, RingType(s)
    PROVE  Cardinality(Shots(NewOps(s, 1))) <= MaxShots + 1
<1> DEFINE I == 0 .. MaxShots
           T == {<<accepted + 0, i>> : i \in I}
           f == [i \in I |-> <<accepted + 0, i>>]
<1>1. MaxShots \in Nat
    BY RingAssumption
<1>2. IsFiniteSet(I) /\ Cardinality(I) = MaxShots + 1
    BY <1>1, FS_Interval
<1>3. f \in Surjection(I, T)
    BY DEF Surjection
<1>4. Shots(NewOps(s, 1)) \in SUBSET T
    <2>1. 0 .. 1 - 1 = {0}
        OBVIOUS
    <2>2. NewOps(s, 1) = {NewOp(s, 0)}
        BY <2>1 DEF NewOps
    <2>3. NewOp(s, 0).seq = accepted + 0 /\ NewOp(s, 0).shots \in {MaxShots, 0}
        BY DEF NewOp
    <2>4. Shots(NewOps(s, 1)) = {<<NewOp(s, 0).seq, i>> : i \in 0 .. NewOp(s, 0).shots}
        BY <2>2 DEF Shots
    <2>5. 0 .. NewOp(s, 0).shots \subseteq I
        BY <2>3, <1>1
    <2> QED
        BY <2>3, <2>4, <2>5
<1> HIDE DEF f, I, T
<1>5. IsFiniteSet(T) /\ Cardinality(T) <= Cardinality(I)
    BY <1>2, <1>3, FS_Surjection
<1>6. IsFiniteSet(Shots(NewOps(s, 1))) /\ Cardinality(Shots(NewOps(s, 1))) <= Cardinality(T)
    BY <1>4, <1>5, FS_Subset
<1>7. Cardinality(T) \in Nat /\ Cardinality(Shots(NewOps(s, 1))) \in Nat
    BY <1>5, <1>6, FS_CardinalityType
<1> QED
    BY <1>1, <1>2, <1>5, <1>6, <1>7


\* What io_uring_enter leaves alone, and the end of the call it is made from.
Entering ==
    /\ UNCHANGED <<careful, vec, dec, min_complete, cq, overflow, posted, reaped>>
    /\ pc \in {"idle", "submit"} /\ pc' = "idle" /\ submitted' = 0 /\ asked' = {}

\* Within the limits the kernel is given one batch, and there is room for it.
Bounded(s, n, buffers, c) ==
    careful =>
        /\ Batch(s, n, buffers) /\ Cardinality(Shots(NewOps(s, n))) <= c
        /\ Cardinality(Shots(armed)) + (cq.tail - cq.head) + Len(overflow) + c < CqEntries

\* The parts of TypeOK that io_uring_enter does not touch.
LEMMA EnterTypes ==
    ASSUME TypeOK, Entering, RingType(sq'), next_ud' \in 1 .. MaxFlows + 1, accepted' \in Nat,
           armed' \subseteq ArmedType, \A a \in armed' : a.seq < accepted', in_flight' \in 0 .. U32 - 1
    PROVE  TypeOK' /\ dec = 0 /\ vec' = NoVec
<1>1. vec \in [bufs : Nat, buf : Nat, tail : Nat] /\ vec' = NoVec /\ dec = 0 /\ min_complete = 0
      /\ pc' = "idle" /\ vec' = vec /\ dec' = 0 /\ min_complete' = 0 /\ submitted' = 0 /\ asked' = {}
    BY DEF TypeOK, Entering
<1>2. 0 \in 0 .. CqEntries /\ 0 \in Nat
    BY RingAssumption
<1> QED
    BY <1>1, <1>2 DEF TypeOK, Entering, RingType

\* s is the submission ring with every flow so far published.
Filled(s) ==
    /\ RingType(s) /\ Written(s) /\ s.head = sq.head /\ next_ud' = s.tail + 1
    /\ next_ud' \in 1 .. MaxFlows + 1

\* io_uring_enter fails.
LEMMA EnterFails ==
    ASSUME IInv, NEW s, Filled(s), Entering, ~careful,
           sq' = s, UNCHANGED <<armed, accepted, taken, in_flight, told>>
    PROVE  IInv'
<1>1. TypeOK' /\ vec' = NoVec
    BY EnterTypes DEF IInv, TypeOK, Filled
<1>2. Positions'
    <2>1. s.tail \in Nat /\ next_ud' = s.tail + 1
        BY DEF Filled, RingType
    <2> QED
        BY <2>1 DEF IInv, Positions, Entering, Filled
<1>3. Handing' /\ RoomKept' /\ Counted'
    BY DEF IInv, Handing, RoomKept, Counted, Entering
<1>4. Ordered' /\ Ending'
    BY DEF IInv, Ordered, Ending, Entering
<1> QED
    BY <1>1, <1>2, <1>3, <1>4 DEF IInv

\* The kernel accepts k SQEs when it is told n.
Takes(s, n, k, buffers) ==
    /\ k <= n /\ k <= s.tail - s.head /\ (careful => k = n)
    /\ Accept(s, k) /\ in_flight' = (in_flight + n) % U32 /\ told' = told \cup buffers

\* The kernel accepts SQEs.
LEMMA EnterAccepts ==
    ASSUME IInv, NEW s, Filled(s), Entering,
           NEW n \in Nat, NEW buffers, NEW c \in Nat, Bounded(s, n, buffers, c),
           NEW k \in Nat, Takes(s, n, k, buffers)
    PROVE  IInv'
<1> DEFINE N == NewOps(s, k)
<1>0. RingType(s) /\ Written(s) /\ Accept(s, k) /\ told' = told \cup buffers
    BY DEF Filled, Takes
<1>00. PICK h \in Nat, l \in Nat : s.head = h /\ s.tail = l /\ h <= l
    BY <1>0 DEF RingType
<1>01. /\ MaxFlows \in Nat /\ U32 \in Nat \ {0} /\ SqEntries \in Nat \ {0} /\ CqEntries \in Nat
       /\ CqEntries <= U32
    BY RingAssumption
<1>1. /\ accepted = h /\ l <= MaxFlows /\ next_ud' = l + 1
      /\ next_ud' \in 1 .. MaxFlows + 1
      /\ k <= n /\ k <= l - h
    <2>1. h = sq.head /\ next_ud' = l + 1 /\ next_ud' \in 1 .. MaxFlows + 1
        BY <1>00 DEF Filled
    <2>2. k <= n /\ k <= l - h
        BY <1>00 DEF Takes
    <2>3. accepted = h
        BY <2>1 DEF IInv, Positions
    <2>4. l <= MaxFlows
        BY <2>1, <1>01
    <2> QED
        BY <2>1, <2>2, <2>3, <2>4
<1>2. /\ N \subseteq ArmedType
      /\ \A a \in N : accepted <= a.seq /\ a.seq < accepted + k
      /\ \A a, b \in N : a.seq = b.seq => a = b
      /\ \A id \in accepted .. accepted + k - 1 : \E a \in N : a.seq = id
      /\ IsFiniteSet(N) /\ Cardinality(N) = k
    BY <1>0, <1>00, <1>01, <1>1, NewOpsFacts
<1>3. /\ armed' = armed \cup N
      /\ sq' = [s EXCEPT !.head = @ + k] /\ accepted' = accepted + k
      /\ taken' = taken \cup {<<s.slot[(s.head + i) % SqEntries].user_data,
                                s.slot[(s.head + i) % SqEntries].buf>> : i \in 0 .. k - 1}
    BY <1>0, AcceptIs
<1> HIDE DEF N
<1>4. /\ sq'.head = h + k /\ sq'.tail = l /\ sq'.slot = s.slot /\ RingType(sq')
    <2>1. PICK f \in [0 .. SqEntries - 1 -> SqeType \cup {NoSqe}] : s = [head |-> h, tail |-> l, slot |-> f]
        BY <1>0, <1>00 DEF RingType
    <2>2. sq' = [head |-> h + k, tail |-> l, slot |-> f] /\ s.slot = f
        BY <2>1, <1>3
    <2>3. h + k \in Nat /\ h + k <= l
        BY <1>01, <1>1
    <2> QED
        BY <2>2, <2>3, <1>01, <1>1 DEF RingType
<1>5. /\ accepted \in Nat /\ armed \subseteq ArmedType /\ \A a \in armed : a.seq < accepted
      /\ in_flight \in 0 .. U32 - 1 /\ dec = 0
    BY DEF IInv, TypeOK, Entering
<1>6. /\ armed' \subseteq ArmedType /\ accepted' \in Nat /\ \A a \in armed' : a.seq < accepted'
      /\ \A a, b \in armed' : a.seq = b.seq => a = b
    <2>1. \A a \in armed' : a \in ArmedType /\ a.seq \in Nat
        BY <1>2, <1>3, <1>5 DEF ArmedType
    <2>2. \A a, b \in armed : a.seq = b.seq => a = b
        BY DEF IInv, Ending
    <2> QED
        BY <2>1, <2>2, <1>2, <1>3, <1>5
<1>7. in_flight' \in 0 .. U32 - 1
    <2>1. in_flight + n \in Int /\ in_flight' = (in_flight + n) % U32
        BY <1>01, <1>1, <1>5 DEF Takes
    <2> QED
        BY <2>1, <1>01, <1>1
<1>8. TypeOK' /\ vec' = NoVec
    BY <1>01, <1>1, <1>4, <1>6, <1>7, EnterTypes DEF IInv
<1>9. Positions'
    <2>1. Written(sq')
        BY <1>0, <1>00, <1>4 DEF Written
    <2> QED
        BY <2>1, <1>01, <1>1, <1>3, <1>4 DEF Positions, Entering
<1>10. Handing'
    <2> SUFFICES ASSUME careful PROVE Batch(sq', 0, {}) /\ NoMulti(sq') /\ told' \subseteq taken'
        BY DEF Handing, Entering
    <2>1. k = n /\ l - h = n /\ told \subseteq taken
        BY <1>00 DEF Takes, Bounded, Batch, IInv, Handing
    <2>2. sq'.tail - sq'.head = 0 /\ sq'.head .. sq'.tail - 1 = {}
        BY <2>1, <1>01, <1>1, <1>4
    <2>3. ASSUME NEW b \in buffers PROVE b \in taken'
        <3>1. PICK p \in h .. l - 1 :
                   b = <<s.slot[p % SqEntries].user_data, s.slot[p % SqEntries].buf>>
            BY <1>00 DEF Bounded, Batch
        <3>2. p - h \in 0 .. k - 1 /\ h + (p - h) = p
            BY <2>1, <1>01, <1>1
        <3> QED
            BY <3>1, <3>2, <1>3, <1>00
    <2> QED
        BY <2>1, <2>2, <2>3, <1>0, <1>01, <1>1, <1>3 DEF Batch, NoMulti
<1>11. Ordered'
    BY DEF IInv, Ordered, Entering
<1>12. posted \in Seq(CqeType) /\ posted' = posted /\ \A i \in 1 .. Len(posted) : posted[i].seq \in Nat /\ posted[i].seq < accepted
    <2>1. posted \in Seq(CqeType)
        BY DEF IInv, TypeOK
    <2>2. \A i \in 1 .. Len(posted) : posted[i] \in CqeType
        BY <2>1
    <2> QED
        BY <2>1, <2>2 DEF IInv, Ending, Entering, CqeType
<1>13. Ending'
    <2>1. \A i \in 1 .. Len(posted) : posted[i].seq < accepted'
        BY <1>3, <1>5, <1>12
    <2>2. \A i, j \in 1 .. Len(posted) : i < j /\ posted[i].seq = posted[j].seq => posted[i].more
        BY DEF IInv, Ending
    <2>3. ASSUME NEW i \in 1 .. Len(posted), NEW a \in armed', posted[i].seq = a.seq
          PROVE  posted[i].more
        <3>1. a \in armed
            BY <2>3, <1>2, <1>3, <1>5, <1>12
        <3> QED
            BY <3>1, <2>3 DEF IInv, Ending
    <2>4. ASSUME NEW id \in 0 .. accepted' - 1
          PROVE  \/ \E a \in armed' : a.seq = id
                 \/ \E i \in 1 .. Len(posted) : posted[i].seq = id /\ ~posted[i].more
        <3>1. CASE id < accepted
            <4>1. id \in 0 .. accepted - 1
                BY <3>1, <1>5
            <4> QED
                BY <4>1, <1>3 DEF IInv, Ending
        <3>2. CASE id >= accepted
            <4>1. id \in accepted .. accepted + k - 1
                BY <3>2, <1>3, <1>5
            <4> QED
                BY <4>1, <1>2, <1>3
        <3> QED
            BY <3>1, <3>2, <1>5
    <2> QED
        BY <2>1, <2>2, <2>3, <2>4, <1>6, <1>12 DEF Ending
<1>14. IsFiniteSet(armed') /\ Cardinality(armed') = Cardinality(armed) + k /\ Cardinality(armed) \in Nat
    <2>1. IsFiniteSet(armed)
        BY DEF IInv, Counted
    <2>2. armed \cap N = {}
        BY <1>2, <1>5 DEF ArmedType
    <2>3. /\ IsFiniteSet(armed \cup N)
          /\ Cardinality(armed \cup N) = Cardinality(armed) + Cardinality(N) - Cardinality(armed \cap N)
        BY <2>1, <1>2, FS_Union
    <2>4. Cardinality(armed) \in Nat
        BY <2>1, FS_CardinalityType
    <2>5. Cardinality(armed \cap N) = 0
        BY <2>2, FS_EmptySet
    <2> DEFINE ca == Cardinality(armed)
               cb == Cardinality(armed')
    <2>6. ca \in Nat /\ cb = ca + k - 0
        BY <2>3, <2>4, <2>5, <1>2, <1>3
    <2> HIDE DEF ca, cb
    <2>7. cb = ca + k
        BY <2>6
    <2> QED
        BY <2>3, <2>4, <2>7, <1>3 DEF ca, cb
<1>15. careful => /\ Outstanding' = Cardinality(Shots(armed')) + (cq.tail - cq.head) + Len(overflow)
                  /\ Outstanding' < CqEntries
    <2> SUFFICES ASSUME careful
                 PROVE  /\ Outstanding' = Cardinality(Shots(armed')) + (cq.tail - cq.head) + Len(overflow)
                        /\ Outstanding' < CqEntries
        OBVIOUS
    <2>1. k = n /\ l - h = n
        BY <1>00 DEF Takes, Bounded, Batch
    <2>2. sq'.tail - sq'.head = 0
        BY <2>1, <1>01, <1>1, <1>4
    <2>3. IsFiniteSet(Shots(armed)) /\ IsFiniteSet(Shots(N)) /\ Cardinality(Shots(armed)) \in Nat
          /\ Cardinality(Shots(N)) \in Nat /\ Cardinality(Shots(armed')) \in Nat
        BY <1>2, <1>5, <1>6, ShotsFinite
    <2>4. Shots(armed') = Shots(armed) \cup Shots(N)
        BY <1>3 DEF Shots
    <2> DEFINE ca == Cardinality(Shots(armed))
               cb == Cardinality(Shots(armed'))
               cn == Cardinality(Shots(N))
               cc == Cardinality(Shots(armed) \cap Shots(N))
               x == cq.tail - cq.head
               y == Len(overflow)
    <2>5. cc \in Nat /\ cb = ca + cn - cc
        <3>1. IsFiniteSet(Shots(armed) \cap Shots(N))
            BY <2>3, FS_Intersection
        <3>2. cc \in Nat
            BY <3>1, FS_CardinalityType
        <3> QED
            BY <3>2, <2>3, <2>4, FS_Union
    <2>6. cn <= c
        BY <2>1 DEF Bounded, N
    <2>7. Outstanding' = cb + x + y + (sq'.tail - sq'.head)
        BY DEF Outstanding, Shots, Entering
    <2>8. x \in Int /\ y \in Int
        <3>1. overflow \in Seq(CqeType)
            BY DEF IInv, TypeOK
        <3> QED
            BY <3>1, LenProperties DEF IInv, TypeOK
    <2>9. ca + x + y + c < CqEntries
        BY DEF Bounded
    <2>10. ca \in Nat /\ cb \in Nat /\ cn \in Nat
        BY <2>3
    <2>11. Outstanding' = cb + x + y + 0
        BY <2>2, <2>7
    <2> HIDE DEF ca, cb, cn, cc, x, y
    <2>12. Outstanding' = cb + x + y /\ Outstanding' < CqEntries
        BY <2>5, <2>6, <2>8, <2>9, <2>10, <2>11, <1>01, <1>1
    <2> QED
        BY <2>12 DEF cb, x, y
<1>16. RoomKept'
    BY <1>15 DEF IInv, RoomKept, Entering
<1>17. Counted'
    <2>1. accepted = Cardinality(armed) + LastOnes(posted) /\ LastOnes(posted) \in Nat
        BY <1>12, LastOnesType DEF IInv, Counted
    <2>2. accepted' = Cardinality(armed') + LastOnes(posted)
        BY <2>1, <1>3, <1>14
    <2>3. ASSUME careful PROVE in_flight' - dec' + LastOnes(reaped) = accepted'
        <3>1. k = n /\ dec' = 0
            BY <2>3, <1>5 DEF Takes, Entering
        <3>2. /\ reaped \in Seq(CqeType) /\ overflow \in Seq(CqeType) /\ Unreaped \in Seq(CqeType)
              /\ Len(Unreaped) = cq.tail - cq.head
              /\ LastOnes(posted) = LastOnes(reaped) + LastOnes(Unreaped) + LastOnes(overflow)
            BY UnreapedType, OrderedFifo DEF IInv, TypeOK
        <3>3. /\ LastOnes(reaped) \in Nat /\ LastOnes(Unreaped) \in Nat /\ LastOnes(overflow) \in Nat
              /\ LastOnes(Unreaped) <= Len(Unreaped) /\ LastOnes(overflow) <= Len(overflow)
              /\ Len(Unreaped) \in Nat /\ Len(overflow) \in Nat
            BY <3>2, LastOnesType
        <3>4. Cardinality(armed') <= Cardinality(Shots(armed')) /\ Cardinality(Shots(armed')) \in Nat
            BY <1>6, ArmedShots, ShotsFinite
        <3>5. in_flight - 0 + LastOnes(reaped) = accepted
            BY <2>3, <1>5 DEF IInv, Counted
        <3> DEFINE ca == Cardinality(armed)
                   cb == Cardinality(armed')
                   cs == Cardinality(Shots(armed'))
                   lr == LastOnes(reaped)
                   lu == LastOnes(Unreaped)
                   lo == LastOnes(overflow)
                   x == Len(Unreaped)
                   y == Len(overflow)
        <3>6. cs + x + y < CqEntries
            BY <2>3, <1>15, <3>2
        <3>7. /\ accepted = ca + (lr + lu + lo) /\ cb = ca + k /\ ca \in Nat /\ cs \in Nat /\ cb <= cs
              /\ lr \in Nat /\ lu \in Nat /\ lo \in Nat /\ lu <= x /\ lo <= y /\ x \in Nat /\ y \in Nat
              /\ in_flight - 0 + lr = accepted /\ accepted' = accepted + k
            BY <3>2, <3>3, <3>4, <3>5, <2>1, <1>3, <1>14
        <3> HIDE DEF ca, cb, cs, lr, lu, lo, x, y
        <3>8. in_flight + n < U32 /\ in_flight + n \in Int /\ 0 <= in_flight + n
            BY <3>1, <3>6, <3>7, <1>01, <1>1, <1>5
        <3>9. in_flight' = in_flight + n
            BY <3>8, <1>01, <1>1, SmallMod DEF Takes
        <3>10. in_flight' - 0 + lr = accepted'
            BY <3>1, <3>7, <3>9, <1>5
        <3> QED
            BY <3>1, <3>10 DEF lr
    <2> QED
        BY <2>2, <2>3, <1>14 DEF Counted, Entering
<1> QED
    BY <1>8, <1>9, <1>10, <1>11, <1>13, <1>16, <1>17 DEF IInv

\* io_uring_enter, whatever it does.
LEMMA EnterKeeps ==
    ASSUME IInv, NEW s, Filled(s), Entering,
           NEW n \in Nat, NEW buffers, NEW c \in Nat, Bounded(s, n, buffers, c),
           Enter(s, n, buffers)
    PROVE  IInv'
<1>1. CASE ~careful /\ sq' = s /\ UNCHANGED <<armed, accepted, taken, in_flight, told>>
    BY <1>1, EnterFails
<1>2. ASSUME NEW k \in 1 .. Visible(s, n), k = Visible(s, n) \/ ~careful, Accept(s, k),
             in_flight' = (in_flight + n) % U32, told' = told \cup buffers
      PROVE  IInv'
    <2>1. Visible(s, n) \in Nat /\ Visible(s, n) <= n /\ Visible(s, n) <= s.tail - s.head
          /\ (n = s.tail - s.head /\ n <= SqEntries => Visible(s, n) = n)
        BY VisibleBound DEF Filled
    <2>2. k \in Nat /\ k <= n /\ k <= s.tail - s.head
        BY <2>1 DEF Filled, RingType
    <2>3. careful => k = n
        BY <2>1, <1>2 DEF Bounded, Batch
    <2>4. Takes(s, n, k, buffers)
        BY <2>2, <2>3, <1>2 DEF Takes
    <2> QED
        BY <2>2, <2>4, EnterAccepts
<1> QED
    BY <1>1, <1>2 DEF Enter

\* The end of submit.
LEMMA SubmitEnterKeeps ==
    ASSUME IInv, SubmitEnter
    PROVE  IInv'
<1>1. RingType(sq) /\ Written(sq) /\ submitted \in Nat /\ Entering /\ next_ud' \in 1 .. MaxFlows + 1
      /\ Enter(sq, submitted, asked)
    BY SqIsRing DEF IInv, TypeOK, Positions, SubmitEnter, Entering
<1>2. Bounded(sq, submitted, asked, submitted)
    <2> SUFFICES ASSUME careful
                 PROVE  /\ Batch(sq, submitted, asked)
                        /\ Cardinality(Shots(NewOps(sq, submitted))) <= submitted
                        /\ Cardinality(Shots(armed)) + (cq.tail - cq.head) + Len(overflow) + submitted < CqEntries
        BY DEF Bounded
    <2>1. Batch(sq, submitted, asked) /\ NoMulti(sq) /\ accepted = sq.head
        BY DEF IInv, Handing, Positions
    <2>2. sq.tail - sq.head = submitted /\ submitted <= sq.tail - sq.head
        BY <2>1, <1>1 DEF Batch
    <2>3. Cardinality(Shots(NewOps(sq, submitted))) <= submitted
        BY <2>1, <2>2, <1>1, NewShots
    <2>4. Outstanding = Cardinality(Shots(armed)) + (cq.tail - cq.head) + Len(overflow) + (sq.tail - sq.head)
        BY OutstandingIs DEF IInv
    <2> QED
        BY <2>1, <2>2, <2>3, <2>4 DEF IInv, RoomKept
<1>3. Filled(sq)
    <2>1. next_ud \in Nat /\ next_ud' = next_ud /\ sq.tail = next_ud - 1
        BY RingAssumption DEF IInv, TypeOK, Positions, SubmitEnter
    <2>2. next_ud = sq.tail + 1
        BY <2>1
    <2> QED
        BY <1>1, <2>1, <2>2 DEF Filled
<1> QED
    BY <1>1, <1>2, <1>3, EnterKeeps

\* A call that publishes one SQE and enters the kernel.
LEMMA EnterOne ==
    ASSUME IInv, pc = "idle", NEW kind \in {"multi", "cancel"}, NEW target \in 0 .. MaxFlows,
           NEW c \in Nat, kind = "cancel" => c = 1, kind = "multi" => c = MaxShots + 1,
           MaySubmit(1, c), UNCHANGED <<pc, filling>>,
           Enter(Push(sq, Sqe(Flow(next_ud, kind, 1, target), 1)), 1,
                 BuffersOf(Flow(next_ud, kind, 1, target)))
    PROVE  IInv'
<1> DEFINE e == Sqe(Flow(next_ud, kind, 1, target), 1)
           s == Push(sq, e)
           B == BuffersOf(Flow(next_ud, kind, 1, target))
<1>1. /\ RingType(sq) /\ Written(sq) /\ Entering
      /\ next_ud \in 1 .. MaxFlows /\ next_ud' = next_ud + 1 /\ sq.tail = next_ud - 1
    BY SqIsRing, RingAssumption DEF IInv, TypeOK, Positions, MaySubmit, Entering, filling
<1>2. e \in SqeType /\ e.user_data = next_ud /\ e.kind = kind /\ e.buf = 1
    BY <1>1, SqeTyped, RingAssumption
<1>3. B = {} \cup {<<e.user_data, e.buf>>}
    <2>1. 1 .. 1 = {1}
        OBVIOUS
    <2>2. B = {<<next_ud, 1>>}
        BY <2>1 DEF BuffersOf, Flow
    <2> QED
        BY <2>2, <1>2
<1>4. Enter(s, 1, B)
    OBVIOUS
<1> HIDE DEF e, B
<1>5. RingType(s) /\ s.head = sq.head /\ s.tail = sq.tail + 1 /\ Written(s)
    BY <1>1, <1>2, PushRing, PushKeeps
<1>6. sq.tail \in Nat /\ sq.head \in Nat /\ accepted = sq.head /\ MaxFlows \in Nat /\ SqEntries \in Nat \ {0}
    BY <1>1, RingAssumption DEF IInv, Positions, RingType
<1>7. Bounded(s, 1, B, c)
    <2> SUFFICES ASSUME careful
                 PROVE  /\ Batch(s, 1, B) /\ Cardinality(Shots(NewOps(s, 1))) <= c
                        /\ Cardinality(Shots(armed)) + (cq.tail - cq.head) + Len(overflow) + c < CqEntries
        BY DEF Bounded
    <2>1. submitted = 0 /\ asked = {} /\ Batch(sq, 0, {}) /\ NoMulti(sq)
        BY DEF IInv, TypeOK, Handing
    <2>2. sq.tail - sq.head = 0 /\ 0 < SqEntries
        BY <2>1, <1>6 DEF Batch
    <2>3. Batch(s, 0 + 1, B)
        BY <2>1, <2>2, <1>1, <1>2, <1>3, PushKeeps
    <2>4. Outstanding + c < CqEntries
        BY DEF MaySubmit, Limits
    <2>5. Outstanding = Cardinality(Shots(armed)) + (cq.tail - cq.head) + Len(overflow) + (sq.tail - sq.head)
          /\ Cardinality(Shots(armed)) \in Nat
        BY OutstandingIs DEF IInv
    <2>6. cq.tail - cq.head \in Int /\ Len(overflow) \in Int
        <3>1. overflow \in Seq(CqeType)
            BY DEF IInv, TypeOK
        <3> QED
            BY <3>1, LenProperties DEF IInv, TypeOK
    <2>7. CASE kind = "multi"
        <3>1. Cardinality(Shots(NewOps(s, 1))) <= c
            BY <2>7, <1>5, NewShotsOne
        <3> QED
            BY <3>1, <2>2, <2>3, <2>4, <2>5, <2>6
    <2>8. CASE kind = "cancel"
        <3>1. NoMulti(s) /\ 1 <= s.tail - s.head /\ accepted = s.head
            BY <2>1, <2>2, <2>8, <1>1, <1>2, <1>5, <1>6, PushKeeps
        <3>2. Cardinality(Shots(NewOps(s, 1))) <= c
            BY <3>1, <2>8, <1>5, NewShots
        <3> QED
            BY <3>2, <2>2, <2>3, <2>4, <2>5, <2>6
    <2> QED
        BY <2>7, <2>8
<1>8. next_ud' = s.tail + 1 /\ next_ud' \in 1 .. MaxFlows + 1
    BY <1>1, <1>5, <1>6
<1> HIDE DEF s
<1>9. Filled(s)
    BY <1>5, <1>8 DEF Filled
<1> QED
    BY <1>1, <1>4, <1>7, <1>9, EnterKeeps

\* submit_multi_accept and submit_multi_recv.
LEMMA SubmitMultiKeeps ==
    ASSUME IInv, SubmitMulti
    PROVE  IInv'
<1>1. 0 \in 0 .. MaxFlows /\ MaxShots + 1 \in Nat
    BY RingAssumption
<1> QED
    BY <1>1, EnterOne DEF SubmitMulti

\* cancel_multi.
LEMMA CancelMultiKeeps ==
    ASSUME IInv, NEW target \in 1 .. next_ud - 1, CancelMulti(target)
    PROVE  IInv'
<1>1. target \in 0 .. MaxFlows
    BY RingAssumption DEF IInv, TypeOK
<1> QED
    BY <1>1, EnterOne DEF CancelMulti

-----------------------------------------------------------------------------
(***************************************************************************)
(* The completion ring.                                                    *)
(***************************************************************************)

CqType == [head : Nat, tail : Nat, slot : [0 .. CqEntries - 1 -> CqeType \cup {NoCqe}]]

\* The kernel writes c at the tail of the completion ring.
CqStores(c) == cq' = [cq EXCEPT !.slot[cq.tail % CqEntries] = c, !.tail = @ + 1]

\* What that does: the completions in the ring stay.
CqStored(c) ==
    /\ cq' \in CqType /\ cq'.head = cq.head /\ cq'.tail = cq.tail + 1
    /\ cq'.slot[cq.tail % CqEntries] = c
    /\ \A p \in cq.head .. cq.tail - 1 : cq'.slot[p % CqEntries] = cq.slot[p % CqEntries]

\* Writing a slot of the completion ring when it has room.
LEMMA CqWrite ==
    ASSUME TypeOK, CqRoom, NEW c \in CqeType, CqStores(c)
    PROVE  CqStored(c)
<1>1. PICK h \in Nat, l \in Nat, f \in [0 .. CqEntries - 1 -> CqeType \cup {NoCqe}] :
           cq = [head |-> h, tail |-> l, slot |-> f] /\ h <= l
    BY DEF TypeOK
<1>2. cq.head = h /\ cq.tail = l /\ cq.slot = f /\ CqEntries \in Nat \ {0}
    BY <1>1, RingAssumption
<1>3. l - h < CqEntries
    BY <1>2 DEF CqRoom
<1> DEFINE i == l % CqEntries
<1>4. i \in 0 .. CqEntries - 1
    BY <1>2
<1>5. cq' = [cq EXCEPT !.slot[i] = c, !.tail = @ + 1]
    BY <1>2 DEF CqStores
<1>6. ASSUME NEW p \in h .. l - 1 PROVE p % CqEntries # i /\ p % CqEntries \in 0 .. CqEntries - 1
    <2>1. p \in Nat /\ p < l /\ l < p + CqEntries
        BY <1>2, <1>3
    <2>2. p % CqEntries # l % CqEntries
        BY <2>1, <1>2, SlotsDiffer
    <2>3. p % CqEntries \in 0 .. CqEntries - 1
        BY <2>1, <1>2
    <2> QED
        BY <2>2, <2>3
<1> HIDE DEF i
<1> DEFINE g == [f EXCEPT ![i] = c]
<1>7. cq' = [head |-> h, tail |-> l + 1, slot |-> g]
    BY <1>1, <1>5
<1>8. g \in [0 .. CqEntries - 1 -> CqeType \cup {NoCqe}] /\ g[i] = c
    BY <1>4
<1>9. ASSUME NEW p \in h .. l - 1 PROVE g[p % CqEntries] = f[p % CqEntries]
    <2> DEFINE j == p % CqEntries
    <2>1. j # i /\ j \in 0 .. CqEntries - 1
        BY <1>6
    <2> HIDE DEF j
    <2>2. g[j] = f[j]
        BY <2>1
    <2> QED
        BY <2>2 DEF j
<1> HIDE DEF g
<1>10. l + 1 \in Nat
    OBVIOUS
<1>11. cq' \in CqType /\ cq'.head = h /\ cq'.tail = l + 1 /\ cq'.slot = g
    BY <1>7, <1>8, <1>10 DEF CqType
<1> QED
    BY <1>2, <1>8, <1>9, <1>11 DEF CqStored, i

\* A completion is posted.
LEMMA PostOrdered ==
    ASSUME TypeOK, Ordered, NEW c \in CqeType, Post(c), UNCHANGED <<pc, reaped>>
    PROVE  /\ Ordered'
           /\ posted' = Append(posted, c) /\ posted' \in Seq(CqeType) /\ overflow' \in Seq(CqeType)
           /\ cq' \in CqType /\ cq'.head <= cq'.tail /\ cq'.tail - cq'.head <= CqEntries
           /\ cq'.tail - cq'.head + Len(overflow') = cq.tail - cq.head + Len(overflow) + 1
<1>1. /\ cq \in CqType /\ cq.head \in Nat /\ cq.tail \in Nat /\ cq.head <= cq.tail
      /\ cq.tail - cq.head <= CqEntries /\ CqEntries \in Nat
      /\ posted \in Seq(CqeType) /\ overflow \in Seq(CqeType) /\ reaped \in Seq(CqeType)
    BY RingAssumption DEF TypeOK, CqType
<1>2. /\ Len(posted) \in Nat /\ Len(overflow) \in Nat /\ Len(reaped) \in Nat
      /\ cq.head = Len(reaped) /\ Len(posted) = cq.tail + Len(overflow)
    BY <1>1, LenProperties DEF Ordered
<1>3. /\ posted' = Append(posted, c) /\ posted' \in Seq(CqeType) /\ Len(posted') = Len(posted) + 1
      /\ posted'[Len(posted) + 1] = c
      /\ \A i \in 1 .. Len(posted) : posted'[i] = posted[i]
    BY <1>1, AppendProperties DEF Post
<1>4. \A i \in 1 .. Len(reaped) : reaped[i] = posted'[i]
    <2> SUFFICES ASSUME NEW i \in 1 .. Len(reaped) PROVE reaped[i] = posted'[i]
        OBVIOUS
    <2>1. i \in 1 .. Len(posted)
        BY <1>1, <1>2
    <2> QED
        BY <2>1, <1>3 DEF Ordered
<1>5. CASE CqRoom /\ overflow = << >>
    <2>1. CqStored(c) /\ overflow' = overflow
        BY <1>5, CqWrite DEF Post, CqStores
    <2>2. cq'.head = cq.head /\ cq'.tail = cq.tail + 1 /\ Len(overflow) = 0 /\ Len(posted) = cq.tail
        BY <2>1, <1>1, <1>2, <1>5, EmptySeq DEF CqStored
    <2>3. ASSUME NEW i \in cq'.head + 1 .. cq'.tail
          PROVE  cq'.slot[(i - 1) % CqEntries] = posted'[i]
        <3>1. CASE i = cq.tail + 1
            <4>1. i - 1 = cq.tail /\ i = Len(posted) + 1
                BY <3>1, <2>2, <1>1
            <4> QED
                BY <4>1, <2>1, <1>3 DEF CqStored
        <3>2. CASE i # cq.tail + 1
            <4>1. i \in cq.head + 1 .. cq.tail /\ i - 1 \in cq.head .. cq.tail - 1 /\ i \in 1 .. Len(posted)
                BY <3>2, <2>2, <1>1
            <4>2. cq'.slot[(i - 1) % CqEntries] = cq.slot[(i - 1) % CqEntries]
                BY <4>1, <2>1 DEF CqStored
            <4> QED
                BY <4>1, <4>2, <1>3 DEF Ordered
        <3> QED
            BY <3>1, <3>2
    <2>4. \A i \in 1 .. Len(overflow') : overflow'[i] = posted'[cq'.tail + i]
        BY <2>1, <2>2
    <2>5. pc' = "cqe" => cq'.head < cq'.tail
        BY <2>2, <1>1
    <2>6. cq'.head = Len(reaped') /\ Len(posted') = cq'.tail + Len(overflow')
        BY <2>1, <2>2, <1>1, <1>2, <1>3
    <2>7. Ordered'
        BY <2>3, <2>4, <2>5, <2>6, <1>4 DEF Ordered
    <2>8. cq'.tail - cq'.head <= CqEntries
        BY <2>2, <1>1, <1>5 DEF CqRoom
    <2> QED
        BY <2>1, <2>2, <2>7, <2>8, <1>1, <1>3 DEF CqStored
<1>6. CASE ~(CqRoom /\ overflow = << >>)
    <2>1. cq' = cq /\ overflow' = Append(overflow, c)
        BY <1>6 DEF Post
    <2>2. /\ overflow' \in Seq(CqeType) /\ Len(overflow') = Len(overflow) + 1
          /\ overflow'[Len(overflow) + 1] = c
          /\ \A i \in 1 .. Len(overflow) : overflow'[i] = overflow[i]
        BY <2>1, <1>1, AppendProperties
    <2>3. ASSUME NEW i \in cq.head + 1 .. cq.tail
          PROVE  cq.slot[(i - 1) % CqEntries] = posted'[i]
        <3>1. i \in 1 .. Len(posted)
            BY <1>1, <1>2
        <3> QED
            BY <3>1, <1>3 DEF Ordered
    <2>4. ASSUME NEW i \in 1 .. Len(overflow')
          PROVE  overflow'[i] = posted'[cq.tail + i]
        <3>1. CASE i = Len(overflow) + 1
            <4>1. cq.tail + i = Len(posted) + 1
                <5>1. PICK t \in Nat, v \in Nat : cq.tail = t /\ Len(overflow) = v /\ Len(posted) = t + v
                    BY <1>1, <1>2
                <5> QED
                    BY <5>1, <3>1
            <4> QED
                BY <4>1, <3>1, <2>2, <1>3
        <3>2. CASE i # Len(overflow) + 1
            <4>1. i \in 1 .. Len(overflow) /\ cq.tail + i \in 1 .. Len(posted)
                BY <3>2, <2>2, <1>1, <1>2
            <4> QED
                BY <4>1, <2>2, <1>3 DEF Ordered
        <3> QED
            BY <3>1, <3>2
    <2>5. Len(posted') = cq.tail + Len(overflow')
        BY <2>2, <1>1, <1>2, <1>3
    <2>6. Ordered'
        BY <2>1, <2>3, <2>4, <2>5, <1>2, <1>4 DEF Ordered
    <2>7. cq.tail - cq.head + Len(overflow') = cq.tail - cq.head + Len(overflow) + 1
        <3>1. PICK t \in Nat, h \in Nat, v \in Nat : cq.tail = t /\ cq.head = h /\ Len(overflow) = v
            BY <1>1, <1>2
        <3>2. Len(overflow') = v + 1
            BY <3>1, <2>2
        <3> QED
            BY <3>1, <3>2
    <2> QED
        BY <2>1, <2>2, <2>6, <2>7, <1>1, <1>3
<1> QED
    BY <1>5, <1>6

\* What a completion by the kernel leaves alone.
KernelFrame == UNCHANGED <<sq, accepted, taken, caller, local, in_flight, reaped>>

\* What it does to the armed operations: a stays armed, or it ends.
Fired(a, more) ==
    /\ armed' \subseteq ArmedType
    /\ \A b, d \in armed' : b.seq = d.seq => b = d
    /\ \A b \in armed' : \E d \in armed : d.seq = b.seq
    /\ \A d \in armed : d.seq # a.seq => \E b \in armed' : b.seq = d.seq
    /\ IF more THEN \E b \in armed' : b.seq = a.seq ELSE \A b \in armed' : b.seq # a.seq
    /\ IsFiniteSet(armed')
    /\ Cardinality(armed') = Cardinality(armed) - (IF more THEN 0 ELSE 1)
    /\ Cardinality(Shots(armed')) <= Cardinality(Shots(armed)) - 1

\* A completion keeps the invariant.
LEMMA FiredKeeps ==
    ASSUME IInv, NEW a \in armed, NEW more \in BOOLEAN, Post(Cqe(a, more)), KernelFrame, Fired(a, more)
    PROVE  IInv'
<1> DEFINE c == Cqe(a, more)
<1>1. /\ armed \subseteq ArmedType /\ accepted \in Nat /\ \A d \in armed : d.seq < accepted
      /\ TypeOK /\ Ordered /\ Ending
    BY DEF IInv, TypeOK
<1>2. c \in CqeType /\ c.seq = a.seq /\ c.more = more /\ a.seq < accepted
    BY <1>1 DEF Cqe, CqeType, ArmedType, SqeType
<1>3. Post(c) /\ pc' = pc /\ reaped' = reaped /\ dec' = dec
    BY DEF KernelFrame, local
<1> HIDE DEF c
<1>4. /\ Ordered'
      /\ posted' = Append(posted, c) /\ posted' \in Seq(CqeType) /\ overflow' \in Seq(CqeType)
      /\ cq' \in CqType /\ cq'.head <= cq'.tail /\ cq'.tail - cq'.head <= CqEntries
      /\ cq'.tail - cq'.head + Len(overflow') = cq.tail - cq.head + Len(overflow) + 1
    BY <1>1, <1>2, <1>3, PostOrdered
<1>5. /\ armed' \subseteq ArmedType /\ \A b \in armed' : b.seq < accepted
    <2>1. \A b \in armed' : b.seq < accepted
        BY <1>1 DEF Fired
    <2> QED
        BY <2>1 DEF Fired
<1>6. TypeOK'
    BY <1>1, <1>4, <1>5 DEF TypeOK, CqType, KernelFrame, caller, local, filling
<1>7. Positions' /\ Handing'
    BY DEF IInv, Positions, Handing, KernelFrame, caller, local, filling
<1>8. /\ posted \in Seq(CqeType) /\ Len(posted) \in Nat /\ Len(posted') = Len(posted) + 1
      /\ posted'[Len(posted) + 1] = c
      /\ \A i \in 1 .. Len(posted) : posted'[i] = posted[i]
    BY <1>1, <1>2, <1>4, AppendProperties, LenProperties DEF TypeOK
<1>9. Ending'
    <2>1. \A b, d \in armed' : b.seq = d.seq => b = d
        BY DEF Fired
    <2>2. \A i \in 1 .. Len(posted') : i = Len(posted) + 1 \/ i \in 1 .. Len(posted)
        BY <1>8
    <2>3. \A i \in 1 .. Len(posted') : posted'[i].seq < accepted
        BY <2>2, <1>1, <1>2, <1>8 DEF Ending
    <2>4. ASSUME NEW i \in 1 .. Len(posted'), NEW j \in 1 .. Len(posted'), i < j, posted'[i].seq = posted'[j].seq
          PROVE  posted'[i].more
        <3>1. i \in 1 .. Len(posted) /\ posted'[i] = posted[i]
            BY <2>4, <1>8
        <3>2. CASE j = Len(posted) + 1
            BY <3>1, <3>2, <2>4, <1>1, <1>2, <1>8 DEF Ending
        <3>3. CASE j \in 1 .. Len(posted)
            BY <3>1, <3>3, <2>4, <1>1, <1>8 DEF Ending
        <3> QED
            BY <3>2, <3>3, <2>2
    <2>5. ASSUME NEW i \in 1 .. Len(posted'), NEW b \in armed', posted'[i].seq = b.seq
          PROVE  posted'[i].more
        <3>1. CASE i = Len(posted) + 1
            <4>1. posted'[i] = c /\ a.seq = b.seq
                BY <3>1, <2>5, <1>2, <1>8
            <4>2. more
                BY <4>1 DEF Fired
            <4> QED
                BY <4>1, <4>2, <1>2
        <3>2. CASE i \in 1 .. Len(posted)
            <4>1. PICK d \in armed : d.seq = b.seq
                BY DEF Fired
            <4> QED
                BY <4>1, <3>2, <2>5, <1>1, <1>8 DEF Ending
        <3> QED
            BY <3>1, <3>2, <2>2
    <2>6. ASSUME NEW id \in 0 .. accepted - 1
          PROVE  \/ \E b \in armed' : b.seq = id
                 \/ \E i \in 1 .. Len(posted') : posted'[i].seq = id /\ ~posted'[i].more
        <3>1. Len(posted) + 1 \in 1 .. Len(posted')
            BY <1>8
        <3>2. CASE id = a.seq /\ more
            BY <3>2 DEF Fired
        <3>3. CASE id = a.seq /\ ~more
            BY <3>1, <3>3, <1>2, <1>8
        <3>4. CASE id # a.seq /\ \E d \in armed : d.seq = id
            BY <3>4 DEF Fired
        <3>5. CASE \E i \in 1 .. Len(posted) : posted[i].seq = id /\ ~posted[i].more
            <4>1. PICK i \in 1 .. Len(posted) : posted[i].seq = id /\ ~posted[i].more
                BY <3>5
            <4>2. i \in 1 .. Len(posted')
                BY <1>8
            <4> QED
                BY <4>1, <4>2, <1>8
        <3> QED
            BY <3>2, <3>3, <3>4, <3>5, <1>1 DEF Ending
    <2>7. accepted' = accepted
        BY DEF KernelFrame
    <2> QED
        BY <2>1, <2>3, <2>4, <2>5, <2>6, <2>7 DEF Ending
<1>10. Counted'
    <2>1. LastOnes(posted') = LastOnes(posted) + (IF more THEN 0 ELSE 1) /\ LastOnes(posted) \in Nat
        BY <1>2, <1>4, <1>8, LastOnesAppend, LastOnesType
    <2>2. accepted = Cardinality(armed) + LastOnes(posted) /\ IsFiniteSet(armed)
        BY DEF IInv, Counted
    <2>3. IsFiniteSet(armed') /\ Cardinality(armed') = Cardinality(armed) - (IF more THEN 0 ELSE 1)
        BY DEF Fired
    <2>4. Cardinality(armed) \in Nat
        BY <2>2, FS_CardinalityType
    <2> DEFINE ca == Cardinality(armed)
               cb == Cardinality(armed')
               lp == LastOnes(posted)
               lq == LastOnes(posted')
               m == IF more THEN 0 ELSE 1
    <2>5. ca \in Nat /\ lp \in Nat /\ m \in Nat /\ accepted = ca + lp /\ cb = ca - m /\ lq = lp + m
        BY <2>1, <2>2, <2>3, <2>4
    <2> HIDE DEF ca, cb, lp, lq, m
    <2>6. accepted = cb + lq
        BY <2>5
    <2>7. accepted' = Cardinality(armed') + LastOnes(posted')
        BY <2>6 DEF cb, lq, KernelFrame
    <2>8. careful' => in_flight' - dec' + LastOnes(reaped') = accepted'
        BY DEF IInv, Counted, KernelFrame, caller, local
    <2> QED
        BY <2>3, <2>7, <2>8 DEF Counted
<1>11. RoomKept'
    <2> SUFFICES ASSUME careful PROVE Outstanding' < CqEntries /\ overflow' = << >>
        BY DEF RoomKept, KernelFrame, caller
    <2> DEFINE ca == Cardinality(Shots(armed))
               cb == Cardinality(Shots(armed'))
               x == cq.tail - cq.head
               x1 == cq'.tail - cq'.head
               y == Len(overflow)
               y1 == Len(overflow')
               z == sq.tail - sq.head
    <2>1. ca \in Nat /\ cb \in Nat
        BY <1>1, <1>5, ShotsFinite
    <2>2. x \in Int /\ x1 \in Int /\ y \in Int /\ y1 \in Int /\ z \in Int /\ CqEntries \in Nat
        <3>1. overflow \in Seq(CqeType) /\ overflow' \in Seq(CqeType)
            BY <1>1, <1>4 DEF TypeOK
        <3>2. y \in Int /\ y1 \in Int
            BY <3>1, LenProperties
        <3>3. x1 \in Int
            BY <1>4 DEF CqType
        <3>4. x \in Int /\ z \in Int /\ CqEntries \in Nat
            BY <1>1, RingAssumption DEF TypeOK
        <3> QED
            BY <3>2, <3>3, <3>4
    <2>3. Outstanding = ca + x + y + z /\ Outstanding < CqEntries
        BY <1>1, OutstandingIs DEF IInv, RoomKept
    <2>4. Outstanding' = cb + x1 + y1 + z
        BY DEF Outstanding, Shots, KernelFrame
    <2>5. cb <= ca - 1 /\ x1 + y1 = x + y + 1
        BY <1>4 DEF Fired
    <2>6. overflow = << >> /\ y = 0 /\ 0 <= z
        BY <1>1, EmptySeq DEF IInv, RoomKept, TypeOK
    <2> HIDE DEF ca, cb, x, x1, y, y1, z
    <2>7. Outstanding' < CqEntries /\ x < CqEntries
        BY <2>1, <2>2, <2>3, <2>4, <2>5, <2>6
    <2>8. CqRoom
        BY <2>7 DEF CqRoom, x
    <2> QED
        BY <2>6, <2>7, <2>8, <1>3 DEF Post
<1> QED
    BY <1>4, <1>6, <1>7, <1>9, <1>10, <1>11 DEF IInv

\* One completion fewer to come.
LEMMA ShotsLess ==
    ASSUME NEW A, NEW B, NEW x, A \subseteq ArmedType, B \subseteq ArmedType,
           x \in Shots(A), x \notin Shots(B), Shots(B) \subseteq Shots(A)
    PROVE  Cardinality(Shots(B)) <= Cardinality(Shots(A)) - 1
<1>1. IsFiniteSet(Shots(A)) /\ IsFiniteSet(Shots(B))
    BY ShotsFinite
<1>2. Shots(B) \in SUBSET (Shots(A) \ {x})
    OBVIOUS
<1>3. IsFiniteSet(Shots(A) \ {x}) /\ Cardinality(Shots(A) \ {x}) = Cardinality(Shots(A)) - 1
    BY <1>1, FS_RemoveElement
<1> QED
    BY <1>2, <1>3, FS_Subset

\* A multishot operation completes and stays armed.
LEMMA CompleteMoreKeeps ==
    ASSUME IInv, NEW a \in armed, CompleteMore(a)
    PROVE  IInv'
<1> DEFINE b0 == [a EXCEPT !.shots = @ - 1]
<1>1. /\ armed \subseteq ArmedType /\ IsFiniteSet(armed)
      /\ \A b, d \in armed : b.seq = d.seq => b = d
    BY DEF IInv, TypeOK, Ending, Counted
<1>2. a \in ArmedType /\ a.shots \in 0 .. MaxShots /\ a.shots > 0 /\ MaxShots \in Nat
    BY <1>1, RingAssumption DEF CompleteMore, ArmedType
<1>3. b0 \in ArmedType /\ b0.seq = a.seq /\ b0.shots = a.shots - 1
    BY <1>2 DEF ArmedType
<1>4. armed' = (armed \ {a}) \cup {b0} /\ Post(Cqe(a, TRUE)) /\ KernelFrame
    BY DEF CompleteMore, KernelFrame
<1> HIDE DEF b0
<1>5. armed' \subseteq ArmedType
    BY <1>1, <1>3, <1>4
<1>6. \A b, d \in armed' : b.seq = d.seq => b = d
    BY <1>1, <1>3, <1>4
<1>7. \A b \in armed' : \E d \in armed : d.seq = b.seq
    BY <1>3, <1>4
<1>8. \A d \in armed : d.seq # a.seq => \E b \in armed' : b.seq = d.seq
    BY <1>4
<1>9. \E b \in armed' : b.seq = a.seq
    BY <1>3, <1>4
<1>10. IsFiniteSet(armed') /\ Cardinality(armed') = Cardinality(armed) - 0
    <2>1. IsFiniteSet(armed \ {a}) /\ Cardinality(armed \ {a}) = Cardinality(armed) - 1
        BY <1>1, FS_RemoveElement
    <2>2. b0 \notin armed \ {a}
        BY <1>1, <1>3
    <2>3. IsFiniteSet(armed') /\ Cardinality(armed') = Cardinality(armed \ {a}) + 1
        BY <2>1, <2>2, <1>4, FS_AddElement
    <2>4. Cardinality(armed) \in Nat
        BY <1>1, FS_CardinalityType
    <2> QED
        BY <2>1, <2>3, <2>4
<1>11. Cardinality(Shots(armed')) <= Cardinality(Shots(armed)) - 1
    <2> DEFINE x == <<a.seq, a.shots>>
    <2>1. x \in Shots(armed)
        <3>1. a.shots \in 0 .. a.shots
            BY <1>2
        <3> QED
            BY <3>1 DEF Shots
    <2>2. ASSUME NEW b \in armed', NEW i \in 0 .. b.shots
          PROVE  <<b.seq, i>> \in Shots(armed) /\ <<b.seq, i>> # x
        <3>1. CASE b = b0
            <4>1. i \in 0 .. a.shots /\ i # a.shots
                BY <3>1, <1>2, <1>3
            <4> QED
                BY <4>1, <3>1, <1>3 DEF Shots
        <3>2. CASE b \in armed /\ b # a
            <4>1. b.seq # a.seq
                BY <3>2, <1>1
            <4> QED
                BY <4>1, <3>2 DEF Shots
        <3> QED
            BY <3>1, <3>2, <1>4
    <2>3. \A y \in Shots(armed') : \E b \in armed' : \E i \in 0 .. b.shots : y = <<b.seq, i>>
        BY DEF Shots
    <2>4. x \notin Shots(armed') /\ Shots(armed') \subseteq Shots(armed)
        BY <2>2, <2>3
    <2> HIDE DEF x
    <2> QED
        BY <2>1, <2>4, <1>1, <1>5, ShotsLess
<1>12. Fired(a, TRUE)
    BY <1>5, <1>6, <1>7, <1>8, <1>9, <1>10, <1>11 DEF Fired
<1> QED
    BY <1>4, <1>12, FiredKeeps

\* An operation ends.
LEMMA CompleteLastKeeps ==
    ASSUME IInv, NEW a \in armed, CompleteLast(a)
    PROVE  IInv'
<1> DEFINE g(b) == [b EXCEPT !.shots = IF a.sqe.kind = "cancel" /\ a.sqe.target = b.sqe.user_data
                                       THEN 0 ELSE @]
           A == armed \ {a}
           f == [b \in A |-> g(b)]
<1>1. /\ armed \subseteq ArmedType /\ IsFiniteSet(armed)
      /\ \A b, d \in armed : b.seq = d.seq => b = d
    BY DEF IInv, TypeOK, Ending, Counted
<1>2. ASSUME NEW b \in A
      PROVE  g(b) \in ArmedType /\ g(b).seq = b.seq /\ 0 .. g(b).shots \subseteq 0 .. b.shots
    <2>1. b \in ArmedType /\ b.shots \in 0 .. MaxShots /\ MaxShots \in Nat
        BY <1>1, RingAssumption DEF ArmedType
    <2>2. g(b) \in ArmedType /\ g(b).seq = b.seq /\ (g(b).shots = 0 \/ g(b).shots = b.shots)
        BY <2>1 DEF ArmedType
    <2>3. 0 .. 0 \subseteq 0 .. b.shots
        BY <2>1
    <2> QED
        BY <2>2, <2>3
<1>3. armed' = {g(b) : b \in A} /\ Post(Cqe(a, FALSE)) /\ KernelFrame
    BY DEF CompleteLast, KernelFrame
<1> HIDE DEF g
<1>4. \A b \in armed' : \E d \in A : b = g(d)
    BY <1>3
<1>5. armed' \subseteq ArmedType
    BY <1>2, <1>4
<1>6. \A b, d \in armed' : b.seq = d.seq => b = d
    BY <1>1, <1>2, <1>4
<1>7. \A b \in armed' : \E d \in armed : d.seq = b.seq
    BY <1>2, <1>4
<1>8. \A d \in armed : d.seq # a.seq => \E b \in armed' : b.seq = d.seq
    BY <1>2, <1>3
<1>9. \A b \in armed' : b.seq # a.seq
    BY <1>1, <1>2, <1>4
<1>10. IsFiniteSet(armed') /\ Cardinality(armed') = Cardinality(armed) - 1
    <2>1. IsFiniteSet(A) /\ Cardinality(A) = Cardinality(armed) - 1
        BY <1>1, FS_RemoveElement
    <2>2. f \in [A -> armed'] /\ \A y \in armed' : \E b \in A : f[b] = y
        BY <1>3
    <2>3. \A b, d \in A : f[b] = f[d] => b = d
        BY <1>1, <1>2
    <2> HIDE DEF f, A
    <2>4. f \in Bijection(A, armed')
        BY <2>2, <2>3 DEF Bijection, Injection, IsInjective, Surjection
    <2>5. ExistsBijection(A, armed')
        BY <2>4 DEF ExistsBijection
    <2> QED
        BY <2>1, <2>5, FS_Bijection
<1>11. Cardinality(Shots(armed')) <= Cardinality(Shots(armed)) - 1
    <2> DEFINE x == <<a.seq, 0>>
    <2>1. x \in Shots(armed)
        <3>1. 0 \in 0 .. a.shots
            BY <1>1, RingAssumption DEF ArmedType
        <3> QED
            BY <3>1 DEF Shots
    <2>2. ASSUME NEW b \in armed', NEW i \in 0 .. b.shots
          PROVE  <<b.seq, i>> \in Shots(armed) /\ <<b.seq, i>> # x
        <3>1. PICK d \in A : b = g(d)
            BY <1>4
        <3>2. i \in 0 .. d.shots /\ b.seq = d.seq /\ d \in armed
            BY <3>1, <1>2
        <3> QED
            BY <3>2, <1>9 DEF Shots
    <2>3. \A y \in Shots(armed') : \E b \in armed' : \E i \in 0 .. b.shots : y = <<b.seq, i>>
        BY DEF Shots
    <2>4. x \notin Shots(armed') /\ Shots(armed') \subseteq Shots(armed)
        BY <2>2, <2>3
    <2> HIDE DEF x
    <2> QED
        BY <2>1, <2>4, <1>1, <1>5, ShotsLess
<1>12. Fired(a, FALSE)
    BY <1>5, <1>6, <1>7, <1>8, <1>9, <1>10, <1>11 DEF Fired
<1> QED
    BY <1>3, <1>12, FiredKeeps

\* A completion that had found the ring full enters it.
LEMMA KernelFlushKeeps ==
    ASSUME IInv, KernelFlush
    PROVE  IInv'
<1>1. /\ TypeOK /\ Ordered /\ CqRoom /\ overflow # << >> /\ overflow' = Tail(overflow)
      /\ CqStores(Head(overflow))
      /\ UNCHANGED <<ring, caller, local, in_flight, posted, reaped>>
    BY DEF IInv, KernelFlush, CqStores
<1>2. PICK h \in Nat, t \in Nat, v \in Nat :
        /\ cq.head = h /\ cq.tail = t /\ Len(overflow) = v /\ Len(posted) = t + v /\ h <= t
        /\ h = Len(reaped) /\ t - h < CqEntries /\ v >= 1
    <2>1. overflow \in Seq(CqeType) /\ Len(overflow) \in Nat /\ Len(overflow) # 0
        BY <1>1, EmptySeq, LenProperties DEF TypeOK
    <2> QED
        BY <2>1, <1>1 DEF TypeOK, Ordered, CqRoom
<1>3. overflow \in Seq(CqeType) /\ Head(overflow) \in CqeType /\ Head(overflow) = overflow[1]
      /\ overflow' \in Seq(CqeType) /\ Len(overflow') = v - 1
      /\ \A i \in 1 .. v - 1 : overflow'[i] = overflow[i + 1]
    <2>1. overflow \in Seq(CqeType) /\ overflow # << >>
        BY <1>1 DEF TypeOK
    <2> QED
        BY <2>1, <1>1, <1>2, HeadTailProperties
<1>4. CqStored(Head(overflow))
    BY <1>1, <1>3, CqWrite
<1>5. cq' \in CqType /\ cq'.head = h /\ cq'.tail = t + 1
    BY <1>2, <1>4 DEF CqStored
<1>6. TypeOK'
    <2>1. h <= t + 1 /\ t + 1 - h <= CqEntries
        BY <1>2, RingAssumption
    <2> QED
        BY <2>1, <1>1, <1>3, <1>5 DEF TypeOK, CqType, ring, caller, local, filling
<1>7. Positions' /\ Handing' /\ Ending' /\ Counted'
    BY <1>1 DEF IInv, Positions, Handing, Ending, Counted, ring, caller, local, filling
<1>8. Ordered'
    <2>1. ASSUME NEW i \in h + 1 .. t + 1 PROVE cq'.slot[(i - 1) % CqEntries] = posted[i]
        <3>1. CASE i = t + 1
            <4>1. i - 1 = t /\ 1 \in 1 .. v
                BY <3>1, <1>2
            <4>2. cq'.slot[t % CqEntries] = overflow[1]
                BY <1>2, <1>3, <1>4 DEF CqStored
            <4>3. overflow[1] = posted[t + 1]
                BY <4>1, <1>1, <1>2 DEF Ordered
            <4> QED
                BY <4>1, <4>2, <4>3, <3>1
        <3>2. CASE i # t + 1
            <4>1. i \in h + 1 .. t /\ i - 1 \in h .. t - 1
                BY <3>2
            <4>2. cq'.slot[(i - 1) % CqEntries] = cq.slot[(i - 1) % CqEntries]
                BY <4>1, <1>2, <1>4 DEF CqStored
            <4> QED
                BY <4>1, <4>2, <1>1, <1>2 DEF Ordered
        <3> QED
            BY <3>1, <3>2
    <2>2. ASSUME NEW i \in 1 .. v - 1 PROVE overflow'[i] = posted[(t + 1) + i]
        <3>1. i + 1 \in 1 .. v /\ t + (i + 1) = (t + 1) + i
            BY <1>2
        <3>2. overflow[i + 1] = posted[t + (i + 1)]
            BY <3>1, <1>1, <1>2 DEF Ordered
        <3> QED
            BY <3>1, <3>2, <1>3
    <2>3. Len(posted) = (t + 1) + (v - 1) /\ h < t + 1
        BY <1>2
    <2>4. \A i \in 1 .. Len(reaped) : reaped[i] = posted[i]
        BY <1>1 DEF Ordered
    <2> QED
        BY <2>1, <2>2, <2>3, <2>4, <1>1, <1>2, <1>3, <1>5 DEF Ordered, local
<1>9. RoomKept'
    BY <1>1 DEF IInv, RoomKept, caller
<1> QED
    BY <1>6, <1>7, <1>8, <1>9 DEF IInv

-----------------------------------------------------------------------------
(***************************************************************************)
(* reap and wait.                                                          *)
(***************************************************************************)

\* Steps that move pc, a local or min_complete only.
LEMMA LocalKeeps ==
    ASSUME IInv, UNCHANGED <<ring, caller, filling, cq, overflow, in_flight, posted, reaped>>,
           pc \in {"idle", "reap", "wait"}, pc' \in {"idle", "reap", "cqe", "wait"},
           dec' = dec, pc' \notin {"reap", "cqe"} => dec = 0,
           min_complete' \in 0 .. CqEntries, pc' # "wait" => min_complete' = 0,
           pc' = "cqe" => cq.head < cq.tail
    PROVE  IInv'
<1>1. TypeOK'
    BY DEF IInv, TypeOK, ring, caller, filling
<1>2. Positions' /\ Handing' /\ Ending' /\ Counted'
    BY DEF IInv, Positions, Handing, Ending, Counted, ring, caller, filling
<1>3. Ordered'
    BY DEF IInv, Ordered
<1>4. RoomKept'
    BY DEF IInv, RoomKept, Outstanding, ring, caller
<1> QED
    BY <1>1, <1>2, <1>3, <1>4 DEF IInv

\* The start of reap, and its test of the ring.
LEMMA ReapBeginKeeps ==
    ASSUME IInv, ReapBegin \/ ReapLook
    PROVE  IInv'
<1>1. dec \in Nat /\ (pc = "idle" => dec = 0) /\ min_complete \in 0 .. CqEntries
      /\ (pc # "wait" => min_complete = 0)
    BY DEF IInv, TypeOK
<1>2. CASE ReapBegin
    BY <1>1, <1>2, LocalKeeps DEF ReapBegin
<1>3. CASE ReapLook
    <2>1. PICK h \in Nat, t \in Nat : cq.head = h /\ cq.tail = t /\ h <= t
        BY DEF IInv, TypeOK
    <2>2. ~CqEmpty
        BY <1>3 DEF ReapLook
    <2>3. h # t
        <3> SUFFICES ASSUME h = t PROVE CqEmpty
            BY <2>2
        <3>1. cq.tail - cq.head = 0 /\ CqEntries \in Nat \ {0}
            BY <2>1, RingAssumption
        <3>2. 0 % CqEntries = 0
            BY <3>1, SmallMod
        <3> QED
            BY <3>1, <3>2 DEF CqEmpty
    <2>4. cq.head < cq.tail
        BY <2>1, <2>3
    <2> QED
        BY <2>4, <1>1, <1>3, LocalKeeps DEF ReapLook
<1> QED
    BY <1>2, <1>3

\* reap takes the oldest completion of the ring.
LEMMA ReapOneKeeps ==
    ASSUME IInv, ReapOne
    PROVE  IInv'
<1> DEFINE c == cq.slot[cq.head % CqEntries]
           m == IF c.more THEN 0 ELSE 1
<1>1. /\ TypeOK /\ Ordered /\ pc = "cqe" /\ pc' = "reap" /\ reaped' = Append(reaped, c)
      /\ dec \in Nat /\ dec' = dec + m /\ m \in Nat
      /\ cq' = [cq EXCEPT !.head = @ + 1]
      /\ UNCHANGED <<ring, caller, filling, min_complete, overflow, in_flight, posted>>
    BY DEF IInv, TypeOK, ReapOne
<1>2. PICK h \in Nat, t \in Nat, f \in [0 .. CqEntries - 1 -> CqeType \cup {NoCqe}], v \in Nat :
        /\ cq = [head |-> h, tail |-> t, slot |-> f] /\ cq.head = h /\ cq.tail = t /\ cq.slot = f
        /\ Len(overflow) = v /\ Len(posted) = t + v /\ h < t /\ h = Len(reaped) /\ t - h <= CqEntries
    <2>1. overflow \in Seq(CqeType) /\ Len(overflow) \in Nat
        BY <1>1, LenProperties DEF TypeOK
    <2>2. PICK h \in Nat, t \in Nat, f \in [0 .. CqEntries - 1 -> CqeType \cup {NoCqe}] :
            cq = [head |-> h, tail |-> t, slot |-> f]
        BY <1>1 DEF TypeOK
    <2> QED
        BY <2>1, <2>2, <1>1 DEF TypeOK, Ordered
<1>3. c = posted[h + 1]
    <2>1. h + 1 \in h + 1 .. t /\ (h + 1) - 1 = h
        BY <1>2
    <2> QED
        BY <2>1, <1>1, <1>2 DEF Ordered
<1>4. posted \in Seq(CqeType) /\ reaped \in Seq(CqeType) /\ c \in CqeType
    <2>1. h + 1 \in 1 .. Len(posted)
        BY <1>2
    <2>2. posted \in Seq(CqeType) /\ reaped \in Seq(CqeType)
        BY <1>1 DEF TypeOK
    <2>3. posted[h + 1] \in CqeType
        BY <2>1, <2>2, LenProperties
    <2> QED
        BY <2>2, <2>3, <1>3
<1> HIDE DEF c
<1>5. cq' = [head |-> h + 1, tail |-> t, slot |-> f] /\ cq'.head = h + 1 /\ cq'.tail = t /\ cq'.slot = f
    BY <1>1, <1>2
<1>6. /\ reaped' \in Seq(CqeType) /\ Len(reaped') = h + 1 /\ reaped'[h + 1] = c
      /\ \A i \in 1 .. h : reaped'[i] = reaped[i]
    BY <1>1, <1>2, <1>4, AppendProperties
<1>7. TypeOK'
    <2>1. h + 1 \in Nat /\ h + 1 <= t /\ t - (h + 1) <= CqEntries
        BY <1>2, RingAssumption
    <2>2. dec' \in Nat
        BY <1>1
    <2> QED
        BY <2>1, <2>2, <1>1, <1>2, <1>5, <1>6 DEF TypeOK, ring, caller, filling
<1>8. Positions' /\ Handing' /\ Ending'
    BY <1>1 DEF IInv, Positions, Handing, Ending, ring, caller, filling
<1>9. Ordered'
    <2>1. ASSUME NEW i \in 1 .. h + 1 PROVE reaped'[i] = posted[i]
        <3>1. CASE i = h + 1
            BY <3>1, <1>3, <1>6
        <3>2. CASE i # h + 1
            <4>1. i \in 1 .. h
                BY <3>2
            <4> QED
                BY <4>1, <1>1, <1>2, <1>6 DEF Ordered
        <3> QED
            BY <3>1, <3>2
    <2>2. ASSUME NEW i \in (h + 1) + 1 .. t PROVE f[(i - 1) % CqEntries] = posted[i]
        <3>1. i \in h + 1 .. t
            BY <1>2
        <3> QED
            BY <3>1, <1>1, <1>2 DEF Ordered
    <2>3. Len(posted) = t + Len(overflow)
        BY <1>2
    <2>4. \A i \in 1 .. Len(overflow) : overflow[i] = posted[t + i]
        BY <1>1, <1>2 DEF Ordered
    <2> QED
        BY <2>1, <2>2, <2>3, <2>4, <1>1, <1>5, <1>6 DEF Ordered
<1>10. Counted'
    <2>1. LastOnes(reaped') = LastOnes(reaped) + m /\ LastOnes(reaped) \in Nat
        BY <1>1, <1>4, LastOnesAppend, LastOnesType
    <2>2. ASSUME careful PROVE in_flight - dec' + LastOnes(reaped') = accepted
        <3>1. in_flight - dec + LastOnes(reaped) = accepted /\ in_flight \in Int
            BY <2>2, <1>1 DEF IInv, Counted, TypeOK
        <3> DEFINE lr == LastOnes(reaped)
                   lq == LastOnes(reaped')
        <3>2. lr \in Nat /\ lq = lr + m /\ in_flight - dec + lr = accepted
            BY <2>1, <3>1
        <3> HIDE DEF lr, lq, m
        <3>3. in_flight - dec' + lq = accepted
            BY <3>1, <3>2, <1>1
        <3> QED
            BY <3>3 DEF lq
    <2> QED
        BY <2>2, <1>1 DEF IInv, Counted, ring, caller
<1>11. RoomKept'
    <2> SUFFICES ASSUME careful PROVE Outstanding' < CqEntries
        BY <1>1 DEF IInv, RoomKept, caller
    <2> DEFINE ca == Cardinality(Shots(armed))
               z == sq.tail - sq.head
    <2>1. Outstanding = ca + (t - h) + v + z /\ Outstanding < CqEntries /\ ca \in Nat
        BY <1>1, <1>2, OutstandingIs DEF IInv, RoomKept
    <2>2. Outstanding' = ca + (t - (h + 1)) + v + z
        BY <1>1, <1>2, <1>5 DEF Outstanding, Shots, ring
    <2>3. z \in Int /\ CqEntries \in Nat
        <3>1. sq.tail \in Nat /\ sq.head \in Nat
            BY <1>1 DEF TypeOK
        <3> QED
            BY <3>1, RingAssumption
    <2> HIDE DEF ca, z
    <2> QED
        BY <2>1, <2>2, <2>3
<1> QED
    BY <1>7, <1>8, <1>9, <1>10, <1>11 DEF IInv

\* Within the limits in_flight, less what reap has counted, is the operations
\* that the caller has not seen the end of.
LEMMA InFlightIs ==
    ASSUME IInv
    PROVE  InFlightExact /\ (careful => 0 <= in_flight - dec)
<1>1. /\ posted \in Seq(CqeType) /\ reaped \in Seq(CqeType) /\ overflow \in Seq(CqeType)
      /\ in_flight \in Int /\ dec \in Nat /\ IsFiniteSet(armed) /\ TypeOK /\ Ordered
    BY RingAssumption DEF IInv, TypeOK, Counted
<1>2. Unreaped \in Seq(CqeType)
      /\ LastOnes(posted) = LastOnes(reaped) + LastOnes(Unreaped) + LastOnes(overflow)
    BY <1>1, UnreapedType, OrderedFifo
<1> SUFFICES ASSUME careful
             PROVE  /\ in_flight - dec = Cardinality(armed) + LastOnes(Unreaped) + LastOnes(overflow)
                    /\ 0 <= in_flight - dec
    BY DEF InFlightExact
<1> DEFINE ca == Cardinality(armed)
           lr == LastOnes(reaped)
           lu == LastOnes(Unreaped)
           lo == LastOnes(overflow)
<1>3. ca \in Nat /\ lr \in Nat /\ lu \in Nat /\ lo \in Nat
    BY <1>1, <1>2, FS_CardinalityType, LastOnesType
<1>4. accepted = ca + (lr + lu + lo) /\ in_flight - dec + lr = accepted
    BY <1>2 DEF IInv, Counted
<1> HIDE DEF ca, lr, lu, lo
<1>5. in_flight - dec = ca + lu + lo /\ 0 <= in_flight - dec
    BY <1>1, <1>3, <1>4
<1> QED
    BY <1>5 DEF ca, lu, lo

\* The end of reap takes what it counted off in_flight.
LEMMA ReapEndKeeps ==
    ASSUME IInv, ReapEnd
    PROVE  IInv'
<1>1. /\ in_flight' = (in_flight - dec) % U32 /\ dec' = 0 /\ pc = "reap" /\ pc' = "idle"
      /\ UNCHANGED <<ring, caller, filling, min_complete, cq, overflow, posted, reaped>>
    BY DEF ReapEnd
<1>2. /\ in_flight \in 0 .. U32 - 1 /\ dec \in Nat /\ U32 \in Nat \ {0} /\ in_flight - dec \in Int
    BY RingAssumption DEF IInv, TypeOK
<1>3. in_flight' \in 0 .. U32 - 1
    BY <1>1, <1>2
<1>4. TypeOK'
    BY <1>1, <1>3 DEF IInv, TypeOK, ring, caller, filling
<1>5. Positions' /\ Handing' /\ Ending' /\ Ordered' /\ RoomKept'
    BY <1>1 DEF IInv, Positions, Handing, Ending, Ordered, RoomKept, Outstanding, ring, caller, filling
<1>6. ASSUME careful PROVE in_flight' = in_flight - dec
    <2>1. 0 <= in_flight - dec /\ in_flight - dec < U32
        BY <1>2, <1>6, InFlightIs
    <2> QED
        BY <2>1, <1>1, <1>2, SmallMod
<1>7. Counted'
    <2>1. ASSUME careful PROVE in_flight' - dec' + LastOnes(reaped) = accepted
        <3>1. in_flight' - dec' = in_flight - dec
            BY <2>1, <1>1, <1>2, <1>6
        <3> QED
            BY <3>1, <2>1 DEF IInv, Counted
    <2> QED
        BY <2>1, <1>1 DEF IInv, Counted, ring, caller
<1> QED
    BY <1>4, <1>5, <1>7 DEF IInv

\* wait.
LEMMA WaitKeeps ==
    ASSUME IInv, WaitBegin \/ WaitReturn \/ WaitInterrupted
    PROVE  IInv'
<1>1. /\ dec \in Nat /\ (pc \notin {"reap", "cqe"} => dec = 0)
      /\ in_flight \in 0 .. U32 - 1 /\ CqEntries \in Nat /\ U32 \in Nat
    BY RingAssumption DEF IInv, TypeOK
<1>2. CASE WaitBegin
    <2>1. min_complete' \in 0 .. CqEntries
        BY <1>1, <1>2 DEF WaitBegin
    <2> QED
        BY <2>1, <1>1, <1>2, LocalKeeps DEF WaitBegin
<1>3. CASE WaitReturn \/ WaitInterrupted
    <2>1. 0 \in 0 .. CqEntries
        BY <1>1
    <2> QED
        BY <2>1, <1>1, <1>3, LocalKeeps DEF WaitReturn, WaitInterrupted
<1> QED
    BY <1>2, <1>3

-----------------------------------------------------------------------------
(***************************************************************************)
(* The invariant of the specification and what follows.                    *)
(***************************************************************************)

\* The backend starts in it.
LEMMA IInvInit == Init => IInv
<1> SUFFICES ASSUME Init PROVE IInv
    OBVIOUS
<1>1. /\ sq.head = 0 /\ sq.tail = 0 /\ cq.head = 0 /\ cq.tail = 0
      /\ armed = {} /\ accepted = 0 /\ overflow = << >> /\ posted = << >> /\ reaped = << >>
      /\ in_flight = 0 /\ dec = 0 /\ pc = "idle" /\ submitted = 0 /\ asked = {} /\ told = {}
      /\ next_ud = 1 /\ careful \in BOOLEAN
    BY RingAssumption DEF Init
<1>2. /\ << >> \in Seq(CqeType) /\ Len(overflow) = 0 /\ Len(posted) = 0 /\ Len(reaped) = 0
    BY <1>1, EmptySeq
<1>3. TypeOK
    <2>1. sq \in [head : Nat, tail : Nat, slot : [0 .. SqEntries - 1 -> SqeType \cup {NoSqe}]]
        BY DEF Init
    <2>2. cq \in [head : Nat, tail : Nat, slot : [0 .. CqEntries - 1 -> CqeType \cup {NoCqe}]]
        BY DEF Init
    <2>3. 0 \in 0 .. U32 - 1 /\ 0 \in 0 .. CqEntries /\ 1 \in 1 .. MaxFlows + 1 /\ 0 - 0 <= CqEntries
        BY RingAssumption
    <2>4. vec = NoVec /\ vec \in [bufs : Nat, buf : Nat, tail : Nat] /\ min_complete = 0
        BY DEF Init, NoVec
    <2> QED
        BY <2>1, <2>2, <2>3, <2>4, <1>1, <1>2 DEF TypeOK
<1>4. Positions
    BY <1>1 DEF Positions, Written
<1>5. Handing
    BY <1>1, RingAssumption DEF Handing, Batch, NoMulti
<1>6. Ordered /\ Ending
    BY <1>1, <1>2 DEF Ordered, Ending
<1>7. Counted
    <2>1. LastOnes(posted) = 0 /\ LastOnes(reaped) = 0
        BY <1>1, LastOnesEmpty
    <2>2. IsFiniteSet(armed) /\ Cardinality(armed) = 0
        BY <1>1, FS_EmptySet
    <2> QED
        BY <2>1, <2>2, <1>1 DEF Counted
<1>8. RoomKept
    <2>1. Shots(armed) = {}
        BY <1>1 DEF Shots
    <2>2. Cardinality(Shots(armed)) = 0
        BY <2>1, FS_EmptySet
    <2>3. Outstanding = 0 + (0 - 0) + 0 + (0 - 0)
        BY <2>2, <1>1, <1>2, <1>3, OutstandingIs
    <2> QED
        BY <2>3, <1>1, RingAssumption DEF RoomKept
<1> QED
    BY <1>3, <1>4, <1>5, <1>6, <1>7, <1>8 DEF IInv

\* Every step stays in it.
LEMMA IInvNext == IInv /\ [Next]_vars => IInv'
<1> SUFFICES ASSUME IInv, [Next]_vars PROVE IInv'
    OBVIOUS
<1>1. ASSUME NEW bufs \in BufCounts, SubmitOne(bufs) PROVE IInv'
    BY <1>1, SubmitOneKeeps
<1>2. ASSUME NEW bufs \in BufCounts, SubmitVectored(bufs) PROVE IInv'
    BY <1>2, SubmitVectoredKeeps
<1>3. CASE SubmitBuffer
    BY <1>3, SubmitBufferKeeps
<1>4. CASE SubmitVectoredEnd
    BY <1>4, SubmitVectoredEndKeeps
<1>5. CASE SubmitEnter
    BY <1>5, SubmitEnterKeeps
<1>6. CASE SubmitMulti
    BY <1>6, SubmitMultiKeeps
<1>7. ASSUME NEW target \in 1 .. next_ud - 1, CancelMulti(target) PROVE IInv'
    BY <1>7, CancelMultiKeeps
<1>8. ASSUME NEW id \in 0 .. MaxFlows - 1, Complete(id) PROVE IInv'
    <2>1. PICK a \in armed : CompleteMore(a) \/ CompleteLast(a)
        BY <1>8 DEF Complete
    <2> QED
        BY <2>1, CompleteMoreKeeps, CompleteLastKeeps
<1>9. CASE KernelFlush
    BY <1>9, KernelFlushKeeps
<1>10. CASE ReapBegin \/ ReapLook
    BY <1>10, ReapBeginKeeps
<1>11. CASE ReapOne
    BY <1>11, ReapOneKeeps
<1>12. CASE ReapEnd
    BY <1>12, ReapEndKeeps
<1>13. CASE WaitBegin \/ WaitReturn \/ WaitInterrupted
    BY <1>13, WaitKeeps
<1>14. CASE UNCHANGED vars
    <2> USE <1>14 DEF vars, ring, caller, local, filling
    <2>1. TypeOK'
        BY DEF IInv, TypeOK
    <2>2. Positions' /\ Handing' /\ Ordered'
        BY DEF IInv, Positions, Handing, Ordered
    <2>3. Ending' /\ Counted' /\ RoomKept'
        BY DEF IInv, Ending, Counted, RoomKept, Outstanding
    <2> QED
        BY <2>1, <2>2, <2>3 DEF IInv
<1> QED
    BY <1>1, <1>2, <1>3, <1>4, <1>5, <1>6, <1>7, <1>8, <1>9, <1>10, <1>11, <1>12, <1>13, <1>14 DEF Next

\* The inductive invariant of the io_uring backend: submit, reap and wait under
\* the backend mutex, and a kernel that completes between any two of their steps.
THEOREM Invariance == Spec => []IInv
BY IInvInit, IInvNext, PTL DEF Spec

\* Within the limits in_flight is exactly the operations accepted whose last
\* completion was not reaped: the modular additions of submit and subtractions
\* of reap never wrap, and F_MORE completions do not lower it.
THEOREM AccountExactHolds == Spec => []AccountExact
<1>1. IInv => AccountExact
    BY InFlightIs DEF AccountExact, IInv
<1> QED
    BY <1>1, Invariance, PTL

\* Completions come back from reap in the order the kernel posted them, none lost
\* or repeated, for rings of any size, whatever wraps around or overflows, within
\* the limits or not.
THEOREM FifoOrderHolds == Spec => []FifoOrder
<1>1. IInv => FifoOrder
    BY OrderedFifo DEF IInv
<1> QED
    BY <1>1, Invariance, PTL

\* An operation that the kernel accepted ends once, and within the limits every
\* buffer that submit reported was accepted.
THEOREM EndsOnceHolds == Spec => []EndsOnce
<1>1. IInv => EndsOnce
    <2> SUFFICES ASSUME IInv PROVE EndsOnce
        OBVIOUS
    <2>1. careful => HandedOver
        BY DEF IInv, Handing, HandedOver
    <2>2. ASSUME NEW i \in 1 .. Len(reaped), NEW j \in 1 .. Len(reaped),
                 i < j, reaped[i].seq = reaped[j].seq
          PROVE  reaped[i].more
        <3>1. PICK h \in Nat, t \in Nat, v \in Nat :
                Len(reaped) = h /\ h <= t /\ Len(posted) = t + v
            <4>1. overflow \in Seq(CqeType) /\ Len(overflow) \in Nat
                BY LenProperties DEF IInv, TypeOK
            <4> QED
                BY <4>1 DEF IInv, TypeOK, Ordered
        <3>2. i \in 1 .. Len(posted) /\ j \in 1 .. Len(posted)
            BY <3>1
        <3>3. reaped[i] = posted[i] /\ reaped[j] = posted[j]
            BY DEF IInv, Ordered
        <3> QED
            BY <3>2, <3>3, <2>2 DEF IInv, Ending
    <2> QED
        BY <2>1, <2>2 DEF EndsOnce, IInv, Ending
<1> QED
    BY <1>1, Invariance, PTL

\* The completion ring never fills and nothing overflows it.
NeverFull == cq.tail - cq.head < CqEntries /\ overflow = << >>

\* Within the limits that is so, though the kernel may complete everything it has
\* before the next reap: the masked test for an empty ring in reap, which takes a
\* full one for an empty one, never meets a full one.
THEOREM NeverFullHolds == Spec => [](careful => NeverFull)
<1>1. IInv => (careful => NeverFull)
    <2> SUFFICES ASSUME IInv, careful PROVE NeverFull
        OBVIOUS
    <2>1. Outstanding < CqEntries /\ overflow = << >> /\ Len(overflow) = 0
        BY EmptySeq DEF IInv, RoomKept
    <2> DEFINE ca == Cardinality(Shots(armed))
    <2>2. Outstanding = ca + (cq.tail - cq.head) + 0 + (sq.tail - sq.head) /\ ca \in Nat
        BY <2>1, OutstandingIs DEF IInv
    <2> HIDE DEF ca
    <2>3. sq.tail \in Nat /\ sq.head \in Nat /\ sq.head <= sq.tail /\ cq.tail \in Nat /\ cq.head \in Nat
        BY DEF IInv, TypeOK
    <2>4. cq.tail - cq.head < CqEntries
        BY <2>1, <2>2, <2>3, RingAssumption
    <2> QED
        BY <2>1, <2>4 DEF NeverFull
<1> QED
    BY <1>1, Invariance, PTL
=============================================================================

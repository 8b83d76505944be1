---------------------------- MODULE UringBackend -----------------------------
(***************************************************************************)
(* UringBackend (tpt-torus-backend-uring/src/lib.rs): submit fills SQEs and *)
(* enters the kernel, reap drains the completion ring, wait blocks in the  *)
(* kernel.  The three run one at a time under the backend mutex of Torus;  *)
(* the kernel posts completions at any moment, between any two steps of    *)
(* submit and reap too.                                                    *)
(*                                                                         *)
(* The rings are the kernel's: sq_entries and cq_entries are powers of two *)
(* and the masks are entries - 1, so x & mask is x % entries.  Heads and   *)
(* tails are u32 in the code and unbounded here: 2^32 is a multiple of the *)
(* entries, so neither slots nor differences can tell.                     *)
(*                                                                         *)
(* A flow is a caller's user_data with a list of buffers.  Read, Write,    *)
(* Recv, Send, Accept, Connect and Close are flows of one buffer, Readv    *)
(* and Writev flows of any number.                                         *)
(***************************************************************************)
EXTENDS Integers, Sequences, FiniteSets

CONSTANTS
    SqEntries, CqEntries,
    U32,            \* stands for 2^32, the modulus of in_flight
    BufCounts,      \* buffer counts of the flows given to submit
    MaxFlows,       \* bound: flows ever submitted
    MaxShots,       \* bound: completions of a multishot operation that carry F_MORE
    MaxOutstanding, \* bound: completions a careless caller lets be outstanding
    EnterFaults,    \* what io_uring_enter may do: subset of {"error", "partial"}
    Cares           \* kinds of use that are explored: subset of BOOLEAN, see careful

ASSUME RingAssumption ==
    /\ SqEntries \in Nat \ {0} /\ CqEntries \in Nat \ {0} /\ U32 \in Nat \ {0}
    /\ CqEntries <= U32        \* cq_entries is a u32
    /\ BufCounts \subseteq Nat /\ EnterFaults \subseteq {"error", "partial"}
    /\ MaxFlows \in Nat /\ MaxShots \in Nat /\ MaxOutstanding \in Nat
    /\ Cares \subseteq BOOLEAN

VARIABLES
    sq,             \* the submission ring: head, tail and the SQE slots
    armed,          \* kernel: accepted operations that may still complete
    accepted,       \* kernel: number of SQEs accepted so far
    cq,             \* the completion ring: head, tail and the CQE slots
    overflow,       \* kernel: completions that found the CQ ring full, oldest first
    in_flight,      \* the AtomicU32
    pc,             \* the call under the backend mutex: "idle", "submit", "vectored",
                    \* "reap", "cqe" or "wait"
    submitted,      \* submit's local count of SQEs
    vec,            \* the vectored flow in submit's hands: buffers, last one written, tail
    dec,            \* reap's local count of operations that ended
    min_complete,   \* wait's argument to io_uring_enter
    careful,        \* the backend is used within its limits, see Limits
    next_ud,        \* the user_data the caller gives its next flow
    asked,          \* history: <<user_data, buffer>> of the flows of this submit
    told,           \* history: <<user_data, buffer>> that submit reported submitted
    taken,          \* history: <<user_data, buffer>> the kernel accepted
    posted,         \* history: completions in the order the kernel posted them
    reaped          \* history: completions in the order reap returned them

ring   == <<sq, armed, accepted, taken>>
caller == <<careful, next_ud, told>>
filling == <<submitted, vec, asked>>
local  == <<pc, filling, dec, min_complete>>
vars   == <<ring, caller, local, cq, overflow, in_flight, posted, reaped>>

\* A zeroed entry; opcode 0 is the NOP.
NoSqe == [user_data |-> 0, kind |-> "nop", target |-> 0, buf |-> 0]
NoVec == [bufs |-> 0, buf |-> 0, tail |-> 0]
NoCqe == [user_data |-> 0, seq |-> 0, more |-> FALSE]

-----------------------------------------------------------------------------
(***************************************************************************)
(* The submission ring.                                                    *)
(***************************************************************************)

Flow(ud, kind, bufs, target) ==
    [user_data |-> ud, kind |-> kind, bufs |-> bufs, target |-> target]

\* An SQE for buffer number buf of a flow; buffer 0 is the NOP of an empty list.
Sqe(flow, buf) ==
    [user_data |-> flow.user_data, kind |-> flow.kind, target |-> flow.target, buf |-> buf]

\* The test for a full ring.  It masks the difference, which is then always
\* smaller than the number of entries.
SqFull(s) == (s.tail - s.head) % SqEntries >= SqEntries

\* Write the SQE at the tail and publish it.
Push(s, e) == [s EXCEPT !.slot[s.tail % SqEntries] = e, !.tail = @ + 1]

\* What the caller asked for with a flow.
BuffersOf(flow) ==
    {<<flow.user_data, b>> : b \in IF flow.bufs = 0 THEN {0} ELSE 1 .. flow.bufs}

\* The SQEs io_uring_enter finds when it is told to submit n.
Visible(s, n) ==
    CHOOSE k \in {n, s.tail - s.head, SqEntries} :
        k <= n /\ k <= s.tail - s.head /\ k <= SqEntries

\* The kernel accepts the first k SQEs of the ring.
Accept(s, k) ==
    LET sqe(i) == s.slot[(s.head + i) % SqEntries] IN
    /\ sq' = [s EXCEPT !.head = @ + k]
    /\ armed' = armed \cup
                  {[seq |-> accepted + i, sqe |-> sqe(i),
                    shots |-> IF sqe(i).kind = "multi" THEN MaxShots ELSE 0] : i \in 0 .. k - 1}
    /\ accepted' = accepted + k
    /\ taken' = taken \cup {<<sqe(i).user_data, sqe(i).buf>> : i \in 0 .. k - 1}

\* io_uring_enter(to_submit = n) once the ring is s.  The kernel takes what it
\* finds, or only a part of it, or fails and takes nothing: the SQEs then stay
\* in the ring.  The code looks at the sign of the return value only.
Enter(s, n, buffers) ==
    \/ /\ \E k \in 1 .. Visible(s, n) :
            /\ k = Visible(s, n) \/ (~careful /\ "partial" \in EnterFaults)
            /\ Accept(s, k)
       /\ in_flight' = (in_flight + n) % U32
       /\ told' = told \cup buffers
    \/ /\ ~careful /\ "error" \in EnterFaults
       /\ sq' = s
       /\ UNCHANGED <<armed, accepted, taken, in_flight, told>>

\* Completions that are, or will be, in the CQ ring.
Outstanding ==
    Cardinality(UNION {{<<a.seq, i>> : i \in 0 .. a.shots} : a \in armed})
    + (cq.tail - cq.head) + Len(overflow) + (sq.tail - sq.head)

\* The limits of a careful use: no batch larger than the submission ring, no
\* vectored flow of several buffers, fewer completions outstanding than the
\* completion ring has entries; and io_uring_enter takes what it is given.
Limits(bufs, completions) ==
    /\ sq.tail - sq.head < SqEntries
    /\ bufs <= 1
    /\ Outstanding + completions < CqEntries

\* The caller has a flow to submit, the next one of its batch.
MaySubmit(bufs, completions) ==
    /\ next_ud <= MaxFlows
    /\ IF careful THEN Limits(bufs, completions)
                  ELSE Outstanding + completions <= MaxOutstanding
    /\ next_ud' = next_ud + 1
    /\ UNCHANGED <<careful, dec, min_complete, cq, overflow, posted, reaped>>

\* submit, a turn of its loop for a flow of at most one buffer.  (An empty batch
\* is refused with SubmissionFull and changes nothing.)
SubmitOne(bufs) ==
    LET flow == Flow(next_ud, "one", bufs, 0) IN
    /\ pc \in {"idle", "submit"} /\ bufs <= 1
    /\ MaySubmit(bufs, 1)
    /\ ~SqFull(sq)
    /\ pc' = "submit"
    /\ sq' = Push(sq, Sqe(flow, bufs))
    /\ submitted' = submitted + 1
    /\ asked' = asked \cup BuffersOf(flow)
    /\ UNCHANGED <<armed, accepted, taken, in_flight, told, vec>>

\* A turn for a vectored flow: write the SQE of the first buffer.
SubmitVectored(bufs) ==
    LET flow == Flow(next_ud, "one", bufs, 0) IN
    /\ pc \in {"idle", "submit"} /\ bufs > 1
    /\ MaySubmit(bufs, 1)
    /\ ~SqFull(sq)
    /\ pc' = "vectored"
    /\ sq' = [sq EXCEPT !.slot[sq.tail % SqEntries] = Sqe(flow, 1)]
    /\ vec' = [bufs |-> bufs, buf |-> 1, tail |-> sq.tail]
    /\ asked' = asked \cup BuffersOf(flow)
    /\ UNCHANGED <<armed, accepted, taken, in_flight, told, submitted>>

\* The inner loop.  The tail has not been moved past the SQE of buffer 1 when
\* buffer 2 is written, so buffer 2 is written over it.
SubmitBuffer ==
    /\ pc = "vectored" /\ vec.buf < vec.bufs
    /\ ~SqFull(sq)
    /\ sq' = Push(sq, Sqe(Flow(next_ud - 1, "one", vec.bufs, 0), vec.buf + 1))
    /\ vec' = [vec EXCEPT !.buf = @ + 1]
    /\ submitted' = submitted + 1
    /\ UNCHANGED <<armed, accepted, taken, caller, pc, asked, dec, min_complete,
                   cq, overflow, in_flight, posted, reaped>>

\* The end of the turn.  The tail is stored as the old tail plus one, whatever
\* the inner loop published.
SubmitVectoredEnd ==
    /\ pc = "vectored" /\ (vec.buf = vec.bufs \/ SqFull(sq))
    /\ pc' = "submit"
    /\ sq' = [sq EXCEPT !.tail = vec.tail + 1]
    /\ submitted' = submitted + 1
    /\ vec' = NoVec
    /\ UNCHANGED <<armed, accepted, taken, caller, asked, dec, min_complete,
                   cq, overflow, in_flight, posted, reaped>>

\* The end of submit: enter the kernel with what was filled.
SubmitEnter ==
    /\ pc = "submit"
    /\ Enter(sq, submitted, asked)
    /\ pc' = "idle" /\ submitted' = 0 /\ asked' = {}
    /\ UNCHANGED <<careful, next_ud, vec, dec, min_complete, cq, overflow, posted, reaped>>

\* submit_multi_accept and submit_multi_recv.
SubmitMulti ==
    LET flow == Flow(next_ud, "multi", 1, 0) IN
    /\ pc = "idle"
    /\ MaySubmit(1, MaxShots + 1)
    /\ ~SqFull(sq)
    /\ Enter(Push(sq, Sqe(flow, 1)), 1, BuffersOf(flow))
    /\ UNCHANGED <<pc, filling>>

\* cancel_multi.
CancelMulti(target) ==
    LET flow == Flow(next_ud, "cancel", 1, target) IN
    /\ pc = "idle"
    /\ MaySubmit(1, 1)
    /\ ~SqFull(sq)
    /\ Enter(Push(sq, Sqe(flow, 1)), 1, BuffersOf(flow))
    /\ UNCHANGED <<pc, filling>>

-----------------------------------------------------------------------------
(***************************************************************************)
(* The kernel's side of the completion ring (external).                    *)
(***************************************************************************)

CqRoom == cq.tail - cq.head < CqEntries

\* A completion goes to the ring, or behind the others that found it full.
Post(c) ==
    /\ posted' = Append(posted, c)
    /\ IF CqRoom /\ overflow = << >>
       THEN /\ cq' = [cq EXCEPT !.slot[cq.tail % CqEntries] = c, !.tail = @ + 1]
            /\ UNCHANGED overflow
       ELSE /\ overflow' = Append(overflow, c)
            /\ UNCHANGED cq

Cqe(a, more) == [user_data |-> a.sqe.user_data, seq |-> a.seq, more |-> more]

\* A multishot operation completes and stays armed.
CompleteMore(a) ==
    /\ a.shots > 0
    /\ armed' = (armed \ {a}) \cup {[a EXCEPT !.shots = @ - 1]}
    /\ Post(Cqe(a, TRUE))
    /\ UNCHANGED <<sq, accepted, taken, caller, local, in_flight, reaped>>

\* An operation ends.  A cancel leaves its target no completion but the last.
CompleteLast(a) ==
    /\ armed' = {[b EXCEPT !.shots = IF a.sqe.kind = "cancel" /\ a.sqe.target = b.sqe.user_data
                                     THEN 0 ELSE @] : b \in armed \ {a}}
    /\ Post(Cqe(a, FALSE))
    /\ UNCHANGED <<sq, accepted, taken, caller, local, in_flight, reaped>>

\* A completion that found the ring full enters it when there is room again.
KernelFlush ==
    /\ overflow # << >>
    /\ CqRoom
    /\ cq' = [cq EXCEPT !.slot[cq.tail % CqEntries] = Head(overflow), !.tail = @ + 1]
    /\ overflow' = Tail(overflow)
    /\ UNCHANGED <<ring, caller, local, in_flight, posted, reaped>>

-----------------------------------------------------------------------------
(***************************************************************************)
(* reap.                                                                   *)
(***************************************************************************)

\* The test for an empty ring.  It masks the difference too: a ring with
\* exactly CqEntries completions passes for an empty one.
CqEmpty == (cq.tail - cq.head) % CqEntries = 0

ReapBegin ==
    /\ pc = "idle"
    /\ pc' = "reap"
    /\ dec' = 0
    /\ UNCHANGED <<ring, caller, filling, min_complete, cq, overflow, in_flight, posted, reaped>>

\* One turn of the loop: the ring is not empty.  The kernel may fill it, and
\* overflow, before the head is moved ...
ReapLook ==
    /\ pc = "reap"
    /\ ~CqEmpty
    /\ pc' = "cqe"
    /\ UNCHANGED <<ring, caller, filling, dec, min_complete, cq, overflow, in_flight, posted, reaped>>

\* Fault: every completion counts as the end of its operation.
ReapOne_CountMore ==
    /\ pc = "cqe"
    /\ pc' = "reap"
    /\ reaped' = Append(reaped, cq.slot[cq.head % CqEntries])
    /\ dec' = dec + 1
    /\ cq' = [cq EXCEPT !.head = @ + 1]
    /\ UNCHANGED <<ring, caller, filling, min_complete, overflow, in_flight, posted>>

\* Fault: the head is moved to the tail that was read.
ReapOne_HeadToTail ==
    /\ pc = "cqe"
    /\ pc' = "reap"
    /\ reaped' = Append(reaped, cq.slot[cq.head % CqEntries])
    /\ dec' = dec + (IF cq.slot[cq.head % CqEntries].more THEN 0 ELSE 1)
    /\ cq' = [cq EXCEPT !.head = cq.tail]
    /\ UNCHANGED <<ring, caller, filling, min_complete, overflow, in_flight, posted>>

\* Fault: the completion is pushed to the results twice.
ReapOne_Twice ==
    LET cqe == cq.slot[cq.head % CqEntries] IN
    /\ pc = "cqe"
    /\ pc' = "reap"
    /\ reaped' = reaped \o <<cqe, cqe>>
    /\ dec' = dec + (IF cqe.more THEN 0 ELSE 1)
    /\ cq' = [cq EXCEPT !.head = @ + 1]
    /\ UNCHANGED <<ring, caller, filling, min_complete, overflow, in_flight, posted>>

\* ... and the rest of the turn: push the result, move the head.
ReapOne ==
    LET cqe == cq.slot[cq.head % CqEntries] IN
    /\ pc = "cqe"
    /\ pc' = "reap"
    /\ reaped' = Append(reaped, cqe)
    /\ dec' = dec + (IF cqe.more THEN 0 ELSE 1)
    /\ cq' = [cq EXCEPT !.head = @ + 1]
    /\ UNCHANGED <<ring, caller, filling, min_complete, overflow, in_flight, posted>>

ReapEnd ==
    /\ pc = "reap"
    /\ CqEmpty
    /\ pc' = "idle"
    /\ in_flight' = (in_flight - dec) % U32
    /\ dec' = 0
    /\ UNCHANGED <<ring, caller, filling, min_complete, cq, overflow, posted, reaped>>

-----------------------------------------------------------------------------
(***************************************************************************)
(* wait.                                                                   *)
(***************************************************************************)

\* Fault: one completion more than there are operations is waited for.
WaitBegin_OneMore ==
    /\ pc = "idle"
    /\ pc' = "wait"
    /\ min_complete' = in_flight + 1
    /\ UNCHANGED <<ring, caller, filling, dec, cq, overflow, in_flight, posted, reaped>>

\* wait asks for as many completions as there are operations in flight; the
\* kernel waits for no more than the ring holds.  The timeout is not passed on.
WaitBegin ==
    /\ pc = "idle"
    /\ pc' = "wait"
    /\ min_complete' = IF in_flight < CqEntries THEN in_flight ELSE CqEntries
    /\ UNCHANGED <<ring, caller, filling, dec, cq, overflow, in_flight, posted, reaped>>

WaitReturn ==
    /\ pc = "wait"
    /\ cq.tail - cq.head >= min_complete
    /\ pc' = "idle"
    /\ min_complete' = 0
    /\ UNCHANGED <<ring, caller, filling, dec, cq, overflow, in_flight, posted, reaped>>

\* A signal ends the call, which returns its error.
WaitInterrupted ==
    /\ pc = "wait"
    /\ pc' = "idle"
    /\ min_complete' = 0
    /\ UNCHANGED <<ring, caller, filling, dec, cq, overflow, in_flight, posted, reaped>>

-----------------------------------------------------------------------------
Init ==
    /\ sq = [head |-> 0, tail |-> 0, slot |-> [i \in 0 .. SqEntries - 1 |-> NoSqe]]
    /\ cq = [head |-> 0, tail |-> 0, slot |-> [i \in 0 .. CqEntries - 1 |-> NoCqe]]
    /\ armed = {} /\ accepted = 0 /\ overflow = << >>
    /\ in_flight = 0
    /\ pc = "idle" /\ submitted = 0 /\ vec = NoVec /\ dec = 0 /\ min_complete = 0
    /\ careful \in Cares /\ next_ud = 1
    /\ asked = {} /\ told = {} /\ taken = {} /\ posted = << >> /\ reaped = << >>

Complete(id) == \E a \in armed : a.seq = id /\ (CompleteMore(a) \/ CompleteLast(a))

Next ==
    \/ \E bufs \in BufCounts : SubmitOne(bufs) \/ SubmitVectored(bufs)
    \/ SubmitBuffer \/ SubmitVectoredEnd \/ SubmitEnter
    \/ SubmitMulti
    \/ \E target \in 1 .. next_ud - 1 : CancelMulti(target)
    \/ \E id \in 0 .. MaxFlows - 1 : Complete(id)
    \/ KernelFlush
    \/ ReapBegin \/ ReapLook \/ ReapOne \/ ReapEnd
    \/ WaitBegin \/ WaitReturn \/ WaitInterrupted

Spec == Init /\ [][Next]_vars

\* The kernel completes what it accepted and moves overflowed completions back; a
\* call that can go on goes on; and the caller reaps again and again, whatever
\* else it calls in between.
Fairness ==
    /\ \A id \in 0 .. MaxFlows - 1 : WF_vars(Complete(id))
    /\ WF_vars(KernelFlush)
    /\ WF_vars(SubmitBuffer \/ SubmitVectoredEnd \/ SubmitEnter)
    /\ WF_vars(ReapLook \/ ReapOne \/ ReapEnd) /\ WF_vars(WaitReturn)
    /\ SF_vars(ReapBegin)

FairSpec == Spec /\ Fairness

-----------------------------------------------------------------------------
(***************************************************************************)
(* Properties.                                                             *)
(***************************************************************************)

SqeType == [user_data : 1 .. MaxFlows, kind : {"one", "multi", "cancel"},
            target : 0 .. MaxFlows, buf : Nat]
CqeType == [user_data : 1 .. MaxFlows, seq : 0 .. MaxFlows - 1, more : BOOLEAN]
ArmedType == [seq : 0 .. MaxFlows - 1, sqe : SqeType, shots : 0 .. MaxShots]

\* The rings hold entries of their kind, the u32 counter stays a u32 and the
\* locals of the calls are reset between them.
TypeOK ==
    /\ sq \in [head : Nat, tail : Nat, slot : [0 .. SqEntries - 1 -> SqeType \cup {NoSqe}]]
    /\ sq.head <= sq.tail
    /\ cq \in [head : Nat, tail : Nat, slot : [0 .. CqEntries - 1 -> CqeType \cup {NoCqe}]]
    /\ cq.head <= cq.tail /\ cq.tail - cq.head <= CqEntries
    /\ accepted \in Nat /\ armed \subseteq ArmedType /\ \A a \in armed : a.seq < accepted
    /\ overflow \in Seq(CqeType) /\ posted \in Seq(CqeType) /\ reaped \in Seq(CqeType)
    /\ careful \in BOOLEAN /\ next_ud \in 1 .. MaxFlows + 1
    /\ in_flight \in 0 .. U32 - 1
    /\ pc \in {"idle", "submit", "vectored", "reap", "cqe", "wait"}
    /\ submitted \in Nat /\ (pc \notin {"submit", "vectored"} => submitted = 0 /\ asked = {})
    /\ vec \in [bufs : Nat, buf : Nat, tail : Nat] /\ (pc # "vectored" => vec = NoVec)
    /\ dec \in Nat /\ (pc \notin {"reap", "cqe"} => dec = 0)
    /\ min_complete \in 0 .. CqEntries /\ (pc # "wait" => min_complete = 0)

\* Completions in the ring, oldest first.
Unreaped == [i \in 1 .. cq.tail - cq.head |-> cq.slot[(cq.head + i - 1) % CqEntries]]

LastOnes(s) == Cardinality({i \in 1 .. Len(s) : ~s[i].more})

\* Within the limits, in_flight is exactly the number of operations the kernel
\* has accepted and whose last completion has not been reaped: intermediate
\* completions of a multishot operation never lower it, and between the calls
\* nothing is counted twice or forgotten.  (Inside reap the operations counted
\* in dec are still to be subtracted.)
InFlightExact ==
    careful =>
        in_flight - dec = Cardinality(armed) + LastOnes(Unreaped) + LastOnes(overflow)
AccountExact == TypeOK /\ InFlightExact

\* Every buffer of every flow that submit reported as submitted was handed to
\* the kernel: no SQE is overwritten or left behind.
HandedOver == told \subseteq taken

\* Completions come back in the order the kernel posted them, none lost, none
\* twice, across wrap-arounds of the ring and overflows.
FifoOrder == reaped \o Unreaped \o overflow = posted

\* Within the limits every operation that submit reported is accepted by the
\* kernel, and one that the kernel accepted ends once: no completion of it is
\* returned after its last one, and it has a last one or is still armed.
EndsOnce ==
    /\ careful => HandedOver
    /\ \A i, j \in 1 .. Len(reaped) :
          i < j /\ reaped[i].seq = reaped[j].seq => reaped[i].more
    /\ \A id \in 0 .. accepted - 1 :
          \/ \E a \in armed : a.seq = id
          \/ \E i \in 1 .. Len(posted) : posted[i].seq = id /\ ~posted[i].more

\* Again and again, reap has returned everything the kernel has posted.
CompletionsReaped == []<>(reaped = posted)

\* A call of wait returns.
WaitReturns == pc = "wait" ~> pc # "wait"

\* Within the limits no completion is left in the ring, and wait returns once the
\* operations in flight have completed.
Progress == careful => CompletionsReaped /\ WaitReturns
=============================================================================

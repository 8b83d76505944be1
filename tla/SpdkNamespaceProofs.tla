------------------------- MODULE SpdkNamespaceProofs -------------------------
(***************************************************************************)
(* Proofs about SpdkNamespace for any set of threads, finite or not, and a *)
(* pool of any size.                                                       *)
(***************************************************************************)
EXTENDS SpdkNamespace, FiniteSetTheorems, SequenceTheorems, TLAPS

Held == {t \in Threads : buf[t] # NoBuffer}

\* An index is on the free list once, and with no thread at the same time.
FreeListOnce ==
    /\ \A i, j \in 1 .. Len(free_list) : free_list[i] = free_list[j] => i = j
    /\ \A t \in Threads, i \in 1 .. Len(free_list) : free_list[i] # buf[t]

\* A buffer is with one thread.
OneHolder == \A t, u \in Threads : buf[t] = buf[u] /\ buf[t] # NoBuffer => t = u

\* Which indices there are, and how many: BuffersConserved and what its count
\* needs to be one.
AllThere ==
    /\ \A b \in Buffers : \/ \E i \in 1 .. Len(free_list) : free_list[i] = b
                          \/ \E t \in Threads : buf[t] = b
    /\ IsFiniteSet(Held)
    /\ Len(free_list) + Cardinality(Held) = Count

\* Where the command and the locals of a call are at each of its steps.
CallPhase(t) ==
    /\ pc[t] \in {"idle", "submit", "finish"} => device[t] = "none"
    /\ pc[t] # "idle" => called[t] = 0 /\ (target[t] # NoBuffer => buf[t] = target[t])
    /\ pc[t] \in {"submit", "poll", "late"} => ~heard[t] /\ ~done[t]
    /\ pc[t] = "check" => done[t] = heard[t]
    /\ pc[t] \in {"submit", "poll", "check", "late"} => res[t] = "none"
    /\ pc[t] \in {"free", "finish"} => res[t] \in {"Ok", "Timeout"} /\ (res[t] = "Ok" <=> heard[t])
    /\ heard[t] => device[t] = "none"
Phases == \A t \in Threads : CallPhase(t)

IInv ==
    /\ TypeOK /\ FreeListOnce /\ OneHolder /\ AllThere
    /\ QpairsReturned /\ Phases /\ AnswerFaithful

-----------------------------------------------------------------------------
(***************************************************************************)
(* The pool.                                                               *)
(***************************************************************************)

\* Dropping the last element of a sequence keeps the others where they are.
LEMMA FrontOf ==
    ASSUME NEW S, NEW s \in Seq(S), s # << >>
    PROVE  /\ Front(s) \in Seq(S) /\ Len(Front(s)) = Len(s) - 1
           /\ \A i \in 1 .. Len(s) - 1 : Front(s)[i] = s[i]
           /\ Last(s) = s[Len(s)] /\ Len(s) \in Nat \ {0} /\ Last(s) \in S
<1>1. Len(s) \in Nat \ {0} /\ \A i \in 1 .. Len(s) : s[i] \in S
    BY EmptySeq, LenProperties
<1>2. \A i \in 1 .. Len(s) - 1 : s[i] \in S
    BY <1>1
<1> DEFINE m == Len(s) - 1
<1>3. m \in Int /\ 1 \in Int
    BY <1>1
<1>4. SubSeq(s, 1, m) \in Seq(S) /\ Len(SubSeq(s, 1, m)) = IF 1 <= m THEN m - 1 + 1 ELSE 0
    BY <1>2, <1>3, SubSeqProperties
<1>5. \A i \in 1 .. m - 1 + 1 : SubSeq(s, 1, m)[i] = s[1 + i - 1]
    BY <1>2, <1>3, SubSeqProperties
<1>6. Front(s) = SubSeq(s, 1, m) /\ Last(s) = s[Len(s)]
    BY DEF Front, Last
<1> DEFINE f == Front(s)
<1> HIDE DEF m, f
<1>7. f \in Seq(S) /\ Len(f) = m /\ m \in Nat /\ Last(s) = s[Len(s)]
    <2>1. m \in Nat
        BY <1>1 DEF m
    <2>2. f \in Seq(S)
        BY <1>4, <1>6 DEF f
    <2>3. Len(f) = IF 1 <= m THEN m - 1 + 1 ELSE 0
        BY <1>4, <1>6 DEF f
    <2> QED
        BY <2>1, <2>2, <2>3, <1>6
<1>8. \A i \in 1 .. m : f[i] = s[i]
    BY <1>1, <1>5, <1>6 DEF m, f
<1> QED
    BY <1>1, <1>7, <1>8 DEF m, f

\* DmaPool::alloc moves the last index of the free list to the thread.
LEMMA AllocStep ==
    ASSUME IInv, NEW t \in Threads, PoolAlloc(t)
    PROVE  TypeOK' /\ FreeListOnce' /\ OneHolder' /\ AllThere'
<1> DEFINE n == Len(free_list)
           b == free_list[n]
<1>1. /\ free_list \in Seq(Buffers) /\ buf \in [Threads -> Buffers \cup {NoBuffer}]
      /\ n \in Nat \ {0} /\ n <= Count
      /\ free_list' \in Seq(Buffers) /\ Len(free_list') = n - 1
      /\ \A i \in 1 .. n - 1 : free_list'[i] = free_list[i]
      /\ b \in Buffers /\ buf[t] = NoBuffer
      /\ buf' = [buf EXCEPT ![t] = b]
    <2>1. /\ free_list \in Seq(Buffers) /\ free_list # << >>
          /\ buf \in [Threads -> Buffers \cup {NoBuffer}] /\ n <= Count
        BY DEF IInv, TypeOK, PoolAlloc
    <2>2. /\ Front(free_list) \in Seq(Buffers) /\ Len(Front(free_list)) = n - 1
          /\ \A i \in 1 .. n - 1 : Front(free_list)[i] = free_list[i]
          /\ Last(free_list) = b /\ n \in Nat \ {0} /\ Last(free_list) \in Buffers
        BY <2>1, FrontOf
    <2> QED
        BY <2>1, <2>2 DEF PoolAlloc
<1>2. b # NoBuffer
    BY <1>1, SpdkAssumption DEF Buffers
<1> HIDE DEF n, b
<1>3. TypeOK'
    BY <1>1, SpdkAssumption DEF IInv, TypeOK, PoolAlloc, state, hw, history
<1>4. FreeListOnce' /\ OneHolder'
    <2>1. \A u \in Threads : buf'[u] = IF u = t THEN b ELSE buf[u]
        BY <1>1
    <2>2. \A i, j \in 1 .. n : free_list[i] = free_list[j] => i = j
        BY DEF IInv, FreeListOnce, n
    <2>3. \A u \in Threads, i \in 1 .. n : free_list[i] # buf[u]
        BY DEF IInv, FreeListOnce, n
    <2>4. b = free_list[n] /\ n \in 1 .. n
        BY <1>1 DEF b
    <2>5. FreeListOnce'
        BY <1>1, <2>1, <2>2, <2>3, <2>4 DEF FreeListOnce
    <2>6. OneHolder'
        BY <2>1, <2>3, <2>4 DEF IInv, OneHolder
    <2> QED
        BY <2>5, <2>6
<1>5. AllThere'
    <2>1. Held' = Held \cup {t} /\ t \notin Held
        BY <1>1, <1>2 DEF Held
    <2>2. IsFiniteSet(Held') /\ Cardinality(Held') = Cardinality(Held) + 1
        BY <2>1, FS_AddElement DEF IInv, AllThere
    <2>3. Len(free_list') + Cardinality(Held') = Count
        BY <1>1, <2>2, FS_CardinalityType, SpdkAssumption DEF IInv, AllThere, n
    <2>4. ASSUME NEW c \in Buffers
          PROVE  (\E i \in 1 .. n - 1 : free_list'[i] = c) \/ (\E u \in Threads : buf'[u] = c)
        <3>1. CASE \E i \in 1 .. n : free_list[i] = c
            <4>1. PICK i \in 1 .. n : free_list[i] = c
                BY <3>1
            <4>2. CASE i = n
                BY <4>1, <4>2, <1>1 DEF b
            <4>3. CASE i # n
                BY <4>1, <4>3, <1>1
            <4> QED
                BY <4>2, <4>3
        <3>2. CASE \E u \in Threads : buf[u] = c
            BY <3>2, <1>1, SpdkAssumption DEF Buffers
        <3> QED
            BY <3>1, <3>2 DEF IInv, AllThere, n
    <2> QED
        BY <1>1, <2>2, <2>3, <2>4 DEF AllThere, Buffers
<1> QED
    BY <1>3, <1>4, <1>5

\* DmaPool::free puts the thread's index on top of the free list.
LEMMA FreeStep ==
    ASSUME IInv, NEW t \in Threads, PoolFree(t)
    PROVE  TypeOK' /\ FreeListOnce' /\ OneHolder' /\ AllThere'
<1> DEFINE n == Len(free_list)
           b == buf[t]
<1>1. /\ free_list \in Seq(Buffers) /\ buf \in [Threads -> Buffers \cup {NoBuffer}]
      /\ n \in Nat
      /\ b \in Buffers /\ b # NoBuffer
      /\ free_list' \in Seq(Buffers) /\ Len(free_list') = n + 1
      /\ \A i \in 1 .. n : free_list'[i] = free_list[i]
      /\ free_list'[n + 1] = b
      /\ buf' = [buf EXCEPT ![t] = NoBuffer]
    BY DEF IInv, TypeOK, PoolFree
<1> HIDE DEF n
<1>2. Held' = Held \ {t} /\ t \in Held
    BY <1>1 DEF Held
<1>3. /\ IsFiniteSet(Held') /\ Cardinality(Held') = Cardinality(Held) - 1
      /\ Cardinality(Held) \in Nat
    BY <1>2, FS_RemoveElement, FS_CardinalityType DEF IInv, AllThere
<1>4. Len(free_list') + Cardinality(Held') = Count /\ Len(free_list') <= Count
    <2>1. Cardinality(Held') \in Nat
        BY <1>3, FS_CardinalityType
    <2> QED
        BY <1>1, <1>3, <2>1, SpdkAssumption DEF IInv, AllThere, n
<1>5. TypeOK'
    BY <1>1, <1>4 DEF IInv, TypeOK, PoolFree, state, hw, history
<1>6. FreeListOnce' /\ OneHolder'
    <2>1. \A u \in Threads : buf'[u] = IF u = t THEN NoBuffer ELSE buf[u]
        BY <1>1
    <2>2. \A i, j \in 1 .. n : free_list[i] = free_list[j] => i = j
        BY DEF IInv, FreeListOnce, n
    <2>3. \A u \in Threads, i \in 1 .. n : free_list[i] # buf[u]
        BY DEF IInv, FreeListOnce, n
    <2>4. \A i \in 1 .. n : free_list[i] # NoBuffer
        BY <1>1, SpdkAssumption DEF Buffers, n
    <2>5. \A i, j \in 1 .. n + 1 : free_list'[i] = free_list'[j] => i = j
        <3>1. \A i \in 1 .. n + 1 : i \in 1 .. n \/ i = n + 1
            BY <1>1
        <3> QED
            BY <1>1, <3>1, <2>2, <2>3
    <2>6. \A u \in Threads, i \in 1 .. n + 1 : free_list'[i] # buf'[u]
        <3>1. \A i \in 1 .. n + 1 : i \in 1 .. n \/ i = n + 1
            BY <1>1
        <3>2. \A u \in Threads : u # t => buf[u] # b
            BY <1>1 DEF IInv, OneHolder
        <3> QED
            BY <1>1, <3>1, <3>2, <2>1, <2>3, <2>4
    <2>7. OneHolder'
        BY <2>1 DEF IInv, OneHolder
    <2> QED
        BY <1>1, <2>5, <2>6, <2>7 DEF FreeListOnce
<1>7. AllThere'
    <2>1. ASSUME NEW c \in Buffers
          PROVE  (\E i \in 1 .. n + 1 : free_list'[i] = c) \/ (\E u \in Threads : buf'[u] = c)
        <3>1. CASE \E i \in 1 .. n : free_list[i] = c
            <4>1. PICK i \in 1 .. n : free_list[i] = c
                BY <3>1
            <4> QED
                BY <4>1, <1>1
        <3>2. CASE \E u \in Threads : buf[u] = c
            <4>1. PICK u \in Threads : buf[u] = c
                BY <3>2
            <4> QED
                BY <4>1, <1>1
        <3> QED
            BY <3>1, <3>2 DEF IInv, AllThere, n
    <2> QED
        BY <1>1, <1>3, <1>4, <2>1 DEF AllThere, Buffers
<1> QED
    BY <1>5, <1>6, <1>7

\* Every other step leaves the pool alone.
LEMMA PoolFrame ==
    ASSUME IInv, UNCHANGED <<free_list, buf>>
    PROVE  FreeListOnce' /\ OneHolder' /\ AllThere'
BY DEF IInv, FreeListOnce, OneHolder, AllThere, Held, Buffers

-----------------------------------------------------------------------------
(***************************************************************************)
(* The calls.                                                              *)
(***************************************************************************)

\* One step of one thread, or of the device for it.
Step(t) ==
    \/ PoolAlloc(t) \/ PoolFree(t)
    \/ NoQpair(t)
    \/ \E b \in {buf[t], NoBuffer} : Call(t, b)
    \/ CallStep(t)
    \/ DeadlinePasses(t)
    \/ \E s \in Statuses : DeviceEnds(t, s)

\* Every step of a call keeps the types.
LEMMA TypeStep ==
    ASSUME IInv, NEW t \in Threads, Step(t)
    PROVE  TypeOK'
<1>1. CASE PoolAlloc(t)
    BY <1>1, AllocStep
<1>2. CASE PoolFree(t)
    BY <1>2, FreeStep
<1>3. CASE NoQpair(t)
    BY <1>3 DEF IInv, TypeOK, Statuses, Results, NoQpair, Begin, state, hw, history
<1>4. ASSUME NEW b \in {buf[t], NoBuffer}, Call(t, b)
      PROVE  TypeOK'
    BY <1>4 DEF IInv, TypeOK, Statuses, Results, Call, Begin, Goto, state, hw, history
<1>5. CASE Submit(t)
    BY <1>5 DEF IInv, TypeOK, Statuses, Results, Submit, Goto, state, hw, history
<1>6. CASE SubmitRefused(t)
    BY <1>6 DEF IInv, TypeOK, Statuses, Results, SubmitRefused, Goto, state, hw, history
<1>7. CASE Process(t)
    BY <1>7 DEF IInv, TypeOK, Statuses, Results, Process, OnComplete, Goto, state, hw, history
<1>8. CASE CheckDone(t)
    BY <1>8 DEF IInv, TypeOK, Statuses, Results, CheckDone, Goto, state, hw, history
<1>9. CASE CheckDeadline(t)
    BY <1>9 DEF IInv, TypeOK, Statuses, Results, CheckDeadline, Goto, state, hw, history
<1>10. CASE FreeQpair(t)
    BY <1>10 DEF IInv, TypeOK, Statuses, Results, FreeQpair, OnComplete, Goto, state, hw, history
<1>11. CASE Finish(t)
    BY <1>11 DEF IInv, TypeOK, Statuses, Results, Finish, Goto, state, hw, history
<1>12. CASE DeadlinePasses(t)
    BY <1>12 DEF IInv, TypeOK, Statuses, Results, DeadlinePasses, state, hw, history
<1>13. ASSUME NEW s \in Statuses, DeviceEnds(t, s)
      PROVE  TypeOK'
    BY <1>13 DEF IInv, TypeOK, Statuses, Results, DeviceEnds, state, hw, history
<1>14. QED
    BY <1>1, <1>2, <1>3, <1>4, <1>5, <1>6, <1>7, <1>8, <1>9, <1>10, <1>11, <1>12, <1>13 DEF CallStep, Step

\* read, write and flush free the queue pair they allocated on every path.
LEMMA QpairStep ==
    ASSUME IInv, NEW t \in Threads, Step(t)
    PROVE  QpairsReturned'
<1>1. CASE PoolAlloc(t)
    BY <1>1 DEF IInv, TypeOK, QpairsReturned, PoolAlloc, state, hw, history
<1>2. CASE PoolFree(t)
    BY <1>2 DEF IInv, TypeOK, QpairsReturned, PoolFree, state, hw, history
<1>3. CASE NoQpair(t)
    BY <1>3 DEF IInv, TypeOK, QpairsReturned, NoQpair, Begin, state, hw, history
<1>4. ASSUME NEW b \in {buf[t], NoBuffer}, Call(t, b)
      PROVE  QpairsReturned'
    BY <1>4 DEF IInv, TypeOK, QpairsReturned, Call, Begin, Goto, state, hw, history
<1>5. CASE Submit(t)
    BY <1>5 DEF IInv, TypeOK, QpairsReturned, Submit, Goto, state, hw, history
<1>6. CASE SubmitRefused(t)
    BY <1>6 DEF IInv, TypeOK, QpairsReturned, SubmitRefused, Goto, state, hw, history
<1>7. CASE Process(t)
    BY <1>7 DEF IInv, TypeOK, QpairsReturned, Process, OnComplete, Goto, state, hw, history
<1>8. CASE CheckDone(t)
    BY <1>8 DEF IInv, TypeOK, QpairsReturned, CheckDone, Goto, state, hw, history
<1>9. CASE CheckDeadline(t)
    BY <1>9 DEF IInv, TypeOK, QpairsReturned, CheckDeadline, Goto, state, hw, history
<1>10. CASE FreeQpair(t)
    BY <1>10 DEF IInv, TypeOK, QpairsReturned, FreeQpair, OnComplete, Goto, state, hw, history
<1>11. CASE Finish(t)
    BY <1>11 DEF IInv, TypeOK, QpairsReturned, Finish, Goto, state, hw, history
<1>12. CASE DeadlinePasses(t)
    BY <1>12 DEF IInv, TypeOK, QpairsReturned, DeadlinePasses, state, hw, history
<1>13. ASSUME NEW s \in Statuses, DeviceEnds(t, s)
      PROVE  QpairsReturned'
    BY <1>13 DEF IInv, TypeOK, QpairsReturned, DeviceEnds, state, hw, history
<1>14. QED
    BY <1>1, <1>2, <1>3, <1>4, <1>5, <1>6, <1>7, <1>8, <1>9, <1>10, <1>11, <1>12, <1>13 DEF CallStep, Step

\* The locals of a call follow its steps; the other threads' are not touched.
LEMMA PhaseStep ==
    ASSUME IInv, NEW t \in Threads, Step(t)
    PROVE  Phases'
<1>1. CASE PoolAlloc(t)
    BY <1>1 DEF IInv, TypeOK, Phases, CallPhase, Statuses, PoolAlloc, state, hw, history
<1>2. CASE PoolFree(t)
    BY <1>2 DEF IInv, TypeOK, Phases, CallPhase, Statuses, PoolFree, state, hw, history
<1>3. CASE NoQpair(t)
    BY <1>3 DEF IInv, TypeOK, Phases, CallPhase, Statuses, NoQpair, Begin, state, hw, history
<1>4. ASSUME NEW b \in {buf[t], NoBuffer}, Call(t, b)
      PROVE  Phases'
    BY <1>4 DEF IInv, TypeOK, Phases, CallPhase, Statuses, Call, Begin, Goto, state, hw, history
<1>5. CASE Submit(t)
    BY <1>5 DEF IInv, TypeOK, Phases, CallPhase, Statuses, Submit, Goto, state, hw, history
<1>6. CASE SubmitRefused(t)
    BY <1>6 DEF IInv, TypeOK, Phases, CallPhase, Statuses, SubmitRefused, Goto, state, hw, history
<1>7. CASE Process(t)
    <2>1. CASE device[t] \in Statuses
        <3>1. /\ pc[t] = "poll" /\ pc' = [pc EXCEPT ![t] = "check"]
              /\ done' = [done EXCEPT ![t] = TRUE] /\ heard' = [heard EXCEPT ![t] = TRUE]
              /\ device' = [device EXCEPT ![t] = "none"]
              /\ cpl' \in [Threads -> {"none", "success", "error", "aborted"}]
              /\ \A u \in Threads \ {t} : cpl'[u] = cpl[u]
              /\ UNCHANGED <<res, target, buf, called>>
            BY <1>7, <2>1 DEF IInv, TypeOK, Statuses, Process, OnComplete, Goto
        <3> QED
            BY <3>1 DEF IInv, TypeOK, Phases, CallPhase
    <2>2. CASE device[t] \notin Statuses
        <3>1. /\ pc[t] = "poll" /\ pc' = [pc EXCEPT ![t] = "check"]
              /\ UNCHANGED <<done, cpl, heard, device, res, target, buf, called>>
            BY <1>7, <2>2 DEF Process, Goto, state
        <3> QED
            BY <3>1 DEF IInv, TypeOK, Phases, CallPhase
    <2> QED
        BY <2>1, <2>2
<1>8. CASE CheckDone(t)
    BY <1>8 DEF IInv, TypeOK, Phases, CallPhase, Statuses, CheckDone, Goto, state, hw, history
<1>9. CASE CheckDeadline(t)
    BY <1>9 DEF IInv, TypeOK, Phases, CallPhase, Statuses, CheckDeadline, Goto, state, hw, history
<1>10. CASE FreeQpair(t)
    BY <1>10 DEF IInv, TypeOK, Phases, CallPhase, Statuses, FreeQpair, OnComplete, Goto, state, hw, history
<1>11. CASE Finish(t)
    BY <1>11 DEF IInv, TypeOK, Phases, CallPhase, Statuses, Finish, Goto, state, hw, history
<1>12. CASE DeadlinePasses(t)
    BY <1>12 DEF IInv, TypeOK, Phases, CallPhase, Statuses, DeadlinePasses, state, hw, history
<1>13. ASSUME NEW s \in Statuses, DeviceEnds(t, s)
      PROVE  Phases'
    BY <1>13 DEF IInv, TypeOK, Phases, CallPhase, Statuses, DeviceEnds, state, hw, history
<1>14. QED
    BY <1>1, <1>2, <1>3, <1>4, <1>5, <1>6, <1>7, <1>8, <1>9, <1>10, <1>11, <1>12, <1>13 DEF CallStep, Step

\* finish answers with what poll saw.
LEMMA AnswerStep ==
    ASSUME IInv, NEW t \in Threads, Step(t)
    PROVE  AnswerFaithful'
<1>1. CASE PoolAlloc(t)
    BY <1>1 DEF IInv, TypeOK, Phases, CallPhase, AnswerFaithful, TimeoutUnanswered, CallbackMatchesResult, Statuses, PoolAlloc, state, hw, history
<1>2. CASE PoolFree(t)
    BY <1>2 DEF IInv, TypeOK, Phases, CallPhase, AnswerFaithful, TimeoutUnanswered, CallbackMatchesResult, Statuses, PoolFree, state, hw, history
<1>3. CASE NoQpair(t)
    BY <1>3 DEF IInv, TypeOK, Phases, CallPhase, AnswerFaithful, TimeoutUnanswered, CallbackMatchesResult, Statuses, NoQpair, Begin, state, hw, history
<1>4. ASSUME NEW b \in {buf[t], NoBuffer}, Call(t, b)
      PROVE  AnswerFaithful'
    BY <1>4 DEF IInv, TypeOK, Phases, CallPhase, AnswerFaithful, TimeoutUnanswered, CallbackMatchesResult, Statuses, Call, Begin, Goto, state, hw, history
<1>5. CASE Submit(t)
    BY <1>5 DEF IInv, TypeOK, Phases, CallPhase, AnswerFaithful, TimeoutUnanswered, CallbackMatchesResult, Statuses, Submit, Goto, state, hw, history
<1>6. CASE SubmitRefused(t)
    BY <1>6 DEF IInv, TypeOK, Phases, CallPhase, AnswerFaithful, TimeoutUnanswered, CallbackMatchesResult, Statuses, SubmitRefused, Goto, state, hw, history
<1>7. CASE Process(t)
    <2>1. CASE device[t] \in Statuses
        <3>1. /\ pc[t] = "poll" /\ pc' = [pc EXCEPT ![t] = "check"]
              /\ done' = [done EXCEPT ![t] = TRUE] /\ heard' = [heard EXCEPT ![t] = TRUE]
              /\ device' = [device EXCEPT ![t] = "none"]
              /\ cpl' \in [Threads -> {"none", "success", "error", "aborted"}]
              /\ \A u \in Threads \ {t} : cpl'[u] = cpl[u]
              /\ UNCHANGED <<res, target, buf, called>>
            BY <1>7, <2>1 DEF IInv, TypeOK, Statuses, Process, OnComplete, Goto
        <3> QED
            BY <3>1 DEF IInv, TypeOK, Phases, CallPhase, AnswerFaithful, TimeoutUnanswered, CallbackMatchesResult
    <2>2. CASE device[t] \notin Statuses
        <3>1. /\ pc[t] = "poll" /\ pc' = [pc EXCEPT ![t] = "check"]
              /\ UNCHANGED <<done, cpl, heard, device, res, target, buf, called>>
            BY <1>7, <2>2 DEF Process, Goto, state
        <3> QED
            BY <3>1 DEF IInv, TypeOK, Phases, CallPhase, AnswerFaithful, TimeoutUnanswered, CallbackMatchesResult
    <2> QED
        BY <2>1, <2>2
<1>8. CASE CheckDone(t)
    BY <1>8 DEF IInv, TypeOK, Phases, CallPhase, AnswerFaithful, TimeoutUnanswered, CallbackMatchesResult, Statuses, CheckDone, Goto, state, hw, history
<1>9. CASE CheckDeadline(t)
    BY <1>9 DEF IInv, TypeOK, Phases, CallPhase, AnswerFaithful, TimeoutUnanswered, CallbackMatchesResult, Statuses, CheckDeadline, Goto, state, hw, history
<1>10. CASE FreeQpair(t)
    BY <1>10 DEF IInv, TypeOK, Phases, CallPhase, AnswerFaithful, TimeoutUnanswered, CallbackMatchesResult, Statuses, FreeQpair, OnComplete, Goto, state, hw, history
<1>11. CASE Finish(t)
    <2>1. /\ pc[t] = "finish" /\ pc' = [pc EXCEPT ![t] = "idle"]
          /\ res' \in [Threads -> Results] /\ \A u \in Threads \ {t} : res'[u] = res[u]
          /\ called' = [called EXCEPT ![t] = IF res'[t] = "Ok" THEN @ + 1 ELSE @]
          /\ res'[t] = "Timeout" <=> res[t] = "Timeout"
          /\ res'[t] = "Ok" => cpl[t] = "success"
          /\ UNCHANGED <<cpl, heard>>
        <3>1. /\ pc[t] = "finish" /\ pc' = [pc EXCEPT ![t] = "idle"]
              /\ called' = [called EXCEPT ![t] = IF res'[t] = "Ok" THEN @ + 1 ELSE @]
              /\ UNCHANGED <<cpl, heard>>
            BY <1>11 DEF Finish, Goto, state
        <3>2. TypeOK'
            BY <1>11, TypeStep DEF Step, CallStep
        <3>3. /\ res'[t] = IF res[t] = "Timeout" THEN res[t]
                           ELSE CASE cpl[t] = "success" -> "Ok"
                                  [] cpl[t] = "none"    -> "NoStatus"
                                  [] OTHER              -> "Failed"
              /\ \A u \in Threads \ {t} : res'[u] = res[u]
            BY <1>11 DEF IInv, TypeOK, Finish
        <3>4. res'[t] = "Timeout" <=> res[t] = "Timeout"
            BY <3>3
        <3>5. res'[t] = "Ok" => cpl[t] = "success"
            BY <3>3
        <3>6. res' \in [Threads -> Results] /\ \A u \in Threads \ {t} : res'[u] = res[u]
            BY <3>2, <3>3 DEF TypeOK
        <3> QED
            BY <3>1, <3>4, <3>5, <3>6
    <2>2. called[t] = 0 /\ res[t] \in {"Ok", "Timeout"} /\ (res[t] = "Ok" <=> heard[t])
        BY <2>1 DEF IInv, Phases, CallPhase
    <2>3. called'[t] = IF res'[t] = "Ok" THEN 1 ELSE 0
        BY <2>1, <2>2 DEF IInv, TypeOK
    <2>4. /\ res'[t] = "Timeout" => ~heard'[t]
          /\ res'[t] = "Ok" => heard'[t] /\ cpl'[t] = "success"
        BY <2>1, <2>2
    <2>5. \A u \in Threads \ {t} :
             /\ pc'[u] = pc[u] /\ called'[u] = called[u] /\ res'[u] = res[u]
             /\ heard'[u] = heard[u] /\ cpl'[u] = cpl[u]
        BY <2>1 DEF IInv, TypeOK
    <2> QED
        BY <2>3, <2>4, <2>5 DEF IInv, AnswerFaithful, TimeoutUnanswered, CallbackMatchesResult
<1>12. CASE DeadlinePasses(t)
    BY <1>12 DEF IInv, TypeOK, Phases, CallPhase, AnswerFaithful, TimeoutUnanswered, CallbackMatchesResult, Statuses, DeadlinePasses, state, hw, history
<1>13. ASSUME NEW s \in Statuses, DeviceEnds(t, s)
      PROVE  AnswerFaithful'
    BY <1>13 DEF IInv, TypeOK, Phases, CallPhase, AnswerFaithful, TimeoutUnanswered, CallbackMatchesResult, Statuses, DeviceEnds, state, hw, history
<1>14. QED
    BY <1>1, <1>2, <1>3, <1>4, <1>5, <1>6, <1>7, <1>8, <1>9, <1>10, <1>11, <1>12, <1>13 DEF CallStep, Step

-----------------------------------------------------------------------------
(***************************************************************************)
(* The invariant and what it implies.                                      *)
(***************************************************************************)

\* DmaPool::new and an idle namespace satisfy the invariant.
LEMMA IInvInit == Init => IInv
<1> SUFFICES ASSUME Init
             PROVE  IInv
    OBVIOUS
<1>1. /\ Len(free_list) = Count /\ free_list \in Seq(Buffers)
      /\ \A i \in 1 .. Count : free_list[i] = i - 1
    BY SpdkAssumption DEF Init, Buffers
<1>2. TypeOK
    BY <1>1, SpdkAssumption DEF Init, TypeOK, Statuses, Results
<1>3. FreeListOnce /\ OneHolder
    BY <1>1, SpdkAssumption DEF Init, FreeListOnce, OneHolder
<1>4. AllThere
    <2>1. Held = {}
        BY DEF Init, Held
    <2>2. IsFiniteSet(Held) /\ Cardinality(Held) = 0
        BY <2>1, FS_EmptySet
    <2>3. \A b \in Buffers : b + 1 \in 1 .. Count /\ free_list[b + 1] = b
        BY <1>1, SpdkAssumption DEF Buffers
    <2> QED
        BY <1>1, <2>2, <2>3, SpdkAssumption DEF AllThere
<1>5. QpairsReturned /\ Phases /\ AnswerFaithful
    BY DEF Init, QpairsReturned, Phases, CallPhase, AnswerFaithful,
           TimeoutUnanswered, CallbackMatchesResult
<1> QED
    BY <1>2, <1>3, <1>4, <1>5 DEF IInv

\* No step of any thread or of the device leaves the invariant.
LEMMA IInvStep == IInv /\ [Next]_vars => IInv'
<1> SUFFICES ASSUME IInv, [Next]_vars
             PROVE  IInv'
    OBVIOUS
<1>1. ASSUME NEW t \in Threads, Step(t)
      PROVE  IInv'
    <2>1. FreeListOnce' /\ OneHolder' /\ AllThere'
        <3>1. CASE PoolAlloc(t)
            BY <3>1, AllocStep
        <3>2. CASE PoolFree(t)
            BY <3>2, FreeStep
        <3>3. CASE ~PoolAlloc(t) /\ ~PoolFree(t)
            <4>1. UNCHANGED <<free_list, buf>>
                BY <1>1, <3>3 DEF Step, CallStep, NoQpair, Call, Submit, SubmitRefused, Process,
                   CheckDone, CheckDeadline, FreeQpair, Finish, DeadlinePasses, DeviceEnds
            <4> QED
                BY <4>1, PoolFrame
        <3> QED
            BY <3>1, <3>2, <3>3
    <2> QED
        BY <1>1, <2>1, TypeStep, QpairStep, PhaseStep, AnswerStep DEF IInv
<1>2. CASE UNCHANGED vars
    <2>1. FreeListOnce' /\ OneHolder' /\ AllThere'
        BY <1>2, PoolFrame DEF vars
    <2>2. TypeOK'
        BY <1>2 DEF vars, state, hw, history, IInv, TypeOK
    <2>3. QpairsReturned' /\ Phases' /\ AnswerFaithful'
        BY <1>2 DEF vars, state, hw, history, IInv, QpairsReturned, Phases, CallPhase,
           AnswerFaithful, TimeoutUnanswered, CallbackMatchesResult
    <2> QED
        BY <2>1, <2>2, <2>3 DEF IInv
<1> QED
    BY <1>1, <1>2 DEF Next, Step

\* The invariant holds in every reachable state.
THEOREM Invariance == Spec => []IInv
<1> QED
    BY IInvInit, IInvStep, PTL DEF Spec

\* The types hold, queue pairs are with calls in progress, and every buffer is
\* on the free list or with one thread, once.
THEOREM ConservedHolds == Spec => []Conserved
<1>1. IInv => Conserved
    <2> SUFFICES ASSUME IInv
                 PROVE  Conserved
        OBVIOUS
    <2>1. free_list \in Seq(Buffers) /\ buf \in [Threads -> Buffers \cup {NoBuffer}]
        BY DEF IInv, TypeOK
    <2>2. Range(free_list) = {free_list[i] : i \in 1 .. Len(free_list)}
        BY <2>1, RangeEquality
    <2>3. NoBuffer \notin Buffers
        BY SpdkAssumption DEF Buffers
    <2>4. \A i \in 1 .. Len(free_list) : free_list[i] \in Buffers
        BY <2>1
    <2>5. Range(free_list) \cup {buf[t] : t \in Held} = Buffers
        BY <2>1, <2>2, <2>3, <2>4 DEF IInv, AllThere, Held
    <2> QED
        BY <2>5 DEF Conserved, BuffersConserved, IInv, AllThere, Held
<1> QED
    BY <1>1, Invariance, PTL

\* The device works only for a call whose frame is there, on a buffer that its
\* thread still holds and nobody else can get.
THEOREM DeviceInsideCallHolds == Spec => []DeviceInsideCall
<1>1. IInv => DeviceInsideCall
    <2> SUFFICES ASSUME IInv, NEW t \in Threads, device[t] # "none"
                 PROVE  /\ pc[t] \in {"poll", "check", "late", "free"}
                        /\ target[t] # NoBuffer =>
                              /\ buf[t] = target[t]
                              /\ ~Contains(free_list, target[t])
                              /\ \A u \in Threads \ {t} : buf[u] # target[t]
        BY DEF DeviceInsideCall
    <2>1. pc[t] \in {"poll", "check", "late", "free"}
        BY DEF IInv, TypeOK, Phases, CallPhase
    <2>2. target[t] # NoBuffer => buf[t] = target[t]
        BY <2>1 DEF IInv, Phases, CallPhase
    <2> QED
        BY <2>1, <2>2 DEF IInv, FreeListOnce, OneHolder, Contains
<1> QED
    BY <1>1, Invariance, PTL

\* A call answers with what poll saw: Timeout only when the completion was never
\* delivered, Ok and one callback only for a success that was.
THEOREM AnswerFaithfulHolds == Spec => []AnswerFaithful
<1>1. IInv => AnswerFaithful
    BY DEF IInv
<1> QED
    BY <1>1, Invariance, PTL
=============================================================================

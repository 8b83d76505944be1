----------------------------- MODULE CApiProofs ------------------------------
(***************************************************************************)
(* Proofs about CApi for any number of threads, operations and calls, and  *)
(* any size of the array given to torus_reap.                              *)
(***************************************************************************)
EXTENDS CApi, FiniteSetTheorems, SequenceTheorems, TLAPS

InSeq(s) == {s[i] : i \in 1 .. Len(s)}

\* No value occurs twice.
Once(s) == \A i, j \in 1 .. Len(s) : s[i] = s[j] => i = j

InFlight == pending \cup InSeq(queue)
Accepted == InFlight \cup InSeq(reaped)

\* Completions that are in the hands of a call.
Held == {o \in Operations : \E t \in Threads : o \in InSeq(results[t])}

\* Operations whose submitter has not inserted the span yet.
NotYet == {o \in Operations : \E t \in Threads : pc[t] = "span" /\ o \in own[t]}

\* An operation is in one place, once: with the backend, in its queue, reaped;
\* and of the reaped, handed over, with one call, or dropped.
Apart ==
    /\ pending \cap InSeq(queue) = {} /\ InFlight \cap InSeq(reaped) = {}
    /\ Once(queue) /\ Once(reaped) /\ Once(given)
    /\ InSeq(given) \subseteq InSeq(reaped)
    /\ \A t \in Threads :
          Once(results[t]) /\ InSeq(results[t]) \subseteq InSeq(reaped) \ InSeq(given)
    /\ \A t, u \in Threads : t # u => InSeq(results[t]) \cap InSeq(results[u]) = {}

\* What a thread has in each place of its call.
PhaseOf(t) ==
    /\ pc[t] # "idle" => t \in users
    /\ pc[t] # "reaped" => results[t] = << >>
    /\ pc[t] = "span" => kind[t] \in {"data", "close", "batch"}
    /\ pc[t] \in {"wait", "waiting"} => kind[t] \in {"data", "close", "wait", "forever"}
    /\ pc[t] \in {"reap", "reaped"} => kind[t] \in {"data", "close", "reap"}

Phases == \A t \in Threads : PhaseOf(t)

\* Thread t is in a call that ends with a callback.
InCallback(t) == pc[t] # "idle" /\ kind[t] \in {"data", "close"}

\* While one blocking call runs, what is in flight and what it reaped are its own.
OwnOnly(t) ==
    /\ InFlight \cup InSeq(results[t]) \subseteq own[t]
    /\ \A a, b \in own[t] : a = b

\* As long as no two operations were in flight together, a reap finds at most one
\* completion, and in a blocking call it is the call's own.
Alone ==
    ~overlap =>
        /\ \A a, b \in InFlight : a = b
        /\ \A t \in Threads : Len(results[t]) <= 1 /\ (InCallback(t) => OwnOnly(t))
        /\ \A o \in Operations : answer[o] \in Operations => answer[o] = o
        /\ InSeq(reaped) \subseteq InSeq(given) \cup Held

\* An operation has its span in the map, is about to get it, or was recorded.
SpanCount ==
    /\ spans \cap NotYet = {} /\ spans \cup NotYet \subseteq Accepted
    /\ \A t, u \in Threads :
          t # u /\ pc[t] = "span" /\ pc[u] = "span" => own[t] \cap own[u] = {}
    /\ total = Cardinality(Accepted \ (spans \cup NotYet))

\* With one user, those with a span are the ones that reap has not dealt with.
OneUser ==
    /\ IsFiniteSet(users)
    /\ (\A a, b \in users : a = b) => spans \cup NotYet = InFlight \cup Held

IInv == TypeOK /\ Apart /\ Phases /\ Alone /\ SpanCount /\ OneUser

-----------------------------------------------------------------------------
(***************************************************************************)
(* Sequences that hold each value once.                                    *)
(***************************************************************************)

\* What InSeq says of a sequence.
LEMMA InSeqOf ==
    ASSUME NEW S, NEW s \in Seq(S)
    PROVE  /\ Len(s) \in Nat
           /\ InSeq(s) \subseteq S
           /\ \A i \in 1 .. Len(s) : s[i] \in InSeq(s)
           /\ \A x \in InSeq(s) : \E i \in 1 .. Len(s) : s[i] = x
           /\ s = << >> <=> InSeq(s) = {}
<1>1. Len(s) \in Nat /\ \A i \in 1 .. Len(s) : s[i] \in S
    BY LenProperties
<1>2. /\ InSeq(s) \subseteq S
      /\ \A i \in 1 .. Len(s) : s[i] \in InSeq(s)
      /\ \A x \in InSeq(s) : \E i \in 1 .. Len(s) : s[i] = x
    BY <1>1 DEF InSeq
<1>3. s = << >> => InSeq(s) = {}
    BY DEF InSeq
<1>4. s # << >> => InSeq(s) # {}
    <2>1. s # << >> => Len(s) \in Nat \ {0}
        BY EmptySeq
    <2> QED
        BY <1>2, <2>1
<1> QED
    BY <1>1, <1>2, <1>3, <1>4

\* Append adds its element, and keeps Once when the element is new.
LEMMA AppendOnce ==
    ASSUME NEW S, NEW s \in Seq(S), NEW e \in S
    PROVE  /\ Append(s, e) \in Seq(S) /\ Len(Append(s, e)) = Len(s) + 1
           /\ InSeq(Append(s, e)) = InSeq(s) \cup {e}
           /\ Once(s) /\ e \notin InSeq(s) => Once(Append(s, e))
<1> DEFINE a == Append(s, e)
           n == Len(s)
<1>1. /\ a \in Seq(S) /\ Len(a) = n + 1 /\ n \in Nat
      /\ \A i \in 1 .. n : a[i] = s[i]
      /\ a[n + 1] = e
    BY AppendProperties, LenProperties
<1> HIDE DEF a, n
<1>2. \A i \in 1 .. n + 1 : i \in 1 .. n \/ i = n + 1
    BY <1>1
<1>3. InSeq(s) = {s[i] : i \in 1 .. n} /\ InSeq(a) = {a[i] : i \in 1 .. n + 1}
    BY <1>1 DEF InSeq, n
<1>4. InSeq(a) = InSeq(s) \cup {e}
    <2>1. ASSUME NEW x \in InSeq(a)
          PROVE  x \in InSeq(s) \cup {e}
        <3>1. PICK i \in 1 .. n + 1 : x = a[i]
            BY <2>1, <1>3
        <3> QED
            BY <3>1, <1>1, <1>2, <1>3
    <2>2. ASSUME NEW x \in InSeq(s)
          PROVE  x \in InSeq(a)
        <3>1. PICK i \in 1 .. n : x = s[i]
            BY <2>2, <1>3
        <3>2. i \in 1 .. n + 1 /\ x = a[i]
            BY <3>1, <1>1
        <3> QED
            BY <3>2, <1>3
    <2>3. n + 1 \in 1 .. n + 1
        BY <1>1
    <2>4. e \in InSeq(a)
        BY <2>3, <1>1, <1>3
    <2> QED
        BY <2>1, <2>2, <2>4
<1>5. ASSUME Once(s), e \notin InSeq(s)
      PROVE  Once(a)
    <2> SUFFICES ASSUME NEW i \in 1 .. n + 1, NEW j \in 1 .. n + 1, a[i] = a[j]
                 PROVE  i = j
        BY <1>1 DEF Once
    <2>1. \A k \in 1 .. n : a[k] # e
        BY <1>1, <1>3, <1>5
    <2>2. CASE i = n + 1 \/ j = n + 1
        BY <2>1, <2>2, <1>1, <1>2
    <2>3. CASE i \in 1 .. n /\ j \in 1 .. n
        BY <2>3, <1>1, <1>5 DEF Once, n
    <2> QED
        BY <2>2, <2>3, <1>2
<1> QED
    BY <1>1, <1>4, <1>5 DEF a, n

\* Concatenation adds up, and keeps Once when the parts have nothing in common.
LEMMA ConcatOnce ==
    ASSUME NEW S, NEW s \in Seq(S), NEW t \in Seq(S)
    PROVE  /\ s \o t \in Seq(S) /\ Len(s \o t) = Len(s) + Len(t)
           /\ InSeq(s \o t) = InSeq(s) \cup InSeq(t)
           /\ Once(s) /\ Once(t) /\ InSeq(s) \cap InSeq(t) = {} => Once(s \o t)
<1> DEFINE c == s \o t
           m == Len(s)
           n == Len(t)
<1>1. /\ c \in Seq(S) /\ Len(c) = m + n /\ m \in Nat /\ n \in Nat
      /\ \A i \in 1 .. m + n : c[i] = IF i <= m THEN s[i] ELSE t[i - m]
    BY ConcatProperties, LenProperties
<1>2. InSeq(s) = {s[i] : i \in 1 .. m} /\ InSeq(t) = {t[i] : i \in 1 .. n}
    BY DEF InSeq
<1>3. /\ Once(s) => \A i, j \in 1 .. m : s[i] = s[j] => i = j
      /\ Once(t) => \A i, j \in 1 .. n : t[i] = t[j] => i = j
    BY DEF Once
<1> HIDE DEF c, m, n
<1>4. \A i \in 1 .. m : i \in 1 .. m + n /\ c[i] = s[i]
    BY <1>1
<1>5. \A i \in 1 .. n : i + m \in 1 .. m + n /\ c[i + m] = t[i]
    <2> SUFFICES ASSUME NEW i \in 1 .. n
                 PROVE  i + m \in 1 .. m + n /\ c[i + m] = t[i]
        OBVIOUS
    <2>1. i + m \in 1 .. m + n /\ ~(i + m <= m) /\ (i + m) - m = i
        BY <1>1
    <2> QED
        BY <1>1, <2>1
<1>6. \A k \in 1 .. m + n : k \in 1 .. m \/ (k - m \in 1 .. n /\ (k - m) + m = k)
    BY <1>1
<1>7. InSeq(c) = {c[i] : i \in 1 .. m + n}
    BY <1>1 DEF InSeq
<1>8. InSeq(c) = InSeq(s) \cup InSeq(t)
    <2>1. ASSUME NEW x \in InSeq(c)
          PROVE  x \in InSeq(s) \cup InSeq(t)
        <3>1. PICK k \in 1 .. m + n : x = c[k]
            BY <1>7, <2>1
        <3>2. CASE k \in 1 .. m
            BY <3>1, <3>2, <1>2, <1>4
        <3>3. CASE k - m \in 1 .. n /\ (k - m) + m = k
            BY <3>1, <3>3, <1>2, <1>5
        <3> QED
            BY <3>2, <3>3, <1>6
    <2>2. ASSUME NEW x \in InSeq(s)
          PROVE  x \in InSeq(c)
        BY <2>2, <1>2, <1>4, <1>7
    <2>3. ASSUME NEW x \in InSeq(t)
          PROVE  x \in InSeq(c)
        BY <2>3, <1>2, <1>5, <1>7
    <2> QED
        BY <2>1, <2>2, <2>3
<1>9. ASSUME Once(s), Once(t), InSeq(s) \cap InSeq(t) = {}
      PROVE  Once(c)
    <2> SUFFICES ASSUME NEW i \in 1 .. m + n, NEW j \in 1 .. m + n, c[i] = c[j]
                 PROVE  i = j
        BY <1>1 DEF Once
    <2>1. CASE i \in 1 .. m /\ j \in 1 .. m
        BY <2>1, <1>3, <1>4, <1>9
    <2>2. CASE /\ i - m \in 1 .. n /\ (i - m) + m = i
               /\ j - m \in 1 .. n /\ (j - m) + m = j
        <3>1. t[i - m] = t[j - m]
            BY <2>2, <1>5
        <3>2. i - m = j - m
            BY <3>1, <2>2, <1>3, <1>9
        <3> QED
            BY <3>2, <2>2
    <2>3. CASE i \in 1 .. m /\ j - m \in 1 .. n /\ (j - m) + m = j
        <3>1. c[i] \in InSeq(s) /\ c[j] \in InSeq(t)
            BY <2>3, <1>2, <1>4, <1>5
        <3> QED
            BY <3>1, <1>9
    <2>4. CASE j \in 1 .. m /\ i - m \in 1 .. n /\ (i - m) + m = i
        <3>1. c[j] \in InSeq(s) /\ c[i] \in InSeq(t)
            BY <2>4, <1>2, <1>4, <1>5
        <3> QED
            BY <3>1, <1>9
    <2> QED
        BY <2>1, <2>2, <2>3, <2>4, <1>6
<1> QED
    BY <1>1, <1>8, <1>9 DEF c, m, n

\* A sequence that holds each value once is as long as it has values.
LEMMA OnceLen ==
    ASSUME NEW S, NEW s \in Seq(S), Once(s)
    PROVE  IsFiniteSet(InSeq(s)) /\ Cardinality(InSeq(s)) = Len(s)
<1>1. Len(s) \in Nat /\ s \in [1 .. Len(s) -> InSeq(s)]
    BY LenProperties, InSeqOf DEF InSeq
<1>2. s \in Surjection(1 .. Len(s), InSeq(s)) /\ s \in Injection(1 .. Len(s), InSeq(s))
    BY <1>1, InSeqOf DEF Surjection, Injection, IsInjective, Once
<1>3. IsFiniteSet(1 .. Len(s)) /\ Cardinality(1 .. Len(s)) = Len(s)
    BY <1>1, FS_Interval
<1> QED
    BY <1>2, <1>3, FS_Surjection

\* A slice holds the values of its positions, each once.
LEMMA SliceOnce ==
    ASSUME NEW S, NEW s \in Seq(S), Once(s), NEW m \in Nat, NEW n \in Nat,
           1 <= m, n <= Len(s)
    PROVE  /\ SubSeq(s, m, n) \in Seq(S)
           /\ InSeq(SubSeq(s, m, n)) = {s[i] : i \in m .. n}
           /\ Once(SubSeq(s, m, n))
<1> DEFINE d == SubSeq(s, m, n)
           k == n - m + 1
<1>1. Len(s) \in Nat /\ \A i \in 1 .. Len(s) : s[i] \in S
    BY LenProperties
<1>2. \A i \in m .. n : i \in 1 .. Len(s) /\ s[i] \in S
    BY <1>1
<1>3. m \in Int /\ n \in Int
    OBVIOUS
<1>4. /\ d \in Seq(S)
      /\ Len(d) = IF m <= n THEN k ELSE 0
      /\ \A i \in 1 .. k : d[i] = s[m + i - 1]
    BY <1>2, <1>3, SubSeqProperties
<1>5. 1 .. Len(d) = 1 .. k
    BY <1>4
<1>6. InSeq(d) = {d[i] : i \in 1 .. k}
    BY <1>5 DEF InSeq
<1> HIDE DEF d
<1>7. \A i \in 1 .. k : m + i - 1 \in m .. n
    OBVIOUS
<1>8. \A j \in m .. n : j - m + 1 \in 1 .. k /\ d[j - m + 1] = s[j]
    <2> SUFFICES ASSUME NEW j \in m .. n
                 PROVE  j - m + 1 \in 1 .. k /\ d[j - m + 1] = s[j]
        OBVIOUS
    <2>1. j - m + 1 \in 1 .. k /\ m + (j - m + 1) - 1 = j
        OBVIOUS
    <2> QED
        BY <1>4, <2>1
<1>9. InSeq(d) = {s[i] : i \in m .. n}
    <2>1. ASSUME NEW x \in InSeq(d)
          PROVE  x \in {s[i] : i \in m .. n}
        BY <2>1, <1>4, <1>6, <1>7
    <2>2. ASSUME NEW j \in m .. n
          PROVE  s[j] \in InSeq(d)
        BY <2>2, <1>6, <1>8
    <2> QED
        BY <2>1, <2>2
<1>10. Once(d)
    <2> SUFFICES ASSUME NEW i \in 1 .. k, NEW j \in 1 .. k, d[i] = d[j]
                 PROVE  i = j
        BY <1>5 DEF Once
    <2>1. s[m + i - 1] = s[m + j - 1]
        BY <1>4
    <2>2. m + i - 1 \in 1 .. Len(s) /\ m + j - 1 \in 1 .. Len(s)
        BY <1>2, <1>7
    <2>3. m + i - 1 = m + j - 1
        BY <2>1, <2>2 DEF Once
    <2> QED
        BY <2>3
<1> QED
    BY <1>4, <1>9, <1>10 DEF d

-----------------------------------------------------------------------------
(***************************************************************************)
(* The steps, without the functions they are written with.                 *)
(***************************************************************************)

\* InSeq of the two modules is the same set.
LEMMA SameInSeq == \A s : Device!InSeq(s) = InSeq(s)
BY DEF Device!InSeq, InSeq

\* The sequences hold operations.
LEMMA Basics ==
    ASSUME TypeOK
    PROVE  /\ queue \in Seq(Operations) /\ reaped \in Seq(Operations) /\ given \in Seq(Operations)
           /\ \A t \in Threads : results[t] \in Seq(Operations) /\ own[t] \subseteq Operations
           /\ InSeq(queue) \subseteq Operations /\ InSeq(reaped) \subseteq Operations
           /\ InSeq(given) \subseteq Operations
           /\ \A t \in Threads : InSeq(results[t]) \subseteq Operations
           /\ InFlight \subseteq Operations /\ Accepted \subseteq Operations
           /\ InSeq(<< >>) = {}
<1>1. /\ queue \in Seq(Operations) /\ reaped \in Seq(Operations) /\ given \in Seq(Operations)
      /\ \A t \in Threads : results[t] \in Seq(Operations) /\ own[t] \subseteq Operations
      /\ pending \subseteq Operations
    BY DEF TypeOK
<1>2. /\ InSeq(queue) \subseteq Operations /\ InSeq(reaped) \subseteq Operations
      /\ InSeq(given) \subseteq Operations
      /\ \A t \in Threads : InSeq(results[t]) \subseteq Operations
    BY <1>1, InSeqOf
<1>3. InSeq(<< >>) = {}
    BY DEF InSeq
<1> QED
    BY <1>1, <1>2, <1>3 DEF InFlight, Accepted

\* Thread t is where it is said to be, every other where it was.
Moves(t, place, k, S) ==
    /\ \A u \in Threads : pc'[u] = IF u = t THEN place ELSE pc[u]
    /\ \A u \in Threads : kind'[u] = IF u = t THEN k ELSE kind[u]
    /\ \A u \in Threads : own'[u] = IF u = t THEN S ELSE own[u]
    /\ pc' \in [Threads -> {"idle", "span", "wait", "waiting", "reap", "reaped"}]
    /\ kind' \in [Threads -> {"data", "close", "batch", "wait", "forever", "reap"}]
    /\ own' \in [Threads -> SUBSET Operations]

\* A call submits the operations S.
Submits(t, k, S) ==
    /\ pc[t] = "idle" /\ Moves(t, "span", k, S)
    /\ k \in {"data", "close", "batch"} /\ (k # "batch" => \A a, b \in S : a = b)
    /\ S # {} /\ S \subseteq Operations \ Accepted
    /\ \/ pending' = pending \cup S /\ queue' = queue
       \/ pending' = pending /\ \E o \in S : S = {o} /\ queue' = Append(queue, o)
    /\ calls < MaxCalls /\ calls' = calls + 1 /\ users' = users \cup {t}
    /\ NoteOverlap(S)
    /\ UNCHANGED <<answer, results, given, alive, reaped, backend, mutex, spans, total>>

\* A call begins otherwise, or is refused.
Enters(t, k, place) ==
    /\ pc[t] = "idle" /\ Moves(t, place, k, {})
    /\ \/ place \in {"idle", "reap"} /\ k = "reap"
       \/ place = "wait" /\ k \in {"wait", "forever"}
    /\ calls < MaxCalls /\ calls' = calls + 1 /\ users' = users \cup {t}
    /\ answer' = answer \/ \E o \in Operations : answer' = [answer EXCEPT ![o] = "refused"]
    /\ UNCHANGED <<torus, overlap, results, given, alive>>

\* A call goes on or returns, and at most the mutex changes hands.
GoesOn(t, k, S, place) ==
    /\ pc[t] \in {"wait", "waiting"} /\ Moves(t, place, k, S)
    /\ \/ place = "waiting" /\ k = kind[t] /\ S = own[t]
       \/ place = "reap" /\ k = kind[t] /\ S = own[t] /\ k \in {"data", "close"}
       \/ place = "idle" /\ k = "reap" /\ S = {}
    /\ mutex' \in Threads \cup {Free}
    /\ UNCHANGED <<pending, queue, reaped, backend, spans, total, results, history, alive>>

\* What [f EXCEPT ![t] = v] is.
LEMMA Excepts ==
    ASSUME TypeOK, NEW t \in Threads,
           NEW place \in {"idle", "span", "wait", "waiting", "reap", "reaped"},
           NEW k \in {"data", "close", "batch", "wait", "forever", "reap"},
           NEW S \in SUBSET Operations,
           pc' = [pc EXCEPT ![t] = place],
           kind' = [kind EXCEPT ![t] = k], own' = [own EXCEPT ![t] = S]
    PROVE  Moves(t, place, k, S)
BY DEF TypeOK, Moves

\* Goto moves one thread to another step of its call and keeps the rest of the call.
LEMMA Gotos ==
    ASSUME TypeOK, NEW t \in Threads,
           NEW place \in {"idle", "span", "wait", "waiting", "reap", "reaped"}, Goto(t, place)
    PROVE  Moves(t, place, kind[t], own[t])
BY DEF TypeOK, Moves, Goto

\* Return ends the call of one thread, which then holds no operation of its own.
LEMMA Returns ==
    ASSUME TypeOK, NEW t \in Threads, Return(t)
    PROVE  Moves(t, "idle", "reap", {})
<1>1. "idle" \in {"idle", "span", "wait", "waiting", "reap", "reaped"}
      /\ "reap" \in {"data", "close", "batch", "wait", "forever", "reap"} /\ {} \in SUBSET Operations
    OBVIOUS
<1> QED
    BY <1>1, Excepts DEF Return

\* The ways to begin a call.
LEMMA CallCases ==
    ASSUME TypeOK, NEW t \in Threads, Call(t)
    PROVE  \/ \E k \in {"data", "close", "batch"}, S \in SUBSET Operations : Submits(t, k, S)
           \/ \E k \in {"reap", "wait", "forever"}, place \in {"idle", "reap", "wait"} : Enters(t, k, place)
<1>1. \A o \in Device!Unused : o \in Operations \ Accepted
    BY SameInSeq DEF Device!Unused, Accepted, InFlight
<1>2. ASSUME NEW k, NEW S \in SUBSET Operations, NEW place, Begin(t, k, S, place),
             k \in {"data", "close", "batch", "wait", "forever", "reap"},
             place \in {"idle", "span", "wait", "waiting", "reap", "reaped"}
      PROVE  /\ pc[t] = "idle" /\ Moves(t, place, k, S)
             /\ calls < MaxCalls /\ calls' = calls + 1 /\ users' = users \cup {t}
             /\ UNCHANGED <<results, given, alive>>
    BY <1>2, Excepts DEF Begin
<1>3. ASSUME NEW o \in Fresh, NEW k \in {"data", "close"}, Blocking(t, k, o)
      PROVE  \/ Submits(t, k, {o})
             \/ Enters(t, "reap", "idle")
    <2>1. o \in Device!Unused /\ o \in Operations
        BY <1>1, <1>3 DEF Fresh
    <2>2. CASE /\ Begin(t, k, {o}, "span")
               /\ SubmitLocked({o}) \/ SubmitLockedAtOnce(o)
               /\ NoteOverlap({o})
               /\ UNCHANGED answer
        <3>1. /\ pc[t] = "idle" /\ Moves(t, "span", k, {o})
              /\ calls < MaxCalls /\ calls' = calls + 1 /\ users' = users \cup {t}
              /\ UNCHANGED <<results, given, alive>>
            BY <1>2, <2>1, <2>2
        <3>2. /\ UNCHANGED <<reaped, backend, mutex, spans, total>>
              /\ \/ pending' = pending \cup {o} /\ queue' = queue
                 \/ pending' = pending /\ queue' = Append(queue, o)
            BY <2>2 DEF SubmitLocked, SubmitLockedAtOnce, Device!Submit, Device!Reject, observed
        <3> QED
            BY <2>1, <2>2, <3>1, <3>2, <1>1 DEF Submits
    <2>3. CASE /\ Begin(t, "reap", {}, "idle")
               /\ mutex = Free
               /\ answer' = [answer EXCEPT ![o] = "refused"]
               /\ UNCHANGED <<torus, overlap>>
        <3>1. /\ pc[t] = "idle" /\ Moves(t, "idle", "reap", {})
              /\ calls < MaxCalls /\ calls' = calls + 1 /\ users' = users \cup {t}
              /\ UNCHANGED <<results, given, alive>>
            BY <1>2, <2>3
        <3> QED
            BY <2>1, <2>3, <3>1 DEF Enters
    <2> QED
        BY <1>3, <2>2, <2>3 DEF Blocking
<1>4. ASSUME NEW S \in SUBSET Fresh, S # {}, TorusSubmitBatch(t, S)
      PROVE  Submits(t, "batch", S) /\ S \in SUBSET Operations
    <2>1. S \subseteq Operations \ Accepted /\ S \in SUBSET Operations
        BY <1>1 DEF Fresh
    <2>2. /\ pc[t] = "idle" /\ Moves(t, "span", "batch", S)
          /\ calls < MaxCalls /\ calls' = calls + 1 /\ users' = users \cup {t}
          /\ UNCHANGED <<results, given, alive>>
        BY <1>2, <1>4, <2>1 DEF TorusSubmitBatch
    <2>3. /\ UNCHANGED <<reaped, backend, mutex, spans, total>> /\ pending' = pending \cup S /\ queue' = queue
        BY <1>4 DEF TorusSubmitBatch, SubmitLocked, Device!Submit, observed
    <2> QED
        BY <1>4, <2>1, <2>2, <2>3 DEF Submits, TorusSubmitBatch
<1>5. ASSUME NEW k \in {"wait", "forever"}, TorusWait(t, k)
      PROVE  Enters(t, k, "wait")
    <2>1. /\ pc[t] = "idle" /\ Moves(t, "wait", k, {})
          /\ calls < MaxCalls /\ calls' = calls + 1 /\ users' = users \cup {t}
          /\ UNCHANGED <<results, given, alive>>
        BY <1>2, <1>5 DEF TorusWait
    <2> QED
        BY <1>5, <2>1 DEF Enters, TorusWait
<1>6. ASSUME TorusReap(t)
      PROVE  Enters(t, "reap", "reap")
    <2>1. /\ pc[t] = "idle" /\ Moves(t, "reap", "reap", {})
          /\ calls < MaxCalls /\ calls' = calls + 1 /\ users' = users \cup {t}
          /\ UNCHANGED <<results, given, alive>>
        BY <1>2, <1>6 DEF TorusReap
    <2> QED
        BY <1>6, <2>1 DEF Enters, TorusReap
<1>7. ASSUME NEW o \in Fresh, TorusRead(t, o) \/ TorusWrite(t, o) \/ TorusRecv(t, o)
                              \/ TorusSend(t, o) \/ TorusClose(t, o)
      PROVE  \E k \in {"data", "close"} : Submits(t, k, {o}) \/ Enters(t, "reap", "idle")
    BY <1>3, <1>7 DEF TorusRead, TorusWrite, TorusRecv, TorusSend, TorusClose
<1>8. \A o \in Fresh : {o} \in SUBSET Operations
    BY <1>1 DEF Fresh
<1> QED
    BY <1>4, <1>5, <1>6, <1>7, <1>8 DEF Call

\* The steps of wait.
LEMMA WaitCases ==
    ASSUME TypeOK, NEW t \in Threads, StepWait(t) \/ StepWaiting(t) \/ StepInterrupted(t)
    PROVE  \E k \in {"data", "close", "batch", "wait", "forever", "reap"}, S \in SUBSET Operations,
              place \in {"idle", "waiting", "reap"} : GoesOn(t, k, S, place)
<1>1. kind[t] \in {"data", "close", "batch", "wait", "forever", "reap"} /\ own[t] \in SUBSET Operations
    BY DEF TypeOK
<1>2. /\ pc[t] \in {"wait", "waiting"} /\ mutex' \in Threads \cup {Free}
      /\ UNCHANGED <<pending, queue, reaped, backend, spans, total, results, history, alive>>
    BY DEF StepWait, StepWaiting, StepInterrupted, WaitLocked, WaitNothing, WaitEnds, WaitInterrupted,
           torus, observed, TypeOK
<1>3. \/ Goto(t, "waiting")
      \/ kind[t] \in {"data", "close"} /\ Goto(t, "reap")
      \/ Return(t)
    BY DEF StepWait, StepWaiting, StepInterrupted, AfterWait
<1>4. \/ Moves(t, "waiting", kind[t], own[t])
      \/ kind[t] \in {"data", "close"} /\ Moves(t, "reap", kind[t], own[t])
      \/ Moves(t, "idle", "reap", {})
    BY <1>3, Gotos, Returns
<1>5. CASE Moves(t, "waiting", kind[t], own[t])
    BY <1>1, <1>2, <1>5 DEF GoesOn
<1>6. CASE kind[t] \in {"data", "close"} /\ Moves(t, "reap", kind[t], own[t])
    BY <1>1, <1>2, <1>6 DEF GoesOn
<1>7. CASE Moves(t, "idle", "reap", {})
    BY <1>1, <1>2, <1>7 DEF GoesOn
<1> QED
    BY <1>4, <1>5, <1>6, <1>7

\* The submitter inserts its spans.
Spans(t, k, S, place) ==
    /\ pc[t] = "span" /\ Moves(t, place, k, S)
    /\ \/ place = "idle" /\ k = "reap" /\ S = {}
       \/ place = "wait" /\ k = kind[t] /\ S = own[t] /\ k # "batch"
    /\ spans' = spans \cup own[t]
    /\ UNCHANGED <<pending, queue, reaped, backend, mutex, total, results, history, alive>>

\* A call takes what the backend has completed.
Reaps(t) ==
    /\ pc[t] = "reap" /\ Moves(t, "reaped", kind[t], own[t])
    /\ reaped' = reaped \o queue /\ queue' = << >>
    /\ \A u \in Threads : results'[u] = IF u = t THEN queue ELSE results[u]
    /\ results' \in [Threads -> Seq(Operations)]
    /\ UNCHANGED <<pending, backend, mutex, spans, total, history, alive>>

\* A call that has reaped returns.
Finishes(t) ==
    /\ pc[t] = "reaped" /\ Moves(t, "idle", "reap", {})
    /\ spans' = spans \ InSeq(results[t])
    /\ total' = total + Cardinality(spans \cap InSeq(results[t]))
    /\ given' = given \o HandedOver(results[t], kind[t])
    /\ \/ answer' = answer
       \/ kind[t] # "reap" /\ \E o \in own[t] : answer' = Callback(o, results[t], kind[t])
    /\ \A u \in Threads : results'[u] = IF u = t THEN << >> ELSE results[u]
    /\ results' \in [Threads -> Seq(Operations)]
    /\ UNCHANGED <<pending, queue, reaped, backend, mutex, calls, users, overlap, alive>>

\* The backend completes an operation.
Completes(o) ==
    /\ o \in pending /\ pending' = pending \ {o} /\ queue' = Append(queue, o)
    /\ UNCHANGED <<reaped, backend, mutex, spans, total, thread, history, alive>>

\* Nothing happens but that the handle goes.
Rests == alive' \in BOOLEAN /\ UNCHANGED <<torus, thread, history>>

\* Every step is one of these.
LEMMA StepCases ==
    ASSUME TypeOK, [Next]_vars
    PROVE  \/ \E t \in Threads, k \in {"data", "close", "batch"}, S \in SUBSET Operations :
                 Submits(t, k, S)
           \/ \E t \in Threads, k \in {"reap", "wait", "forever"}, place \in {"idle", "reap", "wait"} :
                 Enters(t, k, place)
           \/ \E t \in Threads, k \in {"data", "close", "batch", "wait", "forever", "reap"},
                 S \in SUBSET Operations, place \in {"idle", "waiting", "reap"} : GoesOn(t, k, S, place)
           \/ \E t \in Threads, k \in {"data", "close", "batch", "wait", "forever", "reap"},
                 S \in SUBSET Operations, place \in {"idle", "wait"} : Spans(t, k, S, place)
           \/ \E t \in Threads : Reaps(t) \/ Finishes(t)
           \/ \E o \in Operations : Completes(o)
           \/ Rests
<1>1. ASSUME NEW t \in Threads, Call(t)
      PROVE  \/ \E k \in {"data", "close", "batch"}, S \in SUBSET Operations : Submits(t, k, S)
             \/ \E k \in {"reap", "wait", "forever"}, place \in {"idle", "reap", "wait"} : Enters(t, k, place)
    BY <1>1, CallCases
<1>2. ASSUME NEW t \in Threads, StepWait(t) \/ StepWaiting(t) \/ StepInterrupted(t)
      PROVE  \E k \in {"data", "close", "batch", "wait", "forever", "reap"}, S \in SUBSET Operations,
                place \in {"idle", "waiting", "reap"} : GoesOn(t, k, S, place)
    BY <1>2, WaitCases
<1>3. ASSUME NEW t \in Threads, StepSpan(t)
      PROVE  \E k \in {"data", "close", "batch", "wait", "forever", "reap"}, S \in SUBSET Operations,
                place \in {"idle", "wait"} : Spans(t, k, S, place)
    <2>1. kind[t] \in {"data", "close", "batch", "wait", "forever", "reap"} /\ own[t] \in SUBSET Operations
        BY DEF TypeOK
    <2>2. /\ pc[t] = "span" /\ spans' = spans \cup own[t]
          /\ UNCHANGED <<pending, queue, reaped, backend, mutex, total, results, history, alive>>
        BY <1>3 DEF StepSpan, InsertSpans
    <2>3. CASE kind[t] = "batch" /\ Return(t)
        <3>1. Moves(t, "idle", "reap", {})
            BY <2>3, Returns
        <3> QED
            BY <2>2, <3>1 DEF Spans
    <2>4. CASE kind[t] # "batch" /\ Goto(t, "wait")
        <3>1. Moves(t, "wait", kind[t], own[t])
            BY <2>4, Gotos
        <3> QED
            BY <2>1, <2>2, <2>4, <3>1 DEF Spans
    <2> QED
        BY <1>3, <2>3, <2>4 DEF StepSpan
<1>4. ASSUME NEW t \in Threads, StepReap(t)
      PROVE  Reaps(t)
    <2>1. /\ pc[t] = "reap" /\ reaped' = reaped \o queue /\ queue' = << >>
          /\ UNCHANGED <<pending, backend, mutex, spans, total, history, alive>>
        BY <1>4 DEF StepReap, ReapLocked, Device!Reap, observed
    <2>2. Moves(t, "reaped", kind[t], own[t])
        BY <1>4, Gotos DEF StepReap
    <2>3. /\ \A u \in Threads : results'[u] = IF u = t THEN queue ELSE results[u]
          /\ results' \in [Threads -> Seq(Operations)]
        BY <1>4 DEF StepReap, TypeOK
    <2> QED
        BY <2>1, <2>2, <2>3 DEF Reaps
<1>5. ASSUME NEW t \in Threads, StepReturn(t)
      PROVE  Finishes(t)
    <2> DEFINE found == spans \cap InSeq(results[t])
    <2>1. /\ pc[t] = "reaped" /\ total' = total + Cardinality(found) /\ spans' = spans \ found
          /\ given' = given \o HandedOver(results[t], kind[t])
          /\ UNCHANGED <<pending, queue, reaped, backend, mutex, calls, users, overlap, alive>>
        BY <1>5, SameInSeq DEF StepReturn, RemoveSpans, CompleteSpans, Record
    <2>2. spans' = spans \ InSeq(results[t])
        BY <2>1
    <2>3. Moves(t, "idle", "reap", {})
        BY <1>5, Returns DEF StepReturn
    <2>4. << >> \in Seq(Operations)
        BY EmptySeq
    <2>5. /\ \A u \in Threads : results'[u] = IF u = t THEN << >> ELSE results[u]
          /\ results' \in [Threads -> Seq(Operations)]
        BY <1>5, <2>4 DEF StepReturn, TypeOK
    <2>6. \/ answer' = answer
          \/ kind[t] # "reap" /\ \E o \in own[t] : answer' = Callback(o, results[t], kind[t])
        BY <1>5 DEF StepReturn
    <2> QED
        BY <2>1, <2>2, <2>3, <2>5, <2>6 DEF Finishes
<1>6. ASSUME NEW o \in Operations, Completion(o)
      PROVE  Completes(o)
    <2>1. /\ Device!InSeq(<<o>>) \subseteq pending /\ pending' = pending \ Device!InSeq(<<o>>)
          /\ queue' = queue \o <<o>>
          /\ UNCHANGED <<reaped, backend, mutex, spans, total, thread, history, alive>>
        BY <1>6 DEF Completion, BackendComplete, Device!Complete, observed
    <2>2. Device!InSeq(<<o>>) = {o}
        BY DEF Device!InSeq
    <2>3. queue' = Append(queue, o)
        BY <2>1, Basics, AppendIsConcat
    <2> QED
        BY <2>1, <2>2, <2>3 DEF Completes
<1>7. TorusDestroy \/ UNCHANGED vars => Rests
    BY DEF TorusDestroy, vars, Rests, TypeOK
<1> QED
    BY <1>1, <1>2, <1>3, <1>4, <1>5, <1>6, <1>7 DEF Next, LockStep, OwnStep

-----------------------------------------------------------------------------
(***************************************************************************)
(* Each kind of step keeps the invariant.                                  *)
(***************************************************************************)

\* What is handed over is a front part of what was reaped, and all of it when that
\* is at most one completion.
LEMMA HandedOverPart ==
    ASSUME NEW res \in Seq(Operations), Once(res), NEW k
    PROVE  /\ HandedOver(res, k) \in Seq(Operations) /\ Once(HandedOver(res, k))
           /\ InSeq(HandedOver(res, k)) \subseteq InSeq(res)
           /\ Len(res) <= 1 => InSeq(HandedOver(res, k)) = InSeq(res)
<1> DEFINE n == IF k # "reap" THEN IF res = << >> THEN 0 ELSE 1
                ELSE IF Len(res) < MaxResults THEN Len(res) ELSE MaxResults
<1>1. Len(res) \in Nat /\ MaxResults \in Nat \ {0} /\ (res # << >> => Len(res) # 0)
    BY LenProperties, EmptySeq, CApiAssumption
<1>2. res = << >> => Len(res) = 0
    BY EmptySeq
<1>3. n \in Nat /\ n <= Len(res) /\ (Len(res) <= 1 => n = Len(res))
    BY <1>1, <1>2
<1>4. HandedOver(res, k) = SubSeq(res, 1, n)
    BY DEF HandedOver
<1> HIDE DEF n
<1>5. 1 \in Nat /\ 1 <= 1
    OBVIOUS
<1>6. /\ SubSeq(res, 1, n) \in Seq(Operations) /\ Once(SubSeq(res, 1, n))
      /\ InSeq(SubSeq(res, 1, n)) = {res[i] : i \in 1 .. n}
    BY <1>3, <1>5, SliceOnce
<1>7. InSeq(res) = {res[i] : i \in 1 .. Len(res)}
    BY DEF InSeq
<1>8. {res[i] : i \in 1 .. n} \subseteq InSeq(res)
    BY <1>1, <1>3, <1>7
<1>9. Len(res) <= 1 => {res[i] : i \in 1 .. n} = InSeq(res)
    BY <1>3, <1>7
<1> QED
    BY <1>4, <1>6, <1>8, <1>9

\* The submission of S: nothing but S is new.
LEMMA SubmitsEffect ==
    ASSUME IInv, NEW t \in Threads, NEW k, NEW S \in SUBSET Operations, Submits(t, k, S)
    PROVE  /\ InFlight' = InFlight \cup S /\ Accepted' = Accepted \cup S
           /\ NotYet' = NotYet \cup S /\ Held' = Held
           /\ pending' \subseteq Operations /\ queue' \in Seq(Operations) /\ Once(queue')
           /\ pending' \cap InSeq(queue') = {} /\ S \cap Accepted = {}
<1>1. /\ queue \in Seq(Operations) /\ Once(queue) /\ pending \cap InSeq(queue) = {}
      /\ pending \subseteq Operations
    BY DEF IInv, TypeOK, Apart
<1>2. S \cap Accepted = {} /\ S \cap pending = {} /\ S \cap InSeq(queue) = {}
    BY DEF Submits, Accepted, InFlight
<1>3. ASSUME pending' = pending \cup S, queue' = queue
      PROVE  /\ InFlight' = InFlight \cup S
             /\ pending' \subseteq Operations /\ queue' \in Seq(Operations) /\ Once(queue')
             /\ pending' \cap InSeq(queue') = {}
    <2>1. /\ InFlight' = InFlight \cup S /\ InSeq(queue') = InSeq(queue)
        BY <1>3 DEF InFlight
    <2> QED
        BY <1>1, <1>2, <1>3, <2>1
<1>4. ASSUME NEW o \in S, pending' = pending, S = {o}, queue' = Append(queue, o)
      PROVE  /\ InFlight' = InFlight \cup S
             /\ pending' \subseteq Operations /\ queue' \in Seq(Operations) /\ Once(queue')
             /\ pending' \cap InSeq(queue') = {}
    <2>1. o \in Operations /\ o \notin InSeq(queue) /\ o \notin pending
        BY <1>2, <1>4
    <2>2. queue' \in Seq(Operations) /\ Once(queue') /\ InSeq(queue') = InSeq(queue) \cup {o}
        BY <1>1, <1>4, <2>1, AppendOnce
    <2>3. InFlight' = InFlight \cup S
        BY <1>4, <2>2 DEF InFlight
    <2> QED
        BY <1>1, <1>4, <2>1, <2>2, <2>3
<1>5. /\ InFlight' = InFlight \cup S
      /\ pending' \subseteq Operations /\ queue' \in Seq(Operations) /\ Once(queue')
      /\ pending' \cap InSeq(queue') = {}
    BY <1>1, <1>2, <1>3, <1>4 DEF Submits, InFlight
<1>6. Accepted' = Accepted \cup S
    <2>1. InSeq(reaped)' = InSeq(reaped)
        BY DEF Submits
    <2> QED
        BY <1>5, <2>1 DEF Accepted
<1>7. NotYet' = NotYet \cup S
    <2>1. \A u \in Threads : /\ pc'[u] = IF u = t THEN "span" ELSE pc[u]
                             /\ own'[u] = IF u = t THEN S ELSE own[u]
        BY DEF Submits, Moves
    <2>2. pc[t] = "idle" /\ S \subseteq Operations
        BY DEF Submits
    <2>3. \A o \in Operations :
            (\E u \in Threads : pc'[u] = "span" /\ o \in own'[u])
            <=> (\E u \in Threads : pc[u] = "span" /\ o \in own[u]) \/ o \in S
        BY <2>1, <2>2
    <2> QED
        BY <2>2, <2>3 DEF NotYet
<1>8. Held' = Held
    BY DEF Submits, Held
<1> QED
    BY <1>2, <1>5, <1>6, <1>7, <1>8

\* A submission keeps the invariant: it is alone, or overlap is noted.
LEMMA SubmitsKeeps ==
    ASSUME IInv, NEW t \in Threads, NEW k \in {"data", "close", "batch"},
           NEW S \in SUBSET Operations, Submits(t, k, S)
    PROVE  IInv'
<1>1. /\ InFlight' = InFlight \cup S /\ Accepted' = Accepted \cup S
      /\ NotYet' = NotYet \cup S /\ Held' = Held
      /\ pending' \subseteq Operations /\ queue' \in Seq(Operations) /\ Once(queue')
      /\ pending' \cap InSeq(queue') = {} /\ S \cap Accepted = {}
    BY SubmitsEffect
<1>2. /\ pc[t] = "idle" /\ Moves(t, "span", k, S)
      /\ users' = users \cup {t} /\ calls < MaxCalls /\ calls' = calls + 1
      /\ k # "batch" => \A a, b \in S : a = b
      /\ S # {} /\ NoteOverlap(S)
      /\ UNCHANGED <<answer, results, given, alive, reaped, backend, mutex, spans, total>>
    BY DEF Submits
<1>3. /\ \A u \in Threads : pc'[u] = IF u = t THEN "span" ELSE pc[u]
      /\ \A u \in Threads : kind'[u] = IF u = t THEN k ELSE kind[u]
      /\ \A u \in Threads : own'[u] = IF u = t THEN S ELSE own[u]
    BY <1>2 DEF Moves
<1>4. InSeq(reaped)' = InSeq(reaped) /\ InSeq(given)' = InSeq(given)
    BY <1>2
<1>5. TypeOK'
    <2>1. calls' \in 0 .. MaxCalls /\ users' \subseteq Threads /\ overlap' \in BOOLEAN
        BY <1>2, CApiAssumption DEF IInv, TypeOK, NoteOverlap
    <2> QED
        BY <1>1, <1>2, <2>1 DEF IInv, TypeOK, Moves
<1>6. Apart'
    <2>1. InFlight' \cap InSeq(reaped') = {}
        BY <1>1, <1>4 DEF IInv, Apart, Accepted
    <2> QED
        BY <1>1, <1>2, <1>4, <2>1 DEF IInv, Apart
<1>7. Phases'
    BY <1>2, <1>3 DEF IInv, Phases, PhaseOf
<1>8. Alone'
    <2> SUFFICES ASSUME ~overlap'
                 PROVE  /\ \A a, b \in InFlight' : a = b
                        /\ \A u \in Threads : Len(results'[u]) <= 1 /\ (InCallback(u)' => OwnOnly(u)')
                        /\ \A o \in Operations : answer'[o] \in Operations => answer'[o] = o
                        /\ InSeq(reaped') \subseteq InSeq(given') \cup Held'
        BY DEF Alone
    <2>1. /\ ~overlap /\ pending = {} /\ queue = << >> /\ ~(Cardinality(S) > 1)
          /\ \A u \in Threads : ~(pc[u] # "idle" /\ kind[u] \in {"data", "close"})
        BY <1>2 DEF NoteOverlap
    <2>2. InFlight = {}
        BY <2>1, Basics DEF IInv, InFlight
    <2>3. \A a, b \in S : a = b
        <3>1. IsFiniteSet(S)
            BY CApiAssumption, FS_Subset
        <3>2. Cardinality(S) \in Nat /\ Cardinality(S) # 0
            BY <1>2, <3>1, FS_CardinalityType, FS_EmptySet
        <3>3. Cardinality(S) = 1
            BY <2>1, <3>2
        <3> QED
            BY <3>1, <3>3, FS_Singleton
    <2>4. results[t] = << >> /\ InSeq(results[t]) = {}
        BY <1>2, Basics DEF IInv, Phases, PhaseOf
    <2>5. ASSUME NEW u \in Threads, InCallback(u)'
          PROVE  OwnOnly(u)'
        <3>1. u = t
            BY <1>3, <2>1, <2>5 DEF InCallback
        <3>2. InFlight' \subseteq S /\ results' = results /\ own'[t] = S
            BY <1>1, <1>2, <1>3, <2>2
        <3> QED
            BY <2>3, <2>4, <3>1, <3>2 DEF OwnOnly
    <2> QED
        BY <1>1, <1>2, <1>4, <2>1, <2>2, <2>3, <2>5 DEF IInv, Alone
<1>9. SpanCount'
    <2>1. /\ spans \cap NotYet = {} /\ spans \cup NotYet \subseteq Accepted
          /\ total = Cardinality(Accepted \ (spans \cup NotYet))
        BY DEF IInv, SpanCount
    <2>2. Accepted' \ (spans' \cup NotYet') = Accepted \ (spans \cup NotYet)
        BY <1>1, <1>2, <2>1
    <2>3. spans' \cap NotYet' = {} /\ spans' \cup NotYet' \subseteq Accepted'
        BY <1>1, <1>2, <2>1
    <2>4. ASSUME NEW u \in Threads, pc[u] = "span"
          PROVE  own[u] \cap S = {}
        <3>1. own[u] \subseteq NotYet
            BY <2>4, Basics DEF IInv, NotYet
        <3> QED
            BY <1>1, <2>1, <3>1
    <2>5. \A u, v \in Threads :
            u # v /\ pc'[u] = "span" /\ pc'[v] = "span" => own'[u] \cap own'[v] = {}
        BY <1>2, <1>3, <2>4 DEF IInv, SpanCount
    <2> QED
        BY <1>2, <2>1, <2>2, <2>3, <2>5 DEF SpanCount
<1>10. OneUser'
    <2>1. IsFiniteSet(users')
        BY <1>2, FS_AddElement DEF IInv, OneUser
    <2>2. (\A a, b \in users' : a = b) => \A a, b \in users : a = b
        BY <1>2
    <2> QED
        BY <1>1, <1>2, <2>1, <2>2 DEF IInv, OneUser
<1> QED
    BY <1>5, <1>6, <1>7, <1>8, <1>9, <1>10 DEF IInv

\* Steps after which every operation is where it was.
LEMMA SameSets ==
    ASSUME UNCHANGED <<pending, queue, reaped>>
    PROVE  /\ InFlight' = InFlight /\ Accepted' = Accepted
           /\ InSeq(queue)' = InSeq(queue) /\ InSeq(reaped)' = InSeq(reaped)
BY DEF InFlight, Accepted

\* A thread that neither was nor is before its spans does not change NotYet.
LEMMA SameNotYet ==
    ASSUME NEW t \in Threads, NEW place, NEW k, NEW S, Moves(t, place, k, S),
           pc[t] # "span", place # "span"
    PROVE  NotYet' = NotYet
<1>1. \A u \in Threads : /\ pc'[u] = IF u = t THEN place ELSE pc[u]
                         /\ own'[u] = IF u = t THEN S ELSE own[u]
    BY DEF Moves
<1>2. \A o \in Operations : (\E u \in Threads : pc'[u] = "span" /\ o \in own'[u])
                            <=> (\E u \in Threads : pc[u] = "span" /\ o \in own[u])
    BY <1>1
<1> QED
    BY <1>2 DEF NotYet

\* Nor does it change whose spans are to come.
LEMMA SameSpanCount ==
    ASSUME IInv, NEW t \in Threads, NEW place, NEW k, NEW S, Moves(t, place, k, S),
           pc[t] # "span", place # "span",
           Accepted' = Accepted, UNCHANGED <<spans, total>>
    PROVE  SpanCount'
<1>1. NotYet' = NotYet
    BY SameNotYet
<1>2. \A u, v \in Threads :
        u # v /\ pc'[u] = "span" /\ pc'[v] = "span" => own'[u] \cap own'[v] = {}
    BY DEF Moves, IInv, SpanCount
<1> QED
    BY <1>1, <1>2 DEF IInv, SpanCount

\* A call that begins without a submission keeps the invariant.
LEMMA EntersKeeps ==
    ASSUME IInv, NEW t \in Threads, NEW k \in {"reap", "wait", "forever"},
           NEW place \in {"idle", "reap", "wait"}, Enters(t, k, place)
    PROVE  IInv'
<1>1. /\ pc[t] = "idle" /\ Moves(t, place, k, {})
      /\ \/ place \in {"idle", "reap"} /\ k = "reap"
         \/ place = "wait" /\ k \in {"wait", "forever"}
      /\ calls < MaxCalls /\ calls' = calls + 1 /\ users' = users \cup {t}
      /\ answer' = answer \/ \E o \in Operations : answer' = [answer EXCEPT ![o] = "refused"]
      /\ UNCHANGED <<pending, queue, reaped, backend, mutex, spans, total, overlap, results, given, alive>>
    BY DEF Enters, torus, observed
<1>2. /\ InFlight' = InFlight /\ Accepted' = Accepted
      /\ InSeq(queue)' = InSeq(queue) /\ InSeq(reaped)' = InSeq(reaped)
    BY <1>1, SameSets
<1>3. /\ \A u \in Threads : pc'[u] = IF u = t THEN place ELSE pc[u]
      /\ \A u \in Threads : kind'[u] = IF u = t THEN k ELSE kind[u]
      /\ \A u \in Threads : own'[u] = IF u = t THEN {} ELSE own[u]
    BY <1>1 DEF Moves
<1>4. NotYet' = NotYet /\ SpanCount'
    BY <1>1, <1>2, SameNotYet, SameSpanCount
<1>5. Held' = Held
    BY <1>1 DEF Held
<1>6. answer' \in [Operations -> Answers]
      /\ \A o \in Operations : answer'[o] \in Operations => answer'[o] = answer[o]
    BY <1>1, CApiAssumption DEF IInv, TypeOK, Answers
<1>7. TypeOK'
    <2>1. calls' \in 0 .. MaxCalls /\ users' \subseteq Threads
        BY <1>1, CApiAssumption DEF IInv, TypeOK
    <2> QED
        BY <1>1, <1>6, <2>1 DEF IInv, TypeOK, Moves
<1>8. Apart'
    BY <1>1, <1>2 DEF IInv, Apart
<1>9. Phases'
    BY <1>1, <1>3 DEF IInv, Phases, PhaseOf
<1>10. Alone'
    <2>1. ASSUME NEW u \in Threads, InCallback(u)'
          PROVE  InCallback(u) /\ own'[u] = own[u]
        BY <1>1, <1>3, <2>1 DEF InCallback
    <2>2. \A u \in Threads : InCallback(u)' /\ (InCallback(u) => OwnOnly(u)) => OwnOnly(u)'
        BY <1>1, <1>2, <2>1 DEF OwnOnly
    <2> QED
        BY <1>1, <1>2, <1>5, <1>6, <2>1, <2>2 DEF IInv, Alone
<1>11. OneUser'
    <2>1. IsFiniteSet(users')
        BY <1>1, FS_AddElement DEF IInv, OneUser
    <2>2. (\A a, b \in users' : a = b) => \A a, b \in users : a = b
        BY <1>1
    <2> QED
        BY <1>1, <1>2, <1>4, <1>5, <2>1, <2>2 DEF IInv, OneUser
<1> QED
    BY <1>4, <1>7, <1>8, <1>9, <1>10, <1>11 DEF IInv

\* The steps of wait keep the invariant.
LEMMA GoesOnKeeps ==
    ASSUME IInv, NEW t \in Threads,
           NEW k \in {"data", "close", "batch", "wait", "forever", "reap"},
           NEW S \in SUBSET Operations, NEW place \in {"idle", "waiting", "reap"},
           GoesOn(t, k, S, place)
    PROVE  IInv'
<1>1. /\ pc[t] \in {"wait", "waiting"} /\ Moves(t, place, k, S)
      /\ \/ place = "waiting" /\ k = kind[t] /\ S = own[t]
         \/ place = "reap" /\ k = kind[t] /\ S = own[t] /\ k \in {"data", "close"}
         \/ place = "idle" /\ k = "reap" /\ S = {}
      /\ mutex' \in Threads \cup {Free}
      /\ UNCHANGED <<pending, queue, reaped, backend, spans, total, results, alive>>
      /\ UNCHANGED <<answer, given, calls, users, overlap>>
    BY DEF GoesOn, history
<1>2. /\ InFlight' = InFlight /\ Accepted' = Accepted
      /\ InSeq(queue)' = InSeq(queue) /\ InSeq(reaped)' = InSeq(reaped)
    BY <1>1, SameSets
<1>3. /\ \A u \in Threads : pc'[u] = IF u = t THEN place ELSE pc[u]
      /\ \A u \in Threads : kind'[u] = IF u = t THEN k ELSE kind[u]
      /\ \A u \in Threads : own'[u] = IF u = t THEN S ELSE own[u]
    BY <1>1 DEF Moves
<1>4. NotYet' = NotYet /\ SpanCount'
    BY <1>1, <1>2, SameNotYet, SameSpanCount
<1>5. Held' = Held
    BY <1>1 DEF Held
<1>6. TypeOK'
    BY <1>1 DEF IInv, TypeOK, Moves
<1>7. Apart'
    BY <1>1, <1>2 DEF IInv, Apart
<1>8. Phases'
    BY <1>1, <1>3 DEF IInv, Phases, PhaseOf
<1>9. Alone'
    <2>1. ASSUME NEW u \in Threads, InCallback(u)'
          PROVE  InCallback(u) /\ own'[u] = own[u]
        BY <1>1, <1>3, <2>1 DEF InCallback
    <2>2. \A u \in Threads : InCallback(u)' /\ (InCallback(u) => OwnOnly(u)) => OwnOnly(u)'
        BY <1>1, <1>2, <2>1 DEF OwnOnly
    <2> QED
        BY <1>1, <1>2, <1>5, <2>1, <2>2 DEF IInv, Alone
<1>10. OneUser'
    BY <1>1, <1>2, <1>4, <1>5 DEF IInv, OneUser
<1> QED
    BY <1>4, <1>6, <1>7, <1>8, <1>9, <1>10 DEF IInv

\* So does the insertion of the spans.
LEMMA SpansKeeps ==
    ASSUME IInv, NEW t \in Threads,
           NEW k \in {"data", "close", "batch", "wait", "forever", "reap"},
           NEW S \in SUBSET Operations, NEW place \in {"idle", "wait"}, Spans(t, k, S, place)
    PROVE  IInv'
<1>1. /\ pc[t] = "span" /\ Moves(t, place, k, S)
      /\ \/ place = "idle" /\ k = "reap" /\ S = {}
         \/ place = "wait" /\ k = kind[t] /\ S = own[t] /\ k # "batch"
      /\ spans' = spans \cup own[t]
      /\ UNCHANGED <<pending, queue, reaped, backend, mutex, total, results, alive>>
      /\ UNCHANGED <<answer, given, calls, users, overlap>>
    BY DEF Spans, history
<1>2. /\ InFlight' = InFlight /\ Accepted' = Accepted
      /\ InSeq(queue)' = InSeq(queue) /\ InSeq(reaped)' = InSeq(reaped)
    BY <1>1, SameSets
<1>3. /\ \A u \in Threads : pc'[u] = IF u = t THEN place ELSE pc[u]
      /\ \A u \in Threads : kind'[u] = IF u = t THEN k ELSE kind[u]
      /\ \A u \in Threads : own'[u] = IF u = t THEN S ELSE own[u]
    BY <1>1 DEF Moves
<1>4. own[t] \subseteq NotYet
    BY <1>1, Basics DEF IInv, NotYet
<1>5. NotYet' = NotYet \ own[t]
    <2>1. place # "span"
        OBVIOUS
    <2>2. \A u \in Threads : u # t /\ pc[u] = "span" => own[u] \cap own[t] = {}
        BY <1>1 DEF IInv, SpanCount
    <2>3. \A o \in Operations :
            (\E u \in Threads : pc'[u] = "span" /\ o \in own'[u])
            <=> (\E u \in Threads : pc[u] = "span" /\ o \in own[u]) /\ o \notin own[t]
        BY <1>1, <1>3, <2>1, <2>2
    <2> QED
        BY <2>3 DEF NotYet
<1>6. Held' = Held
    BY <1>1 DEF Held
<1>7. spans' \cup NotYet' = spans \cup NotYet
    BY <1>1, <1>4, <1>5
<1>8. TypeOK'
    <2>1. spans' \subseteq Operations
        BY <1>1, Basics DEF IInv, TypeOK
    <2> QED
        BY <1>1, <2>1 DEF IInv, TypeOK, Moves
<1>9. Apart'
    BY <1>1, <1>2 DEF IInv, Apart
<1>10. Phases'
    BY <1>1, <1>3 DEF IInv, Phases, PhaseOf
<1>11. Alone'
    <2>1. ASSUME NEW u \in Threads, InCallback(u)'
          PROVE  InCallback(u) /\ own'[u] = own[u]
        BY <1>1, <1>3, <2>1 DEF InCallback
    <2>2. \A u \in Threads : InCallback(u)' /\ (InCallback(u) => OwnOnly(u)) => OwnOnly(u)'
        BY <1>1, <1>2, <2>1 DEF OwnOnly
    <2> QED
        BY <1>1, <1>2, <1>6, <2>1, <2>2 DEF IInv, Alone
<1>12. SpanCount'
    <2>1. \A u, v \in Threads :
            u # v /\ pc'[u] = "span" /\ pc'[v] = "span" => own'[u] \cap own'[v] = {}
        BY <1>1, <1>3 DEF IInv, SpanCount
    <2>2. spans' \cap NotYet' = {}
        BY <1>1, <1>5 DEF IInv, SpanCount
    <2> QED
        BY <1>1, <1>2, <1>7, <2>1, <2>2 DEF IInv, SpanCount
<1>13. OneUser'
    BY <1>1, <1>2, <1>6, <1>7 DEF IInv, OneUser
<1> QED
    BY <1>8, <1>9, <1>10, <1>11, <1>12, <1>13 DEF IInv

\* Sets that do not meet add up.
LEMMA DisjointCard ==
    ASSUME NEW A, NEW B, IsFiniteSet(A), IsFiniteSet(B), A \cap B = {}
    PROVE  /\ IsFiniteSet(A \cup B)
           /\ Cardinality(A \cup B) = Cardinality(A) + Cardinality(B)
           /\ Cardinality(A) \in Nat /\ Cardinality(B) \in Nat
<1>1. IsFiniteSet(A \cup B) /\ Cardinality(A \cup B) = Cardinality(A) + Cardinality(B) - Cardinality({})
    BY FS_Union
<1>2. Cardinality({}) = 0 /\ Cardinality(A) \in Nat /\ Cardinality(B) \in Nat
    BY FS_EmptySet, FS_CardinalityType
<1> QED
    BY <1>1, <1>2

\* A reap moves the queue to the call.
LEMMA ReapsKeeps ==
    ASSUME IInv, NEW t \in Threads, Reaps(t)
    PROVE  IInv'
<1>1. /\ pc[t] = "reap" /\ Moves(t, "reaped", kind[t], own[t])
      /\ reaped' = reaped \o queue /\ queue' = << >>
      /\ \A u \in Threads : results'[u] = IF u = t THEN queue ELSE results[u]
      /\ results' \in [Threads -> Seq(Operations)]
      /\ UNCHANGED <<pending, backend, mutex, spans, total, alive>>
      /\ UNCHANGED <<answer, given, calls, users, overlap>>
    BY DEF Reaps, history
<1>2. /\ \A u \in Threads : pc'[u] = IF u = t THEN "reaped" ELSE pc[u]
      /\ \A u \in Threads : kind'[u] = kind[u]
      /\ \A u \in Threads : own'[u] = own[u]
    BY <1>1 DEF Moves
<1>3. /\ queue \in Seq(Operations) /\ reaped \in Seq(Operations)
      /\ Once(queue) /\ Once(reaped) /\ InFlight \cap InSeq(reaped) = {}
      /\ InSeq(reaped) \cap InSeq(queue) = {}
    BY Basics DEF IInv, Apart, InFlight
<1>4. reaped' \in Seq(Operations) /\ Once(reaped') /\ InSeq(reaped') = InSeq(reaped) \cup InSeq(queue)
    BY <1>1, <1>3, ConcatOnce
<1>5. queue' \in Seq(Operations) /\ Once(queue') /\ InSeq(queue') = {}
    BY <1>1, EmptySeq DEF Once, InSeq
<1>6. InFlight' = pending /\ InFlight' \subseteq InFlight /\ Accepted' = Accepted
    BY <1>1, <1>4, <1>5 DEF InFlight, Accepted
<1>7. results[t] = << >> /\ InSeq(results[t]) = {}
    BY <1>1, Basics DEF IInv, Phases, PhaseOf
<1>8. \A u \in Threads : InSeq(results'[u]) = IF u = t THEN InSeq(queue) ELSE InSeq(results[u])
    BY <1>1
<1>9. Held' = Held \cup InSeq(queue)
    <2>1. InSeq(queue) \subseteq Operations
        BY Basics DEF IInv
    <2>2. \A o \in Operations : (\E u \in Threads : o \in InSeq(results'[u]))
                                <=> (\E u \in Threads : o \in InSeq(results[u])) \/ o \in InSeq(queue)
        BY <1>7, <1>8
    <2> QED
        BY <2>1, <2>2 DEF Held
<1>10. NotYet' = NotYet /\ SpanCount'
    BY <1>1, <1>6, SameNotYet, SameSpanCount
<1>11. InSeq(given)' = InSeq(given)
    BY <1>1
<1>12. TypeOK'
    BY <1>1, <1>4, <1>5 DEF IInv, TypeOK, Moves
<1>13. Apart'
    <2>1. /\ Once(given) /\ InSeq(given) \subseteq InSeq(reaped) /\ pending \cap InSeq(queue) = {}
          /\ \A u \in Threads :
                Once(results[u]) /\ InSeq(results[u]) \subseteq InSeq(reaped) \ InSeq(given)
          /\ \A u, v \in Threads : u # v => InSeq(results[u]) \cap InSeq(results[v]) = {}
        BY DEF IInv, Apart
    <2>2. \A u \in Threads :
            Once(results'[u]) /\ InSeq(results'[u]) \subseteq InSeq(reaped') \ InSeq(given')
        BY <1>1, <1>3, <1>4, <1>8, <1>11, <2>1
    <2>3. \A u, v \in Threads : u # v => InSeq(results'[u]) \cap InSeq(results'[v]) = {}
        BY <1>3, <1>8, <2>1
    <2>4. /\ pending' \cap InSeq(queue') = {} /\ InFlight' \cap InSeq(reaped') = {}
          /\ InSeq(given') \subseteq InSeq(reaped') /\ Once(given')
        BY <1>1, <1>3, <1>4, <1>5, <1>6, <1>11, <2>1 DEF InFlight
    <2> QED
        BY <1>4, <1>5, <2>2, <2>3, <2>4 DEF Apart
<1>14. Phases'
    BY <1>1, <1>2 DEF IInv, Phases, PhaseOf
<1>15. Alone'
    <2> SUFFICES ASSUME ~overlap
                 PROVE  /\ \A a, b \in InFlight' : a = b
                        /\ \A u \in Threads : Len(results'[u]) <= 1 /\ (InCallback(u)' => OwnOnly(u)')
                        /\ \A o \in Operations : answer'[o] \in Operations => answer'[o] = o
                        /\ InSeq(reaped') \subseteq InSeq(given') \cup Held'
        BY <1>1 DEF Alone
    <2>1. /\ \A a, b \in InFlight : a = b
          /\ \A u \in Threads : Len(results[u]) <= 1 /\ (InCallback(u) => OwnOnly(u))
          /\ \A o \in Operations : answer[o] \in Operations => answer[o] = o
          /\ InSeq(reaped) \subseteq InSeq(given) \cup Held
        BY DEF IInv, Alone
    <2>2. Len(queue) <= 1
        <3>1. Len(queue) \in Nat /\ \A i \in 1 .. Len(queue) : queue[i] \in InFlight
            BY <1>3, InSeqOf DEF InFlight
        <3>2. \A i, j \in 1 .. Len(queue) : i = j
            BY <1>3, <2>1, <3>1 DEF Once
        <3>3. Len(queue) >= 2 => 1 \in 1 .. Len(queue) /\ 2 \in 1 .. Len(queue)
            BY <3>1
        <3> QED
            BY <3>1, <3>2, <3>3
    <2>3. ASSUME NEW u \in Threads, InCallback(u)'
          PROVE  OwnOnly(u)'
        <3>1. InCallback(u)
            BY <1>1, <1>2, <2>3 DEF InCallback
        <3>2. InFlight \cup InSeq(results[u]) \subseteq own[u] /\ \A a, b \in own[u] : a = b
            BY <2>1, <3>1 DEF OwnOnly
        <3>3. InSeq(results'[u]) \subseteq InSeq(results[u]) \cup InFlight
            BY <1>8 DEF InFlight
        <3> QED
            BY <1>2, <1>6, <3>2, <3>3 DEF OwnOnly
    <2>4. \A u \in Threads : Len(results'[u]) <= 1
        BY <1>1, <2>1, <2>2
    <2> QED
        BY <1>1, <1>4, <1>6, <1>9, <1>11, <2>1, <2>3, <2>4
<1>16. OneUser'
    <2>1. InFlight' \cup Held' = InFlight \cup Held
        BY <1>6, <1>9 DEF InFlight
    <2> QED
        BY <1>1, <1>10, <2>1 DEF IInv, OneUser
<1> QED
    BY <1>10, <1>12, <1>13, <1>14, <1>15, <1>16 DEF IInv

\* A call that returns hands over, and records the spans that it finds.
LEMMA FinishesKeeps ==
    ASSUME IInv, NEW t \in Threads, Finishes(t)
    PROVE  IInv'
<1> DEFINE res == results[t]
           R == InSeq(res)
           H == HandedOver(res, kind[t])
<1>1. /\ pc[t] = "reaped" /\ Moves(t, "idle", "reap", {})
      /\ spans' = spans \ R /\ total' = total + Cardinality(spans \cap R)
      /\ given' = given \o H
      /\ \/ answer' = answer
         \/ kind[t] # "reap" /\ \E o \in own[t] : answer' = Callback(o, res, kind[t])
      /\ \A u \in Threads : results'[u] = IF u = t THEN << >> ELSE results[u]
      /\ results' \in [Threads -> Seq(Operations)]
      /\ UNCHANGED <<pending, queue, reaped, backend, mutex, calls, users, overlap, alive>>
    BY DEF Finishes
<1>2. /\ \A u \in Threads : pc'[u] = IF u = t THEN "idle" ELSE pc[u]
      /\ \A u \in Threads : kind'[u] = IF u = t THEN "reap" ELSE kind[u]
      /\ \A u \in Threads : own'[u] = IF u = t THEN {} ELSE own[u]
    BY <1>1 DEF Moves
<1>3. /\ InFlight' = InFlight /\ Accepted' = Accepted
      /\ InSeq(queue)' = InSeq(queue) /\ InSeq(reaped)' = InSeq(reaped)
    BY <1>1, SameSets
<1>4. /\ res \in Seq(Operations) /\ Once(res) /\ R \subseteq InSeq(reaped) \ InSeq(given)
      /\ R \subseteq Operations /\ given \in Seq(Operations) /\ Once(given)
      /\ InSeq(given) \subseteq InSeq(reaped)
    BY Basics DEF IInv, Apart
<1>5. H \in Seq(Operations) /\ Once(H) /\ InSeq(H) \subseteq R /\ (Len(res) <= 1 => InSeq(H) = R)
    BY <1>4, HandedOverPart
<1> HIDE DEF H
<1>6. given' \in Seq(Operations) /\ Once(given') /\ InSeq(given') = InSeq(given) \cup InSeq(H)
    <2>1. InSeq(given) \cap InSeq(H) = {}
        BY <1>4, <1>5
    <2> QED
        BY <1>1, <1>4, <1>5, <2>1, ConcatOnce
<1>7. kind[t] # "reap" => kind[t] \in {"data", "close"}
    BY <1>1 DEF IInv, Phases, PhaseOf
<1>8. \A u \in Threads : InSeq(results'[u]) = IF u = t THEN {} ELSE InSeq(results[u])
    BY <1>1, Basics DEF IInv
<1>9. \A u \in Threads : u # t => InSeq(results[u]) \cap R = {}
    BY DEF IInv, Apart
<1>10. res # << >> => res[1] \in R
    <2>1. res # << >> => 1 \in 1 .. Len(res)
        BY <1>4, EmptySeq, LenProperties
    <2> QED
        BY <1>4, <2>1, InSeqOf
<1> HIDE DEF R, res
<1>11. Held' = Held \ R
    <2>1. \A o \in Operations : (\E u \in Threads : o \in InSeq(results'[u]))
                                <=> (\E u \in Threads : o \in InSeq(results[u])) /\ o \notin R
        BY <1>8, <1>9 DEF R, res
    <2> QED
        BY <2>1 DEF Held
<1>12. NotYet' = NotYet
    BY <1>1, SameNotYet
<1>13. answer' \in [Operations -> Answers]
    <2>1. CASE answer' = answer
        BY <2>1 DEF IInv, TypeOK
    <2>2. ASSUME NEW o \in own[t], answer' = Callback(o, res, kind[t])
          PROVE  answer' \in [Operations -> Answers]
        BY <2>2, <1>4, <1>10 DEF IInv, TypeOK, Callback, Answers
    <2> QED
        BY <1>1, <2>1, <2>2
<1>14. IsFiniteSet(spans \cap R) /\ Cardinality(spans \cap R) \in Nat
    <2>1. spans \cap R \subseteq Operations
        BY <1>4
    <2> QED
        BY <2>1, CApiAssumption, FS_Subset, FS_CardinalityType
<1>15. TypeOK'
    <2>1. total' \in Nat /\ spans' \subseteq Operations
        BY <1>1, <1>14 DEF IInv, TypeOK
    <2> QED
        BY <1>1, <1>6, <1>13, <2>1 DEF IInv, TypeOK, Moves
<1>16. Apart'
    <2>1. /\ pending \cap InSeq(queue) = {} /\ InFlight \cap InSeq(reaped) = {}
          /\ Once(queue) /\ Once(reaped)
          /\ \A u \in Threads :
                Once(results[u]) /\ InSeq(results[u]) \subseteq InSeq(reaped) \ InSeq(given)
          /\ \A u, v \in Threads : u # v => InSeq(results[u]) \cap InSeq(results[v]) = {}
        BY DEF IInv, Apart
    <2>2. Once(<< >>)
        BY DEF Once
    <2>3. \A u \in Threads :
            Once(results'[u]) /\ InSeq(results'[u]) \subseteq InSeq(reaped') \ InSeq(given')
        BY <1>1, <1>3, <1>5, <1>6, <1>8, <1>9, <2>1, <2>2
    <2>4. \A u, v \in Threads : u # v => InSeq(results'[u]) \cap InSeq(results'[v]) = {}
        BY <1>8, <2>1
    <2>5. InSeq(given') \subseteq InSeq(reaped')
        BY <1>3, <1>4, <1>5, <1>6
    <2> QED
        BY <1>1, <1>3, <1>6, <2>1, <2>3, <2>4, <2>5 DEF Apart
<1>17. Phases'
    BY <1>1, <1>2 DEF IInv, Phases, PhaseOf
<1>18. Alone'
    <2> SUFFICES ASSUME ~overlap
                 PROVE  /\ \A a, b \in InFlight' : a = b
                        /\ \A u \in Threads : Len(results'[u]) <= 1 /\ (InCallback(u)' => OwnOnly(u)')
                        /\ \A o \in Operations : answer'[o] \in Operations => answer'[o] = o
                        /\ InSeq(reaped') \subseteq InSeq(given') \cup Held'
        BY <1>1 DEF Alone
    <2>1. /\ \A a, b \in InFlight : a = b
          /\ \A u \in Threads : Len(results[u]) <= 1 /\ (InCallback(u) => OwnOnly(u))
          /\ \A o \in Operations : answer[o] \in Operations => answer[o] = o
          /\ InSeq(reaped) \subseteq InSeq(given) \cup Held
        BY DEF IInv, Alone
    <2>2. ASSUME NEW u \in Threads, InCallback(u)'
          PROVE  OwnOnly(u)'
        <3>1. u # t /\ InCallback(u)
            BY <1>2, <2>2 DEF InCallback
        <3>2. OwnOnly(u) /\ results'[u] = results[u] /\ own'[u] = own[u]
            BY <1>1, <1>2, <2>1, <3>1
        <3> QED
            BY <1>3, <3>2 DEF OwnOnly
    <2>3. \A u \in Threads : Len(results'[u]) <= 1
        <3>1. Len(<< >>) <= 1
            BY EmptySeq
        <3> QED
            BY <1>1, <2>1, <3>1
    <2>4. InSeq(H) = R
        BY <1>5, <2>1 DEF res
    <2>5. InSeq(reaped') \subseteq InSeq(given') \cup Held'
        BY <1>3, <1>6, <1>11, <2>1, <2>4
    <2>6. ASSUME NEW o \in own[t], kind[t] # "reap", answer' = Callback(o, res, kind[t])
          PROVE  \A q \in Operations : answer'[q] \in Operations => answer'[q] = q
        <3>1. InCallback(t)
            BY <1>1, <1>7, <2>6 DEF InCallback
        <3>2. R \subseteq own[t] /\ \A a, b \in own[t] : a = b
            BY <2>1, <3>1 DEF OwnOnly, R, res
        <3>3. res # << >> => res[1] = o
            BY <1>10, <3>2
        <3>4. "zero" \notin Operations /\ "timeout" \notin Operations
            BY CApiAssumption
        <3>5. o \in Operations /\ answer \in [Operations -> Answers]
            BY Basics DEF IInv, TypeOK
        <3>6. /\ answer'[o] = IF res # << >> THEN res[1] ELSE IF kind[t] = "close" THEN "zero" ELSE "timeout"
              /\ \A q \in Operations : q # o => answer'[q] = answer[q]
            BY <2>6, <3>5 DEF Callback
        <3> QED
            BY <2>1, <3>3, <3>4, <3>6
    <2> QED
        BY <1>1, <1>3, <2>1, <2>2, <2>3, <2>5, <2>6
<1>19. SpanCount'
    <2> DEFINE D == Accepted \ (spans \cup NotYet)
               F == spans \cap R
    <2>1. /\ spans \cap NotYet = {} /\ spans \cup NotYet \subseteq Accepted /\ total = Cardinality(D)
        BY DEF IInv, SpanCount
    <2>2. Accepted' \ (spans' \cup NotYet') = D \cup F /\ D \cap F = {}
        BY <1>1, <1>3, <1>12, <2>1
    <2>3. IsFiniteSet(D)
        <3>1. D \subseteq Operations
            BY Basics DEF IInv
        <3> QED
            BY <3>1, CApiAssumption, FS_Subset
    <2>4. IsFiniteSet(F)
        BY <1>14
    <2>5. total' = Cardinality(D) + Cardinality(F)
        BY <1>1, <2>1
    <2> HIDE DEF D, F
    <2>6. total' = Cardinality(Accepted' \ (spans' \cup NotYet'))
        BY <2>2, <2>3, <2>4, <2>5, DisjointCard
    <2>7. spans' \cap NotYet' = {} /\ spans' \cup NotYet' \subseteq Accepted'
        BY <1>1, <1>3, <1>12, <2>1
    <2>8. \A u, v \in Threads :
            u # v /\ pc'[u] = "span" /\ pc'[v] = "span" => own'[u] \cap own'[v] = {}
        BY <1>2 DEF IInv, SpanCount
    <2> QED
        BY <2>6, <2>7, <2>8 DEF SpanCount
<1>20. OneUser'
    <2> SUFFICES ASSUME \A a, b \in users : a = b
                 PROVE  spans' \cup NotYet' = InFlight' \cup Held'
        BY <1>1 DEF IInv, OneUser
    <2>1. spans \cup NotYet = InFlight \cup Held
        BY DEF IInv, OneUser
    <2>2. \A u \in Threads : pc[u] # "idle" => u \in users
        BY DEF IInv, Phases, PhaseOf
    <2>3. \A u \in Threads : pc[u] # "span"
        <3>1. t \in users
            BY <1>1, <2>2
        <3> QED
            BY <1>1, <2>2, <3>1
    <2>4. NotYet = {}
        BY <2>3 DEF NotYet
    <2>5. InFlight \cap R = {}
        BY <1>4 DEF IInv, Apart
    <2> QED
        BY <1>1, <1>3, <1>11, <1>12, <2>1, <2>4, <2>5
<1> QED
    BY <1>15, <1>16, <1>17, <1>18, <1>19, <1>20 DEF IInv

\* A completion moves an operation to the queue.
LEMMA CompletesKeeps ==
    ASSUME IInv, NEW o \in Operations, Completes(o)
    PROVE  IInv'
<1>1. /\ o \in pending /\ pending' = pending \ {o} /\ queue' = Append(queue, o)
      /\ UNCHANGED <<reaped, backend, mutex, spans, total, alive>>
      /\ UNCHANGED <<pc, kind, own, results>>
      /\ UNCHANGED <<answer, given, calls, users, overlap>>
    BY DEF Completes, thread, history
<1>2. queue \in Seq(Operations) /\ Once(queue) /\ o \notin InSeq(queue)
    BY <1>1, Basics DEF IInv, Apart
<1>3. queue' \in Seq(Operations) /\ Once(queue') /\ InSeq(queue') = InSeq(queue) \cup {o}
    BY <1>1, <1>2, AppendOnce
<1>4. InFlight' = InFlight
    BY <1>1, <1>3 DEF InFlight
<1>5. InSeq(reaped)' = InSeq(reaped) /\ InSeq(given)' = InSeq(given)
    BY <1>1
<1>6. Accepted' = Accepted /\ Held' = Held /\ NotYet' = NotYet
    BY <1>1, <1>4, <1>5 DEF Accepted, Held, NotYet
<1>7. TypeOK'
    BY <1>1, <1>3 DEF IInv, TypeOK
<1>8. Apart'
    <2>1. pending' \cap InSeq(queue') = {}
        BY <1>1, <1>3 DEF IInv, Apart
    <2> QED
        BY <1>1, <1>3, <1>4, <1>5, <2>1 DEF IInv, Apart
<1>9. Phases'
    BY <1>1 DEF IInv, Phases, PhaseOf
<1>10. Alone'
    BY <1>1, <1>4, <1>5, <1>6 DEF IInv, Alone, InCallback, OwnOnly
<1>11. SpanCount' /\ OneUser'
    BY <1>1, <1>4, <1>6 DEF IInv, SpanCount, OneUser
<1> QED
    BY <1>7, <1>8, <1>9, <1>10, <1>11 DEF IInv

\* torus_destroy keeps the invariant.
LEMMA RestsKeeps ==
    ASSUME IInv, Rests
    PROVE  IInv'
<1>1. /\ UNCHANGED <<pending, queue, reaped, backend, mutex, spans, total>> /\ alive' \in BOOLEAN
      /\ UNCHANGED <<pc, kind, own, results>>
      /\ UNCHANGED <<answer, given, calls, users, overlap>>
    BY DEF Rests, torus, observed, thread, history
<1>2. /\ InFlight' = InFlight /\ Accepted' = Accepted
      /\ InSeq(queue)' = InSeq(queue) /\ InSeq(reaped)' = InSeq(reaped)
    BY <1>1, SameSets
<1>3. Held' = Held /\ NotYet' = NotYet
    BY <1>1 DEF Held, NotYet
<1>4. TypeOK'
    BY <1>1 DEF IInv, TypeOK
<1>5. Apart' /\ Phases'
    BY <1>1, <1>2 DEF IInv, Apart, Phases, PhaseOf
<1>6. Alone'
    BY <1>1, <1>2, <1>3 DEF IInv, Alone, InCallback, OwnOnly
<1>7. SpanCount' /\ OneUser'
    BY <1>1, <1>2, <1>3 DEF IInv, SpanCount, OneUser
<1> QED
    BY <1>4, <1>5, <1>6, <1>7 DEF IInv

-----------------------------------------------------------------------------
(***************************************************************************)
(* The theorems.                                                           *)
(***************************************************************************)

\* torus_create satisfies the invariant.
LEMMA IInvInit == Init => IInv
<1> SUFFICES ASSUME Init
             PROVE  IInv
    OBVIOUS
<1>1. /\ pending = {} /\ queue = << >> /\ reaped = << >> /\ spans = {} /\ total = 0 /\ mutex = Free
      /\ backend \in MakeBackend
      /\ pc = [t \in Threads |-> "idle"] /\ kind = [t \in Threads |-> "reap"]
      /\ own = [t \in Threads |-> {}] /\ results = [t \in Threads |-> << >>]
      /\ answer = [o \in Operations |-> "none"] /\ given = << >> /\ calls = 0
      /\ users = {} /\ overlap = FALSE /\ alive = TRUE
    BY DEF Init, TorusInit, Device!Init
<1>2. InSeq(<< >>) = {} /\ Once(<< >>) /\ Len(<< >>) = 0 /\ << >> \in Seq(Operations)
    BY EmptySeq DEF InSeq, Once
<1>3. InFlight = {} /\ Accepted = {} /\ Held = {} /\ NotYet = {}
    BY <1>1, <1>2 DEF InFlight, Accepted, Held, NotYet
<1>4. TypeOK
    <2>1. 0 \in 0 .. MaxCalls /\ 0 \in Nat
        BY CApiAssumption
    <2> QED
        BY <1>1, <1>2, <2>1 DEF TypeOK, Answers
<1>5. Apart
    BY <1>1, <1>2, <1>3 DEF Apart
<1>6. Phases
    BY <1>1 DEF Phases, PhaseOf
<1>7. Alone
    BY <1>1, <1>2, <1>3, CApiAssumption DEF Alone, InCallback
<1>8. SpanCount /\ OneUser
    BY <1>1, <1>3, FS_EmptySet DEF SpanCount, OneUser
<1> QED
    BY <1>4, <1>5, <1>6, <1>7, <1>8 DEF IInv

\* The invariant holds in every reachable state.
THEOREM Invariance == Spec => []IInv
<1>1. IInv /\ [Next]_vars => IInv'
    <2> SUFFICES ASSUME IInv, [Next]_vars
                 PROVE  IInv'
        OBVIOUS
    <2>1. TypeOK
        BY DEF IInv
    <2> QED
        BY <2>1, StepCases, SubmitsKeeps, EntersKeeps, GoesOnKeeps, SpansKeeps, ReapsKeeps,
           FinishesKeeps, CompletesKeeps, RestsKeeps
<1> QED
    BY <1>1, IInvInit, PTL DEF Spec

\* As long as no two operations were in flight together, a callback is given the
\* completion of its own operation, and no completion is dropped, whatever other
\* threads wait for and reap.
THEOREM OwnCompletionHolds == Spec => []OwnCompletion
<1>1. IInv => OwnCompletion
    <2> SUFFICES ASSUME IInv, ~overlap
                 PROVE  /\ \A o \in Operations : answer[o] \in Operations => answer[o] = o
                        /\ Dropped = {}
        BY DEF OwnCompletion
    <2>1. /\ \A o \in Operations : answer[o] \in Operations => answer[o] = o
          /\ InSeq(reaped) \subseteq InSeq(given) \cup Held
        BY DEF IInv, Alone
    <2>2. Dropped = InSeq(reaped) \ (InSeq(given) \cup UNION {InSeq(results[t]) : t \in Threads})
        BY SameInSeq DEF Dropped
    <2>3. Held \subseteq UNION {InSeq(results[t]) : t \in Threads}
        BY DEF Held
    <2> QED
        BY <2>1, <2>2, <2>3
<1> QED
    BY <1>1, Invariance, PTL

\* Types, and: whatever the threads do, a completion is handed over once.
THEOREM HandedOverOnceHolds == Spec => []HandedOverOnce
<1>1. IInv => HandedOverOnce
    BY DEF IInv, Apart, Once, HandedOverOnce
<1> QED
    BY <1>1, Invariance, PTL

\* Between the calls every operation submitted has its span or was recorded once,
\* and with one user exactly the reaped ones were.
THEOREM SpansConsumedHolds == Spec => []SpansConsumed
<1>1. IInv => SpansConsumed
    <2> SUFFICES ASSUME IInv, \A t \in Threads : pc[t] = "idle"
                 PROVE  /\ total + Cardinality(spans) = Cardinality(pending) + Len(queue) + Len(reaped)
                        /\ Cardinality(users) <= 1 => spans = pending \cup Device!InSeq(queue)
        BY DEF SpansConsumed
    <2> DEFINE Q == InSeq(queue)
               P == InSeq(reaped)
    <2>1. NotYet = {} /\ Held = {}
        <3>1. \A t \in Threads : InSeq(results[t]) = {}
            BY Basics DEF IInv, Phases, PhaseOf
        <3> QED
            BY <3>1 DEF NotYet, Held
    <2>2. /\ IsFiniteSet(Q) /\ Cardinality(Q) = Len(queue)
          /\ IsFiniteSet(P) /\ Cardinality(P) = Len(reaped)
        BY Basics, OnceLen DEF IInv, Apart
    <2>3. /\ pending \cap Q = {} /\ InFlight \cap P = {} /\ InFlight = pending \cup Q
          /\ Accepted = InFlight \cup P
        BY DEF IInv, Apart, InFlight, Accepted
    <2>4. IsFiniteSet(pending) /\ IsFiniteSet(spans) /\ IsFiniteSet(Accepted \ spans)
        <3>1. pending \subseteq Operations /\ spans \subseteq Operations /\ Accepted \ spans \subseteq Operations
            BY Basics DEF IInv, TypeOK
        <3> QED
            BY <3>1, CApiAssumption, FS_Subset
    <2>5. /\ spans \subseteq Accepted /\ total = Cardinality(Accepted \ spans)
        <3>1. Accepted \ (spans \cup NotYet) = Accepted \ spans
            BY <2>1
        <3> QED
            BY <3>1 DEF IInv, SpanCount
    <2> HIDE DEF Q, P
    <2>6. IsFiniteSet(InFlight) /\ Cardinality(InFlight) = Cardinality(pending) + Cardinality(Q)
        BY <2>2, <2>3, <2>4, DisjointCard
    <2>7. Cardinality(Accepted) = Cardinality(InFlight) + Cardinality(P)
        BY <2>2, <2>3, <2>6, DisjointCard
    <2>8. Cardinality(Accepted) = Cardinality(Accepted \ spans) + Cardinality(spans)
        <3>1. (Accepted \ spans) \cup spans = Accepted /\ (Accepted \ spans) \cap spans = {}
            BY <2>5
        <3> QED
            BY <2>4, <3>1, DisjointCard
    <2>9. total + Cardinality(spans) = Cardinality(pending) + Len(queue) + Len(reaped)
        BY <2>2, <2>5, <2>6, <2>7, <2>8
    <2>10. ASSUME Cardinality(users) <= 1
           PROVE  spans = pending \cup Device!InSeq(queue)
        <3>1. IsFiniteSet(users) /\ Cardinality(users) \in Nat
            BY FS_CardinalityType DEF IInv, OneUser
        <3>2. Cardinality(users) = 0 \/ Cardinality(users) = 1
            BY <2>10, <3>1
        <3>3. users = {} \/ \E u : users = {u}
            BY <3>1, <3>2, FS_EmptySet, FS_Singleton
        <3>4. \A a, b \in users : a = b
            BY <3>3
        <3>5. spans \cup NotYet = InFlight \cup Held
            BY <3>4 DEF IInv, OneUser
        <3> QED
            BY <2>1, <3>5, SameInSeq DEF InFlight
    <2> QED
        BY <2>9, <2>10
<1> QED
    BY <1>1, Invariance, PTL
=============================================================================

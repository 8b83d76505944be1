-------------------------- MODULE IocpBackendProofs --------------------------
(***************************************************************************)
(* Proofs about IocpBackend for any handles, any size of the array that    *)
(* the port is drained into, any number of buffers of a vectored flow and  *)
(* any number of flows below 2^32.                                         *)
(***************************************************************************)
EXTENDS IocpBackend, FiniteSetTheorems, SequenceTheorems, TLAPS

\* No value occurs twice.
Once(s) == \A i, j \in 1 .. Len(s) : s[i] = s[j] => i = j

\* Every operation that was ever started or completed.
Used == Pending \cup InSeq(cq) \cup InSeq(reaped)

\* No two of six sets meet.
Disjoint(K, T, E, U, Q, P) ==
    /\ K \cap (T \cup E \cup U \cup Q \cup P) = {}
    /\ T \cap (E \cup U \cup Q \cup P) = {}
    /\ E \cap (U \cup Q \cup P) = {}
    /\ U \cap (Q \cup P) = {}
    /\ Q \cap P = {}

\* An operation is in one place: with the kernel, at the port, fetched by the
\* reactor, ended without the port being told, completed or reaped.
Apart == Disjoint(InKernel, InSeq(port), InSeq(entries), unheard, InSeq(cq), InSeq(reaped))

\* And there once.
OnceEach ==
    /\ Once(port) /\ Once(entries) /\ Once(cq) /\ Once(reaped)
    /\ \A r, q \in started : r[1] = q[1] => r = q

\* The operations of flows to come, and of the buffers to come of the vectored
\* flow in hand, were never used.
Fresh ==
    /\ \A o \in Used : o[1] < next_ud /\ (o[1] = next_ud - 1 => o[2] > left)
    /\ left > 0 => pc = "submit" /\ next_ud > 1

\* While every flow is one operation the count of flows is one of operations.
Counted ==
    /\ submitted <= next_ud - 1
    /\ pc # "submit" => submitted = 0
    /\ split = {} =>
        /\ in_flight + submitted + Len(reaped) = next_ud - 1
        /\ left <= 1
        /\ \A o \in Used : o[2] = 1
        /\ \A u \in 1 .. next_ud - 1 : <<u, 1>> \in Used \/ (u = next_ud - 1 /\ left = 1)

\* The reactor keeps entries only within a turn, and drop posts the one wake-up.
WakeOnce ==
    /\ reactor # "batch" => entries = << >>
    /\ pc \in {"idle", "submit", "wait"} => Wake \notin InSeq(port) \cup InSeq(entries)

IInv == TypeOK /\ Apart /\ OnceEach /\ Fresh /\ Counted /\ ResourcesOwned /\ WakeOnce

-----------------------------------------------------------------------------
(***************************************************************************)
(* Sequences that hold each value once.                                    *)
(***************************************************************************)

\* What InSeq says of a sequence.
LEMMA InSeqOf ==
    ASSUME NEW S, NEW s \in Seq(S)
    PROVE  /\ Len(s) \in Nat
           /\ InSeq(s) \subseteq S
           /\ \A i \in 1 .. Len(s) : s[i] \in InSeq(s)
           /\ \A x \in InSeq(s) : \E i \in 1 .. Len(s) : s[i] = x
           /\ s = << >> <=> InSeq(s) = {}
<1>1. Len(s) \in Nat /\ \A i \in 1 .. Len(s) : s[i] \in S
    BY LenProperties
<1>2. /\ InSeq(s) \subseteq S
      /\ \A i \in 1 .. Len(s) : s[i] \in InSeq(s)
      /\ \A x \in InSeq(s) : \E i \in 1 .. Len(s) : s[i] = x
    BY <1>1 DEF InSeq
<1>3. s = << >> => InSeq(s) = {}
    BY DEF InSeq
<1>4. s # << >> => InSeq(s) # {}
    <2>1. s # << >> => Len(s) \in Nat \ {0}
        BY EmptySeq
    <2> QED
        BY <1>2, <2>1
<1> QED
    BY <1>1, <1>2, <1>3, <1>4

\* Append adds its element, and keeps Once when the element is new.
LEMMA AppendOnce ==
    ASSUME NEW S, NEW s \in Seq(S), NEW e \in S
    PROVE  /\ Append(s, e) \in Seq(S) /\ Len(Append(s, e)) = Len(s) + 1
           /\ InSeq(Append(s, e)) = InSeq(s) \cup {e}
           /\ Once(s) /\ e \notin InSeq(s) => Once(Append(s, e))
<1> DEFINE a == Append(s, e)
           n == Len(s)
<1>1. /\ a \in Seq(S) /\ Len(a) = n + 1 /\ n \in Nat
      /\ \A i \in 1 .. n : a[i] = s[i]
      /\ a[n + 1] = e
    BY AppendProperties, LenProperties
<1> HIDE DEF a, n
<1>2. \A i \in 1 .. n + 1 : i \in 1 .. n \/ i = n + 1
    BY <1>1
<1>3. InSeq(s) = {s[i] : i \in 1 .. n} /\ InSeq(a) = {a[i] : i \in 1 .. n + 1}
    BY <1>1 DEF InSeq, n
<1>4. InSeq(a) = InSeq(s) \cup {e}
    <2>1. ASSUME NEW x \in InSeq(a)
          PROVE  x \in InSeq(s) \cup {e}
        <3>1. PICK i \in 1 .. n + 1 : x = a[i]
            BY <2>1, <1>3
        <3> QED
            BY <3>1, <1>1, <1>2, <1>3
    <2>2. ASSUME NEW x \in InSeq(s)
          PROVE  x \in InSeq(a)
        <3>1. PICK i \in 1 .. n : x = s[i]
            BY <2>2, <1>3
        <3>2. i \in 1 .. n + 1 /\ x = a[i]
            BY <3>1, <1>1
        <3> QED
            BY <3>2, <1>3
    <2>3. n + 1 \in 1 .. n + 1
        BY <1>1
    <2>4. e \in InSeq(a)
        BY <2>3, <1>1, <1>3
    <2> QED
        BY <2>1, <2>2, <2>4
<1>5. ASSUME Once(s), e \notin InSeq(s)
      PROVE  Once(a)
    <2> SUFFICES ASSUME NEW i \in 1 .. n + 1, NEW j \in 1 .. n + 1, a[i] = a[j]
                 PROVE  i = j
        BY <1>1 DEF Once
    <2>1. \A k \in 1 .. n : a[k] # e
        BY <1>1, <1>3, <1>5
    <2>2. CASE i = n + 1 \/ j = n + 1
        BY <2>1, <2>2, <1>1, <1>2
    <2>3. CASE i \in 1 .. n /\ j \in 1 .. n
        BY <2>3, <1>1, <1>5 DEF Once, n
    <2> QED
        BY <2>2, <2>3, <1>2
<1> QED
    BY <1>1, <1>4, <1>5 DEF a, n

\* Concatenation adds up, and keeps Once when the parts have nothing in common.
LEMMA ConcatOnce ==
    ASSUME NEW S, NEW s \in Seq(S), NEW t \in Seq(S)
    PROVE  /\ s \o t \in Seq(S) /\ Len(s \o t) = Len(s) + Len(t)
           /\ InSeq(s \o t) = InSeq(s) \cup InSeq(t)
           /\ Once(s) /\ Once(t) /\ InSeq(s) \cap InSeq(t) = {} => Once(s \o t)
<1> DEFINE c == s \o t
           m == Len(s)
           n == Len(t)
<1>1. /\ c \in Seq(S) /\ Len(c) = m + n /\ m \in Nat /\ n \in Nat
      /\ \A i \in 1 .. m + n : c[i] = IF i <= m THEN s[i] ELSE t[i - m]
    BY ConcatProperties, LenProperties
<1>2. InSeq(s) = {s[i] : i \in 1 .. m} /\ InSeq(t) = {t[i] : i \in 1 .. n}
    BY DEF InSeq
<1>3. /\ Once(s) => \A i, j \in 1 .. m : s[i] = s[j] => i = j
      /\ Once(t) => \A i, j \in 1 .. n : t[i] = t[j] => i = j
    BY DEF Once
<1> HIDE DEF c, m, n
<1>4. \A i \in 1 .. m : i \in 1 .. m + n /\ c[i] = s[i]
    BY <1>1
<1>5. \A i \in 1 .. n : i + m \in 1 .. m + n /\ c[i + m] = t[i]
    <2> SUFFICES ASSUME NEW i \in 1 .. n
                 PROVE  i + m \in 1 .. m + n /\ c[i + m] = t[i]
        OBVIOUS
    <2>1. i + m \in 1 .. m + n /\ ~(i + m <= m) /\ (i + m) - m = i
        BY <1>1
    <2> QED
        BY <1>1, <2>1
<1>6. \A k \in 1 .. m + n : k \in 1 .. m \/ (k - m \in 1 .. n /\ (k - m) + m = k)
    BY <1>1
<1>7. InSeq(c) = {c[i] : i \in 1 .. m + n}
    BY <1>1 DEF InSeq
<1>8. InSeq(c) = InSeq(s) \cup InSeq(t)
    <2>1. ASSUME NEW x \in InSeq(c)
          PROVE  x \in InSeq(s) \cup InSeq(t)
        <3>1. PICK k \in 1 .. m + n : x = c[k]
            BY <1>7, <2>1
        <3>2. CASE k \in 1 .. m
            BY <3>1, <3>2, <1>2, <1>4
        <3>3. CASE k - m \in 1 .. n /\ (k - m) + m = k
            BY <3>1, <3>3, <1>2, <1>5
        <3> QED
            BY <3>2, <3>3, <1>6
    <2>2. ASSUME NEW x \in InSeq(s)
          PROVE  x \in InSeq(c)
        BY <2>2, <1>2, <1>4, <1>7
    <2>3. ASSUME NEW x \in InSeq(t)
          PROVE  x \in InSeq(c)
        BY <2>3, <1>2, <1>5, <1>7
    <2> QED
        BY <2>1, <2>2, <2>3
<1>9. ASSUME Once(s), Once(t), InSeq(s) \cap InSeq(t) = {}
      PROVE  Once(c)
    <2> SUFFICES ASSUME NEW i \in 1 .. m + n, NEW j \in 1 .. m + n, c[i] = c[j]
                 PROVE  i = j
        BY <1>1 DEF Once
    <2>1. CASE i \in 1 .. m /\ j \in 1 .. m
        BY <2>1, <1>3, <1>4, <1>9
    <2>2. CASE /\ i - m \in 1 .. n /\ (i - m) + m = i
               /\ j - m \in 1 .. n /\ (j - m) + m = j
        <3>1. t[i - m] = t[j - m]
            BY <2>2, <1>5
        <3>2. i - m = j - m
            BY <3>1, <2>2, <1>3, <1>9
        <3> QED
            BY <3>2, <2>2
    <2>3. CASE i \in 1 .. m /\ j - m \in 1 .. n /\ (j - m) + m = j
        <3>1. c[i] \in InSeq(s) /\ c[j] \in InSeq(t)
            BY <2>3, <1>2, <1>4, <1>5
        <3> QED
            BY <3>1, <1>9
    <2>4. CASE j \in 1 .. m /\ i - m \in 1 .. n /\ (i - m) + m = i
        <3>1. c[j] \in InSeq(s) /\ c[i] \in InSeq(t)
            BY <2>4, <1>2, <1>4, <1>5
        <3> QED
            BY <3>1, <1>9
    <2> QED
        BY <2>1, <2>2, <2>3, <2>4, <1>6
<1> QED
    BY <1>1, <1>8, <1>9 DEF c, m, n

\* A sequence that holds each value once is as long as it has values.
LEMMA OnceLen ==
    ASSUME NEW S, NEW s \in Seq(S), Once(s)
    PROVE  IsFiniteSet(InSeq(s)) /\ Cardinality(InSeq(s)) = Len(s)
<1>1. Len(s) \in Nat /\ s \in [1 .. Len(s) -> InSeq(s)]
    BY LenProperties, InSeqOf DEF InSeq
<1>2. s \in Surjection(1 .. Len(s), InSeq(s)) /\ s \in Injection(1 .. Len(s), InSeq(s))
    BY <1>1, InSeqOf DEF Surjection, Injection, IsInjective, Once
<1>3. IsFiniteSet(1 .. Len(s)) /\ Cardinality(1 .. Len(s)) = Len(s)
    BY <1>1, FS_Interval
<1> QED
    BY <1>2, <1>3, FS_Surjection

\* A slice holds the values of its positions, each once.
LEMMA SliceOnce ==
    ASSUME NEW S, NEW s \in Seq(S), Once(s), NEW m \in Nat, NEW n \in Nat,
           1 <= m, n <= Len(s)
    PROVE  /\ SubSeq(s, m, n) \in Seq(S)
           /\ InSeq(SubSeq(s, m, n)) = {s[i] : i \in m .. n}
           /\ Once(SubSeq(s, m, n))
<1> DEFINE d == SubSeq(s, m, n)
           k == n - m + 1
<1>1. Len(s) \in Nat /\ \A i \in 1 .. Len(s) : s[i] \in S
    BY LenProperties
<1>2. \A i \in m .. n : i \in 1 .. Len(s) /\ s[i] \in S
    BY <1>1
<1>3. m \in Int /\ n \in Int
    OBVIOUS
<1>4. /\ d \in Seq(S)
      /\ Len(d) = IF m <= n THEN k ELSE 0
      /\ \A i \in 1 .. k : d[i] = s[m + i - 1]
    BY <1>2, <1>3, SubSeqProperties
<1>5. 1 .. Len(d) = 1 .. k
    BY <1>4
<1>6. InSeq(d) = {d[i] : i \in 1 .. k}
    BY <1>5 DEF InSeq
<1> HIDE DEF d
<1>7. \A i \in 1 .. k : m + i - 1 \in m .. n
    OBVIOUS
<1>8. \A j \in m .. n : j - m + 1 \in 1 .. k /\ d[j - m + 1] = s[j]
    <2> SUFFICES ASSUME NEW j \in m .. n
                 PROVE  j - m + 1 \in 1 .. k /\ d[j - m + 1] = s[j]
        OBVIOUS
    <2>1. j - m + 1 \in 1 .. k /\ m + (j - m + 1) - 1 = j
        OBVIOUS
    <2> QED
        BY <1>4, <2>1
<1>9. InSeq(d) = {s[i] : i \in m .. n}
    <2>1. ASSUME NEW x \in InSeq(d)
          PROVE  x \in {s[i] : i \in m .. n}
        BY <2>1, <1>4, <1>6, <1>7
    <2>2. ASSUME NEW j \in m .. n
          PROVE  s[j] \in InSeq(d)
        BY <2>2, <1>6, <1>8
    <2> QED
        BY <2>1, <2>2
<1>10. Once(d)
    <2> SUFFICES ASSUME NEW i \in 1 .. k, NEW j \in 1 .. k, d[i] = d[j]
                 PROVE  i = j
        BY <1>5 DEF Once
    <2>1. s[m + i - 1] = s[m + j - 1]
        BY <1>4
    <2>2. m + i - 1 \in 1 .. Len(s) /\ m + j - 1 \in 1 .. Len(s)
        BY <1>2, <1>7
    <2>3. m + i - 1 = m + j - 1
        BY <2>1, <2>2 DEF Once
    <2> QED
        BY <2>3
<1> QED
    BY <1>4, <1>9, <1>10 DEF d

\* RemoveFirst takes a value out of a sequence that holds it at most once.
LEMMA RemoveFirstOnce ==
    ASSUME NEW S, NEW s \in Seq(S), Once(s), NEW e
    PROVE  /\ RemoveFirst(s, e) \in Seq(S)
           /\ InSeq(RemoveFirst(s, e)) = InSeq(s) \ {e}
           /\ Once(RemoveFirst(s, e))
<1>1. CASE e \notin InSeq(s)
    <2>1. ~ \E i \in 1 .. Len(s) : s[i] = e
        BY <1>1 DEF InSeq
    <2> QED
        BY <1>1, <2>1 DEF RemoveFirst
<1>2. CASE e \in InSeq(s)
    <2>1. PICK k \in 1 .. Len(s) : s[k] = e
        BY <1>2 DEF InSeq
    <2>2. Len(s) \in Nat /\ k \in Nat /\ k - 1 \in Nat /\ k + 1 \in Nat /\ 1 <= k /\ k <= Len(s)
        BY LenProperties
    <2>3. {i \in 1 .. Len(s) : s[i] = e} = {k}
        BY <2>1 DEF Once
    <2>4. Min({k}) = k
        BY <2>2 DEF Min
    <2>5. SelectInSeq(s, LAMBDA v : v = e) = k
        BY <2>3, <2>4 DEF SelectInSeq
    <2> DEFINE l == SubSeq(s, 1, k - 1)
               r == SubSeq(s, k + 1, Len(s))
    <2>6. RemoveFirst(s, e) = l \o r
        BY <2>1, <2>5 DEF RemoveFirst, RemoveAt
    <2>7. l \in Seq(S) /\ InSeq(l) = {s[i] : i \in 1 .. k - 1} /\ Once(l)
        <3>1. 1 \in Nat /\ k - 1 \in Nat /\ 1 <= 1 /\ k - 1 <= Len(s)
            BY <2>2
        <3> QED
            BY <3>1, SliceOnce
    <2>8. r \in Seq(S) /\ InSeq(r) = {s[i] : i \in k + 1 .. Len(s)} /\ Once(r)
        <3>1. k + 1 \in Nat /\ Len(s) \in Nat /\ 1 <= k + 1 /\ Len(s) <= Len(s)
            BY <2>2
        <3> QED
            BY <3>1, SliceOnce
    <2> HIDE DEF l, r
    <2>9. InSeq(l) \cap InSeq(r) = {}
        BY <2>2, <2>7, <2>8 DEF Once
    <2>10. InSeq(l) \cup InSeq(r) = InSeq(s) \ {e}
        <3>1. \A i \in 1 .. Len(s) : i = k \/ i \in 1 .. k - 1 \/ i \in k + 1 .. Len(s)
            BY <2>2
        <3>2. \A i \in 1 .. k - 1 : i \in 1 .. Len(s) /\ i # k
            BY <2>2
        <3>3. \A i \in k + 1 .. Len(s) : i \in 1 .. Len(s) /\ i # k
            BY <2>2
        <3>4. InSeq(s) = {s[i] : i \in 1 .. Len(s)}
            BY DEF InSeq
        <3>5. \A i \in 1 .. Len(s) : s[i] = e => i = k
            BY <2>1 DEF Once
        <3>6. InSeq(l) \cup InSeq(r) \subseteq InSeq(s) \ {e}
            BY <2>7, <2>8, <3>2, <3>3, <3>4, <3>5
        <3>7. InSeq(s) \ {e} \subseteq InSeq(l) \cup InSeq(r)
            BY <2>1, <2>7, <2>8, <3>1, <3>4
        <3> QED
            BY <3>6, <3>7
    <2>11. l \o r \in Seq(S) /\ InSeq(l \o r) = InSeq(l) \cup InSeq(r) /\ Once(l \o r)
        <3>1. l \in Seq(S) /\ r \in Seq(S) /\ Once(l) /\ Once(r)
            BY <2>7, <2>8
        <3> QED
            BY <3>1, <2>9, ConcatOnce
    <2> QED
        BY <2>6, <2>10, <2>11
<1> QED
    BY <1>1, <1>2

\* Cutting a sequence in two loses nothing and repeats nothing.
LEMMA CutOnce ==
    ASSUME NEW S, NEW s \in Seq(S), Once(s), NEW n \in Nat, n <= Len(s)
    PROVE  LET l == SubSeq(s, 1, n)
               r == SubSeq(s, n + 1, Len(s))
           IN  /\ l \in Seq(S) /\ r \in Seq(S) /\ Once(l) /\ Once(r)
               /\ InSeq(l) \cup InSeq(r) = InSeq(s) /\ InSeq(l) \cap InSeq(r) = {}
<1> DEFINE l == SubSeq(s, 1, n)
           r == SubSeq(s, n + 1, Len(s))
<1>1. Len(s) \in Nat /\ n + 1 \in Nat
    BY LenProperties
<1>2. l \in Seq(S) /\ InSeq(l) = {s[i] : i \in 1 .. n} /\ Once(l)
    <2>1. 1 \in Nat /\ 1 <= 1
        OBVIOUS
    <2> QED
        BY <2>1, SliceOnce
<1>3. r \in Seq(S) /\ InSeq(r) = {s[i] : i \in n + 1 .. Len(s)} /\ Once(r)
    <2>1. 1 <= n + 1 /\ Len(s) <= Len(s)
        BY <1>1
    <2> QED
        BY <1>1, <2>1, SliceOnce
<1> HIDE DEF l, r
<1>4. \A i \in 1 .. Len(s) : i \in 1 .. n \/ i \in n + 1 .. Len(s)
    BY <1>1
<1>5. /\ \A i \in 1 .. n : i \in 1 .. Len(s)
      /\ \A i \in n + 1 .. Len(s) : i \in 1 .. Len(s)
      /\ \A i \in 1 .. n, j \in n + 1 .. Len(s) : i # j
    BY <1>1
<1>6. InSeq(s) = {s[i] : i \in 1 .. Len(s)}
    BY DEF InSeq
<1>7. InSeq(l) \cup InSeq(r) = InSeq(s)
    BY <1>2, <1>3, <1>4, <1>5, <1>6
<1>8. InSeq(l) \cap InSeq(r) = {}
    BY <1>2, <1>3, <1>5 DEF Once
<1> QED
    BY <1>2, <1>3, <1>7, <1>8 DEF l, r

-----------------------------------------------------------------------------
(***************************************************************************)
(* What a step does to the operations.                                     *)
(***************************************************************************)

\* No operation is the wake-up, and the sequences hold operations.
LEMMA Basics ==
    ASSUME IInv
    PROVE  /\ next_ud \in Nat \ {0} /\ next_ud <= MaxFlows + 1 /\ left \in Nat /\ submitted \in Nat
           /\ Wake \notin Operations
           /\ port \in Seq(Operations \cup {Wake}) /\ entries \in Seq(Operations \cup {Wake})
           /\ cq \in Seq(Operations) /\ reaped \in Seq(Operations)
           /\ InSeq(port) \subseteq Operations \cup {Wake}
           /\ InSeq(entries) \subseteq Operations \cup {Wake}
           /\ InSeq(cq) \subseteq Operations /\ InSeq(reaped) \subseteq Operations
           /\ InKernel \subseteq Operations /\ unheard \subseteq Operations
           /\ Pending \subseteq Operations /\ Used \subseteq Operations
<1>1. next_ud \in Nat \ {0} /\ next_ud <= MaxFlows + 1 /\ left \in Nat /\ submitted \in Nat
    BY IocpAssumption DEF IInv, TypeOK
<1>2. Wake \notin Operations
    BY DEF Wake, Operations
<1>3. /\ port \in Seq(Operations \cup {Wake}) /\ entries \in Seq(Operations \cup {Wake})
      /\ cq \in Seq(Operations) /\ reaped \in Seq(Operations) /\ unheard \subseteq Operations
    BY DEF IInv, TypeOK
<1>4. /\ InSeq(port) \subseteq Operations \cup {Wake}
      /\ InSeq(entries) \subseteq Operations \cup {Wake}
      /\ InSeq(cq) \subseteq Operations /\ InSeq(reaped) \subseteq Operations
    BY <1>3, InSeqOf
<1>5. InKernel \subseteq Operations
    BY DEF IInv, TypeOK, InKernel
<1>6. Pending \subseteq Operations
    BY <1>3, <1>4, <1>5 DEF Pending, InPort
<1> QED
    BY <1>1, <1>2, <1>3, <1>4, <1>5, <1>6 DEF Used

\* The parts of the invariant that say where operations are and what they own.
Placed == Apart /\ OnceEach /\ ResourcesOwned

\* What the step leaves alone when it moves no operation.
Still == UNCHANGED <<started, port, unheard, entries, cq, reaped, ovl, sockets, conns>>

\* Steps that move no operation.
LEMMA PlacedStill ==
    ASSUME IInv, Still
    PROVE  Placed' /\ Pending' = Pending /\ Used' = Used
<1>1. /\ InKernel' = InKernel /\ InPort' = InPort /\ unheard' = unheard
      /\ InSeq(cq)' = InSeq(cq) /\ InSeq(reaped)' = InSeq(reaped)
      /\ InSeq(port)' = InSeq(port) /\ InSeq(entries)' = InSeq(entries)
    BY DEF Still, InKernel, InPort
<1>2. Pending' = Pending /\ Used' = Used
    BY <1>1 DEF Pending, Used
<1> QED
    BY <1>1, <1>2 DEF IInv, Placed, Still, Apart, OnceEach, ResourcesOwned, OverlappedOwned,
       AcceptSocketsOwned

\* The kernel accepts an operation that was never used.
LEMMA PlacedStarts ==
    ASSUME IInv, NEW op \in Operations, op \notin Used, NEW h \in Handles, Starts(op, h),
           sockets' \in {sockets, sockets \cup {op}},
           UNCHANGED <<port, unheard, entries, reaped, conns>>
    PROVE  Placed' /\ Pending' = Pending \cup {op} /\ Used' = Used \cup {op}
<1>1. started' = started \cup {<<op, h>>} /\ ovl' = ovl \cup {op} /\ cq' = cq
    BY DEF Starts
<1>2. InKernel' = InKernel \cup {op}
    <2>1. <<op, h>>[1] = op
        OBVIOUS
    <2>2. InKernel' = {r[1] : r \in started \cup {<<op, h>>}}
        BY <1>1 DEF InKernel
    <2> QED
        BY <2>1, <2>2 DEF InKernel
<1>3. /\ InSeq(port)' = InSeq(port) /\ InSeq(entries)' = InSeq(entries) /\ unheard' = unheard
      /\ InSeq(cq)' = InSeq(cq) /\ InSeq(reaped)' = InSeq(reaped) /\ InPort' = InPort
    BY <1>1 DEF InPort
<1>4. Pending' = Pending \cup {op} /\ Used' = Used \cup {op}
    BY <1>2, <1>3 DEF Pending, Used
<1>5. /\ op \notin InKernel /\ op \notin unheard /\ op \notin InSeq(cq) /\ op \notin InSeq(reaped)
      /\ op \notin InSeq(port) /\ op \notin InSeq(entries)
    BY Basics DEF Used, Pending, InPort
<1>6. Apart'
    BY <1>2, <1>3, <1>5 DEF IInv, Apart, Disjoint
<1>7. OnceEach'
    <2>1. \A r \in started : r[1] # op
        BY <1>5 DEF InKernel
    <2>2. <<op, h>>[1] = op
        OBVIOUS
    <2>3. \A r, q \in started' : r[1] = q[1] => r = q
        BY <1>1, <2>1, <2>2 DEF IInv, OnceEach
    <2> QED
        BY <1>1, <2>3 DEF IInv, OnceEach
<1>8. ResourcesOwned'
    BY <1>1, <1>3, <1>4 DEF IInv, ResourcesOwned, OverlappedOwned, AcceptSocketsOwned
<1> QED
    BY <1>4, <1>6, <1>7, <1>8 DEF Placed

\* submit completes an operation that was never used.
LEMMA PlacedPosts ==
    ASSUME IInv, NEW op \in Operations, op \notin Used, cq' = Append(cq, op),
           UNCHANGED <<started, port, unheard, entries, reaped, ovl, sockets, conns>>
    PROVE  Placed' /\ Pending' = Pending /\ Used' = Used \cup {op}
<1>1. op \notin InSeq(cq)
    BY DEF Used
<1>2. InSeq(cq') = InSeq(cq) \cup {op} /\ Once(cq')
    BY <1>1, Basics, AppendOnce DEF IInv, OnceEach
<1>3. /\ InKernel' = InKernel /\ InPort' = InPort
      /\ InSeq(port)' = InSeq(port) /\ InSeq(entries)' = InSeq(entries)
      /\ InSeq(reaped)' = InSeq(reaped)
    BY DEF InKernel, InPort
<1>4. Pending' = Pending /\ Used' = Used \cup {op}
    BY <1>2, <1>3 DEF Pending, Used
<1>5. /\ op \notin InKernel /\ op \notin unheard /\ op \notin InSeq(cq) /\ op \notin InSeq(reaped)
      /\ op \notin InSeq(port) /\ op \notin InSeq(entries)
    BY Basics DEF Used, Pending, InPort
<1>6. Apart'
    BY <1>2, <1>3, <1>5 DEF IInv, Apart, Disjoint
<1>7. OnceEach'
    BY <1>2 DEF IInv, OnceEach
<1>8. ResourcesOwned'
    BY <1>2, <1>3, <1>4 DEF IInv, ResourcesOwned, OverlappedOwned, AcceptSocketsOwned
<1> QED
    BY <1>4, <1>6, <1>7, <1>8 DEF Placed

\* An operation ends, with or without the port being told.
LEMMA PlacedKernel ==
    ASSUME IInv, NEW r \in started, KernelComplete(r)
    PROVE  Placed' /\ Pending' = Pending /\ Used' = Used
<1> DEFINE op == r[1]
<1>1. /\ started' = started \ {r}
      /\ UNCHANGED <<entries, cq, reaped, ovl, sockets, conns>>
      /\ \/ port' = Append(port, op) /\ unheard' = unheard
         \/ unheard' = unheard \cup {op} /\ port' = port
    BY DEF KernelComplete, thread, memory, done
<1>2. op \in InKernel /\ op \in Operations
    BY Basics DEF InKernel
<1>3. \A q \in started : q[1] = op => q = r
    BY DEF IInv, OnceEach
<1>4. InKernel' = InKernel \ {op}
    <2>1. InKernel' = {q[1] : q \in started \ {r}}
        BY <1>1 DEF InKernel
    <2> QED
        BY <1>3, <2>1 DEF InKernel
<1>5. \A q, p \in started' : q[1] = p[1] => q = p
    BY <1>1 DEF IInv, OnceEach
<1> HIDE DEF op
<1>6. /\ op \notin InSeq(port) /\ op \notin InSeq(entries) /\ op \notin unheard
      /\ op \notin InSeq(cq) /\ op \notin InSeq(reaped) /\ op # Wake
    BY <1>2, Basics DEF IInv, Apart, Disjoint
<1>7. /\ InSeq(entries)' = InSeq(entries) /\ InSeq(cq)' = InSeq(cq)
      /\ InSeq(reaped)' = InSeq(reaped)
    BY <1>1
<1>8. CASE port' = Append(port, op) /\ unheard' = unheard
    <2>1. InSeq(port') = InSeq(port) \cup {op} /\ Once(port')
        BY <1>2, <1>6, <1>8, Basics, AppendOnce DEF IInv, OnceEach
    <2>2. Pending' = Pending
        BY <1>2, <1>4, <1>6, <1>7, <1>8, <2>1 DEF Pending, InPort
    <2>3. Apart'
        BY <1>2, <1>4, <1>6, <1>7, <1>8, <2>1 DEF IInv, Apart, Disjoint
    <2>4. OnceEach'
        BY <1>1, <1>5, <2>1 DEF IInv, OnceEach
    <2> QED
        BY <1>1, <1>7, <2>2, <2>3, <2>4
        DEF IInv, Placed, Used, ResourcesOwned, OverlappedOwned, AcceptSocketsOwned
<1>9. CASE unheard' = unheard \cup {op} /\ port' = port
    <2>1. InSeq(port') = InSeq(port)
        BY <1>9
    <2>2. Pending' = Pending
        BY <1>2, <1>4, <1>6, <1>7, <1>9, <2>1 DEF Pending, InPort
    <2>3. Apart'
        BY <1>2, <1>4, <1>6, <1>7, <1>9, <2>1 DEF IInv, Apart, Disjoint
    <2>4. OnceEach'
        BY <1>1, <1>5, <1>9 DEF IInv, OnceEach
    <2> QED
        BY <1>1, <1>7, <2>2, <2>3, <2>4
        DEF IInv, Placed, Used, ResourcesOwned, OverlappedOwned, AcceptSocketsOwned
<1> QED
    BY <1>1, <1>8, <1>9

\* The reactor takes the front of the port.
LEMMA PlacedGet ==
    ASSUME IInv, ReactorGet
    PROVE  Placed' /\ Pending' = Pending /\ Used' = Used
<1> DEFINE n == IF Len(port) < MaxCompletions THEN Len(port) ELSE MaxCompletions
<1>1. /\ entries' = SubSeq(port, 1, n) /\ port' = SubSeq(port, n + 1, Len(port))
      /\ reactor = "port"
      /\ UNCHANGED <<started, unheard, cq, reaped, ovl, sockets, conns>>
    BY DEF ReactorGet, memory, done
<1>2. n \in Nat /\ n <= Len(port)
    BY Basics, LenProperties, IocpAssumption
<1> HIDE DEF n
<1>3. /\ Once(entries') /\ Once(port')
      /\ InSeq(entries') \cup InSeq(port') = InSeq(port) /\ InSeq(entries') \cap InSeq(port') = {}
    BY <1>1, <1>2, Basics, CutOnce DEF IInv, OnceEach
<1>4. InSeq(entries) = {}
    BY <1>1 DEF IInv, WakeOnce, InSeq
<1>5. /\ InKernel' = InKernel /\ InSeq(cq)' = InSeq(cq) /\ InSeq(reaped)' = InSeq(reaped)
    BY <1>1 DEF InKernel
<1>6. InPort' = InPort
    BY <1>3, <1>4 DEF InPort
<1>7. Pending' = Pending
    BY <1>1, <1>5, <1>6 DEF Pending
<1>8. Apart'
    BY <1>1, <1>3, <1>4, <1>5 DEF IInv, Apart, Disjoint
<1>9. OnceEach'
    BY <1>1, <1>3 DEF IInv, OnceEach
<1> QED
    BY <1>1, <1>5, <1>7, <1>8, <1>9
    DEF IInv, Placed, Used, ResourcesOwned, OverlappedOwned, AcceptSocketsOwned

\* The reactor completes the operations of its batch, and frees what they own.
LEMMA PlacedBatch ==
    ASSUME IInv, NEW failed \in SUBSET sockets, ReactorBatch(failed)
    PROVE  /\ Placed' /\ Used' = Used
           /\ LET batch == RemoveFirst(entries, Wake) IN
                /\ batch \in Seq(Operations) /\ Once(batch) /\ InSeq(batch) \subseteq Pending
                /\ Pending' = Pending \ InSeq(batch) /\ cq' = cq \o batch
<1> DEFINE batch == RemoveFirst(entries, Wake)
           B == InSeq(batch)
<1>1. /\ failed \subseteq B \cap sockets /\ sockets' = sockets \ failed
      /\ conns' = conns \cup ((B \cap sockets) \ failed)
      /\ ovl' = ovl \ B /\ cq' = cq \o batch /\ entries' = << >>
      /\ UNCHANGED <<started, port, unheard, reaped>>
    BY DEF ReactorBatch, FinishAccept, kernel
<1>2. batch \in Seq(Operations \cup {Wake}) /\ B = InSeq(entries) \ {Wake} /\ Once(batch)
    BY Basics, RemoveFirstOnce DEF IInv, OnceEach
<1> HIDE DEF batch
<1>3. batch \in Seq(Operations)
    <2>1. \A i \in 1 .. Len(batch) : batch[i] \in Operations
        BY <1>2, Basics, InSeqOf
    <2>2. Len(batch) \in Nat /\ DOMAIN batch = 1 .. Len(batch) /\ batch = [i \in 1 .. Len(batch) |-> batch[i]]
        BY <1>2, LenProperties
    <2> QED
        BY <2>1, <2>2
<1>4. InSeq(cq') = InSeq(cq) \cup B /\ Once(cq')
    <2>1. InSeq(cq) \cap B = {}
        BY <1>2 DEF IInv, Apart, Disjoint
    <2>2. cq \in Seq(Operations) /\ Once(cq) /\ Once(batch)
        BY <1>2, Basics DEF IInv, OnceEach
    <2> QED
        BY <1>1, <1>3, <2>1, <2>2, ConcatOnce
<1>5. InSeq(entries') = {} /\ Once(entries')
    BY <1>1 DEF InSeq, Once
<1> HIDE DEF B
<1>6. /\ InKernel' = InKernel /\ InSeq(port)' = InSeq(port) /\ InSeq(reaped)' = InSeq(reaped)
    BY <1>1 DEF InKernel
<1>7. /\ B \cap InKernel = {} /\ B \cap InSeq(port) = {} /\ B \cap unheard = {}
      /\ B \cap InSeq(cq) = {} /\ B \cap InSeq(reaped) = {}
    BY <1>2 DEF IInv, Apart, Disjoint
<1>8. B \subseteq Pending /\ Pending' = Pending \ B
    BY <1>1, <1>2, <1>5, <1>6, <1>7 DEF Pending, InPort
<1>9. Used' = Used
    BY <1>4, <1>6, <1>8 DEF Used
<1>10. Apart'
    BY <1>1, <1>4, <1>5, <1>6, <1>7 DEF IInv, Apart, Disjoint
<1>11. OnceEach'
    BY <1>1, <1>4, <1>5 DEF IInv, OnceEach
<1>12. OverlappedOwned'
    BY <1>1, <1>8 DEF IInv, ResourcesOwned, OverlappedOwned
<1>13. AcceptSocketsOwned'
    <2>1. /\ conns \subseteq sockets \cap (InSeq(cq) \cup InSeq(reaped))
          /\ sockets \ conns \subseteq Pending
        BY DEF IInv, ResourcesOwned, AcceptSocketsOwned
    <2>2. B \cap conns = {}
        BY <1>7, <2>1
    <2>3. conns' \subseteq sockets' \cap (InSeq(cq') \cup InSeq(reaped'))
        BY <1>1, <1>4, <2>1, <2>2
    <2>4. sockets' \ conns' \subseteq Pending'
        BY <1>1, <1>8, <2>1
    <2> QED
        BY <2>3, <2>4 DEF AcceptSocketsOwned
<1> QED
    BY <1>1, <1>2, <1>3, <1>8, <1>9, <1>10, <1>11, <1>12, <1>13
    DEF Placed, ResourcesOwned, B, batch

\* reap takes the whole queue.
LEMMA PlacedReap ==
    ASSUME IInv, Reap
    PROVE  Placed' /\ Pending' = Pending /\ Used' = Used
<1>1. /\ reaped' = reaped \o cq /\ cq' = << >>
      /\ UNCHANGED <<started, port, unheard, entries, ovl, sockets, conns>>
    BY DEF Reap, kernel, thread, memory
<1>2. InSeq(reaped') = InSeq(reaped) \cup InSeq(cq) /\ Once(reaped')
    <2>1. InSeq(reaped) \cap InSeq(cq) = {} /\ Once(reaped) /\ Once(cq)
        BY DEF IInv, Apart, Disjoint, OnceEach
    <2> QED
        BY <1>1, <2>1, Basics, ConcatOnce
<1>3. InSeq(cq') = {} /\ Once(cq')
    BY <1>1 DEF InSeq, Once
<1>4. /\ InKernel' = InKernel /\ InPort' = InPort
      /\ InSeq(port)' = InSeq(port) /\ InSeq(entries)' = InSeq(entries)
    BY <1>1 DEF InKernel, InPort
<1>5. Pending' = Pending /\ Used' = Used
    BY <1>1, <1>2, <1>3, <1>4 DEF Pending, Used
<1>6. Apart'
    BY <1>1, <1>2, <1>3, <1>4 DEF IInv, Apart, Disjoint
<1>7. OnceEach'
    BY <1>1, <1>2, <1>3 DEF IInv, OnceEach
<1>8. ResourcesOwned'
    BY <1>1, <1>2, <1>3, <1>5 DEF IInv, ResourcesOwned, OverlappedOwned, AcceptSocketsOwned
<1> QED
    BY <1>5, <1>6, <1>7, <1>8 DEF Placed

\* drop posts the wake-up.
LEMMA PlacedDropBegin ==
    ASSUME IInv, DropBegin
    PROVE  Placed' /\ Pending' = Pending /\ Used' = Used
<1>1. /\ pc = "idle" /\ port' = Append(port, Wake)
      /\ UNCHANGED <<started, unheard, entries, cq, reaped, ovl, sockets, conns>>
    BY DEF DropBegin, memory, done
<1>2. Wake \notin InSeq(port) /\ Wake \notin InSeq(entries)
    BY <1>1 DEF IInv, WakeOnce
<1>3. InSeq(port') = InSeq(port) \cup {Wake} /\ Once(port')
    <2>1. Wake \in Operations \cup {Wake} /\ Once(port)
        BY DEF IInv, OnceEach
    <2> QED
        BY <1>1, <1>2, <2>1, Basics, AppendOnce
<1>4. /\ InKernel' = InKernel /\ InSeq(entries)' = InSeq(entries)
      /\ InSeq(cq)' = InSeq(cq) /\ InSeq(reaped)' = InSeq(reaped)
    BY <1>1 DEF InKernel
<1>5. InPort' = InPort
    BY <1>3, <1>4 DEF InPort
<1>6. Pending' = Pending /\ Used' = Used
    BY <1>1, <1>4, <1>5 DEF Pending, Used
<1>7. Apart'
    BY <1>1, <1>2, <1>3, <1>4, Basics DEF IInv, Apart, Disjoint
<1>8. OnceEach'
    BY <1>1, <1>3 DEF IInv, OnceEach
<1>9. ResourcesOwned'
    BY <1>1, <1>4, <1>6 DEF IInv, ResourcesOwned, OverlappedOwned, AcceptSocketsOwned
<1> QED
    BY <1>6, <1>7, <1>8, <1>9 DEF Placed

\* Closing the port: what is left there nobody will hear of.
LEMMA PlacedDropJoin ==
    ASSUME IInv, DropJoin
    PROVE  Placed' /\ Pending' = Pending /\ Used' = Used
<1>1. /\ port' = << >> /\ unheard' = unheard \cup (InSeq(port) \ {Wake})
      /\ UNCHANGED <<started, entries, cq, reaped, ovl, sockets, conns>>
    BY DEF DropJoin, thread, memory, done
<1>2. InSeq(port') = {} /\ Once(port')
    BY <1>1 DEF InSeq, Once
<1>3. /\ InKernel' = InKernel /\ InSeq(entries)' = InSeq(entries)
      /\ InSeq(cq)' = InSeq(cq) /\ InSeq(reaped)' = InSeq(reaped)
    BY <1>1 DEF InKernel
<1>4. Pending' = Pending
    BY <1>1, <1>2, <1>3 DEF Pending, InPort
<1>5. Used' = Used
    BY <1>3, <1>4 DEF Used
<1>6. Apart'
    BY <1>1, <1>2, <1>3 DEF IInv, Apart, Disjoint
<1>7. OnceEach'
    BY <1>1, <1>2 DEF IInv, OnceEach
<1>8. ResourcesOwned'
    BY <1>1, <1>3, <1>4 DEF IInv, ResourcesOwned, OverlappedOwned, AcceptSocketsOwned
<1> QED
    BY <1>4, <1>5, <1>6, <1>7, <1>8 DEF Placed

-----------------------------------------------------------------------------
(***************************************************************************)
(* The turns of submit.                                                    *)
(***************************************************************************)

\* A turn whose one operation the kernel accepts.
OneStarts(h) ==
    /\ NextFlow /\ Starts(<<next_ud, 1>>, h)
    /\ sockets' \in {sockets, sockets \cup {<<next_ud, 1>>}}
    /\ open' = open /\ UNCHANGED <<left, target, split>>

\* A turn whose one operation is completed at once.
OnePosts ==
    /\ NextFlow /\ Fails(<<next_ud, 1>>)
    /\ open' \subseteq open /\ UNCHANGED <<left, target, split, sockets>>

\* A buffer of the vectored flow in hand: accepted, or completed at once.
BufferStarts(h) ==
    /\ pc = "submit" /\ left > 0 /\ h \in target /\ Starts(<<next_ud - 1, left>>, h)
    /\ left' = left - 1 /\ target' \subseteq target
    /\ UNCHANGED <<pc, submitted, next_ud, split, os, port, unheard, thread, sockets, conns, in_flight, reaped>>

BufferFails ==
    /\ pc = "submit" /\ left > 0 /\ Fails(<<next_ud - 1, left>>)
    /\ left' = 0 /\ target' \subseteq target
    /\ UNCHANGED <<pc, submitted, next_ud, split, os, port, unheard, thread, sockets, conns, in_flight, reaped>>

\* What a turn of submit's loop may come to.
LEMMA SubmitCases ==
    ASSUME SubmitFlow
    PROVE  \/ \E h \in Handles : OneStarts(h)
           \/ OnePosts
           \/ \E h \in Files, n \in 0 .. MaxBufs : SubmitVectored(h, n)
<1>1. ASSUME NEW h \in Handles,
             SubmitFile(h) \/ SubmitSocket(h) \/ SubmitConnect(h) \/ SubmitAccept(h)
      PROVE  OneStarts(h) \/ OnePosts
    BY <1>1 DEF SubmitFile, SubmitSocket, SubmitConnect, SubmitAccept, OneStarts, OnePosts
<1>2. ASSUME NEW h \in Handles, SubmitClose(h)
      PROVE  OnePosts
    BY <1>2 DEF SubmitClose, OnePosts, Fails
<1> QED
    BY <1>1, <1>2 DEF SubmitFlow, Handles

\* What a turn of the loop over the buffers may come to.
LEMMA BufferCases ==
    ASSUME VectoredBuffer
    PROVE  (\E h \in target : BufferStarts(h)) \/ BufferFails
BY DEF VectoredBuffer, BufferStarts, BufferFails

\* The operation of a new flow was never used.
LEMMA NewFlow ==
    ASSUME IInv, NextFlow
    PROVE  <<next_ud, 1>> \in Operations /\ <<next_ud, 1>> \notin Used
<1>1. next_ud \in 1 .. MaxFlows /\ 1 \in 1 .. MaxBufs
    BY Basics, IocpAssumption DEF NextFlow
<1>2. <<next_ud, 1>>[1] = next_ud
    OBVIOUS
<1>3. ~(next_ud < next_ud)
    BY Basics
<1> QED
    BY <1>1, <1>2, <1>3 DEF Operations, IInv, Fresh

\* Nor was the operation of the next buffer.
LEMMA NewBuffer ==
    ASSUME IInv, left > 0
    PROVE  <<next_ud - 1, left>> \in Operations /\ <<next_ud - 1, left>> \notin Used
<1> DEFINE op == <<next_ud - 1, left>>
<1>1. next_ud - 1 \in 1 .. MaxFlows /\ left \in 1 .. MaxBufs
    BY Basics, IocpAssumption DEF IInv, TypeOK, Fresh
<1>2. op[1] = next_ud - 1 /\ op[2] = left
    OBVIOUS
<1>3. ~(left > left)
    BY <1>1
<1>4. op \in Operations
    BY <1>1 DEF Operations
<1> HIDE DEF op
<1>5. op \notin Used
    BY <1>2, <1>3 DEF IInv, Fresh
<1> QED
    BY <1>4, <1>5 DEF op

\* Where the operations are after a turn of submit, and after any other step.
LEMMA PlacedTurns ==
    ASSUME IInv
    PROVE  /\ \A h \in Handles : OneStarts(h) =>
                Placed' /\ Pending' = Pending \cup {<<next_ud, 1>>} /\ Used' = Used \cup {<<next_ud, 1>>}
           /\ OnePosts => Placed' /\ Pending' = Pending /\ Used' = Used \cup {<<next_ud, 1>>}
           /\ \A h \in Handles : BufferStarts(h) =>
                /\ Placed' /\ Pending' = Pending \cup {<<next_ud - 1, left>>}
                /\ Used' = Used \cup {<<next_ud - 1, left>>}
           /\ BufferFails => Placed' /\ Pending' = Pending /\ Used' = Used \cup {<<next_ud - 1, left>>}
<1>1. ASSUME NEW h \in Handles, OneStarts(h)
      PROVE  Placed' /\ Pending' = Pending \cup {<<next_ud, 1>>} /\ Used' = Used \cup {<<next_ud, 1>>}
    BY <1>1, NewFlow, PlacedStarts DEF OneStarts, NextFlow, thread
<1>2. ASSUME OnePosts
      PROVE  Placed' /\ Pending' = Pending /\ Used' = Used \cup {<<next_ud, 1>>}
    BY <1>2, NewFlow, PlacedPosts DEF OnePosts, NextFlow, Fails, thread
<1>3. ASSUME NEW h \in Handles, BufferStarts(h)
      PROVE  /\ Placed' /\ Pending' = Pending \cup {<<next_ud - 1, left>>}
             /\ Used' = Used \cup {<<next_ud - 1, left>>}
    BY <1>3, NewBuffer, PlacedStarts DEF BufferStarts, thread
<1>4. ASSUME BufferFails
      PROVE  Placed' /\ Pending' = Pending /\ Used' = Used \cup {<<next_ud - 1, left>>}
    BY <1>4, NewBuffer, PlacedPosts DEF BufferFails, Fails, thread
<1> QED
    BY <1>1, <1>2, <1>3, <1>4





-----------------------------------------------------------------------------
(***************************************************************************)
(* The inductive invariant, part by part.                                  *)
(***************************************************************************)

\* The steps that move no operation.
Quiet ==
    \/ \E h \in Handles : Associate(h)
    \/ SubmitBegin \/ SubmitEnd \/ WaitBegin \/ WaitReturn
    \/ \E h \in Files, n \in 0 .. MaxBufs : SubmitVectored(h, n)
    \/ ReactorTop \/ ReactorTimeout \/ ReactorFails
    \/ UNCHANGED vars

\* They leave the kernel, the port, the queue and the memory alone.
LEMMA QuietStill == Quiet => Still
BY DEF Quiet, Still, Associate, SubmitBegin, SubmitEnd, WaitBegin, WaitReturn, SubmitVectored,
   NextFlow, ReactorTop, ReactorTimeout, ReactorFails, vars, os, kernel, thread, memory, done

\* What became of the operations in any step.
LEMMA UsedStep ==
    ASSUME IInv
    PROVE  /\ Quiet \/ Reap \/ DropBegin \/ DropJoin \/ ReactorGet
                \/ (\E r \in started : KernelComplete(r))
                \/ (\E failed \in SUBSET sockets : ReactorBatch(failed)) => Placed' /\ Used' = Used
           /\ (\E h \in Handles : OneStarts(h)) \/ OnePosts =>
                Placed' /\ Used' = Used \cup {<<next_ud, 1>>}
           /\ (\E h \in target : BufferStarts(h)) \/ BufferFails =>
                Placed' /\ Used' = Used \cup {<<next_ud - 1, left>>}
<1>1. Quiet => Placed' /\ Used' = Used
    BY QuietStill, PlacedStill
<1>2. Reap \/ DropBegin \/ DropJoin \/ ReactorGet => Placed' /\ Used' = Used
    BY PlacedReap, PlacedDropBegin, PlacedDropJoin, PlacedGet
<1>3. (\E r \in started : KernelComplete(r)) => Placed' /\ Used' = Used
    BY PlacedKernel
<1>4. (\E failed \in SUBSET sockets : ReactorBatch(failed)) => Placed' /\ Used' = Used
    BY PlacedBatch
<1>5. target \subseteq Handles
    BY DEF IInv, TypeOK
<1> QED
    BY <1>1, <1>2, <1>3, <1>4, <1>5, PlacedTurns

\* Every step is one of these.
LEMMA StepCases ==
    ASSUME [Next]_vars
    PROVE  \/ Quiet \/ Reap \/ DropBegin \/ DropJoin \/ ReactorGet
           \/ (\E r \in started : KernelComplete(r))
           \/ (\E failed \in SUBSET sockets : ReactorBatch(failed))
           \/ (\E h \in Handles : OneStarts(h)) \/ OnePosts
           \/ (\E h \in target : BufferStarts(h)) \/ BufferFails
BY SubmitCases, BufferCases DEF Next, ReactorStep, Quiet

\* Every step leaves each operation in one place, once, and owned.
LEMMA PlacedStep == IInv /\ [Next]_vars => Placed'
BY StepCases, UsedStep

\* An operation is a pair of numbers.
LEMMA UsedNumbers ==
    ASSUME IInv, NEW o \in Used
    PROVE  o[1] \in Nat \ {0} /\ o[2] \in Nat \ {0} /\ o = <<o[1], o[2]>>
BY Basics DEF Operations

\* No step uses an operation twice.
LEMMA FreshStep == IInv /\ [Next]_vars => Fresh'
<1> SUFFICES ASSUME IInv, [Next]_vars
             PROVE  Fresh'
    OBVIOUS
<1>1. CASE (\E h \in Handles : OneStarts(h)) \/ OnePosts
    <2> DEFINE op == <<next_ud, 1>>
    <2>1. /\ pc = "submit" /\ left = 0 /\ next_ud' = next_ud + 1 /\ left' = 0
        BY <1>1 DEF OneStarts, OnePosts, NextFlow
    <2>2. Used' = Used \cup {op}
        BY <1>1, UsedStep
    <2>3. op[1] = next_ud /\ op[2] = 1
        OBVIOUS
    <2> HIDE DEF op
    <2> QED
        BY <2>1, <2>2, <2>3, Basics, UsedNumbers DEF IInv, Fresh
<1>2. CASE (\E h \in target : BufferStarts(h)) \/ BufferFails
    <2> DEFINE op == <<next_ud - 1, left>>
    <2>1. /\ pc = "submit" /\ pc' = pc /\ left > 0 /\ next_ud' = next_ud
          /\ left' = 0 \/ left' = left - 1
        BY <1>2 DEF BufferStarts, BufferFails
    <2>2. Used' = Used \cup {op}
        BY <1>2, UsedStep
    <2>3. op[1] = next_ud - 1 /\ op[2] = left
        OBVIOUS
    <2> HIDE DEF op
    <2> QED
        BY <2>1, <2>2, <2>3, Basics, UsedNumbers DEF IInv, Fresh
<1>3. ASSUME NEW h \in Files, NEW n \in 0 .. MaxBufs, SubmitVectored(h, n)
      PROVE  Fresh'
    <2>1. pc = "submit" /\ pc' = pc /\ next_ud' = next_ud + 1 /\ Used' = Used
        BY <1>3, UsedStep DEF Quiet, SubmitVectored, NextFlow
    <2> QED
        BY <2>1, Basics, UsedNumbers DEF IInv, Fresh
<1>4. ASSUME UNCHANGED <<left, next_ud>>, Used' = Used, pc' = pc \/ pc # "submit" \/ left = 0
      PROVE  Fresh'
    BY <1>4, Basics DEF IInv, Fresh
<1>5. CASE \/ SubmitBegin \/ SubmitEnd \/ WaitBegin \/ WaitReturn \/ UNCHANGED vars
           \/ ReactorTop \/ ReactorTimeout \/ ReactorFails \/ \E h \in Handles : Associate(h)
    BY <1>4, <1>5, UsedStep DEF Quiet, Associate, SubmitBegin, SubmitEnd, WaitBegin, WaitReturn,
       ReactorTop, ReactorTimeout, ReactorFails, vars, caller
<1>6. CASE \/ Reap \/ DropBegin \/ DropJoin \/ ReactorGet
           \/ (\E r \in started : KernelComplete(r))
           \/ (\E failed \in SUBSET sockets : ReactorBatch(failed))
    BY <1>4, <1>6, UsedStep DEF Reap, DropBegin, DropJoin, ReactorGet, KernelComplete,
       ReactorBatch, caller
<1> QED
    BY <1>1, <1>2, <1>3, <1>5, <1>6, StepCases DEF Quiet

\* The wake-up is posted by drop alone, and a turn of the reactor ends with no
\* entries.
LEMMA WakeStep == IInv /\ [Next]_vars => WakeOnce'
<1> SUFFICES ASSUME IInv, [Next]_vars
             PROVE  WakeOnce'
    OBVIOUS
<1>1. ASSUME NEW h \in Handles, Associate(h)
      PROVE  WakeOnce'
    BY <1>1 DEF IInv, WakeOnce, InSeq, Associate, caller, os, kernel, thread, memory, done
<1>2. CASE SubmitBegin
    BY <1>2 DEF IInv, WakeOnce, InSeq, SubmitBegin, caller, os, kernel, thread, memory, done
<1>3. ASSUME NEW h \in Handles, OneStarts(h)
      PROVE  WakeOnce'
    BY <1>3 DEF IInv, WakeOnce, InSeq, OneStarts, NextFlow, Starts, caller, os, kernel, thread,
       memory, done
<1>4. CASE OnePosts
    BY <1>4 DEF IInv, WakeOnce, InSeq, OnePosts, NextFlow, Fails, caller, os, kernel, thread,
       memory, done
<1>5. ASSUME NEW h \in Files, NEW n \in 0 .. MaxBufs, SubmitVectored(h, n)
      PROVE  WakeOnce'
    BY <1>5 DEF IInv, WakeOnce, InSeq, SubmitVectored, NextFlow, caller, os, kernel, thread,
       memory, done
<1>6. ASSUME NEW h \in target, BufferStarts(h)
      PROVE  WakeOnce'
    BY <1>6 DEF IInv, WakeOnce, InSeq, BufferStarts, Starts, caller, os, kernel, thread,
       memory, done
<1>7. CASE BufferFails
    BY <1>7 DEF IInv, WakeOnce, InSeq, BufferFails, Fails, caller, os, kernel, thread, memory,
       done
<1>8. CASE SubmitEnd
    BY <1>8 DEF IInv, WakeOnce, InSeq, SubmitEnd, caller, os, kernel, thread, memory, done
<1>9. CASE Reap
    BY <1>9 DEF IInv, WakeOnce, InSeq, Reap, caller, os, kernel, thread, memory, done
<1>10. CASE WaitBegin
    BY <1>10 DEF IInv, WakeOnce, InSeq, WaitBegin, caller, os, kernel, thread, memory, done
<1>11. CASE WaitReturn
    BY <1>11 DEF IInv, WakeOnce, InSeq, WaitReturn, caller, os, kernel, thread, memory, done
<1>12. CASE DropBegin
    BY <1>12 DEF IInv, WakeOnce, InSeq, DropBegin, caller, os, kernel, thread, memory, done
<1>13. CASE DropJoin
    BY <1>13 DEF IInv, WakeOnce, InSeq, DropJoin, caller, os, kernel, thread, memory, done
<1>14. ASSUME NEW r \in started, KernelComplete(r)
      PROVE  WakeOnce'
    <2>1. r[1] \in Operations /\ r[1] # Wake
        BY Basics DEF IInv, TypeOK
    <2>2. InSeq(Append(port, r[1])) = InSeq(port) \cup {r[1]}
        BY <2>1, Basics, AppendOnce
    <2>3. InSeq(port') \subseteq InSeq(port) \cup {r[1]} /\ UNCHANGED <<pc, reactor, entries>>
        BY <1>14, <2>2 DEF KernelComplete, caller, thread
    <2> QED
        BY <2>1, <2>3 DEF IInv, WakeOnce
<1>15. CASE ReactorTop
    BY <1>15 DEF IInv, WakeOnce, InSeq, ReactorTop, caller, os, kernel, thread, memory, done
<1>16. CASE ReactorGet
    <2> DEFINE n == IF Len(port) < MaxCompletions THEN Len(port) ELSE MaxCompletions
    <2>1. /\ entries' = SubSeq(port, 1, n) /\ port' = SubSeq(port, n + 1, Len(port))
          /\ reactor' = "batch" /\ pc' = pc
        BY <1>16 DEF ReactorGet, caller
    <2>2. n \in Nat /\ n <= Len(port)
        BY Basics, LenProperties, IocpAssumption
    <2> HIDE DEF n
    <2>3. InSeq(entries') \cup InSeq(port') = InSeq(port)
        BY <2>1, <2>2, Basics, CutOnce DEF IInv, OnceEach
    <2> QED
        BY <2>1, <2>3 DEF IInv, WakeOnce
<1>17. CASE ReactorTimeout
    BY <1>17 DEF IInv, WakeOnce, InSeq, ReactorTimeout, caller, os, kernel, thread, memory, done
<1>18. CASE ReactorFails
    BY <1>18 DEF IInv, WakeOnce, InSeq, ReactorFails, caller, os, kernel, thread, memory, done
<1>19. ASSUME NEW failed \in SUBSET sockets, ReactorBatch(failed)
      PROVE  WakeOnce'
    <2>1. /\ entries' = << >> /\ reactor' = "top" /\ UNCHANGED <<pc, port>>
        BY <1>19 DEF ReactorBatch, caller, kernel
    <2>2. InSeq(entries') = {}
        BY <2>1 DEF InSeq
    <2> QED
        BY <2>1, <2>2 DEF IInv, WakeOnce
<1>20. CASE UNCHANGED vars
    BY <1>20 DEF IInv, WakeOnce, InSeq, vars, caller, os, kernel, thread, memory, done
<1> QED
    BY <1>1, <1>2, <1>3, <1>4, <1>5, <1>6, <1>7, <1>8, <1>9, <1>10, <1>11, <1>12, <1>13, <1>14,
       <1>15, <1>16, <1>17, <1>18, <1>19, <1>20, SubmitCases, BufferCases DEF Next, ReactorStep

\* While every flow is one operation, the flows submitted are the operations
\* that are pending, completed or reaped.
LEMMA UsedCount ==
    ASSUME IInv
    PROVE  /\ Len(cq) \in Nat /\ Len(reaped) \in Nat
           /\ split = {} /\ left = 0 =>
                /\ IsFiniteSet(Pending) /\ Cardinality(Pending) \in Nat
                /\ Cardinality(Pending) + Len(cq) + Len(reaped) = next_ud - 1
<1>1. /\ IsFiniteSet(InSeq(cq)) /\ Cardinality(InSeq(cq)) = Len(cq)
      /\ IsFiniteSet(InSeq(reaped)) /\ Cardinality(InSeq(reaped)) = Len(reaped)
      /\ Len(cq) \in Nat /\ Len(reaped) \in Nat
    BY Basics, OnceLen, LenProperties DEF IInv, OnceEach
<1> SUFFICES ASSUME split = {}, left = 0
             PROVE  /\ IsFiniteSet(Pending) /\ Cardinality(Pending) \in Nat
                    /\ Cardinality(Pending) + Len(cq) + Len(reaped) = next_ud - 1
    BY <1>1
<1> DEFINE F == 1 .. next_ud - 1
           f == [u \in F |-> <<u, 1>>]
           A == InSeq(cq) \cup InSeq(reaped)
<1>2. IsFiniteSet(F) /\ Cardinality(F) = next_ud - 1 /\ next_ud \in Nat
    <2>1. 1 \in Int /\ next_ud - 1 \in Int /\ next_ud - 1 >= 0 /\ next_ud \in Nat
        BY Basics
    <2>2. IsFiniteSet(F) /\ Cardinality(F) = IF 1 > next_ud - 1 THEN 0 ELSE (next_ud - 1) - 1 + 1
        BY <2>1, FS_Interval
    <2> QED
        BY <2>1, <2>2
<1>3. \A u \in F : <<u, 1>> \in Used
    <2>1. \A u \in F : <<u, 1>> \in Used \/ (u = next_ud - 1 /\ left = 1)
        BY DEF IInv, Counted
    <2>2. left # 1
        OBVIOUS
    <2> QED
        BY <2>1, <2>2
<1>4. \A o \in Used : o[1] \in F /\ o = <<o[1], 1>>
    <2> SUFFICES ASSUME NEW o \in Used
                 PROVE  o[1] \in F /\ o = <<o[1], 1>>
        OBVIOUS
    <2>1. o[1] < next_ud /\ o[2] = 1
        BY DEF IInv, Fresh, Counted
    <2> QED
        BY <2>1, Basics, UsedNumbers
<1>5. f \in Surjection(F, Used) /\ f \in Injection(F, Used)
    <2>1. f \in [F -> Used]
        BY <1>3
    <2>2. \A o \in Used : \E u \in F : f[u] = o
        BY <1>4
    <2>3. \A u, v \in F : f[u] = f[v] => u = v
        OBVIOUS
    <2> HIDE DEF f
    <2> QED
        BY <2>1, <2>2, <2>3 DEF Surjection, Injection, IsInjective
<1>6. IsFiniteSet(Used) /\ Cardinality(Used) = next_ud - 1
    BY <1>2, <1>5, FS_Surjection
<1>7. /\ InSeq(cq) \cap InSeq(reaped) = {} /\ Pending \cap A = {} /\ Pending \cup A = Used
    BY DEF IInv, Apart, Disjoint, Pending, InPort, Used
<1>8. IsFiniteSet(A) /\ Cardinality(A) = Len(cq) + Len(reaped)
    <2>1. IsFiniteSet(A) /\ Cardinality(A) = Len(cq) + Len(reaped) - Cardinality({})
        BY <1>1, <1>7, FS_Union
    <2> QED
        BY <1>1, <2>1, FS_EmptySet
<1> HIDE DEF A, F, f
<1>9. IsFiniteSet(Pending)
    BY <1>6, <1>7, FS_Subset
<1>10. Cardinality(Used) = Cardinality(Pending) + Cardinality(A)
    <2>1. Cardinality(Pending \cup A) = Cardinality(Pending) + Cardinality(A) - Cardinality({})
        BY <1>7, <1>8, <1>9, FS_Union
    <2>2. Cardinality(Pending) \in Nat /\ Cardinality(A) \in Nat /\ Cardinality({}) = 0
        BY <1>8, <1>9, FS_CardinalityType, FS_EmptySet
    <2>3. Cardinality(Pending \cup A) = Cardinality(Used)
        BY <1>7
    <2> HIDE DEF Pending, Used
    <2> QED
        BY <2>1, <2>2, <2>3
<1>11. Cardinality(Pending) \in Nat
    BY <1>9, FS_CardinalityType
<1> QED
    BY <1>1, <1>2, <1>6, <1>8, <1>9, <1>10, <1>11

\* in_flight stays below 2^32 and never falls below what reap takes.
LEMMA CountBound ==
    ASSUME IInv
    PROVE  /\ in_flight \in Nat /\ submitted \in Nat /\ U32 \in Nat \ {0}
           /\ split = {} => in_flight + submitted < U32
           /\ split = {} /\ pc = "idle" => Len(cq) <= in_flight /\ submitted = 0 /\ left = 0
<1>1. /\ in_flight \in 0 .. U32 - 1 /\ submitted \in 0 .. MaxFlows
      /\ MaxFlows \in Nat /\ U32 \in Nat /\ MaxFlows < U32
    BY IocpAssumption DEF IInv, TypeOK
<1>2. next_ud \in Nat /\ next_ud <= MaxFlows + 1 /\ left \in Nat
    BY Basics
<1>3. split = {} => in_flight + submitted + Len(reaped) = next_ud - 1
    BY DEF IInv, Counted
<1>4. pc = "idle" => submitted = 0 /\ left = 0
    BY <1>2 DEF IInv, Counted, Fresh
<1>5. /\ Len(cq) \in Nat /\ Len(reaped) \in Nat
      /\ split = {} /\ left = 0 =>
            /\ Cardinality(Pending) \in Nat
            /\ Cardinality(Pending) + Len(cq) + Len(reaped) = next_ud - 1
    BY UsedCount
<1> HIDE DEF Pending
<1> QED
    BY <1>1, <1>2, <1>3, <1>4, <1>5

\* The counts of submit and the wrapping arithmetic of in_flight keep track.
LEMMA CountedStep == IInv /\ [Next]_vars => Counted'
<1> SUFFICES ASSUME IInv, [Next]_vars
             PROVE  Counted'
    OBVIOUS
<1>1. CASE (\E h \in Handles : OneStarts(h)) \/ OnePosts
    <2> DEFINE op == <<next_ud, 1>>
    <2>1. /\ pc = "submit" /\ left = 0 /\ next_ud' = next_ud + 1 /\ submitted' = submitted + 1
          /\ UNCHANGED <<pc, left, split, in_flight, reaped>>
        BY <1>1 DEF OneStarts, OnePosts, NextFlow
    <2>2. Used' = Used \cup {op}
        BY <1>1, UsedStep
    <2>3. op[2] = 1
        OBVIOUS
    <2>4. \A u \in 1 .. next_ud' - 1 : u \in 1 .. next_ud - 1 \/ <<u, 1>> = op
        BY <2>1, Basics
    <2> HIDE DEF op
    <2>5. split = {} => in_flight + submitted + Len(reaped) = next_ud - 1
        BY DEF IInv, Counted
    <2>6. /\ in_flight \in Nat /\ submitted \in Nat /\ next_ud \in Nat /\ Len(reaped) \in Nat
          /\ submitted <= next_ud - 1 /\ Len(reaped') = Len(reaped)
        BY <2>1, Basics, CountBound, UsedCount DEF IInv, Counted
    <2>7. /\ submitted' <= next_ud' - 1
          /\ split = {} => in_flight' + submitted' + Len(reaped') = next_ud' - 1
        BY <2>1, <2>5, <2>6
    <2>8. split = {} => \A u \in 1 .. next_ud - 1 : <<u, 1>> \in Used \/ left = 1
        BY DEF IInv, Counted
    <2>9. split = {} => \A u \in 1 .. next_ud' - 1 : <<u, 1>> \in Used'
        <3>1. left # 1
            BY <2>1
        <3> QED
            BY <2>2, <2>4, <2>8, <3>1
    <2> QED
        BY <2>1, <2>2, <2>3, <2>7, <2>9 DEF IInv, Counted
<1>2. CASE (\E h \in target : BufferStarts(h)) \/ BufferFails
    <2> DEFINE op == <<next_ud - 1, left>>
    <2>1. /\ pc = "submit" /\ left > 0 /\ (left' = left - 1 \/ left' = 0)
          /\ UNCHANGED <<pc, submitted, next_ud, split, in_flight, reaped>>
        BY <1>2 DEF BufferStarts, BufferFails
    <2>2. Used' = Used \cup {op}
        BY <1>2, UsedStep
    <2>3. left \in Nat /\ (split = {} => left <= 1)
        BY Basics DEF IInv, Counted
    <2>4. split = {} => left = 1 /\ left' = 0
        BY <2>1, <2>3
    <2>5. split = {} => op = <<next_ud - 1, 1>>
        BY <2>4
    <2>6. <<next_ud - 1, 1>>[2] = 1
        OBVIOUS
    <2> HIDE DEF op
    <2> QED
        BY <2>1, <2>2, <2>4, <2>5, <2>6 DEF IInv, Counted
<1>3. ASSUME NEW h \in Files, NEW n \in 0 .. MaxBufs, SubmitVectored(h, n)
      PROVE  Counted'
    <2>1. /\ pc = "submit" /\ left = 0 /\ next_ud' = next_ud + 1 /\ submitted' = submitted + 1
          /\ left' = n /\ split' = IF n = 1 THEN split ELSE split \cup {next_ud}
          /\ UNCHANGED <<pc, in_flight, reaped>>
        BY <1>3 DEF SubmitVectored, NextFlow
    <2>2. Used' = Used
        BY <1>3, UsedStep DEF Quiet
    <2>3. split' = {} => n = 1 /\ split = {}
        BY <2>1
    <2>4. split = {} => in_flight + submitted + Len(reaped) = next_ud - 1
        BY DEF IInv, Counted
    <2>5. /\ in_flight \in Nat /\ submitted \in Nat /\ next_ud \in Nat /\ Len(reaped) \in Nat
          /\ submitted <= next_ud - 1 /\ Len(reaped') = Len(reaped)
        BY <2>1, Basics, CountBound, UsedCount DEF IInv, Counted
    <2>6. /\ submitted' <= next_ud' - 1
          /\ split = {} => in_flight' + submitted' + Len(reaped') = next_ud' - 1
        BY <2>1, <2>4, <2>5
    <2>7. \A u \in 1 .. next_ud' - 1 : u \in 1 .. next_ud - 1 \/ u = next_ud' - 1
        BY <2>1, <2>5
    <2> QED
        BY <2>1, <2>2, <2>3, <2>6, <2>7 DEF IInv, Counted
<1>4. CASE SubmitEnd
    <2>1. /\ pc = "submit" /\ submitted' = 0 /\ pc' = "idle"
          /\ in_flight' = (in_flight + submitted) % U32
          /\ UNCHANGED <<left, next_ud, split, reaped>>
        BY <1>4 DEF SubmitEnd
    <2>2. split = {} => in_flight' = in_flight + submitted
        BY <2>1, CountBound
    <2>3. Used' = Used
        BY <1>4, UsedStep DEF Quiet
    <2>4. submitted' <= next_ud' - 1
        BY <2>1, Basics
    <2>5. split = {} => in_flight' + submitted' + Len(reaped') = next_ud' - 1
        BY <2>1, <2>2, Basics, CountBound, UsedCount DEF IInv, Counted
    <2> QED
        BY <2>1, <2>3, <2>4, <2>5 DEF IInv, Counted
<1>5. CASE Reap
    <2> DEFINE d == in_flight - Len(cq)
    <2>1. /\ pc = "idle" /\ in_flight' = d % U32 /\ reaped' = reaped \o cq
          /\ UNCHANGED <<pc, submitted, left, next_ud, split>>
        BY <1>5 DEF Reap, caller
    <2>2. split = {} => d \in Nat /\ d < U32
        BY <2>1, CountBound, UsedCount
    <2> HIDE DEF d
    <2>3. split = {} => in_flight' = d
        <3>1. U32 \in Nat \ {0} /\ in_flight' = d % U32
            BY <2>1, CountBound
        <3> QED
            BY <2>2, <3>1
    <2>4. Len(reaped') = Len(reaped) + Len(cq)
        BY <2>1, Basics, ConcatOnce
    <2>5. Used' = Used
        BY <1>5, UsedStep
    <2>6. split = {} => in_flight' + submitted' + Len(reaped') = next_ud' - 1
        BY <2>1, <2>3, <2>4, Basics, CountBound, UsedCount DEF IInv, Counted, d
    <2> QED
        BY <2>1, <2>5, <2>6 DEF IInv, Counted
<1>6. CASE \/ SubmitBegin \/ WaitBegin \/ WaitReturn \/ UNCHANGED vars
           \/ ReactorTop \/ ReactorTimeout \/ ReactorFails \/ \E h \in Handles : Associate(h)
    <2>1. Used' = Used /\ UNCHANGED <<submitted, left, next_ud, split, in_flight, reaped>>
        BY <1>6, UsedStep DEF Quiet, Associate, SubmitBegin, WaitBegin, WaitReturn,
           ReactorTop, ReactorTimeout, ReactorFails, vars, caller, done
    <2>2. pc' = pc \/ pc # "submit"
        BY <1>6 DEF Associate, SubmitBegin, WaitBegin, WaitReturn,
           ReactorTop, ReactorTimeout, ReactorFails, vars, caller
    <2> QED
        BY <2>1, <2>2 DEF IInv, Counted
<1>7. CASE \/ DropBegin \/ DropJoin \/ ReactorGet
           \/ (\E r \in started : KernelComplete(r))
           \/ (\E failed \in SUBSET sockets : ReactorBatch(failed))
    <2>1. Used' = Used /\ UNCHANGED <<submitted, left, next_ud, split, in_flight, reaped>>
        BY <1>7, UsedStep DEF DropBegin, DropJoin, ReactorGet, KernelComplete, ReactorBatch,
           caller, done
    <2>2. pc' = pc \/ pc # "submit"
        BY <1>7 DEF DropBegin, DropJoin, ReactorGet, KernelComplete, ReactorBatch, caller
    <2> QED
        BY <2>1, <2>2 DEF IInv, Counted
<1> QED
    BY <1>1, <1>2, <1>3, <1>4, <1>5, <1>6, <1>7, StepCases DEF Quiet

\* A turn of submit's loop counts within the bound on flows.
LEMMA TurnTypes ==
    ASSUME IInv, NextFlow
    PROVE  next_ud' \in 1 .. MaxFlows + 1 /\ submitted' \in 0 .. MaxFlows
<1>1. next_ud <= MaxFlows /\ next_ud' = next_ud + 1 /\ submitted' = submitted + 1
    BY DEF NextFlow
<1>2. next_ud \in Nat \ {0} /\ submitted \in Nat /\ submitted <= next_ud - 1 /\ MaxFlows \in Nat
    BY Basics, IocpAssumption DEF IInv, Counted
<1> QED
    BY <1>1, <1>2

\* Every step keeps the types.
LEMMA TypeStep == IInv /\ [Next]_vars => TypeOK'
<1> SUFFICES ASSUME IInv, [Next]_vars
             PROVE  TypeOK'
    OBVIOUS
<1> USE IocpAssumption
<1>1. ASSUME NEW h \in Handles, Associate(h)
      PROVE  TypeOK'
    BY <1>1 DEF IInv, TypeOK, Associate, caller, os, kernel, thread, memory, done
<1>2. CASE SubmitBegin
    BY <1>2 DEF IInv, TypeOK, SubmitBegin, caller, os, kernel, thread, memory, done
<1>3. ASSUME NEW h \in Handles, OneStarts(h)
      PROVE  TypeOK'
    <2>1. next_ud' \in 1 .. MaxFlows + 1 /\ submitted' \in 0 .. MaxFlows
        BY <1>3, TurnTypes DEF OneStarts
    <2>2. <<next_ud, 1>> \in Operations /\ <<<<next_ud, 1>>, h>> \in Operations \X Handles
        BY <1>3, NewFlow DEF OneStarts
    <2> QED
        BY <1>3, <2>1, <2>2 DEF IInv, TypeOK, OneStarts, NextFlow, Starts, os, thread
<1>4. CASE OnePosts
    <2>1. next_ud' \in 1 .. MaxFlows + 1 /\ submitted' \in 0 .. MaxFlows
        BY <1>4, TurnTypes DEF OnePosts
    <2>2. Append(cq, <<next_ud, 1>>) \in Seq(Operations)
        BY <1>4, NewFlow, Basics, AppendOnce DEF OnePosts
    <2> QED
        BY <1>4, <2>1, <2>2 DEF IInv, TypeOK, OnePosts, NextFlow, Fails, os, thread
<1>5. ASSUME NEW h \in Files, NEW n \in 0 .. MaxBufs, SubmitVectored(h, n)
      PROVE  TypeOK'
    <2>1. next_ud' \in 1 .. MaxFlows + 1 /\ submitted' \in 0 .. MaxFlows
        BY <1>5, TurnTypes DEF SubmitVectored
    <2>2. next_ud \in 1 .. MaxFlows /\ h \in Handles
        BY <1>5, Basics DEF SubmitVectored, NextFlow, Handles
    <2> QED
        BY <1>5, <2>1, <2>2 DEF IInv, TypeOK, SubmitVectored, NextFlow, os, thread
<1>6. ASSUME NEW h \in target, BufferStarts(h)
      PROVE  TypeOK'
    <2>1. h \in Handles /\ left' \in 0 .. MaxBufs
        BY <1>6 DEF BufferStarts, IInv, TypeOK
    <2>2. <<next_ud - 1, left>> \in Operations /\ <<<<next_ud - 1, left>>, h>> \in Operations \X Handles
        BY <1>6, <2>1, NewBuffer DEF BufferStarts
    <2> QED
        BY <1>6, <2>1, <2>2 DEF IInv, TypeOK, BufferStarts, Starts, os, thread
<1>7. CASE BufferFails
    <2>1. Append(cq, <<next_ud - 1, left>>) \in Seq(Operations)
        BY <1>7, NewBuffer, Basics, AppendOnce DEF BufferFails
    <2> QED
        BY <1>7, <2>1 DEF IInv, TypeOK, BufferFails, Fails, os, thread
<1>8. CASE SubmitEnd
    <2>1. in_flight + submitted \in Int /\ U32 \in Nat \ {0}
        BY CountBound
    <2>2. (in_flight + submitted) % U32 \in 0 .. U32 - 1
        BY <2>1
    <2> QED
        BY <1>8, <2>2 DEF IInv, TypeOK, SubmitEnd, os, kernel, thread, memory
<1>9. CASE Reap
    <2>1. in_flight - Len(cq) \in Int /\ U32 \in Nat \ {0}
        BY CountBound, UsedCount
    <2>2. (in_flight - Len(cq)) % U32 \in 0 .. U32 - 1
        BY <2>1
    <2>3. reaped \o cq \in Seq(Operations) /\ << >> \in Seq(Operations)
        BY Basics, ConcatProperties, EmptySeq
    <2> QED
        BY <1>9, <2>2, <2>3 DEF IInv, TypeOK, Reap, caller, os, kernel, thread, memory
<1>10. CASE WaitBegin
    BY <1>10 DEF IInv, TypeOK, WaitBegin, caller, os, kernel, thread, memory, done
<1>11. CASE WaitReturn
    BY <1>11 DEF IInv, TypeOK, WaitReturn, caller, os, kernel, thread, memory, done
<1>12. CASE DropBegin
    <2>1. Append(port, Wake) \in Seq(Operations \cup {Wake})
        BY Basics, AppendProperties
    <2> QED
        BY <1>12, <2>1 DEF IInv, TypeOK, DropBegin, os, memory, done
<1>13. CASE DropJoin
    <2>1. << >> \in Seq(Operations \cup {Wake}) /\ InSeq(port) \ {Wake} \subseteq Operations
        BY Basics, EmptySeq
    <2> QED
        BY <1>13, <2>1 DEF IInv, TypeOK, DropJoin, os, thread, memory, done
<1>14. ASSUME NEW r \in started, KernelComplete(r)
      PROVE  TypeOK'
    <2>1. r[1] \in Operations
        BY DEF IInv, TypeOK
    <2>2. Append(port, r[1]) \in Seq(Operations \cup {Wake})
        BY <2>1, Basics, AppendProperties
    <2> QED
        BY <1>14, <2>1, <2>2 DEF IInv, TypeOK, KernelComplete, caller, os, thread, memory, done
<1>15. CASE ReactorTop
    BY <1>15 DEF IInv, TypeOK, ReactorTop, caller, os, kernel, thread, memory, done
<1>16. CASE ReactorGet
    <2> DEFINE n == IF Len(port) < MaxCompletions THEN Len(port) ELSE MaxCompletions
    <2>1. /\ entries' = SubSeq(port, 1, n) /\ port' = SubSeq(port, n + 1, Len(port))
          /\ reactor' = "batch" /\ UNCHANGED <<caller, os, started, unheard, shutdown, memory, done>>
        BY <1>16 DEF ReactorGet
    <2>2. n \in Nat /\ n <= Len(port)
        BY Basics, LenProperties
    <2> HIDE DEF n
    <2>3. entries' \in Seq(Operations \cup {Wake}) /\ port' \in Seq(Operations \cup {Wake})
        BY <2>1, <2>2, Basics, CutOnce DEF IInv, OnceEach
    <2> QED
        BY <2>1, <2>3 DEF IInv, TypeOK, caller, os, memory, done
<1>17. CASE ReactorTimeout
    BY <1>17 DEF IInv, TypeOK, ReactorTimeout, caller, os, kernel, thread, memory, done
<1>18. CASE ReactorFails
    BY <1>18 DEF IInv, TypeOK, ReactorFails, caller, os, kernel, thread, memory, done
<1>19. ASSUME NEW failed \in SUBSET sockets, ReactorBatch(failed)
      PROVE  TypeOK'
    <2> DEFINE batch == RemoveFirst(entries, Wake)
    <2>1. batch \in Seq(Operations)
        BY <1>19, PlacedBatch
    <2>2. cq \o batch \in Seq(Operations) /\ << >> \in Seq(Operations \cup {Wake})
        BY <2>1, Basics, ConcatProperties, EmptySeq
    <2>3. /\ sockets' \subseteq sockets /\ conns' \subseteq conns \cup sockets /\ ovl' \subseteq ovl
          /\ cq' = cq \o batch /\ entries' = << >> /\ reactor' = "top"
          /\ UNCHANGED <<caller, os, kernel, shutdown, in_flight, reaped>>
        BY <1>19 DEF ReactorBatch, FinishAccept
    <2> HIDE DEF batch
    <2> QED
        BY <2>2, <2>3 DEF IInv, TypeOK, caller, os, kernel
<1>20. CASE UNCHANGED vars
    BY <1>20 DEF IInv, TypeOK, vars, caller, os, kernel, thread, memory, done
<1> QED
    BY <1>1, <1>2, <1>3, <1>4, <1>5, <1>6, <1>7, <1>8, <1>9, <1>10, <1>11, <1>12, <1>13, <1>14,
       <1>15, <1>16, <1>17, <1>18, <1>19, <1>20, SubmitCases, BufferCases DEF Next, ReactorStep

\* IocpBackend::new satisfies the invariant.
LEMMA IInvInit == Init => IInv
<1> SUFFICES ASSUME Init
             PROVE  IInv
    OBVIOUS
<1>1. InSeq(<< >>) = {} /\ Once(<< >>)
    BY DEF InSeq, Once
<1>2. InKernel = {} /\ InPort = {} /\ Pending = {} /\ Used = {}
    BY <1>1 DEF Init, InKernel, InPort, Pending, Used
<1>3. TypeOK
    <2>1. 0 \in 0 .. MaxFlows /\ 1 \in 1 .. MaxFlows + 1 /\ 0 \in 0 .. U32 - 1 /\ 0 \in 0 .. MaxBufs
        BY IocpAssumption
    <2> QED
        BY <2>1, EmptySeq DEF Init, TypeOK
<1>4. Apart /\ OnceEach
    BY <1>1, <1>2 DEF Init, Apart, Disjoint, OnceEach
<1>5. Fresh /\ Counted
    BY <1>2, EmptySeq DEF Init, Fresh, Counted
<1>6. ResourcesOwned /\ WakeOnce
    BY <1>1, <1>2 DEF Init, ResourcesOwned, OverlappedOwned, AcceptSocketsOwned, WakeOnce
<1> QED
    BY <1>3, <1>4, <1>5, <1>6 DEF IInv

\* The invariant holds in every reachable state.
THEOREM Invariance == Spec => []IInv
<1>1. IInv /\ [Next]_vars => IInv'
    BY PlacedStep, TypeStep, FreshStep, CountedStep, WakeStep DEF IInv, Placed
<1> QED
    BY <1>1, IInvInit, PTL DEF Spec

\* Types, and in_flight: as long as no vectored flow was split, it counts between
\* two calls exactly the operations that are not reaped.
THEOREM AccountExactHolds == Spec => []AccountExact
<1>1. IInv => AccountExact
    <2> SUFFICES ASSUME IInv
                 PROVE  AccountExact
        OBVIOUS
    <2>1. InFlightExact
        <3> SUFFICES ASSUME split = {}, pc \in {"idle", "wait"}
                     PROVE  in_flight = Cardinality(Pending) + Len(cq)
            BY DEF InFlightExact
        <3>1. submitted = 0 /\ left = 0
            BY Basics DEF IInv, Counted, Fresh
        <3>2. in_flight + submitted + Len(reaped) = next_ud - 1
            BY DEF IInv, Counted
        <3>3. /\ Cardinality(Pending) \in Nat /\ Len(cq) \in Nat /\ Len(reaped) \in Nat
              /\ Cardinality(Pending) + Len(cq) + Len(reaped) = next_ud - 1
            BY <3>1, UsedCount
        <3>4. in_flight \in Nat /\ next_ud \in Nat
            BY CountBound, Basics
        <3> HIDE DEF Pending
        <3> QED
            BY <3>1, <3>2, <3>3, <3>4
    <2> QED
        BY <2>1 DEF AccountExact, IInv
<1> QED
    BY <1>1, Invariance, PTL

\* On every path the overlapped of an operation lives from its call to its
\* completion, and the socket of an accept has one owner.
THEOREM ResourcesOwnedHolds == Spec => []ResourcesOwned
<1>1. IInv => ResourcesOwned
    BY DEF IInv
<1> QED
    BY <1>1, Invariance, PTL

-----------------------------------------------------------------------------
(***************************************************************************)
(* The backend keeps the promises of the Backend trait.                    *)
(***************************************************************************)

\* InSeq of the two modules is the same set.
LEMMA SameInSeq == \A s : Abstract!InSeq(s) = InSeq(s)
BY DEF Abstract!InSeq, InSeq

\* What a concatenation adds to a queue.
LEMMA AddedByConcat ==
    ASSUME NEW S, NEW s \in Seq(S), NEW t \in Seq(S)
    PROVE  SubSeq(s \o t, Len(s) + 1, Len(s \o t)) = t
<1> DEFINE c == s \o t
           m == Len(s)
           n == Len(t)
           d == SubSeq(c, m + 1, m + n)
<1>1. /\ c \in Seq(S) /\ Len(c) = m + n /\ m \in Nat /\ n \in Nat
      /\ \A i \in 1 .. m + n : c[i] = IF i <= m THEN s[i] ELSE t[i - m]
      /\ \A i \in 1 .. m + n : c[i] \in S
    BY ConcatProperties, LenProperties
<1> HIDE DEF c, m, n
<1>2. m + 1 \in Int /\ m + n \in Int /\ \A i \in m + 1 .. m + n : c[i] \in S
    BY <1>1
<1>3. /\ d \in Seq(S)
      /\ Len(d) = IF m + 1 <= m + n THEN (m + n) - (m + 1) + 1 ELSE 0
      /\ \A i \in 1 .. (m + n) - (m + 1) + 1 : d[i] = c[(m + 1) + i - 1]
    BY <1>2, SubSeqProperties
<1> HIDE DEF d
<1>4. Len(d) = n /\ (m + n) - (m + 1) + 1 = n
    BY <1>1, <1>3
<1>5. \A i \in 1 .. n : d[i] = t[i]
    <2> SUFFICES ASSUME NEW i \in 1 .. n
                 PROVE  d[i] = t[i]
        OBVIOUS
    <2>1. d[i] = c[(m + 1) + i - 1]
        BY <1>3, <1>4
    <2>2. (m + 1) + i - 1 = m + i /\ m + i \in 1 .. m + n /\ ~(m + i <= m) /\ (m + i) - m = i
        BY <1>1
    <2>3. c[m + i] = t[(m + i) - m]
        BY <1>1, <2>2
    <2> QED
        BY <2>1, <2>2, <2>3
<1>6. d = t
    BY <1>3, <1>4, <1>5, SeqEqual DEF n
<1> QED
    BY <1>1, <1>6 DEF c, m, n, d

\* An operation that the kernel accepts is a Submit of the trait.
LEMMA AbsSubmit ==
    ASSUME NEW op \in Operations, op \notin Used, Pending' = Pending \cup {op},
           UNCHANGED <<cq, reaped>>
    PROVE  Abstract!Next
<1>1. op \in Abstract!Unused
    BY SameInSeq DEF Abstract!Unused, Used
<1>2. Abstract!Submit({op}) /\ {op} \in SUBSET Operations
    BY <1>1 DEF Abstract!Submit
<1> QED
    BY <1>2 DEF Abstract!Next

\* An operation that submit completes itself is a Reject of the trait.
LEMMA AbsReject ==
    ASSUME NEW op \in Operations, op \notin Used, Pending' = Pending,
           cq' = Append(cq, op), UNCHANGED reaped
    PROVE  Abstract!Next
<1>1. op \in Abstract!Unused
    BY SameInSeq DEF Abstract!Unused, Used
<1>2. Abstract!Reject(op)
    BY <1>1 DEF Abstract!Reject
<1> QED
    BY <1>2 DEF Abstract!Next

\* A batch of the reactor is one Complete of the trait.
LEMMA AbsComplete ==
    ASSUME IInv, NEW failed \in SUBSET sockets, ReactorBatch(failed)
    PROVE  Abstract!Next
<1> DEFINE batch == RemoveFirst(entries, Wake)
<1>1. /\ batch \in Seq(Operations) /\ Once(batch) /\ InSeq(batch) \subseteq Pending
      /\ Pending' = Pending \ InSeq(batch) /\ cq' = cq \o batch
    BY PlacedBatch
<1>2. reaped' = reaped
    BY DEF ReactorBatch
<1> HIDE DEF batch
<1>3. Abstract!Added = batch
    BY <1>1, Basics, AddedByConcat DEF Abstract!Added
<1>4. Abstract!Complete(batch)
    BY <1>1, <1>2, SameInSeq DEF Abstract!Complete, Once
<1> QED
    BY <1>3, <1>4 DEF Abstract!Next

\* Every step is a step of the trait's contract or invisible to it.
LEMMA AbsStep == IInv /\ [Next]_vars => [Abstract!Next]_(Abstract!vars)
<1> SUFFICES ASSUME IInv, [Next]_vars
             PROVE  [Abstract!Next]_(Abstract!vars)
    OBVIOUS
<1>1. CASE Quiet
    <2>1. Pending' = Pending /\ UNCHANGED <<cq, reaped>>
        BY <1>1, QuietStill, PlacedStill DEF Still
    <2> QED
        BY <2>1 DEF Abstract!vars
<1>2. CASE DropBegin \/ DropJoin \/ ReactorGet \/ \E r \in started : KernelComplete(r)
    <2>1. Pending' = Pending
        BY <1>2, PlacedDropBegin, PlacedDropJoin, PlacedGet, PlacedKernel
    <2>2. UNCHANGED <<cq, reaped>>
        BY <1>2 DEF DropBegin, DropJoin, ReactorGet, KernelComplete, done
    <2> QED
        BY <2>1, <2>2 DEF Abstract!vars
<1>3. CASE Reap
    <2>1. reaped' = reaped \o cq /\ cq' = << >> /\ Pending' = Pending
        BY <1>3, PlacedReap DEF Reap
    <2>2. Abstract!Reap
        BY <2>1 DEF Abstract!Reap
    <2> QED
        BY <2>2 DEF Abstract!Next
<1>4. ASSUME NEW h \in Handles, OneStarts(h)
      PROVE  Abstract!Next
    <2>1. UNCHANGED <<cq, reaped>> /\ NextFlow
        BY <1>4 DEF OneStarts, Starts, NextFlow
    <2> QED
        BY <1>4, <2>1, NewFlow, PlacedTurns, AbsSubmit
<1>5. CASE OnePosts
    <2>1. cq' = Append(cq, <<next_ud, 1>>) /\ reaped' = reaped /\ NextFlow
        BY <1>5 DEF OnePosts, Fails, NextFlow
    <2> QED
        BY <1>5, <2>1, NewFlow, PlacedTurns, AbsReject
<1>6. ASSUME NEW h \in target, BufferStarts(h)
      PROVE  Abstract!Next
    <2>1. UNCHANGED <<cq, reaped>> /\ left > 0 /\ h \in Handles
        BY <1>6 DEF BufferStarts, Starts, IInv, TypeOK
    <2> QED
        BY <1>6, <2>1, NewBuffer, PlacedTurns, AbsSubmit
<1>7. CASE BufferFails
    <2>1. cq' = Append(cq, <<next_ud - 1, left>>) /\ reaped' = reaped /\ left > 0
        BY <1>7 DEF BufferFails, Fails
    <2> QED
        BY <1>7, <2>1, NewBuffer, PlacedTurns, AbsReject
<1> QED
    BY <1>1, <1>2, <1>3, <1>4, <1>5, <1>6, <1>7, AbsComplete, StepCases

\* Each operation completes at most once, and reap returns every completion in
\* the order in which submit and the reactor queued them.
THEOREM Refinement == Spec => ImplementsBackend
<1>1. Init => Abstract!Init
    BY DEF Init, Abstract!Init, Pending, InKernel, InPort, InSeq
<1> QED
    BY <1>1, AbsStep, Invariance, PTL DEF Spec, ImplementsBackend, Abstract!Spec
=============================================================================

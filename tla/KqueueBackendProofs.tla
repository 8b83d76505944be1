------------------------- MODULE KqueueBackendProofs -------------------------
(***************************************************************************)
(* Proofs about KqueueBackend for any set of descriptors and workers, any  *)
(* size of the event array and any number of flows below 2^32.             *)
(***************************************************************************)
EXTENDS KqueueBackend, FiniteSetTheorems, SequenceTheorems, TLAPS

\* No value occurs twice.
Once(s) == \A i, j \in 1 .. Len(s) : s[i] = s[j] => i = j

\* F is the union of seven sets no two of which meet.
Partition(F, J, W, R, E, D, Q, P) ==
    /\ F = J \cup W \cup R \cup E \cup D \cup Q \cup P
    /\ J \cap (W \cup R \cup E \cup D \cup Q \cup P) = {}
    /\ W \cap (R \cup E \cup D \cup Q \cup P) = {}
    /\ R \cap (E \cup D \cup Q \cup P) = {}
    /\ E \cap (D \cup Q \cup P) = {}
    /\ D \cap (Q \cup P) = {}
    /\ Q \cap P = {}

\* Every flow submitted is in one place: a job, at a worker, registered, fetched,
\* displaced, completed or reaped.
OnePlace ==
    Partition(Flows, InSeq(jobs), Working, Registered, events, displaced, InSeq(cq), InSeq(reaped))

\* And there once.
OnceEach ==
    /\ Once(jobs) /\ Once(cq) /\ Once(reaped)
    /\ \A v, w \in Workers : running[v] = running[w] /\ running[v] \notin {None, Exited} => v = w
    /\ \A r, s \in Slots : reg[r] = reg[s] /\ reg[r] # None => r = s

\* in_flight is a count of flows, and the turns of submit that are not added yet
\* make up the rest.
Counted ==
    /\ in_flight + submitted + Len(reaped) = next_ud - 1
    /\ pc # "submit" => submitted = 0

\* A context is there for every flow that was registered and is not completed.
CtxExact == ctx = Registered \cup events \cup displaced

\* How far the threads are when drop has come so far.
DropPhase ==
    /\ closed => pc \in {"join_workers", "join_reactor", "dropped"}
    /\ \A w \in Workers : running[w] = Exited => closed /\ jobs = << >> /\ w \notin ringing
    /\ pc \in {"join_reactor", "dropped"} => \A w \in Workers : running[w] = Exited
    /\ reactor # "events" => events = {}
    /\ reactor \in {"kevent", "exited"} => Reactor \notin ringing
    /\ pc = "dropped" => reactor = "exited"

IInv == TypeOK /\ OnePlace /\ OnceEach /\ Counted /\ CtxExact /\ DropPhase

-----------------------------------------------------------------------------
(***************************************************************************)
(* Sequences that hold each value once.                                    *)
(***************************************************************************)

\* What InSeq says of a sequence.
LEMMA InSeqOf ==
    ASSUME NEW S, NEW s \in Seq(S)
    PROVE  /\ Len(s) \in Nat
           /\ InSeq(s) \subseteq S
           /\ \A i \in 1 .. Len(s) : s[i] \in InSeq(s)
           /\ \A x \in InSeq(s) : \E i \in 1 .. Len(s) : s[i] = x
           /\ s = << >> <=> InSeq(s) = {}
<1>1. Len(s) \in Nat /\ \A i \in 1 .. Len(s) : s[i] \in S
    BY LenProperties
<1>2. /\ InSeq(s) \subseteq S
      /\ \A i \in 1 .. Len(s) : s[i] \in InSeq(s)
      /\ \A x \in InSeq(s) : \E i \in 1 .. Len(s) : s[i] = x
    BY <1>1 DEF InSeq
<1>3. s = << >> => InSeq(s) = {}
    BY DEF InSeq
<1>4. s # << >> => InSeq(s) # {}
    <2>1. s # << >> => Len(s) \in Nat \ {0}
        BY EmptySeq
    <2> QED
        BY <1>2, <2>1
<1> QED
    BY <1>1, <1>2, <1>3, <1>4

\* Append adds its element, and keeps Once when the element is new.
LEMMA AppendOnce ==
    ASSUME NEW S, NEW s \in Seq(S), NEW e \in S
    PROVE  /\ Append(s, e) \in Seq(S) /\ Len(Append(s, e)) = Len(s) + 1
           /\ InSeq(Append(s, e)) = InSeq(s) \cup {e}
           /\ Once(s) /\ e \notin InSeq(s) => Once(Append(s, e))
<1> DEFINE a == Append(s, e)
           n == Len(s)
<1>1. /\ a \in Seq(S) /\ Len(a) = n + 1 /\ n \in Nat
      /\ \A i \in 1 .. n : a[i] = s[i]
      /\ a[n + 1] = e
    BY AppendProperties, LenProperties
<1> HIDE DEF a, n
<1>2. \A i \in 1 .. n + 1 : i \in 1 .. n \/ i = n + 1
    BY <1>1
<1>3. InSeq(s) = {s[i] : i \in 1 .. n} /\ InSeq(a) = {a[i] : i \in 1 .. n + 1}
    BY <1>1 DEF InSeq, n
<1>4. InSeq(a) = InSeq(s) \cup {e}
    <2>1. ASSUME NEW x \in InSeq(a)
          PROVE  x \in InSeq(s) \cup {e}
        <3>1. PICK i \in 1 .. n + 1 : x = a[i]
            BY <2>1, <1>3
        <3> QED
            BY <3>1, <1>1, <1>2, <1>3
    <2>2. ASSUME NEW x \in InSeq(s)
          PROVE  x \in InSeq(a)
        <3>1. PICK i \in 1 .. n : x = s[i]
            BY <2>2, <1>3
        <3>2. i \in 1 .. n + 1 /\ x = a[i]
            BY <3>1, <1>1
        <3> QED
            BY <3>2, <1>3
    <2>3. n + 1 \in 1 .. n + 1
        BY <1>1
    <2>4. e \in InSeq(a)
        BY <2>3, <1>1, <1>3
    <2> QED
        BY <2>1, <2>2, <2>4
<1>5. ASSUME Once(s), e \notin InSeq(s)
      PROVE  Once(a)
    <2> SUFFICES ASSUME NEW i \in 1 .. n + 1, NEW j \in 1 .. n + 1, a[i] = a[j]
                 PROVE  i = j
        BY <1>1 DEF Once
    <2>1. \A k \in 1 .. n : a[k] # e
        BY <1>1, <1>3, <1>5
    <2>2. CASE i = n + 1 \/ j = n + 1
        BY <2>1, <2>2, <1>1, <1>2
    <2>3. CASE i \in 1 .. n /\ j \in 1 .. n
        BY <2>3, <1>1, <1>5 DEF Once, n
    <2> QED
        BY <2>2, <2>3, <1>2
<1> QED
    BY <1>1, <1>4, <1>5 DEF a, n

\* Tail takes the head out and nothing else.
LEMMA TailOnce ==
    ASSUME NEW S, NEW s \in Seq(S), s # << >>, Once(s)
    PROVE  /\ Tail(s) \in Seq(S) /\ Head(s) \in InSeq(s)
           /\ InSeq(Tail(s)) = InSeq(s) \ {Head(s)} /\ Once(Tail(s))
<1> DEFINE t == Tail(s)
           n == Len(s)
<1>1. /\ t \in Seq(S) /\ Len(t) = n - 1 /\ n \in Nat \ {0}
      /\ \A i \in 1 .. n - 1 : t[i] = s[i + 1]
      /\ Head(s) = s[1]
    BY HeadTailProperties, EmptySeq
<1>2. \A i, j \in 1 .. n : s[i] = s[j] => i = j
    BY DEF Once
<1>3. InSeq(s) = {s[i] : i \in 1 .. n}
    BY DEF InSeq
<1> HIDE DEF t, n
<1>4. InSeq(t) = {t[i] : i \in 1 .. n - 1}
    BY <1>1 DEF InSeq
<1>5. 1 \in 1 .. n
    BY <1>1
<1>6. Head(s) \in InSeq(s)
    BY <1>1, <1>3, <1>5
<1>7. ASSUME NEW x \in InSeq(t)
      PROVE  x \in InSeq(s) \ {Head(s)}
    <2>1. PICK i \in 1 .. n - 1 : x = t[i]
        BY <1>4, <1>7
    <2>2. i + 1 \in 1 .. n /\ i + 1 # 1 /\ x = s[i + 1]
        BY <1>1, <2>1
    <2> QED
        BY <2>2, <1>1, <1>2, <1>3, <1>5
<1>8. ASSUME NEW x \in InSeq(s) \ {Head(s)}
      PROVE  x \in InSeq(t)
    <2>1. PICK i \in 1 .. n : x = s[i]
        BY <1>3, <1>8
    <2>2. i # 1
        BY <1>1, <1>8, <2>1
    <2>3. i - 1 \in 1 .. n - 1 /\ (i - 1) + 1 = i
        BY <1>1, <2>2
    <2>4. t[i - 1] = x
        BY <1>1, <2>1, <2>3
    <2> QED
        BY <1>4, <2>3, <2>4
<1>9. Once(t)
    <2> SUFFICES ASSUME NEW i \in 1 .. n - 1, NEW j \in 1 .. n - 1, t[i] = t[j]
                 PROVE  i = j
        BY <1>1 DEF Once
    <2>1. i + 1 \in 1 .. n /\ j + 1 \in 1 .. n /\ s[i + 1] = s[j + 1]
        BY <1>1
    <2> QED
        BY <1>1, <1>2, <2>1
<1> QED
    BY <1>1, <1>6, <1>7, <1>8, <1>9 DEF t, n

\* Concatenation adds up, and keeps Once when the parts have nothing in common.
LEMMA ConcatOnce ==
    ASSUME NEW S, NEW s \in Seq(S), NEW t \in Seq(S)
    PROVE  /\ s \o t \in Seq(S) /\ Len(s \o t) = Len(s) + Len(t)
           /\ InSeq(s \o t) = InSeq(s) \cup InSeq(t)
           /\ Once(s) /\ Once(t) /\ InSeq(s) \cap InSeq(t) = {} => Once(s \o t)
<1> DEFINE c == s \o t
           m == Len(s)
           n == Len(t)
<1>1. /\ c \in Seq(S) /\ Len(c) = m + n /\ m \in Nat /\ n \in Nat
      /\ \A i \in 1 .. m + n : c[i] = IF i <= m THEN s[i] ELSE t[i - m]
    BY ConcatProperties, LenProperties
<1>2. InSeq(s) = {s[i] : i \in 1 .. m} /\ InSeq(t) = {t[i] : i \in 1 .. n}
    BY DEF InSeq
<1>3. /\ Once(s) => \A i, j \in 1 .. m : s[i] = s[j] => i = j
      /\ Once(t) => \A i, j \in 1 .. n : t[i] = t[j] => i = j
    BY DEF Once
<1> HIDE DEF c, m, n
<1>4. \A i \in 1 .. m : i \in 1 .. m + n /\ c[i] = s[i]
    BY <1>1
<1>5. \A i \in 1 .. n : i + m \in 1 .. m + n /\ c[i + m] = t[i]
    <2> SUFFICES ASSUME NEW i \in 1 .. n
                 PROVE  i + m \in 1 .. m + n /\ c[i + m] = t[i]
        OBVIOUS
    <2>1. i + m \in 1 .. m + n /\ ~(i + m <= m) /\ (i + m) - m = i
        BY <1>1
    <2> QED
        BY <1>1, <2>1
<1>6. \A k \in 1 .. m + n : k \in 1 .. m \/ (k - m \in 1 .. n /\ (k - m) + m = k)
    BY <1>1
<1>7. InSeq(c) = {c[i] : i \in 1 .. m + n}
    BY <1>1 DEF InSeq
<1>8. InSeq(c) = InSeq(s) \cup InSeq(t)
    <2>1. ASSUME NEW x \in InSeq(c)
          PROVE  x \in InSeq(s) \cup InSeq(t)
        <3>1. PICK k \in 1 .. m + n : x = c[k]
            BY <1>7, <2>1
        <3>2. CASE k \in 1 .. m
            BY <3>1, <3>2, <1>2, <1>4
        <3>3. CASE k - m \in 1 .. n /\ (k - m) + m = k
            BY <3>1, <3>3, <1>2, <1>5
        <3> QED
            BY <3>2, <3>3, <1>6
    <2>2. ASSUME NEW x \in InSeq(s)
          PROVE  x \in InSeq(c)
        BY <2>2, <1>2, <1>4, <1>7
    <2>3. ASSUME NEW x \in InSeq(t)
          PROVE  x \in InSeq(c)
        BY <2>3, <1>2, <1>5, <1>7
    <2> QED
        BY <2>1, <2>2, <2>3
<1>9. ASSUME Once(s), Once(t), InSeq(s) \cap InSeq(t) = {}
      PROVE  Once(c)
    <2> SUFFICES ASSUME NEW i \in 1 .. m + n, NEW j \in 1 .. m + n, c[i] = c[j]
                 PROVE  i = j
        BY <1>1 DEF Once
    <2>1. CASE i \in 1 .. m /\ j \in 1 .. m
        BY <2>1, <1>3, <1>4, <1>9
    <2>2. CASE /\ i - m \in 1 .. n /\ (i - m) + m = i
               /\ j - m \in 1 .. n /\ (j - m) + m = j
        <3>1. t[i - m] = t[j - m]
            BY <2>2, <1>5
        <3>2. i - m = j - m
            BY <3>1, <2>2, <1>3, <1>9
        <3> QED
            BY <3>2, <2>2
    <2>3. CASE i \in 1 .. m /\ j - m \in 1 .. n /\ (j - m) + m = j
        <3>1. c[i] \in InSeq(s) /\ c[j] \in InSeq(t)
            BY <2>3, <1>2, <1>4, <1>5
        <3> QED
            BY <3>1, <1>9
    <2>4. CASE j \in 1 .. m /\ i - m \in 1 .. n /\ (i - m) + m = i
        <3>1. c[j] \in InSeq(s) /\ c[i] \in InSeq(t)
            BY <2>4, <1>2, <1>4, <1>5
        <3> QED
            BY <3>1, <1>9
    <2> QED
        BY <2>1, <2>2, <2>3, <2>4, <1>6
<1> QED
    BY <1>1, <1>8, <1>9 DEF c, m, n

\* A sequence that holds each value once is as long as it has values.
LEMMA OnceLen ==
    ASSUME NEW S, NEW s \in Seq(S), Once(s)
    PROVE  IsFiniteSet(InSeq(s)) /\ Cardinality(InSeq(s)) = Len(s)
<1>1. Len(s) \in Nat /\ s \in [1 .. Len(s) -> InSeq(s)]
    BY LenProperties, InSeqOf DEF InSeq
<1>2. s \in Surjection(1 .. Len(s), InSeq(s)) /\ s \in Injection(1 .. Len(s), InSeq(s))
    BY <1>1, InSeqOf DEF Surjection, Injection, IsInjective, Once
<1>3. IsFiniteSet(1 .. Len(s)) /\ Cardinality(1 .. Len(s)) = Len(s)
    BY <1>1, FS_Interval
<1> QED
    BY <1>2, <1>3, FS_Surjection

-----------------------------------------------------------------------------
(***************************************************************************)
(* What a step does to the sets of flows.                                  *)
(***************************************************************************)

\* The queues hold numbers, and the sentinels of running and reg are no flows.
LEMMA Basics ==
    ASSUME IInv
    PROVE  /\ next_ud \in Nat \ {0} /\ next_ud <= MaxFlows + 1
           /\ Flows \subseteq Nat \ {0} /\ next_ud \notin Flows
           /\ None \notin Flows /\ Exited \notin Flows
           /\ jobs \in Seq(Nat) /\ cq \in Seq(Nat) /\ reaped \in Seq(Nat)
           /\ InSeq(jobs) \subseteq Flows /\ InSeq(cq) \subseteq Flows /\ InSeq(reaped) \subseteq Flows
           /\ Working \subseteq Flows /\ Registered \subseteq Flows
<1>1. next_ud \in Nat \ {0} /\ next_ud <= MaxFlows + 1
    BY KqueueAssumption DEF IInv, TypeOK
<1>2. /\ Flows \subseteq Nat \ {0} /\ next_ud \notin Flows /\ Flows \subseteq Nat
      /\ None \notin Flows /\ Exited \notin Flows
    BY <1>1 DEF Flows, None, Exited
<1>3. jobs \in Seq(Flows) /\ cq \in Seq(Flows) /\ reaped \in Seq(Flows)
    BY DEF IInv, TypeOK
<1>4. jobs \in Seq(Nat) /\ cq \in Seq(Nat) /\ reaped \in Seq(Nat)
    BY <1>2, <1>3, SeqMonotonic
<1>5. InSeq(jobs) \subseteq Flows /\ InSeq(cq) \subseteq Flows /\ InSeq(reaped) \subseteq Flows
    BY <1>3, InSeqOf
<1>6. Working \subseteq Flows /\ Registered \subseteq Flows
    BY DEF IInv, TypeOK, Working, Registered
<1> QED
    BY <1>1, <1>2, <1>4, <1>5, <1>6

\* A turn of submit's loop adds one flow.
LEMMA FlowsGrow ==
    ASSUME IInv, next_ud' = next_ud + 1
    PROVE  Flows' = Flows \cup {next_ud} /\ next_ud \in Nat /\ next_ud \notin Flows
BY Basics DEF Flows

\* One worker changes what it works at.
LEMMA RunningEffect ==
    ASSUME IInv, NEW w \in Workers, NEW x \in Flows \cup {None, Exited},
           running' = [running EXCEPT ![w] = x]
    PROVE  Working' = (Working \ {running[w]}) \cup ({x} \ {None, Exited})
<1>1. \A v \in Workers : running'[v] = IF v = w THEN x ELSE running[v]
    BY DEF IInv, TypeOK
<1>2. \A v \in Workers : running[v] = running[w] /\ running[v] \notin {None, Exited} => v = w
    BY DEF IInv, OnceEach
<1>3. Working' = {running'[v] : v \in Workers} \ {None, Exited}
    BY DEF Working
<1>4. ASSUME NEW y \in Working'
      PROVE  y \in (Working \ {running[w]}) \cup ({x} \ {None, Exited})
    <2>1. PICK v \in Workers : y = running'[v] /\ y \notin {None, Exited}
        BY <1>3, <1>4
    <2> QED
        BY <2>1, <1>1, <1>2 DEF Working
<1>5. ASSUME NEW y \in Working \ {running[w]}
      PROVE  y \in Working'
    <2>1. PICK v \in Workers : y = running[v] /\ y \notin {None, Exited}
        BY <1>5 DEF Working
    <2>2. v # w
        BY <1>5, <2>1
    <2> QED
        BY <2>1, <2>2, <1>1, <1>3
<1>6. {x} \ {None, Exited} \subseteq Working'
    BY <1>1, <1>3
<1> QED
    BY <1>4, <1>5, <1>6

\* EV_ADD puts a flow into a slot.
LEMMA RegisterEffect ==
    ASSUME IInv, NEW slot \in Slots, reg' = [reg EXCEPT ![slot] = next_ud]
    PROVE  Registered' = (Registered \ {reg[slot]}) \cup {next_ud}
<1>1. \A s \in Slots : reg'[s] = IF s = slot THEN next_ud ELSE reg[s]
    BY DEF IInv, TypeOK
<1>2. \A s \in Slots : reg[s] = reg[slot] /\ reg[s] # None => s = slot
    BY DEF IInv, OnceEach
<1>3. Registered' = {reg'[s] : s \in Slots} \ {None} /\ next_ud # None
    BY Basics DEF Registered, None
<1>4. ASSUME NEW y \in Registered'
      PROVE  y \in (Registered \ {reg[slot]}) \cup {next_ud}
    <2>1. PICK s \in Slots : y = reg'[s] /\ y # None
        BY <1>3, <1>4
    <2> QED
        BY <2>1, <1>1, <1>2 DEF Registered
<1>5. ASSUME NEW y \in Registered \ {reg[slot]}
      PROVE  y \in Registered'
    <2>1. PICK s \in Slots : y = reg[s] /\ y # None
        BY <1>5 DEF Registered
    <2>2. s # slot
        BY <1>5, <2>1
    <2> QED
        BY <2>1, <2>2, <1>1, <1>3
<1>6. next_ud \in Registered'
    BY <1>1, <1>3
<1> QED
    BY <1>4, <1>5, <1>6

\* Slots are cleared: exactly their flows are not registered any more.
LEMMA ClearEffect ==
    ASSUME IInv, NEW C \in SUBSET Slots,
           reg' = [s \in Slots |-> IF s \in C THEN None ELSE reg[s]]
    PROVE  Registered' = Registered \ {reg[s] : s \in C}
<1>1. \A s \in Slots : reg'[s] = IF s \in C THEN None ELSE reg[s]
    OBVIOUS
<1>2. \A r, s \in Slots : reg[r] = reg[s] /\ reg[r] # None => r = s
    BY DEF IInv, OnceEach
<1>3. Registered' = {reg'[s] : s \in Slots} \ {None}
    BY DEF Registered
<1>4. ASSUME NEW y \in Registered'
      PROVE  y \in Registered \ {reg[s] : s \in C}
    <2>1. PICK s \in Slots : y = reg'[s] /\ y # None
        BY <1>3, <1>4
    <2>2. s \notin C /\ y = reg[s]
        BY <1>1, <2>1
    <2>3. \A r \in C : reg[r] # y
        BY <1>2, <2>1, <2>2
    <2> QED
        BY <2>1, <2>2, <2>3 DEF Registered
<1>5. ASSUME NEW y \in Registered \ {reg[s] : s \in C}
      PROVE  y \in Registered'
    <2>1. PICK s \in Slots : y = reg[s] /\ y # None
        BY <1>5 DEF Registered
    <2>2. s \notin C
        BY <1>5, <2>1
    <2> QED
        BY <2>1, <2>2, <1>1, <1>3
<1> QED
    BY <1>4, <1>5

-----------------------------------------------------------------------------
(***************************************************************************)
(* Every flow stays in one place.                                          *)
(***************************************************************************)

\* The three parts of the invariant that say where flows are.
Placed == OnePlace /\ OnceEach /\ CtxExact

\* A turn of submit that hands the flow to kqueue.
Registers(fd, filter) == NextFlow /\ RegisterSocket(fd, filter) /\ UNCHANGED jobs

\* A turn of submit that completes the flow at once.
Posts == NextFlow /\ PostCompletion(next_ud) /\ UNCHANGED <<kernel, ctx, jobs>>

\* What a turn of submit's loop may come to.
LEMMA SubmitCases ==
    ASSUME SubmitFlow
    PROVE  \/ SubmitFile
           \/ \E fd \in Fds, filter \in {"read", "write"} : Registers(fd, filter)
           \/ Posts
           \/ \E fd \in Fds : SubmitClose(fd)
BY DEF SubmitFlow, SubmitAccept, SubmitRecvSend, SubmitConnect, RegisterFails, Registers, Posts

\* Steps that move no flow.
LEMMA PlacedFrame ==
    ASSUME IInv, UNCHANGED <<next_ud, jobs, running, reg, events, displaced, cq, reaped, ctx>>
    PROVE  Placed'
BY DEF IInv, Placed, OnePlace, OnceEach, CtxExact, Flows, Working, Registered

\* A file operation becomes a job.
LEMMA PlacedFile ==
    ASSUME IInv, SubmitFile
    PROVE  Placed'
<1>1. /\ next_ud' = next_ud + 1 /\ jobs' = Append(jobs, next_ud)
      /\ UNCHANGED <<running, reg, events, displaced, cq, reaped, ctx>>
    BY DEF SubmitFile, NextFlow, kernel, thread
<1>2. Flows' = Flows \cup {next_ud} /\ next_ud \in Nat /\ next_ud \notin Flows
    BY <1>1, FlowsGrow
<1>3. InSeq(jobs') = InSeq(jobs) \cup {next_ud} /\ Once(jobs')
    BY <1>1, <1>2, Basics, AppendOnce DEF IInv, OnceEach
<1>4. /\ Working' = Working /\ Registered' = Registered
      /\ InSeq(cq)' = InSeq(cq) /\ InSeq(reaped)' = InSeq(reaped)
    BY <1>1 DEF Working, Registered
<1>5. OnePlace'
    BY <1>1, <1>2, <1>3, <1>4, Basics DEF IInv, OnePlace, Partition
<1> QED
    BY <1>1, <1>3, <1>4, <1>5 DEF IInv, Placed, OnceEach, CtxExact

\* A socket operation is registered; what was in its slot is displaced.
LEMMA PlacedRegisters ==
    ASSUME IInv, NEW fd \in Fds, NEW filter \in {"read", "write"}, Registers(fd, filter)
    PROVE  Placed'
<1> DEFINE slot == <<fd, filter>>
<1>1. /\ next_ud' = next_ud + 1 /\ slot \in Slots
      /\ reg' = [reg EXCEPT ![slot] = next_ud]
      /\ displaced' = displaced \cup ({reg[slot]} \ {None})
      /\ ctx' = ctx \cup {next_ud}
      /\ UNCHANGED <<jobs, running, events, cq, reaped>>
    BY DEF Registers, RegisterSocket, NextFlow, thread, Slots
<1> HIDE DEF slot
<1>2. Flows' = Flows \cup {next_ud} /\ next_ud \in Nat /\ next_ud \notin Flows
    BY <1>1, FlowsGrow
<1>3. Registered' = (Registered \ {reg[slot]}) \cup {next_ud}
    BY <1>1, RegisterEffect
<1>4. reg[slot] \in Registered \ {None} \/ (reg[slot] = None /\ None \notin Registered)
    BY <1>1 DEF IInv, TypeOK, Registered
<1>5. /\ Working' = Working
      /\ InSeq(jobs)' = InSeq(jobs) /\ InSeq(cq)' = InSeq(cq) /\ InSeq(reaped)' = InSeq(reaped)
    BY <1>1 DEF Working
<1>6. OnePlace'
    BY <1>1, <1>2, <1>3, <1>4, <1>5, Basics DEF IInv, OnePlace, Partition
<1>7. CtxExact'
    <2>1. ctx = Registered \cup events \cup displaced /\ events' = events
        BY <1>1 DEF IInv, CtxExact
    <2>2. Registered' \cup displaced' = Registered \cup displaced \cup {next_ud}
        BY <1>1, <1>3, <1>4
    <2> QED
        BY <1>1, <2>1, <2>2 DEF CtxExact
<1>8. OnceEach'
    <2>1. \A s \in Slots : reg'[s] = IF s = slot THEN next_ud ELSE reg[s]
        BY <1>1 DEF IInv, TypeOK
    <2>2. \A s \in Slots : reg[s] # next_ud
        <3>1. \A s \in Slots : reg[s] \in Flows \cup {None}
            BY DEF IInv, TypeOK
        <3> QED
            BY <3>1, Basics DEF None
    <2>3. \A r, s \in Slots : reg'[r] = reg'[s] /\ reg'[r] # None => r = s
        BY <2>1, <2>2 DEF IInv, OnceEach
    <2> QED
        BY <1>1, <2>3 DEF IInv, OnceEach
<1> QED
    BY <1>6, <1>7, <1>8 DEF Placed

\* An operation that cannot be started is completed at once.
LEMMA PlacedPosts ==
    ASSUME IInv, Posts
    PROVE  Placed'
<1>1. /\ next_ud' = next_ud + 1 /\ cq' = Append(cq, next_ud)
      /\ UNCHANGED <<jobs, running, reg, events, displaced, reaped, ctx>>
    BY DEF Posts, PostCompletion, NextFlow, kernel, thread
<1>2. Flows' = Flows \cup {next_ud} /\ next_ud \in Nat /\ next_ud \notin Flows
    BY <1>1, FlowsGrow
<1>3. InSeq(cq') = InSeq(cq) \cup {next_ud} /\ Once(cq')
    BY <1>1, <1>2, Basics, AppendOnce DEF IInv, OnceEach
<1>4. /\ Working' = Working /\ Registered' = Registered
      /\ InSeq(jobs)' = InSeq(jobs) /\ InSeq(reaped)' = InSeq(reaped)
    BY <1>1 DEF Working, Registered
<1>5. OnePlace'
    BY <1>1, <1>2, <1>3, <1>4, Basics DEF IInv, OnePlace, Partition
<1> QED
    BY <1>1, <1>3, <1>4, <1>5 DEF IInv, Placed, OnceEach, CtxExact

\* What a close does to the sets: the flows of the descriptor are displaced.
LEMMA CloseEffect ==
    ASSUME IInv, NEW fd \in Fds, SubmitClose(fd)
    PROVE  \E X \in SUBSET Registered :
              /\ Registered' = Registered \ X /\ displaced' = displaced \cup X
              /\ \A s \in Slots : reg'[s] \in {None, reg[s]}
<1> DEFINE C == {s \in Slots : s[1] = fd}
           X == {reg[s] : s \in C} \ {None}
<1>1. C = {fd} \X {"read", "write"}
    BY DEF Slots
<1>2. reg' = [s \in Slots |-> IF s \in C THEN None ELSE reg[s]]
    BY DEF SubmitClose
<1>3. displaced' = displaced \cup X
    BY <1>1 DEF SubmitClose
<1>4. C \in SUBSET Slots
    OBVIOUS
<1> HIDE DEF C
<1>5. Registered' = Registered \ {reg[s] : s \in C}
    BY <1>2, <1>4, ClearEffect
<1>6. X \in SUBSET Registered /\ Registered' = Registered \ X
    BY <1>4, <1>5 DEF Registered
<1>7. \A s \in Slots : reg'[s] \in {None, reg[s]}
    BY <1>2
<1> QED
    BY <1>3, <1>6, <1>7

\* A close is completed at once and displaces what was registered.
LEMMA PlacedClose ==
    ASSUME IInv, NEW fd \in Fds, SubmitClose(fd)
    PROVE  Placed'
<1>1. /\ next_ud' = next_ud + 1 /\ cq' = Append(cq, next_ud)
      /\ UNCHANGED <<jobs, running, events, reaped, ctx>>
    BY DEF SubmitClose, PostCompletion, NextFlow, thread
<1>2. Flows' = Flows \cup {next_ud} /\ next_ud \in Nat /\ next_ud \notin Flows
    BY <1>1, FlowsGrow
<1>3. InSeq(cq') = InSeq(cq) \cup {next_ud} /\ Once(cq')
    BY <1>1, <1>2, Basics, AppendOnce DEF IInv, OnceEach
<1>4. PICK X \in SUBSET Registered :
              /\ Registered' = Registered \ X /\ displaced' = displaced \cup X
              /\ \A s \in Slots : reg'[s] \in {None, reg[s]}
    BY CloseEffect
<1>5. /\ Working' = Working
      /\ InSeq(jobs)' = InSeq(jobs) /\ InSeq(reaped)' = InSeq(reaped)
    BY <1>1 DEF Working
<1>6. OnePlace'
    BY <1>1, <1>2, <1>3, <1>4, <1>5, Basics DEF IInv, OnePlace, Partition
<1>7. CtxExact'
    BY <1>1, <1>4 DEF IInv, CtxExact
<1>8. OnceEach'
    BY <1>1, <1>3, <1>4 DEF IInv, OnceEach
<1> QED
    BY <1>6, <1>7, <1>8 DEF Placed

\* A worker takes the oldest job.
LEMMA PlacedTake ==
    ASSUME IInv, NEW w \in Workers, WorkerTake(w)
    PROVE  Placed'
<1> DEFINE u == Head(jobs)
<1>1. /\ running[w] = None /\ jobs # << >> /\ running' = [running EXCEPT ![w] = u]
      /\ jobs' = Tail(jobs)
      /\ UNCHANGED <<next_ud, reg, events, displaced, cq, reaped, ctx>>
    BY DEF WorkerTake, caller, kernel, thread, done
<1>2. /\ u \in InSeq(jobs) /\ InSeq(jobs') = InSeq(jobs) \ {u} /\ Once(jobs')
    BY <1>1, Basics, TailOnce DEF IInv, OnceEach
<1> HIDE DEF u
<1>3. u \in Flows /\ u \notin {None, Exited}
    BY <1>2, Basics
<1>4. Working' = Working \cup {u}
    <2>1. Working' = (Working \ {running[w]}) \cup ({u} \ {None, Exited})
        BY <1>1, <1>3, RunningEffect
    <2> QED
        BY <1>1, <1>3, <2>1 DEF Working
<1>5. /\ Flows' = Flows /\ Registered' = Registered
      /\ InSeq(cq)' = InSeq(cq) /\ InSeq(reaped)' = InSeq(reaped)
    BY <1>1 DEF Flows, Registered
<1>6. OnePlace'
    BY <1>1, <1>2, <1>4, <1>5 DEF IInv, OnePlace, Partition
<1>7. CtxExact'
    BY <1>1, <1>5 DEF IInv, CtxExact
<1>8. OnceEach'
    <2>1. \A v \in Workers : running'[v] = IF v = w THEN u ELSE running[v]
        BY <1>1 DEF IInv, TypeOK
    <2>2. u \notin Working
        BY <1>2 DEF IInv, OnePlace, Partition
    <2>3. \A v \in Workers : running[v] # u
        BY <2>2, <1>3 DEF Working
    <2>4. \A v, x \in Workers : running'[v] = running'[x] /\ running'[v] \notin {None, Exited} => v = x
        BY <2>1, <2>3 DEF IInv, OnceEach
    <2> QED
        BY <1>1, <1>2, <2>4 DEF IInv, OnceEach
<1> QED
    BY <1>6, <1>7, <1>8 DEF Placed

\* A worker pushes the completion of its job.
LEMMA PlacedPush ==
    ASSUME IInv, NEW w \in Workers, WorkerPush(w)
    PROVE  Placed'
<1> DEFINE u == running[w]
<1>1. /\ u \notin {None, Exited} /\ running' = [running EXCEPT ![w] = None]
      /\ cq' = Append(cq, u)
      /\ UNCHANGED <<next_ud, jobs, reg, events, displaced, reaped, ctx>>
    BY DEF WorkerPush, caller, kernel, thread
<1>2. u \in Working /\ u \in Flows
    BY <1>1 DEF Working, IInv, TypeOK
<1>3. Working' = Working \ {u}
    <2>1. Working' = (Working \ {u}) \cup ({None} \ {None, Exited})
        BY <1>1, RunningEffect
    <2> QED
        BY <2>1
<1>4. \A v \in Workers : running'[v] = IF v = w THEN None ELSE running[v]
    BY <1>1 DEF IInv, TypeOK
<1> HIDE DEF u
<1>5. u \notin InSeq(cq) /\ u \in Nat
    BY <1>2, Basics DEF IInv, OnePlace, Partition
<1>6. InSeq(cq') = InSeq(cq) \cup {u} /\ Once(cq')
    BY <1>1, <1>5, Basics, AppendOnce DEF IInv, OnceEach
<1>7. /\ Flows' = Flows /\ Registered' = Registered
      /\ InSeq(jobs)' = InSeq(jobs) /\ InSeq(reaped)' = InSeq(reaped)
    BY <1>1 DEF Flows, Registered
<1>8. OnePlace'
    BY <1>1, <1>2, <1>3, <1>6, <1>7 DEF IInv, OnePlace, Partition
<1> QED
    BY <1>1, <1>4, <1>6, <1>7, <1>8 DEF IInv, Placed, OnceEach, CtxExact

\* A worker ends: it works at nothing before and after.
LEMMA PlacedExit ==
    ASSUME IInv, NEW w \in Workers, WorkerExit(w)
    PROVE  Placed'
<1>1. /\ running[w] = None /\ running' = [running EXCEPT ![w] = Exited]
      /\ UNCHANGED <<next_ud, jobs, reg, events, displaced, cq, reaped, ctx>>
    BY DEF WorkerExit, caller, kernel, thread, done
<1>2. Working' = Working
    <2>1. Working' = (Working \ {None}) \cup ({Exited} \ {None, Exited})
        BY <1>1, RunningEffect
    <2> QED
        BY <2>1 DEF Working
<1>3. \A v \in Workers : running'[v] = IF v = w THEN Exited ELSE running[v]
    BY <1>1 DEF IInv, TypeOK
<1>4. Flows' = Flows /\ Registered' = Registered
    BY <1>1 DEF Flows, Registered
<1> QED
    BY <1>1, <1>2, <1>3, <1>4 DEF IInv, Placed, OnePlace, OnceEach, CtxExact

\* kevent returns registrations and, one-shot, removes them.
LEMMA PlacedFetch ==
    ASSUME IInv, NEW S \in SUBSET Flows, ReactorFetch(S)
    PROVE  Placed'
<1> DEFINE C == {s \in Slots : reg[s] \in S}
<1>1. /\ reactor = "kevent" /\ S \subseteq Registered /\ events' = S
      /\ reg' = [s \in Slots |-> IF reg[s] \in S THEN None ELSE reg[s]]
      /\ UNCHANGED <<next_ud, jobs, running, displaced, cq, reaped, ctx>>
    BY DEF ReactorFetch, caller, pool, done
<1>2. reg' = [s \in Slots |-> IF s \in C THEN None ELSE reg[s]] /\ C \in SUBSET Slots
    BY <1>1
<1>3. {reg[s] : s \in C} = S
    BY <1>1 DEF Registered
<1> HIDE DEF C
<1>4. Registered' = Registered \ S
    BY <1>2, <1>3, ClearEffect
<1>5. events = {}
    BY <1>1 DEF IInv, DropPhase
<1>6. /\ Flows' = Flows /\ Working' = Working
      /\ InSeq(jobs)' = InSeq(jobs) /\ InSeq(cq)' = InSeq(cq) /\ InSeq(reaped)' = InSeq(reaped)
    BY <1>1 DEF Flows, Working
<1>7. OnePlace'
    BY <1>1, <1>4, <1>5, <1>6 DEF IInv, OnePlace, Partition
<1>8. CtxExact'
    BY <1>1, <1>4, <1>5 DEF IInv, CtxExact
<1>9. \A s \in Slots : reg'[s] \in {None, reg[s]}
    BY <1>1
<1> QED
    BY <1>1, <1>7, <1>8, <1>9 DEF IInv, Placed, OnceEach

\* The reactor handles one event: its context is freed, its completion pushed.
LEMMA PlacedEvent ==
    ASSUME IInv, NEW u \in Flows, ReactorEvent(u)
    PROVE  Placed'
<1>1. /\ u \in events /\ events' = events \ {u} /\ ctx' = ctx \ {u} /\ cq' = Append(cq, u)
      /\ UNCHANGED <<next_ud, jobs, running, reg, displaced, reaped>>
    BY DEF ReactorEvent, caller, pool, kernel
<1>2. u \notin InSeq(cq) /\ u \in Nat
    BY <1>1, Basics DEF IInv, OnePlace, Partition
<1>3. InSeq(cq') = InSeq(cq) \cup {u} /\ Once(cq')
    BY <1>1, <1>2, Basics, AppendOnce DEF IInv, OnceEach
<1>4. /\ Flows' = Flows /\ Working' = Working /\ Registered' = Registered
      /\ InSeq(jobs)' = InSeq(jobs) /\ InSeq(reaped)' = InSeq(reaped)
    BY <1>1 DEF Flows, Working, Registered
<1>5. OnePlace'
    BY <1>1, <1>3, <1>4 DEF IInv, OnePlace, Partition
<1>6. CtxExact'
    BY <1>1, <1>4 DEF IInv, CtxExact, OnePlace, Partition
<1> QED
    BY <1>1, <1>3, <1>4, <1>5, <1>6 DEF IInv, Placed, OnceEach

\* reap takes the whole queue.
LEMMA PlacedReap ==
    ASSUME IInv, Reap
    PROVE  Placed'
<1>1. /\ reaped' = reaped \o cq /\ cq' = << >>
      /\ UNCHANGED <<next_ud, jobs, running, reg, events, displaced, ctx>>
    BY DEF Reap, caller, pool, kernel, thread
<1>2. /\ InSeq(reaped') = InSeq(reaped) \cup InSeq(cq) /\ Once(reaped')
      /\ InSeq(cq') = {} /\ Once(cq')
    <2>1. InSeq(reaped) \cap InSeq(cq) = {}
        BY DEF IInv, OnePlace, Partition
    <2>2. InSeq(reaped') = InSeq(reaped) \cup InSeq(cq) /\ Once(reaped')
        BY <1>1, <2>1, Basics, ConcatOnce DEF IInv, OnceEach
    <2>3. InSeq(<< >>) = {} /\ Once(<< >>)
        BY DEF InSeq, Once
    <2> QED
        BY <1>1, <2>2, <2>3
<1>3. /\ Flows' = Flows /\ Working' = Working /\ Registered' = Registered
      /\ InSeq(jobs)' = InSeq(jobs)
    BY <1>1 DEF Flows, Working, Registered
<1>4. OnePlace'
    BY <1>1, <1>2, <1>3 DEF IInv, OnePlace, Partition
<1> QED
    BY <1>1, <1>2, <1>3, <1>4 DEF IInv, Placed, OnceEach, CtxExact

\* Closing the kqueue displaces every registration that is left.
LEMMA PlacedJoinReactor ==
    ASSUME IInv, DropJoinReactor
    PROVE  Placed'
<1>1. /\ reg' = [s \in Slots |-> None] /\ displaced' = displaced \cup Registered
      /\ UNCHANGED <<next_ud, jobs, running, events, cq, reaped, ctx>>
    BY DEF DropJoinReactor, pool, thread, done
<1>2. Registered' = {}
    BY <1>1 DEF Registered
<1>3. /\ Flows' = Flows /\ Working' = Working
      /\ InSeq(jobs)' = InSeq(jobs) /\ InSeq(cq)' = InSeq(cq) /\ InSeq(reaped)' = InSeq(reaped)
    BY <1>1 DEF Flows, Working
<1>4. OnePlace'
    BY <1>1, <1>2, <1>3 DEF IInv, OnePlace, Partition
<1> QED
    BY <1>1, <1>2, <1>4 DEF IInv, Placed, OnceEach, CtxExact




-----------------------------------------------------------------------------
(***************************************************************************)
(* Counts, types and the phases of drop.                                   *)
(***************************************************************************)

\* What is queued or reaped was submitted, once.
LEMMA QueueBound ==
    ASSUME IInv
    PROVE  /\ Len(cq) \in Nat /\ Len(reaped) \in Nat
           /\ IsFiniteSet(Flows) /\ Cardinality(Flows) = next_ud - 1
           /\ Cardinality(Pending) = next_ud - 1 - Len(cq) - Len(reaped)
           /\ Len(cq) + Len(reaped) <= next_ud - 1
<1> DEFINE A == InSeq(cq) \cup InSeq(reaped)
<1>1. /\ IsFiniteSet(InSeq(cq)) /\ Cardinality(InSeq(cq)) = Len(cq)
      /\ IsFiniteSet(InSeq(reaped)) /\ Cardinality(InSeq(reaped)) = Len(reaped)
      /\ Len(cq) \in Nat /\ Len(reaped) \in Nat
    BY Basics, OnceLen, LenProperties DEF IInv, OnceEach
<1>2. InSeq(cq) \cap InSeq(reaped) = {} /\ A \subseteq Flows
    BY Basics DEF IInv, OnePlace, Partition
<1>3. IsFiniteSet(A) /\ Cardinality(A) = Len(cq) + Len(reaped)
    <2>1. IsFiniteSet(A) /\ Cardinality(A) = Len(cq) + Len(reaped) - Cardinality({})
        BY <1>1, <1>2, FS_Union
    <2> QED
        BY <1>1, <2>1, FS_EmptySet
<1>4. IsFiniteSet(Flows) /\ Cardinality(Flows) = next_ud - 1
    <2>1. 1 \in Int /\ next_ud - 1 \in Int /\ next_ud - 1 >= 0
        BY Basics
    <2>2. IsFiniteSet(1 .. next_ud - 1)
          /\ Cardinality(1 .. next_ud - 1) = IF 1 > next_ud - 1 THEN 0 ELSE (next_ud - 1) - 1 + 1
        BY <2>1, FS_Interval
    <2> QED
        BY <2>1, <2>2 DEF Flows
<1> HIDE DEF A
<1>5. IsFiniteSet(Pending) /\ Pending \cup A = Flows /\ Pending \cap A = {}
    BY <1>2, <1>4, FS_Subset DEF Pending, A
<1>6. Cardinality(Flows) = Cardinality(Pending) + Cardinality(A)
    <2>1. Cardinality(Pending \cup A) = Cardinality(Pending) + Cardinality(A) - Cardinality({})
        BY <1>3, <1>5, FS_Union
    <2>2. Cardinality(Pending) \in Nat /\ Cardinality(A) \in Nat /\ Cardinality({}) = 0
        BY <1>3, <1>5, FS_CardinalityType, FS_EmptySet
    <2> QED
        BY <1>5, <2>1, <2>2
<1>7. Cardinality(Pending) \in Nat
    BY <1>5, FS_CardinalityType
<1>8. next_ud \in Nat
    BY Basics
<1>9. next_ud - 1 = Cardinality(Pending) + (Len(cq) + Len(reaped))
    BY <1>3, <1>4, <1>6
<1> QED
    BY <1>1, <1>4, <1>7, <1>8, <1>9

\* in_flight and the turns of submit never exceed the flows there are.
LEMMA CountBound ==
    ASSUME IInv
    PROVE  /\ in_flight \in Nat /\ submitted \in Nat /\ in_flight + submitted < U32
           /\ submitted <= next_ud - 1
           /\ pc # "submit" => Len(cq) <= in_flight
<1>1. in_flight \in Nat /\ submitted \in Nat /\ MaxFlows \in Nat /\ U32 \in Nat /\ MaxFlows < U32
    BY KqueueAssumption DEF IInv, TypeOK
<1>2. in_flight + submitted + Len(reaped) = next_ud - 1
    BY DEF IInv, Counted
<1>3. next_ud \in Nat /\ next_ud <= MaxFlows + 1
    BY Basics
<1>4. pc # "submit" => submitted = 0
    BY DEF IInv, Counted
<1> QED
    BY <1>1, <1>2, <1>3, <1>4, QueueBound

\* The count of submit and the wrapping arithmetic of in_flight keep track.
LEMMA CountedStep == IInv /\ [Next]_vars => Counted'
<1> SUFFICES ASSUME IInv, [Next]_vars
             PROVE  Counted'
    OBVIOUS
<1>1. CASE SubmitBegin
    BY <1>1 DEF IInv, TypeOK, Counted, SubmitBegin, caller, pool, kernel, thread, done
<1>2. CASE SubmitFile
    BY <1>2, QueueBound DEF IInv, TypeOK, Counted, SubmitFile, NextFlow, caller, pool, kernel, thread, done
<1>3. ASSUME NEW fd \in Fds, NEW filter \in {"read", "write"}, Registers(fd, filter)
      PROVE  Counted'
    BY <1>3, QueueBound DEF IInv, TypeOK, Counted, Registers, NextFlow, RegisterSocket, caller, pool, kernel, thread, done
<1>4. CASE Posts
    BY <1>4, QueueBound DEF IInv, TypeOK, Counted, Posts, NextFlow, caller, pool, kernel, thread, done
<1>5. ASSUME NEW fd \in Fds, SubmitClose(fd)
      PROVE  Counted'
    <2>1. /\ pc = "submit" /\ next_ud' = next_ud + 1 /\ submitted' = submitted + 1
          /\ UNCHANGED <<pc, in_flight, reaped>>
        BY <1>5 DEF SubmitClose, NextFlow
    <2> QED
        BY <2>1, QueueBound DEF IInv, TypeOK, Counted
<1>6. CASE SubmitEnd
    <2>1. in_flight' = in_flight + submitted
        BY <1>6, CountBound, KqueueAssumption DEF SubmitEnd
    <2> QED
        BY <1>6, <2>1, CountBound, QueueBound, Basics DEF IInv, Counted, SubmitEnd
<1>7. CASE Reap
    <2> DEFINE d == in_flight - Len(cq)
    <2>1. d \in Nat /\ d < U32 /\ in_flight' = d % U32
        BY <1>7, CountBound, QueueBound, KqueueAssumption DEF Reap
    <2> HIDE DEF d
    <2>2. in_flight' = d
        BY <2>1, KqueueAssumption
    <2>3. in_flight' = in_flight - Len(cq)
        BY <2>2 DEF d
    <2>4. Len(reaped') = Len(reaped) + Len(cq)
        BY <1>7, Basics, ConcatOnce DEF Reap
    <2> QED
        BY <1>7, <2>3, <2>4, CountBound, QueueBound, Basics DEF IInv, Counted, Reap, caller
<1>8. ASSUME NEW t \in BOOLEAN, WaitBegin(t)
      PROVE  Counted'
    BY <1>8 DEF IInv, TypeOK, Counted, WaitBegin, caller, pool, kernel, thread, done
<1>9. CASE WaitStep
    BY <1>9 DEF IInv, TypeOK, Counted, WaitStep, WaitSleep, WaitReturn, WaitTimeout, caller, pool, kernel, thread, done
<1>10. CASE DropBegin
    BY <1>10 DEF IInv, TypeOK, Counted, DropBegin, caller, pool, kernel, thread, done
<1>11. CASE DropJoinWorkers
    BY <1>11 DEF IInv, TypeOK, Counted, DropJoinWorkers, caller, pool, kernel, thread, done
<1>12. CASE DropJoinReactor
    BY <1>12 DEF IInv, TypeOK, Counted, DropJoinReactor, caller, pool, kernel, thread, done
<1>13. ASSUME NEW w \in Workers, WorkerTake(w)
      PROVE  Counted'
    BY <1>13 DEF IInv, TypeOK, Counted, WorkerTake, caller, pool, kernel, thread, done
<1>14. ASSUME NEW w \in Workers, WorkerPush(w)
      PROVE  Counted'
    BY <1>14 DEF IInv, TypeOK, Counted, WorkerPush, caller, pool, kernel, thread, done
<1>15. ASSUME NEW w \in Workers, WorkerExit(w)
      PROVE  Counted'
    BY <1>15 DEF IInv, TypeOK, Counted, WorkerExit, caller, pool, kernel, thread, done
<1>16. ASSUME NEW w \in Workers \cup {Reactor}, NotifyOne(w)
      PROVE  Counted'
    BY <1>16 DEF IInv, TypeOK, Counted, NotifyOne, caller, pool, kernel, thread, done
<1>17. CASE ReactorTop
    BY <1>17 DEF IInv, TypeOK, Counted, ReactorTop, caller, pool, kernel, thread, done
<1>18. CASE ReactorTimeout
    BY <1>18 DEF IInv, TypeOK, Counted, ReactorTimeout, caller, pool, kernel, thread, done
<1>19. CASE ReactorFails
    BY <1>19 DEF IInv, TypeOK, Counted, ReactorFails, caller, pool, kernel, thread, done
<1>20. ASSUME NEW S \in SUBSET Flows, ReactorFetch(S)
      PROVE  Counted'
    BY <1>20 DEF IInv, TypeOK, Counted, ReactorFetch, caller, pool, kernel, thread, done
<1>21. ASSUME NEW u \in Flows, ReactorEvent(u)
      PROVE  Counted'
    BY <1>21 DEF IInv, TypeOK, Counted, ReactorEvent, caller, pool, kernel, thread, done
<1>22. CASE UNCHANGED vars
    BY <1>22 DEF IInv, TypeOK, Counted, vars, caller, pool, kernel, thread, done
<1> QED
    BY <1>1, <1>2, <1>3, <1>4, <1>5, <1>6, <1>7, <1>8, <1>9, <1>10, <1>11, <1>12, <1>13, <1>14, <1>15, <1>16, <1>17, <1>18, <1>19, <1>20, <1>21, <1>22, SubmitCases DEF Next, Drop, Worker, ReactorStep

\* Drop waits for every thread, and a thread leaves only when it may.
LEMMA DropStep == IInv /\ [Next]_vars => DropPhase'
<1> SUFFICES ASSUME IInv, [Next]_vars
             PROVE  DropPhase'
    OBVIOUS
<1>1. CASE SubmitBegin
    BY <1>1 DEF IInv, TypeOK, DropPhase, SubmitBegin, caller, pool, kernel, thread, done
<1>2. CASE SubmitFile
    BY <1>2 DEF IInv, TypeOK, DropPhase, SubmitFile, NextFlow, caller, pool, kernel, thread, done
<1>3. ASSUME NEW fd \in Fds, NEW filter \in {"read", "write"}, Registers(fd, filter)
      PROVE  DropPhase'
    BY <1>3 DEF IInv, TypeOK, DropPhase, Registers, NextFlow, RegisterSocket, caller, pool, kernel, thread, done
<1>4. CASE Posts
    BY <1>4 DEF IInv, TypeOK, DropPhase, Posts, NextFlow, PostCompletion, caller, pool, kernel, thread, done
<1>5. ASSUME NEW fd \in Fds, SubmitClose(fd)
      PROVE  DropPhase'
    BY <1>5 DEF IInv, TypeOK, DropPhase, SubmitClose, NextFlow, PostCompletion, caller, pool, kernel, thread, done
<1>6. CASE SubmitEnd
    BY <1>6 DEF IInv, TypeOK, DropPhase, SubmitEnd, caller, pool, kernel, thread, done
<1>7. CASE Reap
    BY <1>7 DEF IInv, TypeOK, DropPhase, Reap, caller, pool, kernel, thread, done
<1>8. ASSUME NEW t \in BOOLEAN, WaitBegin(t)
      PROVE  DropPhase'
    BY <1>8 DEF IInv, TypeOK, DropPhase, WaitBegin, caller, pool, kernel, thread, done
<1>9. CASE WaitStep
    BY <1>9 DEF IInv, TypeOK, DropPhase, WaitStep, WaitSleep, WaitReturn, WaitTimeout, caller, pool, kernel, thread, done
<1>10. CASE DropBegin
    BY <1>10 DEF IInv, TypeOK, DropPhase, DropBegin, caller, pool, kernel, thread, done
<1>11. CASE DropJoinWorkers
    BY <1>11 DEF IInv, TypeOK, DropPhase, DropJoinWorkers, caller, pool, kernel, thread, done
<1>12. CASE DropJoinReactor
    BY <1>12 DEF IInv, TypeOK, DropPhase, DropJoinReactor, caller, pool, kernel, thread, done
<1>13. ASSUME NEW w \in Workers, WorkerTake(w)
      PROVE  DropPhase'
    <2>1. /\ running[w] = None /\ jobs # << >> /\ jobs' = Tail(jobs)
          /\ UNCHANGED <<pc, closed, ringing, reactor, events>>
        BY <1>13 DEF WorkerTake, caller, thread
    <2>2. Head(jobs) # Exited
        <3>1. Head(jobs) \in Flows
            BY <2>1, HeadTailProperties DEF IInv, TypeOK
        <3> QED
            BY <3>1, Basics
    <2>3. \A v \in Workers : running'[v] = IF v = w THEN Head(jobs) ELSE running[v]
        BY <1>13 DEF WorkerTake, IInv, TypeOK
    <2>4. \A v \in Workers : running[v] # Exited
        BY <2>1 DEF IInv, DropPhase
    <2> QED
        BY <2>1, <2>2, <2>3, <2>4 DEF IInv, DropPhase
<1>14. ASSUME NEW w \in Workers, WorkerPush(w)
      PROVE  DropPhase'
    <2>1. /\ running[w] \notin {None, Exited} /\ ringing' = ringing \cup {w} /\ w # Reactor
          /\ UNCHANGED <<pc, jobs, closed, reactor, events>>
        BY <1>14, KqueueAssumption DEF WorkerPush, caller, thread, Reactor
    <2>2. \A v \in Workers : running'[v] = IF v = w THEN None ELSE running[v]
        BY <1>14 DEF WorkerPush, IInv, TypeOK
    <2>3. None # Exited
        BY DEF None, Exited
    <2> QED
        BY <2>1, <2>2, <2>3 DEF IInv, DropPhase
<1>15. ASSUME NEW w \in Workers, WorkerExit(w)
      PROVE  DropPhase'
    BY <1>15 DEF IInv, TypeOK, DropPhase, WorkerExit, caller, pool, kernel, thread, done
<1>16. ASSUME NEW w \in Workers \cup {Reactor}, NotifyOne(w)
      PROVE  DropPhase'
    BY <1>16 DEF IInv, TypeOK, DropPhase, NotifyOne, caller, pool, kernel, thread, done
<1>17. CASE ReactorTop
    BY <1>17 DEF IInv, TypeOK, DropPhase, ReactorTop, caller, pool, kernel, thread, done
<1>18. CASE ReactorTimeout
    BY <1>18 DEF IInv, TypeOK, DropPhase, ReactorTimeout, caller, pool, kernel, thread, done
<1>19. CASE ReactorFails
    BY <1>19 DEF IInv, TypeOK, DropPhase, ReactorFails, caller, pool, kernel, thread, done
<1>20. ASSUME NEW S \in SUBSET Flows, ReactorFetch(S)
      PROVE  DropPhase'
    BY <1>20 DEF IInv, TypeOK, DropPhase, ReactorFetch, caller, pool, kernel, thread, done
<1>21. ASSUME NEW u \in Flows, ReactorEvent(u)
      PROVE  DropPhase'
    <2>1. /\ reactor = "events" /\ u \in events /\ events' = events \ {u}
          /\ reactor' = IF events = {u} THEN "top" ELSE "events"
          /\ ringing' = ringing \cup {Reactor} /\ Reactor \notin Workers
          /\ UNCHANGED <<pc, jobs, closed, running>>
        BY <1>21, KqueueAssumption DEF ReactorEvent, caller, pool, Reactor
    <2> QED
        BY <2>1 DEF IInv, DropPhase
<1>22. CASE UNCHANGED vars
    BY <1>22 DEF IInv, TypeOK, DropPhase, vars, caller, pool, kernel, thread, done
<1> QED
    BY <1>1, <1>2, <1>3, <1>4, <1>5, <1>6, <1>7, <1>8, <1>9, <1>10, <1>11, <1>12, <1>13, <1>14, <1>15, <1>16, <1>17, <1>18, <1>19, <1>20, <1>21, <1>22, SubmitCases DEF Next, Drop, Worker, ReactorStep

\* A turn of submit's loop: more flows, so every typing set grows.
LEMMA GrowTypes ==
    ASSUME IInv, NextFlow
    PROVE  /\ next_ud' \in 1 .. MaxFlows + 1 /\ submitted' \in 0 .. MaxFlows
           /\ Flows \subseteq Flows' /\ next_ud \in Flows'
           /\ jobs \in Seq(Flows') /\ cq \in Seq(Flows') /\ reaped \in Seq(Flows')
           /\ running \in [Workers -> Flows' \cup {None, Exited}]
           /\ reg \in [Slots -> Flows' \cup {None}]
           /\ displaced \subseteq Flows' /\ events \subseteq Flows' /\ ctx \subseteq Flows'
<1>1. /\ next_ud <= MaxFlows /\ next_ud' = next_ud + 1 /\ submitted' = submitted + 1
    BY DEF NextFlow
<1>2. Flows' = Flows \cup {next_ud}
    BY <1>1, FlowsGrow
<1>3. next_ud' \in 1 .. MaxFlows + 1 /\ submitted' \in 0 .. MaxFlows
    BY <1>1, CountBound, Basics, KqueueAssumption
<1>4. /\ jobs \in Seq(Flows) /\ cq \in Seq(Flows) /\ reaped \in Seq(Flows)
      /\ running \in [Workers -> Flows \cup {None, Exited}]
      /\ reg \in [Slots -> Flows \cup {None}]
      /\ displaced \subseteq Flows /\ events \subseteq Flows /\ ctx \subseteq Flows
    BY DEF IInv, TypeOK
<1>5. jobs \in Seq(Flows') /\ cq \in Seq(Flows') /\ reaped \in Seq(Flows')
    BY <1>2, <1>4, SeqMonotonic
<1> QED
    BY <1>2, <1>3, <1>4, <1>5

\* Every step keeps the types.
LEMMA TypeStep == IInv /\ [Next]_vars => TypeOK'
<1> SUFFICES ASSUME IInv, [Next]_vars
             PROVE  TypeOK'
    OBVIOUS
<1>1. CASE SubmitBegin
    BY <1>1 DEF IInv, TypeOK, Flows, SubmitBegin, caller, pool, kernel, thread, done
<1>2. CASE SubmitFile
    BY <1>2, GrowTypes, AppendProperties DEF IInv, TypeOK, SubmitFile, NextFlow, caller, pool, kernel, thread, done
<1>3. ASSUME NEW fd \in Fds, NEW filter \in {"read", "write"}, Registers(fd, filter)
      PROVE  TypeOK'
    BY <1>3, GrowTypes, AppendProperties DEF IInv, TypeOK, Registers, RegisterSocket, NextFlow, Slots, caller, pool, kernel, thread, done
<1>4. CASE Posts
    BY <1>4, GrowTypes, AppendProperties DEF IInv, TypeOK, Posts, PostCompletion, NextFlow, caller, pool, kernel, thread, done
<1>5. ASSUME NEW fd \in Fds, SubmitClose(fd)
      PROVE  TypeOK'
    BY <1>5, GrowTypes, AppendProperties DEF IInv, TypeOK, SubmitClose, PostCompletion, NextFlow, Slots, caller, pool, kernel, thread, done
<1>6. CASE SubmitEnd
    <2>1. in_flight + submitted \in Int /\ U32 \in Nat \ {0}
        BY CountBound, KqueueAssumption
    <2>2. (in_flight + submitted) % U32 \in 0 .. U32 - 1
        BY <2>1
    <2> QED
        BY <1>6, <2>2, KqueueAssumption DEF IInv, TypeOK, Flows, SubmitEnd, pool, kernel, thread
<1>7. CASE Reap
    <2>1. in_flight - Len(cq) \in Int /\ U32 \in Nat \ {0}
        BY CountBound, QueueBound, KqueueAssumption
    <2>2. (in_flight - Len(cq)) % U32 \in 0 .. U32 - 1
        BY <2>1
    <2>3. reaped \o cq \in Seq(Flows) /\ << >> \in Seq(Flows)
        BY ConcatProperties, EmptySeq DEF IInv, TypeOK
    <2> QED
        BY <1>7, <2>2, <2>3 DEF IInv, TypeOK, Flows, Reap, caller, pool, kernel, thread
<1>8. ASSUME NEW t \in BOOLEAN, WaitBegin(t)
      PROVE  TypeOK'
    BY <1>8 DEF IInv, TypeOK, Flows, WaitBegin, caller, pool, kernel, thread, done
<1>9. CASE WaitStep
    BY <1>9 DEF IInv, TypeOK, Flows, WaitStep, WaitSleep, WaitReturn, WaitTimeout, caller, pool, kernel, thread, done
<1>10. CASE DropBegin
    BY <1>10 DEF IInv, TypeOK, Flows, DropBegin, caller, pool, kernel, thread, done
<1>11. CASE DropJoinWorkers
    BY <1>11 DEF IInv, TypeOK, Flows, DropJoinWorkers, caller, pool, kernel, thread, done
<1>12. CASE DropJoinReactor
    BY <1>12, Basics DEF IInv, TypeOK, Flows, DropJoinReactor, pool, thread, done
<1>13. ASSUME NEW w \in Workers, WorkerTake(w)
      PROVE  TypeOK'
    BY <1>13 DEF IInv, TypeOK, Flows, WorkerTake, caller, pool, kernel, thread, done
<1>14. ASSUME NEW w \in Workers, WorkerPush(w)
      PROVE  TypeOK'
    BY <1>14 DEF IInv, TypeOK, Flows, WorkerPush, caller, pool, kernel, thread, done
<1>15. ASSUME NEW w \in Workers, WorkerExit(w)
      PROVE  TypeOK'
    BY <1>15 DEF IInv, TypeOK, Flows, WorkerExit, caller, pool, kernel, thread, done
<1>16. ASSUME NEW w \in Workers \cup {Reactor}, NotifyOne(w)
      PROVE  TypeOK'
    BY <1>16 DEF IInv, TypeOK, Flows, NotifyOne, caller, pool, kernel, thread, done
<1>17. CASE ReactorTop
    BY <1>17 DEF IInv, TypeOK, Flows, ReactorTop, caller, pool, kernel, thread, done
<1>18. CASE ReactorTimeout
    BY <1>18 DEF IInv, TypeOK, Flows, ReactorTimeout, caller, pool, kernel, thread, done
<1>19. CASE ReactorFails
    BY <1>19 DEF IInv, TypeOK, Flows, ReactorFails, caller, pool, kernel, thread, done
<1>20. ASSUME NEW S \in SUBSET Flows, ReactorFetch(S)
      PROVE  TypeOK'
    BY <1>20 DEF IInv, TypeOK, Flows, ReactorFetch, caller, pool, kernel, thread, done
<1>21. ASSUME NEW u \in Flows, ReactorEvent(u)
      PROVE  TypeOK'
    BY <1>21 DEF IInv, TypeOK, Flows, ReactorEvent, caller, pool, kernel, thread, done
<1>22. CASE UNCHANGED vars
    BY <1>22 DEF IInv, TypeOK, Flows, vars, caller, pool, kernel, thread, done
<1> QED
    BY <1>1, <1>2, <1>3, <1>4, <1>5, <1>6, <1>7, <1>8, <1>9, <1>10, <1>11, <1>12, <1>13, <1>14, <1>15, <1>16, <1>17, <1>18, <1>19, <1>20, <1>21, <1>22, SubmitCases DEF Next, Drop, Worker, ReactorStep

-----------------------------------------------------------------------------
(***************************************************************************)
(* The invariant and what it implies.                                      *)
(***************************************************************************)

\* Every step of the caller, the workers and the reactor keeps each flow in one
\* place, once.
LEMMA PlacedStep == IInv /\ [Next]_vars => Placed'
<1> SUFFICES ASSUME IInv, [Next]_vars
             PROVE  Placed'
    OBVIOUS
<1>1. CASE SubmitFlow
    BY <1>1, SubmitCases, PlacedFile, PlacedRegisters, PlacedPosts, PlacedClose
<1>2. CASE Reap \/ DropJoinReactor
    BY <1>2, PlacedReap, PlacedJoinReactor
<1>3. ASSUME NEW w \in Workers, WorkerTake(w) \/ WorkerPush(w) \/ WorkerExit(w)
      PROVE  Placed'
    BY <1>3, PlacedTake, PlacedPush, PlacedExit
<1>4. ASSUME NEW S \in SUBSET Flows, ReactorFetch(S)
      PROVE  Placed'
    BY <1>4, PlacedFetch
<1>5. ASSUME NEW u \in Flows, ReactorEvent(u)
      PROVE  Placed'
    BY <1>5, PlacedEvent
<1>6. CASE SubmitBegin \/ SubmitEnd \/ (\E t \in BOOLEAN : WaitBegin(t)) \/ WaitStep
    BY <1>6, PlacedFrame DEF SubmitBegin, SubmitEnd, WaitBegin, WaitStep, WaitSleep,
       WaitReturn, WaitTimeout, caller, pool, kernel, thread, done
<1>7. CASE DropBegin \/ DropJoinWorkers \/ (\E w \in Workers \cup {Reactor} : NotifyOne(w))
    BY <1>7, PlacedFrame DEF DropBegin, DropJoinWorkers, NotifyOne, caller, pool, kernel, thread, done
<1>8. CASE ReactorTop \/ ReactorTimeout \/ ReactorFails \/ UNCHANGED vars
    BY <1>8, PlacedFrame DEF ReactorTop, ReactorTimeout, ReactorFails, vars, caller, pool,
       kernel, thread, done
<1> QED
    BY <1>1, <1>2, <1>3, <1>4, <1>5, <1>6, <1>7, <1>8 DEF Next, Drop, Worker, ReactorStep

\* KqueueBackend::new satisfies the invariant.
LEMMA IInvInit == Init => IInv
<1> SUFFICES ASSUME Init
             PROVE  IInv
    OBVIOUS
<1>1. Flows = {} /\ Working = {} /\ Registered = {}
    BY DEF Init, Flows, Working, Registered
<1>2. InSeq(<< >>) = {} /\ Once(<< >>)
    BY DEF InSeq, Once
<1>3. TypeOK
    <2>1. 0 \in 0 .. MaxFlows /\ 1 \in 1 .. MaxFlows + 1 /\ 0 \in 0 .. U32 - 1
        BY KqueueAssumption
    <2> QED
        BY <2>1, EmptySeq DEF Init, TypeOK
<1>4. OnePlace /\ CtxExact
    BY <1>1, <1>2 DEF Init, OnePlace, Partition, CtxExact
<1>5. OnceEach /\ Counted /\ DropPhase
    BY <1>2 DEF Init, OnceEach, Counted, DropPhase, None, Exited
<1> QED
    BY <1>3, <1>4, <1>5 DEF IInv

\* The invariant holds in every reachable state.
THEOREM Invariance == Spec => []IInv
<1>1. IInv /\ [Next]_vars => IInv'
    BY PlacedStep, TypeStep, CountedStep, DropStep DEF IInv, Placed
<1> QED
    BY <1>1, IInvInit, PTL DEF Spec

\* Sets that do not meet add up.
LEMMA DisjointCard ==
    ASSUME NEW A, NEW B, IsFiniteSet(A), IsFiniteSet(B), A \cap B = {}
    PROVE  /\ IsFiniteSet(A \cup B)
           /\ Cardinality(A \cup B) = Cardinality(A) + Cardinality(B)
           /\ Cardinality(A) \in Nat /\ Cardinality(B) \in Nat
<1>1. IsFiniteSet(A \cup B) /\ Cardinality(A \cup B) = Cardinality(A) + Cardinality(B) - Cardinality({})
    BY FS_Union
<1>2. Cardinality({}) = 0 /\ Cardinality(A) \in Nat /\ Cardinality(B) \in Nat
    BY FS_EmptySet, FS_CardinalityType
<1> QED
    BY <1>1, <1>2

\* A flow that has not completed is in the hands of one thread, or displaced.
LEMMA NothingLost ==
    ASSUME IInv
    PROVE  NoFlowLost
<1> DEFINE J == InSeq(jobs)
           JW == J \cup Working
           JWR == JW \cup Registered
           JWRE == JWR \cup events
<1>1. /\ Pending = JWRE \cup displaced
      /\ J \cap Working = {} /\ JW \cap Registered = {} /\ JWR \cap events = {}
      /\ JWRE \cap displaced = {}
    BY DEF IInv, OnePlace, Partition, Pending
<1>2. IsFiniteSet(Flows)
    BY QueueBound
<1>3. IsFiniteSet(Working) /\ IsFiniteSet(Registered) /\ IsFiniteSet(events) /\ IsFiniteSet(displaced)
    BY <1>2, Basics, FS_Subset DEF IInv, TypeOK
<1>4. IsFiniteSet(J) /\ Cardinality(J) = Len(jobs)
    BY Basics, OnceLen DEF IInv, OnceEach
<1> HIDE DEF J, JW, JWR, JWRE
<1>5. IsFiniteSet(JW) /\ Cardinality(JW) = Len(jobs) + Cardinality(Working)
    BY <1>1, <1>3, <1>4, DisjointCard DEF JW
<1>6. IsFiniteSet(JWR) /\ Cardinality(JWR) = Cardinality(JW) + Cardinality(Registered)
    BY <1>1, <1>3, <1>5, DisjointCard DEF JWR
<1>7. IsFiniteSet(JWRE) /\ Cardinality(JWRE) = Cardinality(JWR) + Cardinality(events)
    BY <1>1, <1>3, <1>6, DisjointCard DEF JWRE
<1>8. Cardinality(Pending) = Cardinality(JWRE) + Cardinality(displaced)
    BY <1>1, <1>3, <1>7, DisjointCard
<1>9. Len(jobs) + Cardinality(Working) + Cardinality(Registered)
         + Cardinality(events) + Cardinality(displaced) = Cardinality(Pending)
    BY <1>5, <1>6, <1>7, <1>8
<1> QED
    BY <1>1, <1>9 DEF NoFlowLost, J, JW, JWR, JWRE

\* Types, in_flight and the places of the flows agree: nothing is lost, counted
\* twice or forgotten, and fetch_sub never wraps below zero.
THEOREM AccountExactHolds == Spec => []AccountExact
<1>1. IInv => AccountExact
    <2> SUFFICES ASSUME IInv
                 PROVE  AccountExact
        OBVIOUS
    <2>1. InFlightExact
        <3> SUFFICES ASSUME pc \in {"idle", "wait"}
                     PROVE  in_flight = Cardinality(Pending) + Len(cq)
            BY DEF InFlightExact
        <3>1. submitted = 0 /\ in_flight + submitted + Len(reaped) = next_ud - 1
            BY DEF IInv, Counted
        <3> QED
            BY <3>1, QueueBound, CountBound, Basics
    <2> QED
        BY <2>1, NothingLost DEF AccountExact, IInv
<1> QED
    BY <1>1, Invariance, PTL

\* A context has one owner until it is freed once, and no thread is left when
\* drop has returned.
THEOREM ContextsOwnedHolds == Spec => []ContextsOwned
<1>1. IInv => ContextsOwned
    <2> SUFFICES ASSUME IInv
                 PROVE  ContextsOwned
        OBVIOUS
    <2>1. /\ Registered \cup events \subseteq ctx
          /\ ctx \ (Registered \cup events) \subseteq displaced
        BY DEF IInv, CtxExact
    <2>2. Registered \cap events = {}
        BY DEF IInv, OnePlace, Partition
    <2>3. ASSUME pc = "dropped"
          PROVE  Working = {} /\ jobs = << >> /\ events = {} /\ ringing = {}
        <3>1. /\ \A w \in Workers : running[w] = Exited /\ jobs = << >> /\ w \notin ringing
              /\ reactor = "exited" /\ events = {} /\ Reactor \notin ringing
            BY <2>3 DEF IInv, DropPhase
        <3>2. ringing \subseteq Workers \cup {Reactor} /\ Workers # {}
            BY KqueueAssumption DEF IInv, TypeOK
        <3> QED
            BY <3>1, <3>2 DEF Working
    <2> QED
        BY <2>1, <2>2, <2>3 DEF ContextsOwned
<1> QED
    BY <1>1, Invariance, PTL

-----------------------------------------------------------------------------
(***************************************************************************)
(* The backend keeps the promises of the Backend trait.                    *)
(***************************************************************************)

\* InSeq of the two modules is the same set.
LEMMA SameInSeq == \A s : Abstract!InSeq(s) = InSeq(s)
BY DEF Abstract!InSeq, InSeq

\* What Append adds to a queue.
LEMMA AddedByAppend ==
    ASSUME NEW S, NEW s \in Seq(S), NEW e \in S
    PROVE  SubSeq(Append(s, e), Len(s) + 1, Len(Append(s, e))) = <<e>>
<1> DEFINE a == Append(s, e)
           k == Len(s) + 1
           d == SubSeq(a, k, k)
<1>1. a \in Seq(S) /\ Len(a) = k /\ k \in Nat /\ a[k] = e
    BY AppendProperties, LenProperties
<1> HIDE DEF a, k
<1>2. k \in Int /\ \A i \in k .. k : a[i] \in S
    BY <1>1
<1>3. d \in Seq(S) /\ Len(d) = 1 /\ d[1] = e
    <2>1. /\ d \in Seq(S)
          /\ Len(d) = IF k <= k THEN k - k + 1 ELSE 0
          /\ \A i \in 1 .. k - k + 1 : d[i] = a[k + i - 1]
        BY <1>2, SubSeqProperties
    <2> HIDE DEF d
    <2>2. k <= k /\ k - k + 1 = 1 /\ k + 1 - 1 = k
        BY <1>2
    <2> QED
        BY <1>1, <2>1, <2>2
<1> HIDE DEF d
<1>4. <<e>> \in Seq(S) /\ Len(<<e>>) = 1 /\ <<e>>[1] = e
    OBVIOUS
<1>5. d = <<e>>
    <2>1. \A i \in 1 .. Len(d) : d[i] = <<e>>[i]
        BY <1>3, <1>4
    <2> QED
        BY <1>3, <1>4, <2>1, SeqEqual
<1> QED
    BY <1>1, <1>5 DEF a, k, d

\* An operation handed over is a Submit of the trait.
LEMMA AbsSubmit ==
    ASSUME IInv, next_ud <= MaxFlows, next_ud' = next_ud + 1, UNCHANGED <<cq, reaped>>
    PROVE  Abstract!Next
<1>1. Flows' = Flows \cup {next_ud} /\ next_ud \notin Flows
    BY FlowsGrow
<1>2. Pending' = Pending \cup {next_ud}
    BY <1>1, Basics DEF Pending
<1>3. next_ud \in 1 .. MaxFlows
    BY Basics, KqueueAssumption
<1>4. next_ud \in Abstract!Unused
    BY <1>1, <1>3, Basics, SameInSeq DEF Abstract!Unused, Pending
<1>5. Abstract!Submit({next_ud}) /\ {next_ud} \in SUBSET (1 .. MaxFlows)
    BY <1>2, <1>3, <1>4 DEF Abstract!Submit
<1> QED
    BY <1>5 DEF Abstract!Next

\* An operation that submit completes itself is a Reject of the trait.
LEMMA AbsReject ==
    ASSUME IInv, next_ud <= MaxFlows, next_ud' = next_ud + 1,
           cq' = Append(cq, next_ud), UNCHANGED reaped
    PROVE  Abstract!Next
<1>1. Flows' = Flows \cup {next_ud} /\ next_ud \notin Flows /\ next_ud \in Nat
    BY FlowsGrow
<1>2. InSeq(cq') = InSeq(cq) \cup {next_ud}
    BY <1>1, Basics, AppendOnce
<1>3. Pending' = Pending
    BY <1>1, <1>2, Basics DEF Pending
<1>4. next_ud \in 1 .. MaxFlows
    BY Basics, KqueueAssumption
<1>5. next_ud \in Abstract!Unused
    BY <1>1, <1>4, Basics, SameInSeq DEF Abstract!Unused, Pending
<1>6. Abstract!Reject(next_ud)
    BY <1>3, <1>5 DEF Abstract!Reject
<1> QED
    BY <1>4, <1>6 DEF Abstract!Next

\* A completion pushed by a worker or the reactor is a Complete of the trait.
LEMMA AbsComplete ==
    ASSUME IInv, NEW u \in Pending, cq' = Append(cq, u), UNCHANGED <<next_ud, reaped>>
    PROVE  Abstract!Next
<1>1. u \in Nat /\ u \notin InSeq(cq) /\ u \notin InSeq(reaped)
    BY Basics DEF Pending
<1>2. InSeq(cq') = InSeq(cq) \cup {u} /\ Flows' = Flows
    BY <1>1, Basics, AppendOnce DEF Flows
<1>3. Pending' = Pending \ {u}
    BY <1>2 DEF Pending
<1>4. Abstract!Added = <<u>>
    BY <1>1, Basics, AddedByAppend DEF Abstract!Added
<1>5. cq' = cq \o <<u>>
    BY <1>1, Basics, AppendIsConcat
<1>6. InSeq(<<u>>) = {u} /\ \A i, j \in 1 .. Len(<<u>>) : <<u>>[i] = <<u>>[j] => i = j
    BY DEF InSeq
<1>7. Abstract!Complete(<<u>>)
    BY <1>3, <1>5, <1>6, SameInSeq DEF Abstract!Complete
<1> QED
    BY <1>4, <1>7 DEF Abstract!Next

\* Every step is a step of the trait's contract or invisible to it.
LEMMA AbsStep == IInv /\ [Next]_vars => [Abstract!Next]_(Abstract!vars)
<1> SUFFICES ASSUME IInv, [Next]_vars
             PROVE  [Abstract!Next]_(Abstract!vars)
    OBVIOUS
<1>1. ASSUME UNCHANGED <<next_ud, cq, reaped>>
      PROVE  UNCHANGED Abstract!vars
    BY <1>1 DEF Abstract!vars, Pending, Flows
<1>2. CASE SubmitFlow
    <2>1. CASE SubmitFile
        BY <2>1, AbsSubmit DEF SubmitFile, NextFlow
    <2>2. ASSUME NEW fd \in Fds, NEW filter \in {"read", "write"}, Registers(fd, filter)
          PROVE  Abstract!Next
        BY <2>2, AbsSubmit DEF Registers, RegisterSocket, NextFlow
    <2>3. CASE Posts
        BY <2>3, AbsReject DEF Posts, PostCompletion, NextFlow
    <2>4. ASSUME NEW fd \in Fds, SubmitClose(fd)
          PROVE  Abstract!Next
        BY <2>4, AbsReject DEF SubmitClose, PostCompletion, NextFlow
    <2> QED
        BY <1>2, <2>1, <2>2, <2>3, <2>4, SubmitCases
<1>3. ASSUME NEW w \in Workers, WorkerPush(w)
      PROVE  Abstract!Next
    <2>1. running[w] \in Working
        BY <1>3 DEF WorkerPush, Working
    <2>2. running[w] \in Pending
        BY <2>1 DEF IInv, OnePlace, Partition, Pending
    <2> QED
        BY <1>3, <2>2, AbsComplete DEF WorkerPush, caller
<1>4. ASSUME NEW u \in Flows, ReactorEvent(u)
      PROVE  Abstract!Next
    <2>1. u \in Pending
        BY <1>4 DEF ReactorEvent, IInv, OnePlace, Partition, Pending
    <2> QED
        BY <1>4, <2>1, AbsComplete DEF ReactorEvent, caller
<1>5. CASE Reap
    <2>1. /\ reaped' = reaped \o cq /\ cq' = << >> /\ next_ud' = next_ud
        BY <1>5 DEF Reap, caller
    <2>2. InSeq(reaped') = InSeq(reaped) \cup InSeq(cq)
        BY <2>1, Basics, ConcatOnce
    <2>3. InSeq(cq') = {}
        BY <2>1 DEF InSeq
    <2>4. Pending' = Pending
        BY <2>1, <2>2, <2>3 DEF Pending, Flows
    <2>5. Abstract!Reap
        BY <2>1, <2>4 DEF Abstract!Reap
    <2> QED
        BY <2>5 DEF Abstract!Next
<1>6. CASE SubmitBegin \/ SubmitEnd \/ (\E t \in BOOLEAN : WaitBegin(t)) \/ WaitStep \/ Drop
    BY <1>1, <1>6 DEF SubmitBegin, SubmitEnd, WaitBegin, WaitStep, WaitSleep, WaitReturn,
       WaitTimeout, Drop, DropBegin, DropJoinWorkers, DropJoinReactor, caller, done
<1>7. ASSUME NEW w \in Workers, WorkerTake(w) \/ WorkerExit(w) \/ NotifyOne(w)
      PROVE  UNCHANGED Abstract!vars
    BY <1>1, <1>7 DEF WorkerTake, WorkerExit, NotifyOne, caller, done
<1>8. CASE ReactorTop \/ ReactorTimeout \/ ReactorFails \/ NotifyOne(Reactor)
           \/ (\E S \in SUBSET Flows : ReactorFetch(S)) \/ UNCHANGED vars
    BY <1>1, <1>8 DEF ReactorTop, ReactorTimeout, ReactorFails, NotifyOne, ReactorFetch, vars,
       caller, done
<1> QED
    BY <1>2, <1>3, <1>4, <1>5, <1>6, <1>7, <1>8 DEF Next, Worker, ReactorStep

\* Each flow completes at most once, and reap returns every completion in the
\* order in which the workers, the reactor and submit pushed them.
THEOREM Refinement == Spec => ImplementsBackend
<1>1. Init => Abstract!Init
    BY DEF Init, Abstract!Init, Pending, Flows
<1> QED
    BY <1>1, AbsStep, Invariance, PTL DEF Spec, ImplementsBackend, Abstract!Spec
=============================================================================

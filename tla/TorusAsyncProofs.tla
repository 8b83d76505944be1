-------------------------- MODULE TorusAsyncProofs ---------------------------
(***************************************************************************)
(* Proofs about TorusAsync for any set of futures, any outcomes the         *)
(* backend may report and any number of reaped batches.                    *)
(***************************************************************************)
EXTENDS TorusAsync, FiniteSetTheorems, TLAPS

-----------------------------------------------------------------------------
\* A non-empty queue is its head followed by its tail, entry by entry.
LEMMA HeadTailFacts ==
    ASSUME NEW S, NEW q \in Seq(S), q # << >>
    PROVE  /\ Len(q) \in Nat \ {0}
           /\ Head(q) = q[1] /\ Head(q) \in S
           /\ Tail(q) \in Seq(S) /\ Len(Tail(q)) = Len(q) - 1
           /\ \A i \in 1 .. Len(q) - 1 : Tail(q)[i] = q[i + 1]
  OBVIOUS

\* ToPoll yields a Poll::Ready value.
LEMMA ToPollType ==
    ASSUME NEW r \in Int
    PROVE  ToPoll(r) \in [ok : BOOLEAN, val : Int]
  BY DEF ToPoll, ErrOs, is_ok

-----------------------------------------------------------------------------
(***************************************************************************)
(* Type correctness.                                                       *)
(***************************************************************************)

\* TypeOK holds initially.
LEMMA TypeInit == Init => TypeOK
<1>1. EmptyMap = [x \in {} |-> NoValue] /\ DOMAIN EmptyMap = {}
  BY DEF EmptyMap
<1>2. EmptyMap \in [DOMAIN EmptyMap -> Futures] /\ EmptyMap \in [DOMAIN EmptyMap -> Outcomes]
  BY <1>1 DEF EmptyMap
<1>3. QED
  BY <1>1, <1>2 DEF Init, TypeOK, Polls, Completions

\* Every step preserves TypeOK.
LEMMA TypeStep == TypeOK /\ [Next]_vars => TypeOK'
<1> SUFFICES ASSUME TypeOK, [Next]_vars PROVE TypeOK'
  OBVIOUS
<1>1. ASSUME NEW f \in Futures, PollInit(f) PROVE TypeOK'
  BY <1>1 DEF TypeOK, PollInit, Polls, backendVars, reaperVars
<1>2. ASSUME NEW f \in Futures, SubmitOk(f) PROVE TypeOK'
  BY <1>2 DEF TypeOK, SubmitOk, Polls, registryVars, reaperVars
<1>3. ASSUME NEW f \in Futures, SubmitErr(f) PROVE TypeOK'
  BY <1>3, SubmitErrorsAssumption
  DEF TypeOK, SubmitErr, Polls, registryVars, backendVars, reaperVars, ErrOs
<1>4. ASSUME NEW f \in Futures, RegisterFirst(f) PROVE TypeOK'
  <2>1. DOMAIN wakers' \subseteq Nat /\ wakers' \in [DOMAIN wakers' -> Futures]
    BY <1>4 DEF Insert, TypeOK, RegisterFirst
  <2>2. QED
    BY <1>4, <2>1 DEF TypeOK, RegisterFirst, Polls, backendVars, reaperVars
<1>5. ASSUME NEW f \in Futures, PollWaiting(f) PROVE TypeOK'
  <2>1. DOMAIN wakers' \subseteq Nat /\ wakers' \in [DOMAIN wakers' -> Futures]
    BY <1>5 DEF Insert, TypeOK, PollWaiting
  <2>2. QED
    BY <1>5, <2>1 DEF TypeOK, PollWaiting, Polls, backendVars, reaperVars
<1>6. ASSUME NEW f \in Futures, TakeNone(f) PROVE TypeOK'
  BY <1>6 DEF TypeOK, TakeNone, Polls, registryVars, backendVars, reaperVars
<1>7. ASSUME NEW f \in Futures, TakeSome(f) PROVE TypeOK'
  <2>1. DOMAIN results' \subseteq Nat /\ results' \in [DOMAIN results' -> Outcomes]
    BY <1>7 DEF Remove, TypeOK, TakeSome
  <2>2. results[user_data[f]] \in Int
    BY <1>7, OutcomesAssumption DEF TypeOK, TakeSome
  <2>3. returned' \in [Futures -> {NoValue} \cup [ok : BOOLEAN, val : Int]]
    BY <1>7, <2>2, ToPollType DEF TypeOK, TakeSome
  <2>4. QED
    BY <1>7, <2>1, <2>3 DEF TypeOK, TakeSome, Polls, backendVars, reaperVars
<1>8. ASSUME NEW f \in Futures, UnregisterWaker(f) PROVE TypeOK'
  <2>1. DOMAIN wakers' \subseteq Nat /\ wakers' \in [DOMAIN wakers' -> Futures]
    BY <1>8 DEF Remove, TypeOK, UnregisterWaker
  <2>2. QED
    BY <1>8, <2>1 DEF TypeOK, UnregisterWaker, Polls, backendVars, reaperVars
<1>9. ASSUME NEW f \in Futures, UnregisterResult(f) PROVE TypeOK'
  <2>1. DOMAIN results' \subseteq Nat /\ results' \in [DOMAIN results' -> Outcomes]
    BY <1>9 DEF Remove, TypeOK, UnregisterResult
  <2>2. QED
    BY <1>9, <2>1 DEF TypeOK, UnregisterResult, Polls, backendVars, reaperVars
<1>10. ASSUME NEW f \in Futures, DropFuture(f) PROVE TypeOK'
  BY <1>10 DEF TypeOK, DropFuture, Polls, registryVars, backendVars, reaperVars
<1>11. ASSUME NEW f \in Futures, SpuriousWake(f) PROVE TypeOK'
  BY <1>11 DEF TypeOK, SpuriousWake, Polls, futureVars, registryVars, backendVars, reaperVars
<1>12. ASSUME NEW u \in in_flight, BackendComplete(u) PROVE TypeOK'
  <2>1. PICK r \in Outcomes : /\ cq' = Append(cq, TorusResult(r, u))
                              /\ produced' = Insert(produced, u, r)
    BY <1>12 DEF BackendComplete
  <2>2. u \in Nat /\ TorusResult(r, u) \in Completions
    BY DEF TypeOK, TorusResult, Completions
  <2>3. DOMAIN produced' \subseteq Nat /\ produced' \in [DOMAIN produced' -> Outcomes]
    BY <2>1, <2>2 DEF Insert, TypeOK
  <2>4. cq' \in Seq(Completions)
    BY <2>1, <2>2 DEF TypeOK
  <2>5. QED
    BY <1>12, <2>3, <2>4 DEF TypeOK, BackendComplete, futureVars, registryVars, reaperVars
<1>13. CASE ReaperReap
  BY <1>13 DEF TypeOK, ReaperReap, futureVars, registryVars
<1>14. CASE ReaperSleep
  BY <1>14 DEF TypeOK, ReaperSleep, futureVars, registryVars, backendVars
<1>15. CASE CompleteInsert
  <2>1. Head(batch) \in Completions
    BY <1>15, HeadTailFacts DEF TypeOK, CompleteInsert
  <2>2. DOMAIN results' \subseteq Nat /\ results' \in [DOMAIN results' -> Outcomes]
    BY <1>15, <2>1 DEF Insert, TypeOK, CompleteInsert, Completions
  <2>3. QED
    BY <1>15, <2>2 DEF TypeOK, CompleteInsert, futureVars, backendVars
<1>16. CASE CompleteWake
  <2>1. Tail(batch) \in Seq(Completions)
    BY <1>16, HeadTailFacts DEF TypeOK, CompleteWake
  <2> DEFINE u == Head(batch).user_data
  <2>2. /\ DOMAIN wakers' \subseteq Nat /\ wakers' \in [DOMAIN wakers' -> Futures]
        /\ awake' \in [Futures -> BOOLEAN]
    <3>1. CASE u \in DOMAIN wakers
      <4>1. wakers' = Remove(wakers, u) /\ awake' = [awake EXCEPT ![wakers[u]] = TRUE]
        BY <1>16, <3>1 DEF CompleteWake
      <4>2. DOMAIN wakers' \subseteq Nat /\ wakers' \in [DOMAIN wakers' -> Futures]
        BY <4>1 DEF Remove, TypeOK
      <4>3. awake' \in [Futures -> BOOLEAN]
        BY <3>1, <4>1 DEF TypeOK
      <4>4. QED
        BY <4>2, <4>3
    <3>2. CASE u \notin DOMAIN wakers
      BY <1>16, <3>2 DEF TypeOK, CompleteWake
    <3>3. QED
      BY <3>1, <3>2
  <2>3. QED
    BY <1>16, <2>1, <2>2 DEF TypeOK, CompleteWake, futureVars, backendVars
<1>17. CASE DropTorusAsync
  BY <1>17 DEF TypeOK, DropTorusAsync, futureVars, registryVars, backendVars, reaperVars
<1>18. CASE UNCHANGED vars
  BY <1>18 DEF TypeOK, vars, futureVars, registryVars, backendVars, reaperVars
<1>19. QED
  BY <1>1, <1>2, <1>3, <1>4, <1>5, <1>6, <1>7, <1>8, <1>9, <1>10, <1>11, <1>12,
     <1>13, <1>14, <1>15, <1>16, <1>17, <1>18
  DEF Next, PollStep, Reaper

\* In every reachable state of TorusAsync each variable has its type.
THEOREM TypeCorrect == Spec => []TypeOK
  BY TypeInit, TypeStep, PTL DEF Spec

-----------------------------------------------------------------------------
(***************************************************************************)
(* The inductive invariant, one lemma per conjunct, one step per action.   *)
(***************************************************************************)

\* No step takes a future's FutureState out of line with its program counter.
LEMMA PhasesStep == TypeOK /\ Phases /\ [Next]_vars => Phases'
<1> SUFFICES ASSUME TypeOK, Phases, [Next]_vars PROVE Phases'
  OBVIOUS
<1> USE DEF futureVars, registryVars, backendVars, reaperVars
<1>1. ASSUME NEW f \in Futures, PollInit(f) PROVE Phases'
  BY <1>1 DEF TypeOK, Phases, Unfinished, Unregistering, PollInit
<1>2. ASSUME NEW f \in Futures, SubmitOk(f) PROVE Phases'
  BY <1>2 DEF TypeOK, Phases, Unfinished, Unregistering, SubmitOk
<1>3. ASSUME NEW f \in Futures, SubmitErr(f) PROVE Phases'
  BY <1>3 DEF TypeOK, Phases, Unfinished, Unregistering, SubmitErr
<1>4. ASSUME NEW f \in Futures, RegisterFirst(f) PROVE Phases'
  BY <1>4 DEF TypeOK, Phases, Unfinished, Unregistering, RegisterFirst
<1>5. ASSUME NEW f \in Futures, PollWaiting(f) PROVE Phases'
  BY <1>5 DEF TypeOK, Phases, Unfinished, Unregistering, PollWaiting
<1>6. ASSUME NEW f \in Futures, TakeNone(f) PROVE Phases'
  BY <1>6 DEF TypeOK, Phases, Unfinished, Unregistering, TakeNone
<1>7. ASSUME NEW f \in Futures, TakeSome(f) PROVE Phases'
  BY <1>7 DEF TypeOK, Phases, Unfinished, Unregistering, TakeSome
<1>8. ASSUME NEW f \in Futures, UnregisterWaker(f) PROVE Phases'
  BY <1>8 DEF TypeOK, Phases, Unfinished, Unregistering, UnregisterWaker
<1>9. ASSUME NEW f \in Futures, UnregisterResult(f) PROVE Phases'
  BY <1>9 DEF TypeOK, Phases, Unfinished, Unregistering, UnregisterResult
<1>10. ASSUME NEW f \in Futures, DropFuture(f) PROVE Phases'
  BY <1>10 DEF TypeOK, Phases, Unfinished, Unregistering, DropFuture
<1>11. ASSUME NEW f \in Futures, SpuriousWake(f) PROVE Phases'
  BY <1>11 DEF TypeOK, Phases, Unfinished, Unregistering, SpuriousWake
<1>12. ASSUME NEW u \in in_flight, BackendComplete(u) PROVE Phases'
  BY <1>12 DEF TypeOK, Phases, Unfinished, Unregistering, BackendComplete
<1>13. CASE ReaperReap
  BY <1>13 DEF TypeOK, Phases, Unfinished, Unregistering, ReaperReap
<1>14. CASE ReaperSleep
  BY <1>14 DEF TypeOK, Phases, Unfinished, Unregistering, ReaperSleep
<1>15. CASE CompleteInsert
  BY <1>15 DEF TypeOK, Phases, Unfinished, Unregistering, CompleteInsert
<1>16. CASE CompleteWake
  BY <1>16 DEF TypeOK, Phases, Unfinished, Unregistering, CompleteWake
<1>17. CASE DropTorusAsync
  BY <1>17 DEF TypeOK, Phases, Unfinished, Unregistering, DropTorusAsync
<1>18. CASE UNCHANGED vars
  BY <1>18 DEF TypeOK, Phases, Unfinished, Unregistering, vars
<1>19. QED
  BY <1>1, <1>2, <1>3, <1>4, <1>5, <1>6, <1>7, <1>8, <1>9,
     <1>10, <1>11, <1>12, <1>13, <1>14, <1>15, <1>16, <1>17, <1>18
  DEF Next, PollStep, Reaper

\* alloc_id never hands the same user_data to two futures.
LEMMA UniqueIdsStep == TypeOK /\ Phases /\ UniqueIds /\ [Next]_vars => UniqueIds'
<1> SUFFICES ASSUME TypeOK, Phases, UniqueIds, [Next]_vars PROVE UniqueIds'
  OBVIOUS
<1> USE DEF futureVars, registryVars, backendVars, reaperVars
<1>1. ASSUME NEW f \in Futures, PollInit(f) PROVE UniqueIds'
  BY <1>1 DEF TypeOK, Phases, Unfinished, Unregistering, UniqueIds, Polls, PollInit
<1>2. ASSUME NEW f \in Futures, SubmitOk(f) PROVE UniqueIds'
  BY <1>2 DEF TypeOK, Phases, Unfinished, Unregistering, UniqueIds, Polls, SubmitOk
<1>3. ASSUME NEW f \in Futures, SubmitErr(f) PROVE UniqueIds'
  BY <1>3 DEF TypeOK, Phases, Unfinished, Unregistering, UniqueIds, Polls, SubmitErr
<1>4. ASSUME NEW f \in Futures, RegisterFirst(f) PROVE UniqueIds'
  BY <1>4 DEF TypeOK, Phases, Unfinished, Unregistering, UniqueIds, Polls, RegisterFirst
<1>5. ASSUME NEW f \in Futures, PollWaiting(f) PROVE UniqueIds'
  BY <1>5 DEF TypeOK, Phases, Unfinished, Unregistering, UniqueIds, Polls, PollWaiting
<1>6. ASSUME NEW f \in Futures, TakeNone(f) PROVE UniqueIds'
  BY <1>6 DEF TypeOK, Phases, Unfinished, Unregistering, UniqueIds, Polls, TakeNone
<1>7. ASSUME NEW f \in Futures, TakeSome(f) PROVE UniqueIds'
  BY <1>7 DEF TypeOK, Phases, Unfinished, Unregistering, UniqueIds, Polls, TakeSome
<1>8. ASSUME NEW f \in Futures, UnregisterWaker(f) PROVE UniqueIds'
  BY <1>8 DEF TypeOK, Phases, Unfinished, Unregistering, UniqueIds, Polls, UnregisterWaker
<1>9. ASSUME NEW f \in Futures, UnregisterResult(f) PROVE UniqueIds'
  BY <1>9 DEF TypeOK, Phases, Unfinished, Unregistering, UniqueIds, Polls, UnregisterResult
<1>10. ASSUME NEW f \in Futures, DropFuture(f) PROVE UniqueIds'
  BY <1>10 DEF TypeOK, Phases, Unfinished, Unregistering, UniqueIds, Polls, DropFuture
<1>11. ASSUME NEW f \in Futures, SpuriousWake(f) PROVE UniqueIds'
  BY <1>11 DEF TypeOK, Phases, Unfinished, Unregistering, UniqueIds, Polls, SpuriousWake
<1>12. ASSUME NEW u \in in_flight, BackendComplete(u) PROVE UniqueIds'
  BY <1>12 DEF TypeOK, Phases, Unfinished, Unregistering, UniqueIds, Polls, BackendComplete
<1>13. CASE ReaperReap
  BY <1>13 DEF TypeOK, Phases, Unfinished, Unregistering, UniqueIds, Polls, ReaperReap
<1>14. CASE ReaperSleep
  BY <1>14 DEF TypeOK, Phases, Unfinished, Unregistering, UniqueIds, Polls, ReaperSleep
<1>15. CASE CompleteInsert
  BY <1>15 DEF TypeOK, Phases, Unfinished, Unregistering, UniqueIds, Polls, CompleteInsert
<1>16. CASE CompleteWake
  BY <1>16 DEF TypeOK, Phases, Unfinished, Unregistering, UniqueIds, Polls, CompleteWake
<1>17. CASE DropTorusAsync
  BY <1>17 DEF TypeOK, Phases, Unfinished, Unregistering, UniqueIds, Polls, DropTorusAsync
<1>18. CASE UNCHANGED vars
  BY <1>18 DEF TypeOK, Phases, Unfinished, Unregistering, UniqueIds, Polls, vars
<1>19. QED
  BY <1>1, <1>2, <1>3, <1>4, <1>5, <1>6, <1>7, <1>8, <1>9,
     <1>10, <1>11, <1>12, <1>13, <1>14, <1>15, <1>16, <1>17, <1>18
  DEF Next, PollStep, Reaper

\* Every flow in the backend has a submitted owner and completes once.
LEMMA FlowsOwnedStep == TypeOK /\ Phases /\ UniqueIds /\ ResultsFaithful /\ FlowsOwned /\ [Next]_vars => FlowsOwned'
<1> SUFFICES ASSUME TypeOK, Phases, UniqueIds, ResultsFaithful, FlowsOwned, [Next]_vars PROVE FlowsOwned'
  OBVIOUS
<1> USE DEF futureVars, registryVars, backendVars, reaperVars
<1>1. ASSUME NEW f \in Futures, PollInit(f) PROVE FlowsOwned'
  BY <1>1 DEF TypeOK, Phases, Unfinished, Unregistering, UniqueIds, FlowsOwned, Polls, Insert, PollInit
<1>2. ASSUME NEW f \in Futures, SubmitOk(f) PROVE FlowsOwned'
  BY <1>2 DEF TypeOK, Phases, Unfinished, Unregistering, UniqueIds, FlowsOwned, Polls, Insert, SubmitOk
<1>3. ASSUME NEW f \in Futures, SubmitErr(f) PROVE FlowsOwned'
  BY <1>3 DEF TypeOK, Phases, Unfinished, Unregistering, UniqueIds, FlowsOwned, Polls, Insert, SubmitErr
<1>4. ASSUME NEW f \in Futures, RegisterFirst(f) PROVE FlowsOwned'
  BY <1>4 DEF TypeOK, Phases, Unfinished, Unregistering, UniqueIds, FlowsOwned, Polls, Insert, RegisterFirst
<1>5. ASSUME NEW f \in Futures, PollWaiting(f) PROVE FlowsOwned'
  BY <1>5 DEF TypeOK, Phases, Unfinished, Unregistering, UniqueIds, FlowsOwned, Polls, Insert, PollWaiting
<1>6. ASSUME NEW f \in Futures, TakeNone(f) PROVE FlowsOwned'
  BY <1>6 DEF TypeOK, Phases, Unfinished, Unregistering, UniqueIds, FlowsOwned, Polls, Insert, TakeNone
<1>7. ASSUME NEW f \in Futures, TakeSome(f) PROVE FlowsOwned'
  <2>1. user_data[f] \notin in_flight
    BY <1>7 DEF TakeSome, ResultsFaithful, FlowsOwned
  <2>2. \A u \in in_flight' : \E g \in Futures : user_data'[g] = u /\ state'[g] = "Waiting"
    BY <1>7, <2>1 DEF TakeSome, FlowsOwned, TypeOK
  <2>3. QED
    BY <1>7, <2>2 DEF TakeSome, FlowsOwned, TypeOK
<1>8. ASSUME NEW f \in Futures, UnregisterWaker(f) PROVE FlowsOwned'
  BY <1>8 DEF TypeOK, Phases, Unfinished, Unregistering, UniqueIds, FlowsOwned, Polls, Insert, UnregisterWaker
<1>9. ASSUME NEW f \in Futures, UnregisterResult(f) PROVE FlowsOwned'
  BY <1>9 DEF TypeOK, Phases, Unfinished, Unregistering, UniqueIds, FlowsOwned, Polls, Insert, UnregisterResult
<1>10. ASSUME NEW f \in Futures, DropFuture(f) PROVE FlowsOwned'
  BY <1>10 DEF TypeOK, Phases, Unfinished, Unregistering, UniqueIds, FlowsOwned, Polls, Insert, DropFuture
<1>11. ASSUME NEW f \in Futures, SpuriousWake(f) PROVE FlowsOwned'
  BY <1>11 DEF TypeOK, Phases, Unfinished, Unregistering, UniqueIds, FlowsOwned, Polls, Insert, SpuriousWake
<1>12. ASSUME NEW u \in in_flight, BackendComplete(u) PROVE FlowsOwned'
  <2>1. PICK r \in Outcomes : /\ cq' = Append(cq, TorusResult(r, u))
                              /\ produced' = Insert(produced, u, r)
    BY <1>12 DEF BackendComplete
  <2>2. PICK g \in Futures : user_data[g] = u /\ state[g] = "Waiting"
    BY DEF FlowsOwned
  <2>3. u # 0 /\ u < next_id
    BY <2>2 DEF UniqueIds
  <2>4. \A f \in Futures : pc[f] = "submit" => user_data[f] # u
    BY <2>2, <2>3 DEF UniqueIds, Phases
  <2>5. DOMAIN produced' = DOMAIN produced \cup {u}
    BY <2>1 DEF Insert
  <2>6. QED
    BY <1>12, <2>3, <2>4, <2>5 DEF BackendComplete, FlowsOwned
<1>13. CASE ReaperReap
  BY <1>13 DEF TypeOK, Phases, Unfinished, Unregistering, UniqueIds, FlowsOwned, Polls, Insert, ReaperReap
<1>14. CASE ReaperSleep
  BY <1>14 DEF TypeOK, Phases, Unfinished, Unregistering, UniqueIds, FlowsOwned, Polls, Insert, ReaperSleep
<1>15. CASE CompleteInsert
  BY <1>15 DEF TypeOK, Phases, Unfinished, Unregistering, UniqueIds, FlowsOwned, Polls, Insert, CompleteInsert
<1>16. CASE CompleteWake
  BY <1>16 DEF TypeOK, Phases, Unfinished, Unregistering, UniqueIds, FlowsOwned, Polls, Insert, CompleteWake
<1>17. CASE DropTorusAsync
  BY <1>17 DEF TypeOK, Phases, Unfinished, Unregistering, UniqueIds, FlowsOwned, Polls, Insert, DropTorusAsync
<1>18. CASE UNCHANGED vars
  BY <1>18 DEF TypeOK, Phases, Unfinished, Unregistering, UniqueIds, FlowsOwned, Polls, Insert, vars
<1>19. QED
  BY <1>1, <1>2, <1>3, <1>4, <1>5, <1>6, <1>7, <1>8, <1>9,
     <1>10, <1>11, <1>12, <1>13, <1>14, <1>15, <1>16, <1>17, <1>18
  DEF Next, PollStep, Reaper

\* No step changes a raw result on its way to the registry.
LEMMA ResultsFaithfulStep == TypeOK /\ FlowsOwned /\ ResultsFaithful /\ [Next]_vars => ResultsFaithful'
<1> SUFFICES ASSUME TypeOK, FlowsOwned, ResultsFaithful, [Next]_vars PROVE ResultsFaithful'
  OBVIOUS
<1> USE DEF futureVars, registryVars, backendVars, reaperVars
<1>1. ASSUME NEW f \in Futures, PollInit(f) PROVE ResultsFaithful'
  BY <1>1 DEF TypeOK, FlowsOwned, ResultsFaithful, Insert, Remove, Completions, TorusResult, PollInit
<1>2. ASSUME NEW f \in Futures, SubmitOk(f) PROVE ResultsFaithful'
  BY <1>2 DEF TypeOK, FlowsOwned, ResultsFaithful, Insert, Remove, Completions, TorusResult, SubmitOk
<1>3. ASSUME NEW f \in Futures, SubmitErr(f) PROVE ResultsFaithful'
  BY <1>3 DEF TypeOK, FlowsOwned, ResultsFaithful, Insert, Remove, Completions, TorusResult, SubmitErr
<1>4. ASSUME NEW f \in Futures, RegisterFirst(f) PROVE ResultsFaithful'
  BY <1>4 DEF TypeOK, FlowsOwned, ResultsFaithful, Insert, Remove, Completions, TorusResult, RegisterFirst
<1>5. ASSUME NEW f \in Futures, PollWaiting(f) PROVE ResultsFaithful'
  BY <1>5 DEF TypeOK, FlowsOwned, ResultsFaithful, Insert, Remove, Completions, TorusResult, PollWaiting
<1>6. ASSUME NEW f \in Futures, TakeNone(f) PROVE ResultsFaithful'
  BY <1>6 DEF TypeOK, FlowsOwned, ResultsFaithful, Insert, Remove, Completions, TorusResult, TakeNone
<1>7. ASSUME NEW f \in Futures, TakeSome(f) PROVE ResultsFaithful'
  BY <1>7 DEF TypeOK, FlowsOwned, ResultsFaithful, Insert, Remove, Completions, TorusResult, TakeSome
<1>8. ASSUME NEW f \in Futures, UnregisterWaker(f) PROVE ResultsFaithful'
  BY <1>8 DEF TypeOK, FlowsOwned, ResultsFaithful, Insert, Remove, Completions, TorusResult, UnregisterWaker
<1>9. ASSUME NEW f \in Futures, UnregisterResult(f) PROVE ResultsFaithful'
  BY <1>9 DEF TypeOK, FlowsOwned, ResultsFaithful, Insert, Remove, Completions, TorusResult, UnregisterResult
<1>10. ASSUME NEW f \in Futures, DropFuture(f) PROVE ResultsFaithful'
  BY <1>10 DEF TypeOK, FlowsOwned, ResultsFaithful, Insert, Remove, Completions, TorusResult, DropFuture
<1>11. ASSUME NEW f \in Futures, SpuriousWake(f) PROVE ResultsFaithful'
  BY <1>11 DEF TypeOK, FlowsOwned, ResultsFaithful, Insert, Remove, Completions, TorusResult, SpuriousWake
<1>12. ASSUME NEW u \in in_flight, BackendComplete(u) PROVE ResultsFaithful'
  <2>1. PICK r \in Outcomes : /\ cq' = Append(cq, TorusResult(r, u))
                              /\ produced' = Insert(produced, u, r)
    BY <1>12 DEF BackendComplete
  <2>2. u \notin DOMAIN produced
    BY DEF FlowsOwned
  <2>3. /\ DOMAIN produced' = DOMAIN produced \cup {u} /\ produced'[u] = r
        /\ \A v \in DOMAIN produced : produced'[v] = produced[v]
    BY <2>1, <2>2 DEF Insert
  <2>4. ASSUME NEW i \in DOMAIN cq'
        PROVE  /\ cq'[i].user_data \in DOMAIN produced'
               /\ cq'[i].result = produced'[cq'[i].user_data]
    <3>1. CASE i \in DOMAIN cq
      BY <2>1, <2>3, <3>1 DEF ResultsFaithful, TypeOK
    <3>2. CASE i = Len(cq) + 1
      BY <2>1, <2>3, <3>2 DEF TypeOK, TorusResult
    <3>3. QED
      BY <2>1, <2>4, <3>1, <3>2 DEF TypeOK
  <2>5. QED
    BY <1>12, <2>3, <2>4 DEF BackendComplete, ResultsFaithful
<1>13. CASE ReaperReap
  BY <1>13 DEF TypeOK, FlowsOwned, ResultsFaithful, Insert, Remove, Completions, TorusResult, ReaperReap
<1>14. CASE ReaperSleep
  BY <1>14 DEF TypeOK, FlowsOwned, ResultsFaithful, Insert, Remove, Completions, TorusResult, ReaperSleep
<1>15. CASE CompleteInsert
  BY <1>15 DEF TypeOK, FlowsOwned, ResultsFaithful, Insert, Remove, Completions, TorusResult, CompleteInsert
<1>16. CASE CompleteWake
  <2>1. \A i \in DOMAIN batch' : i + 1 \in DOMAIN batch /\ batch'[i] = batch[i + 1]
    BY <1>16, HeadTailFacts DEF CompleteWake, TypeOK
  <2>2. QED
    BY <1>16, <2>1 DEF CompleteWake, ResultsFaithful
<1>17. CASE DropTorusAsync
  BY <1>17 DEF TypeOK, FlowsOwned, ResultsFaithful, Insert, Remove, Completions, TorusResult, DropTorusAsync
<1>18. CASE UNCHANGED vars
  BY <1>18 DEF TypeOK, FlowsOwned, ResultsFaithful, Insert, Remove, Completions, TorusResult, vars
<1>19. QED
  BY <1>1, <1>2, <1>3, <1>4, <1>5, <1>6, <1>7, <1>8, <1>9,
     <1>10, <1>11, <1>12, <1>13, <1>14, <1>15, <1>16, <1>17, <1>18
  DEF Next, PollStep, Reaper

\* A returned value stays the outcome of the future's own flow.
LEMMA OwnOutcomeStep == TypeOK /\ Phases /\ UniqueIds /\ FlowsOwned /\ ResultsFaithful /\ OwnOutcome /\ [Next]_vars => OwnOutcome'
<1> SUFFICES ASSUME TypeOK, Phases, UniqueIds, FlowsOwned, ResultsFaithful, OwnOutcome, [Next]_vars PROVE OwnOutcome'
  OBVIOUS
<1> USE DEF futureVars, registryVars, backendVars, reaperVars
<1>1. ASSUME NEW f \in Futures, PollInit(f) PROVE OwnOutcome'
  BY <1>1 DEF TypeOK, Phases, Unfinished, Unregistering, Polls, UniqueIds, FlowsOwned, ResultsFaithful, OwnOutcome, Insert, PollInit
<1>2. ASSUME NEW f \in Futures, SubmitOk(f) PROVE OwnOutcome'
  BY <1>2 DEF TypeOK, Phases, Unfinished, Unregistering, Polls, UniqueIds, FlowsOwned, ResultsFaithful, OwnOutcome, Insert, SubmitOk
<1>3. ASSUME NEW f \in Futures, SubmitErr(f) PROVE OwnOutcome'
  BY <1>3 DEF TypeOK, Phases, Unfinished, Unregistering, Polls, UniqueIds, FlowsOwned, ResultsFaithful, OwnOutcome, Insert, SubmitErr
<1>4. ASSUME NEW f \in Futures, RegisterFirst(f) PROVE OwnOutcome'
  BY <1>4 DEF TypeOK, Phases, Unfinished, Unregistering, Polls, UniqueIds, FlowsOwned, ResultsFaithful, OwnOutcome, Insert, RegisterFirst
<1>5. ASSUME NEW f \in Futures, PollWaiting(f) PROVE OwnOutcome'
  BY <1>5 DEF TypeOK, Phases, Unfinished, Unregistering, Polls, UniqueIds, FlowsOwned, ResultsFaithful, OwnOutcome, Insert, PollWaiting
<1>6. ASSUME NEW f \in Futures, TakeNone(f) PROVE OwnOutcome'
  BY <1>6 DEF TypeOK, Phases, Unfinished, Unregistering, Polls, UniqueIds, FlowsOwned, ResultsFaithful, OwnOutcome, Insert, TakeNone
<1>7. ASSUME NEW f \in Futures, TakeSome(f) PROVE OwnOutcome'
  BY <1>7 DEF TypeOK, Phases, Unfinished, Unregistering, Polls, UniqueIds, FlowsOwned, ResultsFaithful, OwnOutcome, Insert, TakeSome
<1>8. ASSUME NEW f \in Futures, UnregisterWaker(f) PROVE OwnOutcome'
  BY <1>8 DEF TypeOK, Phases, Unfinished, Unregistering, Polls, UniqueIds, FlowsOwned, ResultsFaithful, OwnOutcome, Insert, UnregisterWaker
<1>9. ASSUME NEW f \in Futures, UnregisterResult(f) PROVE OwnOutcome'
  BY <1>9 DEF TypeOK, Phases, Unfinished, Unregistering, Polls, UniqueIds, FlowsOwned, ResultsFaithful, OwnOutcome, Insert, UnregisterResult
<1>10. ASSUME NEW f \in Futures, DropFuture(f) PROVE OwnOutcome'
  BY <1>10 DEF TypeOK, Phases, Unfinished, Unregistering, Polls, UniqueIds, FlowsOwned, ResultsFaithful, OwnOutcome, Insert, DropFuture
<1>11. ASSUME NEW f \in Futures, SpuriousWake(f) PROVE OwnOutcome'
  BY <1>11 DEF TypeOK, Phases, Unfinished, Unregistering, Polls, UniqueIds, FlowsOwned, ResultsFaithful, OwnOutcome, Insert, SpuriousWake
<1>12. ASSUME NEW u \in in_flight, BackendComplete(u) PROVE OwnOutcome'
  <2>1. PICK r \in Outcomes : /\ cq' = Append(cq, TorusResult(r, u))
                              /\ produced' = Insert(produced, u, r)
    BY <1>12 DEF BackendComplete
  <2>2. PICK g \in Futures : user_data[g] = u /\ state[g] = "Waiting"
    BY DEF FlowsOwned
  <2>3. \A f \in Futures : returned[f] # NoValue => user_data[f] # u
    BY <2>2 DEF UniqueIds, Phases
  <2>4. /\ DOMAIN produced' = DOMAIN produced \cup {u}
        /\ \A v \in DOMAIN produced : v # u => produced'[v] = produced[v]
    BY <2>1 DEF Insert
  <2>5. QED
    BY <1>12, <2>3, <2>4 DEF BackendComplete, OwnOutcome
<1>13. CASE ReaperReap
  BY <1>13 DEF TypeOK, Phases, Unfinished, Unregistering, Polls, UniqueIds, FlowsOwned, ResultsFaithful, OwnOutcome, Insert, ReaperReap
<1>14. CASE ReaperSleep
  BY <1>14 DEF TypeOK, Phases, Unfinished, Unregistering, Polls, UniqueIds, FlowsOwned, ResultsFaithful, OwnOutcome, Insert, ReaperSleep
<1>15. CASE CompleteInsert
  BY <1>15 DEF TypeOK, Phases, Unfinished, Unregistering, Polls, UniqueIds, FlowsOwned, ResultsFaithful, OwnOutcome, Insert, CompleteInsert
<1>16. CASE CompleteWake
  BY <1>16 DEF TypeOK, Phases, Unfinished, Unregistering, Polls, UniqueIds, FlowsOwned, ResultsFaithful, OwnOutcome, Insert, CompleteWake
<1>17. CASE DropTorusAsync
  BY <1>17 DEF TypeOK, Phases, Unfinished, Unregistering, Polls, UniqueIds, FlowsOwned, ResultsFaithful, OwnOutcome, Insert, DropTorusAsync
<1>18. CASE UNCHANGED vars
  BY <1>18 DEF TypeOK, Phases, Unfinished, Unregistering, Polls, UniqueIds, FlowsOwned, ResultsFaithful, OwnOutcome, Insert, vars
<1>19. QED
  BY <1>1, <1>2, <1>3, <1>4, <1>5, <1>6, <1>7, <1>8, <1>9,
     <1>10, <1>11, <1>12, <1>13, <1>14, <1>15, <1>16, <1>17, <1>18
  DEF Next, PollStep, Reaper

\* No step puts a completion in two places.
LEMMA StagesDisjointStep == TypeOK /\ FlowsOwned /\ ResultsFaithful /\ StagesDisjoint /\ [Next]_vars => StagesDisjoint'
<1> SUFFICES ASSUME TypeOK, FlowsOwned, ResultsFaithful, StagesDisjoint, [Next]_vars PROVE StagesDisjoint'
  OBVIOUS
<1> USE DEF futureVars, registryVars, backendVars, reaperVars
<1>1. ASSUME NEW f \in Futures, PollInit(f) PROVE StagesDisjoint'
  BY <1>1 DEF TypeOK, FlowsOwned, ResultsFaithful, StagesDisjoint, Todo, Insert, Remove, PollInit
<1>2. ASSUME NEW f \in Futures, SubmitOk(f) PROVE StagesDisjoint'
  BY <1>2 DEF TypeOK, FlowsOwned, ResultsFaithful, StagesDisjoint, Todo, Insert, Remove, SubmitOk
<1>3. ASSUME NEW f \in Futures, SubmitErr(f) PROVE StagesDisjoint'
  BY <1>3 DEF TypeOK, FlowsOwned, ResultsFaithful, StagesDisjoint, Todo, Insert, Remove, SubmitErr
<1>4. ASSUME NEW f \in Futures, RegisterFirst(f) PROVE StagesDisjoint'
  BY <1>4 DEF TypeOK, FlowsOwned, ResultsFaithful, StagesDisjoint, Todo, Insert, Remove, RegisterFirst
<1>5. ASSUME NEW f \in Futures, PollWaiting(f) PROVE StagesDisjoint'
  BY <1>5 DEF TypeOK, FlowsOwned, ResultsFaithful, StagesDisjoint, Todo, Insert, Remove, PollWaiting
<1>6. ASSUME NEW f \in Futures, TakeNone(f) PROVE StagesDisjoint'
  BY <1>6 DEF TypeOK, FlowsOwned, ResultsFaithful, StagesDisjoint, Todo, Insert, Remove, TakeNone
<1>7. ASSUME NEW f \in Futures, TakeSome(f) PROVE StagesDisjoint'
  BY <1>7 DEF TypeOK, FlowsOwned, ResultsFaithful, StagesDisjoint, Todo, Insert, Remove, TakeSome
<1>8. ASSUME NEW f \in Futures, UnregisterWaker(f) PROVE StagesDisjoint'
  BY <1>8 DEF TypeOK, FlowsOwned, ResultsFaithful, StagesDisjoint, Todo, Insert, Remove, UnregisterWaker
<1>9. ASSUME NEW f \in Futures, UnregisterResult(f) PROVE StagesDisjoint'
  BY <1>9 DEF TypeOK, FlowsOwned, ResultsFaithful, StagesDisjoint, Todo, Insert, Remove, UnregisterResult
<1>10. ASSUME NEW f \in Futures, DropFuture(f) PROVE StagesDisjoint'
  BY <1>10 DEF TypeOK, FlowsOwned, ResultsFaithful, StagesDisjoint, Todo, Insert, Remove, DropFuture
<1>11. ASSUME NEW f \in Futures, SpuriousWake(f) PROVE StagesDisjoint'
  BY <1>11 DEF TypeOK, FlowsOwned, ResultsFaithful, StagesDisjoint, Todo, Insert, Remove, SpuriousWake
<1>12. ASSUME NEW u \in in_flight, BackendComplete(u) PROVE StagesDisjoint'
  <2>1. PICK r \in Outcomes : /\ cq' = Append(cq, TorusResult(r, u))
                              /\ produced' = Insert(produced, u, r)
    BY <1>12 DEF BackendComplete
  <2>2. /\ \A i \in DOMAIN cq : cq[i].user_data # u
        /\ \A i \in DOMAIN batch : batch[i].user_data # u
        /\ u \notin DOMAIN results
    BY DEF FlowsOwned, ResultsFaithful
  <2>3. \A i \in DOMAIN cq' : \/ i \in DOMAIN cq /\ cq'[i] = cq[i]
                              \/ i = Len(cq) + 1 /\ cq'[i].user_data = u
    BY <2>1 DEF TypeOK, TorusResult
  <2>4. QED
    BY <1>12, <2>2, <2>3 DEF BackendComplete, StagesDisjoint, Todo
<1>13. CASE ReaperReap
  BY <1>13 DEF TypeOK, FlowsOwned, ResultsFaithful, StagesDisjoint, Todo, Insert, Remove, ReaperReap
<1>14. CASE ReaperSleep
  BY <1>14 DEF TypeOK, FlowsOwned, ResultsFaithful, StagesDisjoint, Todo, Insert, Remove, ReaperSleep
<1>15. CASE CompleteInsert
  BY <1>15 DEF TypeOK, FlowsOwned, ResultsFaithful, StagesDisjoint, Todo, Insert, Remove, CompleteInsert
<1>16. CASE CompleteWake
  <2>1. /\ \A i \in DOMAIN batch' : i + 1 \in DOMAIN batch /\ batch'[i] = batch[i + 1]
        /\ \A i \in DOMAIN batch : i > 1 => i - 1 \in DOMAIN batch'
    BY <1>16, HeadTailFacts DEF CompleteWake, TypeOK
  <2>2. \A i \in Todo' : i + 1 \in Todo
    BY <1>16, <2>1 DEF CompleteWake, Todo, TypeOK
  <2>3. DOMAIN batch' \subseteq Int
    BY <1>16, HeadTailFacts DEF CompleteWake, TypeOK
  <2>4. \A i, j \in DOMAIN batch' : batch'[i].user_data = batch'[j].user_data => i = j
    BY <2>1, <2>3 DEF StagesDisjoint
  <2>5. \A i \in DOMAIN cq, j \in DOMAIN batch' : cq[i].user_data # batch'[j].user_data
    BY <2>1 DEF StagesDisjoint
  <2>6. \A i \in Todo' : batch'[i].user_data \notin DOMAIN results
    BY <2>1, <2>2 DEF StagesDisjoint, Todo
  <2>7. QED
    BY <1>16, <2>4, <2>5, <2>6 DEF CompleteWake, StagesDisjoint
<1>17. CASE DropTorusAsync
  BY <1>17 DEF TypeOK, FlowsOwned, ResultsFaithful, StagesDisjoint, Todo, Insert, Remove, DropTorusAsync
<1>18. CASE UNCHANGED vars
  BY <1>18 DEF TypeOK, FlowsOwned, ResultsFaithful, StagesDisjoint, Todo, Insert, Remove, vars
<1>19. QED
  BY <1>1, <1>2, <1>3, <1>4, <1>5, <1>6, <1>7, <1>8, <1>9,
     <1>10, <1>11, <1>12, <1>13, <1>14, <1>15, <1>16, <1>17, <1>18
  DEF Next, PollStep, Reaper

\* No step loses the completion of an unfinished future: it shows how
\* each action changes OnTheWay.
LEMMA LocatedStep == TypeOK /\ Phases /\ UniqueIds /\ FlowsOwned /\ ResultsFaithful /\ StagesDisjoint /\ Located /\ [Next]_vars => Located'
<1> SUFFICES ASSUME TypeOK, Phases, UniqueIds, FlowsOwned, ResultsFaithful, StagesDisjoint, Located, [Next]_vars PROVE Located'
  OBVIOUS
<1> USE DEF futureVars, registryVars, backendVars, reaperVars
<1>1. ASSUME NEW f \in Futures, PollInit(f) PROVE Located'
  <2>1. OnTheWay' = OnTheWay
    BY <1>1 DEF PollInit, OnTheWay, UserDataOf, Todo
  <2>2. \A g \in Futures : state[g] # "Init" => user_data'[g] = user_data[g]
    BY <1>1 DEF PollInit, TypeOK
  <2>3. \A g \in Futures : pc'[g] \in Unfinished => pc[g] \in Unfinished /\ state[g] = "Waiting"
    BY <1>1 DEF PollInit, Phases, Unfinished, TypeOK
  <2>4. QED
    BY <1>1, <2>1, <2>2, <2>3 DEF PollInit, Located
<1>2. ASSUME NEW f \in Futures, SubmitOk(f) PROVE Located'
  <2>1. OnTheWay' = OnTheWay \cup {user_data[f]}
    BY <1>2 DEF SubmitOk, OnTheWay, UserDataOf, Todo
  <2>2. \A g \in Futures : state[g] = "Done" => user_data[g] # user_data[f]
    BY <1>2 DEF SubmitOk, Phases, UniqueIds, Polls
  <2>3. QED
    BY <1>2, <2>1, <2>2 DEF SubmitOk, Located, Phases, Unfinished, TypeOK
<1>3. ASSUME NEW f \in Futures, SubmitErr(f) PROVE Located'
  <2>1. OnTheWay' = OnTheWay
    BY <1>3 DEF SubmitErr, OnTheWay, UserDataOf, Todo
  <2>2. user_data[f] \notin DOMAIN produced
    BY <1>3 DEF SubmitErr, FlowsOwned
  <2>3. user_data[f] \notin in_flight
    BY <1>3 DEF SubmitErr, FlowsOwned, Phases, UniqueIds, Polls
  <2>4. user_data[f] \notin OnTheWay
    BY <2>2, <2>3 DEF OnTheWay, UserDataOf, Todo, ResultsFaithful
  <2>5. QED
    BY <1>3, <2>1, <2>4 DEF SubmitErr, Located, Phases, Unfinished, TypeOK
<1>4. ASSUME NEW f \in Futures, RegisterFirst(f) PROVE Located'
  <2>1. OnTheWay' = OnTheWay
    BY <1>4 DEF RegisterFirst, OnTheWay, UserDataOf, Todo
  <2>2. QED
    BY <1>4, <2>1 DEF RegisterFirst, Located, Phases, Unfinished, Unregistering, TypeOK
<1>5. ASSUME NEW f \in Futures, PollWaiting(f) PROVE Located'
  <2>1. OnTheWay' = OnTheWay
    BY <1>5 DEF PollWaiting, OnTheWay, UserDataOf, Todo
  <2>2. QED
    BY <1>5, <2>1 DEF PollWaiting, Located, Phases, Unfinished, Unregistering, TypeOK
<1>6. ASSUME NEW f \in Futures, TakeNone(f) PROVE Located'
  <2>1. OnTheWay' = OnTheWay
    BY <1>6 DEF TakeNone, OnTheWay, UserDataOf, Todo
  <2>2. QED
    BY <1>6, <2>1 DEF TakeNone, Located, Phases, Unfinished, Unregistering, TypeOK
<1>7. ASSUME NEW f \in Futures, TakeSome(f) PROVE Located'
  <2> DEFINE u == user_data[f]
  <2>1. DOMAIN results' = DOMAIN results \ {u} /\ u \in DOMAIN results
    BY <1>7 DEF TakeSome, Remove
  <2>2. u \notin in_flight /\ u \notin UserDataOf(cq) /\ u \notin {batch[i].user_data : i \in Todo}
    BY <2>1 DEF ResultsFaithful, FlowsOwned, StagesDisjoint, UserDataOf
  <2>3. OnTheWay' = OnTheWay \ {u}
    BY <1>7, <2>1, <2>2 DEF TakeSome, OnTheWay, UserDataOf, Todo
  <2>4. \A g \in Futures \ {f} : pc[g] \in Unfinished => user_data[g] # u
    BY <1>7 DEF TakeSome, Phases, UniqueIds, Polls, Unfinished
  <2>5. QED
    BY <1>7, <2>3, <2>4 DEF TakeSome, Located, Unfinished, TypeOK
<1>8. ASSUME NEW f \in Futures, UnregisterWaker(f) PROVE Located'
  <2>1. OnTheWay' = OnTheWay
    BY <1>8 DEF UnregisterWaker, OnTheWay, UserDataOf, Todo
  <2>2. QED
    BY <1>8, <2>1 DEF UnregisterWaker, Located, Phases, Unfinished, Unregistering, TypeOK
<1>9. ASSUME NEW f \in Futures, UnregisterResult(f) PROVE Located'
  <2> DEFINE u == user_data[f]
  <2>1. DOMAIN results' = DOMAIN results \ {u}
    BY <1>9 DEF UnregisterResult, Remove
  <2>2. OnTheWay' \subseteq OnTheWay /\ OnTheWay \ {u} \subseteq OnTheWay'
    BY <1>9, <2>1 DEF UnregisterResult, OnTheWay, UserDataOf, Todo
  <2>3. \A g \in Futures \ {f} : pc[g] \in Unfinished => user_data[g] # u
    BY <1>9 DEF UnregisterResult, Phases, UniqueIds, Polls, Unfinished
  <2>4. \A g \in Futures : pc'[g] \in Unfinished => g # f /\ pc[g] \in Unfinished
    BY <1>9 DEF UnregisterResult, Unfinished, TypeOK
  <2>5. QED
    BY <1>9, <2>2, <2>3, <2>4 DEF UnregisterResult, Located
<1>10. ASSUME NEW f \in Futures, DropFuture(f) PROVE Located'
  <2>1. OnTheWay' = OnTheWay
    BY <1>10 DEF DropFuture, OnTheWay, UserDataOf, Todo
  <2>2. QED
    BY <1>10, <2>1 DEF DropFuture, Located, Phases, Unfinished, Unregistering, TypeOK
<1>11. ASSUME NEW f \in Futures, SpuriousWake(f) PROVE Located'
  <2>1. OnTheWay' = OnTheWay
    BY <1>11 DEF SpuriousWake, OnTheWay, UserDataOf, Todo
  <2>2. QED
    BY <1>11, <2>1 DEF SpuriousWake, Located, Phases, Unfinished, Unregistering, TypeOK
<1>12. ASSUME NEW u \in in_flight, BackendComplete(u) PROVE Located'
  <2>1. PICK r \in Outcomes : /\ cq' = Append(cq, TorusResult(r, u))
                              /\ produced' = Insert(produced, u, r)
    BY <1>12 DEF BackendComplete
  <2>2. UserDataOf(cq') = UserDataOf(cq) \cup {u}
    <3>1. DOMAIN cq' = DOMAIN cq \cup {Len(cq) + 1} /\ Len(cq) + 1 \notin DOMAIN cq
      BY <2>1 DEF TypeOK
    <3>2. cq'[Len(cq) + 1].user_data = u /\ \A i \in DOMAIN cq : cq'[i] = cq[i]
      BY <2>1 DEF TypeOK, TorusResult
    <3>3. QED
      BY <3>1, <3>2 DEF UserDataOf
  <2>3. OnTheWay' = OnTheWay
    BY <1>12, <2>2 DEF BackendComplete, OnTheWay, UserDataOf, Todo
  <2>4. QED
    BY <1>12, <2>3 DEF BackendComplete, Located
<1>13. CASE ReaperReap
  <2>1. batch = << >> /\ cq' = << >> /\ Todo' = DOMAIN cq
    BY <1>13 DEF ReaperReap, TypeOK, Todo
  <2>2. UserDataOf(cq') = {} /\ {batch[i].user_data : i \in Todo} = {}
    BY <2>1 DEF UserDataOf, Todo
  <2>3. {batch'[i].user_data : i \in Todo'} = UserDataOf(cq)
    BY <1>13, <2>1 DEF ReaperReap, UserDataOf
  <2>4. OnTheWay' = OnTheWay
    BY <1>13, <2>2, <2>3 DEF ReaperReap, OnTheWay
  <2>5. QED
    BY <1>13, <2>4 DEF ReaperReap, Located
<1>14. CASE ReaperSleep
  <2>1. Todo' = Todo
    BY <1>14 DEF ReaperSleep, Todo, TypeOK
  <2>2. OnTheWay' = OnTheWay
    BY <1>14, <2>1 DEF ReaperSleep, OnTheWay, UserDataOf
  <2>3. QED
    BY <1>14, <2>2 DEF ReaperSleep, Located
<1>15. CASE CompleteInsert
  <2>1. Head(batch) = batch[1] /\ 1 \in DOMAIN batch
    BY <1>15, HeadTailFacts DEF CompleteInsert, TypeOK
  <2>2. 1 \in Todo /\ Todo' = Todo \ {1}
    BY <1>15, <2>1 DEF CompleteInsert, Todo, TypeOK
  <2>3. DOMAIN results' = DOMAIN results \cup {batch[1].user_data}
    BY <1>15, <2>1 DEF CompleteInsert, Insert
  <2>4. OnTheWay' = OnTheWay
    BY <1>15, <2>2, <2>3 DEF CompleteInsert, OnTheWay, UserDataOf
  <2>5. QED
    BY <1>15, <2>4 DEF CompleteInsert, Located
<1>16. CASE CompleteWake
  <2>1. /\ \A i \in DOMAIN batch' : i + 1 \in DOMAIN batch /\ batch'[i] = batch[i + 1]
        /\ \A i \in DOMAIN batch : i > 1 => i - 1 \in DOMAIN batch'
    BY <1>16, HeadTailFacts DEF CompleteWake, TypeOK
  <2>2. \A i \in Todo' : i + 1 \in Todo
    BY <1>16, <2>1 DEF CompleteWake, Todo, TypeOK
  <2>3. \A i \in Todo : i - 1 \in Todo' /\ batch'[i - 1] = batch[i]
    <3>1. ASSUME NEW i \in Todo PROVE i - 1 \in Todo' /\ batch'[i - 1] = batch[i]
      <4>1. i \in DOMAIN batch /\ i > 1 /\ i \in Nat
        BY <1>16 DEF CompleteWake, Todo, TypeOK
      <4>2. i - 1 \in DOMAIN batch'
        BY <2>1, <4>1
      <4>3. rpc' = "insert"
        BY <1>16, <4>2 DEF CompleteWake, TypeOK
      <4>4. QED
        BY <2>1, <4>1, <4>2, <4>3 DEF Todo
    <3>2. QED
      BY <3>1
  <2>4. {batch'[i].user_data : i \in Todo'} = {batch[i].user_data : i \in Todo}
    BY <2>1, <2>2, <2>3 DEF Todo
  <2>5. OnTheWay' = OnTheWay
    BY <1>16, <2>4 DEF CompleteWake, OnTheWay, UserDataOf
  <2>6. QED
    BY <1>16, <2>5 DEF CompleteWake, Located
<1>17. CASE DropTorusAsync
  <2>1. OnTheWay' = OnTheWay
    BY <1>17 DEF DropTorusAsync, OnTheWay, UserDataOf, Todo
  <2>2. QED
    BY <1>17, <2>1 DEF DropTorusAsync, Located, Phases, Unfinished, Unregistering, TypeOK
<1>18. CASE UNCHANGED vars
  BY <1>18 DEF vars, Located, OnTheWay, UserDataOf, Todo
<1>19. QED
  BY <1>1, <1>2, <1>3, <1>4, <1>5, <1>6, <1>7, <1>8, <1>9,
     <1>10, <1>11, <1>12, <1>13, <1>14, <1>15, <1>16, <1>17, <1>18
  DEF Next, PollStep, Reaper

\* No waker outlives UnregisterWaker.
LEMMA WakersOwnedStep == TypeOK /\ Phases /\ UniqueIds /\ WakersOwned /\ [Next]_vars => WakersOwned'
<1> SUFFICES ASSUME TypeOK, Phases, UniqueIds, WakersOwned, [Next]_vars PROVE WakersOwned'
  OBVIOUS
<1> USE DEF futureVars, registryVars, backendVars, reaperVars
<1>1. ASSUME NEW f \in Futures, PollInit(f) PROVE WakersOwned'
  BY <1>1 DEF TypeOK, Phases, Unfinished, Unregistering, Polls, UniqueIds, WakersOwned, Insert, Remove, PollInit
<1>2. ASSUME NEW f \in Futures, SubmitOk(f) PROVE WakersOwned'
  BY <1>2 DEF TypeOK, Phases, Unfinished, Unregistering, Polls, UniqueIds, WakersOwned, Insert, Remove, SubmitOk
<1>3. ASSUME NEW f \in Futures, SubmitErr(f) PROVE WakersOwned'
  BY <1>3 DEF TypeOK, Phases, Unfinished, Unregistering, Polls, UniqueIds, WakersOwned, Insert, Remove, SubmitErr
<1>4. ASSUME NEW f \in Futures, RegisterFirst(f) PROVE WakersOwned'
  BY <1>4 DEF TypeOK, Phases, Unfinished, Unregistering, Polls, UniqueIds, WakersOwned, Insert, Remove, RegisterFirst
<1>5. ASSUME NEW f \in Futures, PollWaiting(f) PROVE WakersOwned'
  BY <1>5 DEF TypeOK, Phases, Unfinished, Unregistering, Polls, UniqueIds, WakersOwned, Insert, Remove, PollWaiting
<1>6. ASSUME NEW f \in Futures, TakeNone(f) PROVE WakersOwned'
  BY <1>6 DEF TypeOK, Phases, Unfinished, Unregistering, Polls, UniqueIds, WakersOwned, Insert, Remove, TakeNone
<1>7. ASSUME NEW f \in Futures, TakeSome(f) PROVE WakersOwned'
  BY <1>7 DEF TypeOK, Phases, Unfinished, Unregistering, Polls, UniqueIds, WakersOwned, Insert, Remove, TakeSome
<1>8. ASSUME NEW f \in Futures, UnregisterWaker(f) PROVE WakersOwned'
  BY <1>8 DEF TypeOK, Phases, Unfinished, Unregistering, Polls, UniqueIds, WakersOwned, Insert, Remove, UnregisterWaker
<1>9. ASSUME NEW f \in Futures, UnregisterResult(f) PROVE WakersOwned'
  BY <1>9 DEF TypeOK, Phases, Unfinished, Unregistering, Polls, UniqueIds, WakersOwned, Insert, Remove, UnregisterResult
<1>10. ASSUME NEW f \in Futures, DropFuture(f) PROVE WakersOwned'
  BY <1>10 DEF TypeOK, Phases, Unfinished, Unregistering, Polls, UniqueIds, WakersOwned, Insert, Remove, DropFuture
<1>11. ASSUME NEW f \in Futures, SpuriousWake(f) PROVE WakersOwned'
  BY <1>11 DEF TypeOK, Phases, Unfinished, Unregistering, Polls, UniqueIds, WakersOwned, Insert, Remove, SpuriousWake
<1>12. ASSUME NEW u \in in_flight, BackendComplete(u) PROVE WakersOwned'
  BY <1>12 DEF TypeOK, Phases, Unfinished, Unregistering, Polls, UniqueIds, WakersOwned, Insert, Remove, BackendComplete
<1>13. CASE ReaperReap
  BY <1>13 DEF TypeOK, Phases, Unfinished, Unregistering, Polls, UniqueIds, WakersOwned, Insert, Remove, ReaperReap
<1>14. CASE ReaperSleep
  BY <1>14 DEF TypeOK, Phases, Unfinished, Unregistering, Polls, UniqueIds, WakersOwned, Insert, Remove, ReaperSleep
<1>15. CASE CompleteInsert
  BY <1>15 DEF TypeOK, Phases, Unfinished, Unregistering, Polls, UniqueIds, WakersOwned, Insert, Remove, CompleteInsert
<1>16. CASE CompleteWake
  BY <1>16 DEF TypeOK, Phases, Unfinished, Unregistering, Polls, UniqueIds, WakersOwned, Insert, Remove, CompleteWake
<1>17. CASE DropTorusAsync
  BY <1>17 DEF TypeOK, Phases, Unfinished, Unregistering, Polls, UniqueIds, WakersOwned, Insert, Remove, DropTorusAsync
<1>18. CASE UNCHANGED vars
  BY <1>18 DEF TypeOK, Phases, Unfinished, Unregistering, Polls, UniqueIds, WakersOwned, Insert, Remove, vars
<1>19. QED
  BY <1>1, <1>2, <1>3, <1>4, <1>5, <1>6, <1>7, <1>8, <1>9,
     <1>10, <1>11, <1>12, <1>13, <1>14, <1>15, <1>16, <1>17, <1>18
  DEF Next, PollStep, Reaper

\* Only a wake-up takes the waker of a task the Waiting arm parked.
LEMMA WakersKeptStep == TypeOK /\ Phases /\ UniqueIds /\ WakersKept /\ [Next]_vars => WakersKept'
<1> SUFFICES ASSUME TypeOK, Phases, UniqueIds, WakersKept, [Next]_vars PROVE WakersKept'
  OBVIOUS
<1> USE DEF futureVars, registryVars, backendVars, reaperVars
<1>1. ASSUME NEW f \in Futures, PollInit(f) PROVE WakersKept'
  BY <1>1 DEF TypeOK, Phases, Unfinished, Unregistering, Polls, UniqueIds, WakersKept, Insert, Remove, PollInit
<1>2. ASSUME NEW f \in Futures, SubmitOk(f) PROVE WakersKept'
  BY <1>2 DEF TypeOK, Phases, Unfinished, Unregistering, Polls, UniqueIds, WakersKept, Insert, Remove, SubmitOk
<1>3. ASSUME NEW f \in Futures, SubmitErr(f) PROVE WakersKept'
  BY <1>3 DEF TypeOK, Phases, Unfinished, Unregistering, Polls, UniqueIds, WakersKept, Insert, Remove, SubmitErr
<1>4. ASSUME NEW f \in Futures, RegisterFirst(f) PROVE WakersKept'
  BY <1>4 DEF TypeOK, Phases, Unfinished, Unregistering, Polls, UniqueIds, WakersKept, Insert, Remove, RegisterFirst
<1>5. ASSUME NEW f \in Futures, PollWaiting(f) PROVE WakersKept'
  BY <1>5 DEF TypeOK, Phases, Unfinished, Unregistering, Polls, UniqueIds, WakersKept, Insert, Remove, PollWaiting
<1>6. ASSUME NEW f \in Futures, TakeNone(f) PROVE WakersKept'
  BY <1>6 DEF TypeOK, Phases, Unfinished, Unregistering, Polls, UniqueIds, WakersKept, Insert, Remove, TakeNone
<1>7. ASSUME NEW f \in Futures, TakeSome(f) PROVE WakersKept'
  BY <1>7 DEF TypeOK, Phases, Unfinished, Unregistering, Polls, UniqueIds, WakersKept, Insert, Remove, TakeSome
<1>8. ASSUME NEW f \in Futures, UnregisterWaker(f) PROVE WakersKept'
  BY <1>8 DEF TypeOK, Phases, Unfinished, Unregistering, Polls, UniqueIds, WakersKept, Insert, Remove, UnregisterWaker
<1>9. ASSUME NEW f \in Futures, UnregisterResult(f) PROVE WakersKept'
  BY <1>9 DEF TypeOK, Phases, Unfinished, Unregistering, Polls, UniqueIds, WakersKept, Insert, Remove, UnregisterResult
<1>10. ASSUME NEW f \in Futures, DropFuture(f) PROVE WakersKept'
  BY <1>10 DEF TypeOK, Phases, Unfinished, Unregistering, Polls, UniqueIds, WakersKept, Insert, Remove, DropFuture
<1>11. ASSUME NEW f \in Futures, SpuriousWake(f) PROVE WakersKept'
  BY <1>11 DEF TypeOK, Phases, Unfinished, Unregistering, Polls, UniqueIds, WakersKept, Insert, Remove, SpuriousWake
<1>12. ASSUME NEW u \in in_flight, BackendComplete(u) PROVE WakersKept'
  BY <1>12 DEF TypeOK, Phases, Unfinished, Unregistering, Polls, UniqueIds, WakersKept, Insert, Remove, BackendComplete
<1>13. CASE ReaperReap
  BY <1>13 DEF TypeOK, Phases, Unfinished, Unregistering, Polls, UniqueIds, WakersKept, Insert, Remove, ReaperReap
<1>14. CASE ReaperSleep
  BY <1>14 DEF TypeOK, Phases, Unfinished, Unregistering, Polls, UniqueIds, WakersKept, Insert, Remove, ReaperSleep
<1>15. CASE CompleteInsert
  BY <1>15 DEF TypeOK, Phases, Unfinished, Unregistering, Polls, UniqueIds, WakersKept, Insert, Remove, CompleteInsert
<1>16. CASE CompleteWake
  <2> DEFINE u == Head(batch).user_data
  <2>1. CASE u \notin DOMAIN wakers
    BY <1>16, <2>1 DEF CompleteWake, WakersKept
  <2>2. CASE u \in DOMAIN wakers
    <3>1. /\ DOMAIN wakers' = DOMAIN wakers \ {u}
          /\ \A x \in DOMAIN wakers' : wakers'[x] = wakers[x]
      BY <1>16, <2>2 DEF CompleteWake, Remove
    <3>2. wakers[u] \in Futures /\ awake' = [awake EXCEPT ![wakers[u]] = TRUE]
      BY <1>16, <2>2 DEF CompleteWake, TypeOK
    <3>3. QED
      BY <1>16, <3>1, <3>2 DEF CompleteWake, WakersKept, TypeOK
  <2>3. QED
    BY <2>1, <2>2
<1>17. CASE DropTorusAsync
  BY <1>17 DEF TypeOK, Phases, Unfinished, Unregistering, Polls, UniqueIds, WakersKept, Insert, Remove, DropTorusAsync
<1>18. CASE UNCHANGED vars
  BY <1>18 DEF TypeOK, Phases, Unfinished, Unregistering, Polls, UniqueIds, WakersKept, Insert, Remove, vars
<1>19. QED
  BY <1>1, <1>2, <1>3, <1>4, <1>5, <1>6, <1>7, <1>8, <1>9,
     <1>10, <1>11, <1>12, <1>13, <1>14, <1>15, <1>16, <1>17, <1>18
  DEF Next, PollStep, Reaper

\* No step leaves such a task with a stored result and no wake-up to come.
LEMMA NoLostWakeupStep == TypeOK /\ Phases /\ UniqueIds /\ WakersKept /\ NoLostWakeup /\ [Next]_vars => NoLostWakeup'
<1> SUFFICES ASSUME TypeOK, Phases, UniqueIds, WakersKept, NoLostWakeup, [Next]_vars PROVE NoLostWakeup'
  OBVIOUS
<1> USE DEF futureVars, registryVars, backendVars, reaperVars
<1>1. ASSUME NEW f \in Futures, PollInit(f) PROVE NoLostWakeup'
  BY <1>1 DEF TypeOK, Phases, Unfinished, Unregistering, Polls, UniqueIds, WakersKept, NoLostWakeup, Insert, Remove, PollInit
<1>2. ASSUME NEW f \in Futures, SubmitOk(f) PROVE NoLostWakeup'
  BY <1>2 DEF TypeOK, Phases, Unfinished, Unregistering, Polls, UniqueIds, WakersKept, NoLostWakeup, Insert, Remove, SubmitOk
<1>3. ASSUME NEW f \in Futures, SubmitErr(f) PROVE NoLostWakeup'
  BY <1>3 DEF TypeOK, Phases, Unfinished, Unregistering, Polls, UniqueIds, WakersKept, NoLostWakeup, Insert, Remove, SubmitErr
<1>4. ASSUME NEW f \in Futures, RegisterFirst(f) PROVE NoLostWakeup'
  BY <1>4 DEF TypeOK, Phases, Unfinished, Unregistering, Polls, UniqueIds, WakersKept, NoLostWakeup, Insert, Remove, RegisterFirst
<1>5. ASSUME NEW f \in Futures, PollWaiting(f) PROVE NoLostWakeup'
  BY <1>5 DEF TypeOK, Phases, Unfinished, Unregistering, Polls, UniqueIds, WakersKept, NoLostWakeup, Insert, Remove, PollWaiting
<1>6. ASSUME NEW f \in Futures, TakeNone(f) PROVE NoLostWakeup'
  BY <1>6 DEF TypeOK, Phases, Unfinished, Unregistering, Polls, UniqueIds, WakersKept, NoLostWakeup, Insert, Remove, TakeNone
<1>7. ASSUME NEW f \in Futures, TakeSome(f) PROVE NoLostWakeup'
  BY <1>7 DEF TypeOK, Phases, Unfinished, Unregistering, Polls, UniqueIds, WakersKept, NoLostWakeup, Insert, Remove, TakeSome
<1>8. ASSUME NEW f \in Futures, UnregisterWaker(f) PROVE NoLostWakeup'
  BY <1>8 DEF TypeOK, Phases, Unfinished, Unregistering, Polls, UniqueIds, WakersKept, NoLostWakeup, Insert, Remove, UnregisterWaker
<1>9. ASSUME NEW f \in Futures, UnregisterResult(f) PROVE NoLostWakeup'
  BY <1>9 DEF TypeOK, Phases, Unfinished, Unregistering, Polls, UniqueIds, WakersKept, NoLostWakeup, Insert, Remove, UnregisterResult
<1>10. ASSUME NEW f \in Futures, DropFuture(f) PROVE NoLostWakeup'
  BY <1>10 DEF TypeOK, Phases, Unfinished, Unregistering, Polls, UniqueIds, WakersKept, NoLostWakeup, Insert, Remove, DropFuture
<1>11. ASSUME NEW f \in Futures, SpuriousWake(f) PROVE NoLostWakeup'
  BY <1>11 DEF TypeOK, Phases, Unfinished, Unregistering, Polls, UniqueIds, WakersKept, NoLostWakeup, Insert, Remove, SpuriousWake
<1>12. ASSUME NEW u \in in_flight, BackendComplete(u) PROVE NoLostWakeup'
  BY <1>12 DEF TypeOK, Phases, Unfinished, Unregistering, Polls, UniqueIds, WakersKept, NoLostWakeup, Insert, Remove, BackendComplete
<1>13. CASE ReaperReap
  BY <1>13 DEF TypeOK, Phases, Unfinished, Unregistering, Polls, UniqueIds, WakersKept, NoLostWakeup, Insert, Remove, ReaperReap
<1>14. CASE ReaperSleep
  BY <1>14 DEF TypeOK, Phases, Unfinished, Unregistering, Polls, UniqueIds, WakersKept, NoLostWakeup, Insert, Remove, ReaperSleep
<1>15. CASE CompleteInsert
  BY <1>15 DEF TypeOK, Phases, Unfinished, Unregistering, Polls, UniqueIds, WakersKept, NoLostWakeup, Insert, Remove, CompleteInsert
<1>16. CASE CompleteWake
  <2> DEFINE u == Head(batch).user_data
  <2>1. WakersKept'
    BY WakersKeptStep
  <2>2. ASSUME NEW f \in Futures, pc[f] = "pending", ~awake'[f] PROVE user_data[f] \notin DOMAIN results
    <3>1. ~awake[f] /\ (u \in DOMAIN wakers => f # wakers[u])
      BY <1>16, <2>2 DEF CompleteWake, TypeOK
    <3>2. user_data[f] \in DOMAIN wakers /\ wakers[user_data[f]] = f
      BY <2>2, <3>1 DEF NoLostWakeup
    <3>3. user_data[f] # u
      BY <3>1, <3>2
    <3>4. QED
      BY <2>2, <3>1, <3>3 DEF NoLostWakeup
  <2>3. QED
    BY <1>16, <2>1, <2>2 DEF CompleteWake, NoLostWakeup, WakersKept
<1>17. CASE DropTorusAsync
  BY <1>17 DEF TypeOK, Phases, Unfinished, Unregistering, Polls, UniqueIds, WakersKept, NoLostWakeup, Insert, Remove, DropTorusAsync
<1>18. CASE UNCHANGED vars
  BY <1>18 DEF TypeOK, Phases, Unfinished, Unregistering, Polls, UniqueIds, WakersKept, NoLostWakeup, Insert, Remove, vars
<1>19. QED
  BY <1>1, <1>2, <1>3, <1>4, <1>5, <1>6, <1>7, <1>8, <1>9,
     <1>10, <1>11, <1>12, <1>13, <1>14, <1>15, <1>16, <1>17, <1>18
  DEF Next, PollStep, Reaper

\* IInv holds initially.
LEMMA IInvInit == Init => IInv
<1> SUFFICES ASSUME Init PROVE IInv
  OBVIOUS
<1>1. TypeOK
  BY TypeInit
<1>2. /\ DOMAIN wakers = {} /\ DOMAIN results = {} /\ DOMAIN produced = {}
      /\ cq = << >> /\ batch = << >> /\ in_flight = {}
  BY DEF Init, EmptyMap
<1>3. Phases /\ UniqueIds
  BY DEF Init, Phases, UniqueIds, Unfinished, Unregistering, Polls
<1>4. FlowsOwned /\ ResultsFaithful
  BY <1>2 DEF Init, FlowsOwned, ResultsFaithful
<1>5. OwnOutcome /\ WakersOwned /\ WakersKept /\ NoLostWakeup
  BY <1>2 DEF Init, OwnOutcome, WakersOwned, WakersKept, NoLostWakeup
<1>6. StagesDisjoint /\ Located
  BY <1>2 DEF Init, StagesDisjoint, Located, Todo, Unfinished
<1>7. QED
  BY <1>1, <1>3, <1>4, <1>5, <1>6 DEF IInv

\* Every step preserves IInv.
LEMMA IInvStep == IInv /\ [Next]_vars => IInv'
  BY TypeStep, PhasesStep, UniqueIdsStep, FlowsOwnedStep, ResultsFaithfulStep,
     OwnOutcomeStep, StagesDisjointStep, LocatedStep, WakersOwnedStep, WakersKeptStep,
     NoLostWakeupStep
  DEF IInv

\* IInv holds in every reachable state.
THEOREM Invariance == Spec => []IInv
  BY IInvInit, IInvStep, PTL DEF Spec

\* No future returns the completion of another future's flow.
THEOREM OwnOutcomeHolds == Spec => []OwnOutcome
<1>1. IInv => OwnOutcome
  BY DEF IInv
<1>2. QED
  BY Invariance, <1>1, PTL

\* A task that the Waiting arm parked is always about to be woken.
THEOREM NoLostWakeupHolds == Spec => []NoLostWakeup
<1>1. IInv => NoLostWakeup
  BY DEF IInv
<1>2. QED
  BY Invariance, <1>1, PTL

-----------------------------------------------------------------------------
(***************************************************************************)
(* Conservation of completions.                                            *)
(***************************************************************************)

\* The entries of batch left to dispatch are the ones Todo names.
LEMMA UndispatchedTodo ==
    ASSUME TypeOK
    PROVE  UserDataOf(Undispatched) = {batch[i].user_data : i \in Todo}
<1>1. CASE rpc = "wake"
  <2>1. batch # << >> /\ Undispatched = Tail(batch)
    BY <1>1 DEF TypeOK, Undispatched
  <2>2. /\ \A i \in DOMAIN Tail(batch) : i + 1 \in Todo /\ Tail(batch)[i] = batch[i + 1]
        /\ \A i \in Todo : i - 1 \in DOMAIN Tail(batch) /\ Tail(batch)[i - 1] = batch[i]
    BY <1>1, <2>1, HeadTailFacts DEF TypeOK, Todo
  <2>3. QED
    BY <2>1, <2>2 DEF UserDataOf
<1>2. CASE rpc = "insert"
  BY <1>2 DEF TypeOK, Undispatched, UserDataOf, Todo
<1>3. CASE rpc \notin {"wake", "insert"}
  <2>1. batch = << >>
    BY <1>3 DEF TypeOK
  <2>2. QED
    BY <1>3, <2>1 DEF Undispatched, UserDataOf, Todo
<1>4. QED
  BY <1>1, <1>2, <1>3

\* Stages names exactly the places that hold u.
LEMMA StagesMember ==
    ASSUME NEW u
    PROVE  /\ Stages(u) \subseteq {"backend", "cq", "reaper", "results"}
           /\ "backend" \in Stages(u) <=> u \in in_flight
           /\ "cq" \in Stages(u) <=> u \in UserDataOf(cq)
           /\ "reaper" \in Stages(u) <=> u \in UserDataOf(Undispatched)
           /\ "results" \in Stages(u) <=> u \in DOMAIN results
  BY DEF Stages

\* The four stages are disjoint, and together they are OnTheWay.
LEMMA StagesPartition ==
    ASSUME IInv, NEW u
    PROVE  /\ u \in OnTheWay => \E p : Stages(u) = {p}
           /\ u \notin OnTheWay => Stages(u) = {}
<1>1. UserDataOf(Undispatched) = {batch[i].user_data : i \in Todo}
  BY UndispatchedTodo DEF IInv
<1>2. /\ u \in in_flight => /\ u \notin UserDataOf(cq) /\ u \notin DOMAIN results
                            /\ u \notin {batch[i].user_data : i \in Todo}
      /\ u \in UserDataOf(cq) => u \notin DOMAIN results /\ u \notin {batch[i].user_data : i \in Todo}
      /\ u \in {batch[i].user_data : i \in Todo} => u \notin DOMAIN results
  BY DEF IInv, FlowsOwned, ResultsFaithful, StagesDisjoint, UserDataOf, Todo
<1>3. u \in OnTheWay => \/ u \in in_flight \/ u \in UserDataOf(cq)
                        \/ u \in {batch[i].user_data : i \in Todo} \/ u \in DOMAIN results
  BY DEF OnTheWay
<1>4. CASE u \in in_flight
  <2>1. Stages(u) = {"backend"}
    BY <1>1, <1>2, <1>4, StagesMember
  <2>2. QED
    BY <1>4, <2>1 DEF OnTheWay
<1>5. CASE u \in UserDataOf(cq)
  <2>1. Stages(u) = {"cq"}
    BY <1>1, <1>2, <1>5, StagesMember
  <2>2. QED
    BY <1>5, <2>1 DEF OnTheWay
<1>6. CASE u \in {batch[i].user_data : i \in Todo}
  <2>1. Stages(u) = {"reaper"}
    BY <1>1, <1>2, <1>6, StagesMember
  <2>2. QED
    BY <1>6, <2>1 DEF OnTheWay
<1>7. CASE u \in DOMAIN results
  <2>1. Stages(u) = {"results"}
    BY <1>1, <1>2, <1>7, StagesMember
  <2>2. QED
    BY <1>7, <2>1 DEF OnTheWay
<1>8. CASE u \notin OnTheWay
  BY <1>1, <1>8, StagesMember DEF OnTheWay
<1>9. QED
  BY <1>3, <1>4, <1>5, <1>6, <1>7, <1>8

\* The completion of a future that still waits is in exactly one place.
THEOREM CompletionConservedHolds == Spec => []CompletionConserved
<1>1. IInv => CompletionConserved
  <2> SUFFICES ASSUME IInv, NEW f \in Futures, pc[f] \in Unfinished
               PROVE  Cardinality(Stages(user_data[f])) = 1
    BY DEF CompletionConserved, Unfinished
  <2>1. user_data[f] \in OnTheWay
    BY DEF IInv, Located
  <2>2. PICK p : Stages(user_data[f]) = {p}
    BY <2>1, StagesPartition
  <2>3. QED
    BY <2>2, FS_Singleton
<1>2. QED
  BY Invariance, <1>1, PTL

\* A finished future leaves nothing in the registry, now or later.
THEOREM RegistryCleanHolds == Spec => []RegistryClean
<1>1. IInv => RegistryClean
  <2> SUFFICES ASSUME IInv, NEW f \in Futures
               PROVE  /\ pc[f] \in {"ready", "dropped"} => user_data[f] \notin DOMAIN wakers
                      /\ pc[f] = "ready" => Stages(user_data[f]) = {}
    BY DEF RegistryClean
  <2>1. pc[f] \in {"ready", "dropped"} => user_data[f] \notin DOMAIN wakers
    BY DEF IInv, WakersOwned
  <2>2. pc[f] = "ready" => user_data[f] \notin OnTheWay
    BY DEF IInv, Located, Phases
  <2>3. QED
    BY <2>1, <2>2, StagesPartition
<1>2. QED
  BY Invariance, <1>1, PTL

-----------------------------------------------------------------------------
(***************************************************************************)
(* TorusAsync implements AsyncIo.                                          *)
(***************************************************************************)

\* Initial states map to initial states of AsyncIo.
LEMMA AbsInit == Init => Abs!Init
  BY DEF Init, Abs!Init, absStatus, absOutcome, EmptyMap

\* Every step maps to a step of AsyncIo or to a stutter.
LEMMA AbsStep == TypeOK /\ Phases /\ UniqueIds /\ FlowsOwned /\ ResultsFaithful /\ [Next]_vars => [Abs!Next]_(Abs!vars)
<1> SUFFICES ASSUME TypeOK, Phases, UniqueIds, FlowsOwned, ResultsFaithful, [Next]_vars PROVE [Abs!Next]_(Abs!vars)
  OBVIOUS
<1> USE DEF futureVars, registryVars, backendVars, reaperVars
<1>1. ASSUME NEW f \in Futures, PollInit(f) PROVE [Abs!Next]_(Abs!vars)
  <2>1. absStatus' = absStatus
    BY <1>1 DEF PollInit, absStatus, TypeOK
  <2>2. next_id \notin DOMAIN produced /\ user_data[f] \notin DOMAIN produced
    BY <1>1 DEF PollInit, FlowsOwned, UniqueIds, TypeOK
  <2>3. absOutcome' = absOutcome /\ returned' = returned
    BY <1>1, <2>2 DEF PollInit, absOutcome, TypeOK
  <2>4. QED
    BY <2>1, <2>3 DEF Abs!vars
<1>2. ASSUME NEW f \in Futures, SubmitOk(f) PROVE [Abs!Next]_(Abs!vars)
  <2>1. absStatus[f] = "new" /\ absStatus' = [absStatus EXCEPT ![f] = "issued"]
    BY <1>2 DEF SubmitOk, absStatus, TypeOK
  <2>2. absOutcome' = absOutcome /\ returned' = returned
    BY <1>2 DEF SubmitOk, absOutcome
  <2>3. Abs!Issue(f)
    BY <2>1, <2>2 DEF Abs!Issue
  <2>4. QED
    BY <2>3 DEF Abs!Next
<1>3. ASSUME NEW f \in Futures, SubmitErr(f) PROVE [Abs!Next]_(Abs!vars)
  <2>1. absStatus[f] = "new" /\ absStatus' = [absStatus EXCEPT ![f] = "answered"]
    BY <1>3 DEF SubmitErr, absStatus, TypeOK
  <2>2. /\ absOutcome' = absOutcome
        /\ \E e \in SubmitErrors : returned' = [returned EXCEPT ![f] = ErrOs(e)]
    BY <1>3 DEF SubmitErr, absOutcome
  <2>3. Abs!Refuse(f)
    BY <2>1, <2>2 DEF Abs!Refuse, ErrOs, Abs!ErrOs
  <2>4. QED
    BY <2>3 DEF Abs!Next
<1>4. ASSUME NEW f \in Futures, RegisterFirst(f) PROVE [Abs!Next]_(Abs!vars)
  <2>1. absStatus' = absStatus
    BY <1>4 DEF RegisterFirst, absStatus, TypeOK, Phases, Unfinished, Unregistering
  <2>2. absOutcome' = absOutcome /\ returned' = returned
    BY <1>4 DEF RegisterFirst, absOutcome
  <2>3. QED
    BY <2>1, <2>2 DEF Abs!vars
<1>5. ASSUME NEW f \in Futures, PollWaiting(f) PROVE [Abs!Next]_(Abs!vars)
  <2>1. absStatus' = absStatus
    BY <1>5 DEF PollWaiting, absStatus, TypeOK, Phases, Unfinished, Unregistering
  <2>2. absOutcome' = absOutcome /\ returned' = returned
    BY <1>5 DEF PollWaiting, absOutcome
  <2>3. QED
    BY <2>1, <2>2 DEF Abs!vars
<1>6. ASSUME NEW f \in Futures, TakeNone(f) PROVE [Abs!Next]_(Abs!vars)
  <2>1. absStatus' = absStatus
    BY <1>6 DEF TakeNone, absStatus, TypeOK, Phases, Unfinished, Unregistering
  <2>2. absOutcome' = absOutcome /\ returned' = returned
    BY <1>6 DEF TakeNone, absOutcome
  <2>3. QED
    BY <2>1, <2>2 DEF Abs!vars
<1>7. ASSUME NEW f \in Futures, TakeSome(f) PROVE [Abs!Next]_(Abs!vars)
  <2>1. absStatus[f] = "issued" /\ absStatus' = [absStatus EXCEPT ![f] = "answered"]
    BY <1>7 DEF TakeSome, absStatus, TypeOK
  <2>2. user_data[f] \in DOMAIN produced /\ results[user_data[f]] = produced[user_data[f]]
    BY <1>7 DEF TakeSome, ResultsFaithful
  <2>3. absOutcome[f] = produced[user_data[f]] /\ absOutcome[f] # NoValue
    BY <2>2, NoValueAssumption DEF absOutcome, TypeOK
  <2>4. absOutcome' = absOutcome /\ returned' = [returned EXCEPT ![f] = ToPoll(absOutcome[f])]
    BY <1>7, <2>2, <2>3 DEF TakeSome, absOutcome
  <2>5. Abs!Answer(f)
    BY <2>1, <2>3, <2>4
    DEF Abs!Answer, ToPoll, Abs!ToPoll, is_ok, Abs!is_ok, ErrOs, Abs!ErrOs
  <2>6. QED
    BY <2>5 DEF Abs!Next
<1>8. ASSUME NEW f \in Futures, UnregisterWaker(f) PROVE [Abs!Next]_(Abs!vars)
  <2>1. absStatus' = absStatus
    BY <1>8 DEF UnregisterWaker, absStatus, TypeOK, Phases, Unfinished, Unregistering
  <2>2. absOutcome' = absOutcome /\ returned' = returned
    BY <1>8 DEF UnregisterWaker, absOutcome
  <2>3. QED
    BY <2>1, <2>2 DEF Abs!vars
<1>9. ASSUME NEW f \in Futures, UnregisterResult(f) PROVE [Abs!Next]_(Abs!vars)
  <2>1. absStatus' = absStatus
    BY <1>9 DEF UnregisterResult, absStatus, TypeOK, Phases, Unfinished, Unregistering
  <2>2. absOutcome' = absOutcome /\ returned' = returned
    BY <1>9 DEF UnregisterResult, absOutcome
  <2>3. QED
    BY <2>1, <2>2 DEF Abs!vars
<1>10. ASSUME NEW f \in Futures, DropFuture(f) PROVE [Abs!Next]_(Abs!vars)
  <2>1. absOutcome' = absOutcome /\ returned' = returned
    BY <1>10 DEF DropFuture, absOutcome
  <2>2. CASE pc[f] = "new"
    <3>1. absStatus[f] = "new" /\ absStatus' = [absStatus EXCEPT ![f] = "cancelled"]
      BY <1>10, <2>2 DEF DropFuture, absStatus, TypeOK, Phases
    <3>2. Abs!Cancel(f)
      BY <2>1, <3>1 DEF Abs!Cancel
    <3>3. QED
      BY <3>2 DEF Abs!Next
  <2>3. CASE pc[f] # "new"
    <3>1. absStatus[f] = "issued" /\ absStatus' = [absStatus EXCEPT ![f] = "detached"]
      BY <1>10, <2>3 DEF DropFuture, absStatus, TypeOK, Phases, Unfinished
    <3>2. Abs!Detach(f)
      BY <2>1, <3>1 DEF Abs!Detach
    <3>3. QED
      BY <3>2 DEF Abs!Next
  <2>4. QED
    BY <2>2, <2>3
<1>11. ASSUME NEW f \in Futures, SpuriousWake(f) PROVE [Abs!Next]_(Abs!vars)
  <2>1. absStatus' = absStatus
    BY <1>11 DEF SpuriousWake, absStatus, TypeOK, Phases, Unfinished, Unregistering
  <2>2. absOutcome' = absOutcome /\ returned' = returned
    BY <1>11 DEF SpuriousWake, absOutcome
  <2>3. QED
    BY <2>1, <2>2 DEF Abs!vars
<1>12. ASSUME NEW u \in in_flight, BackendComplete(u) PROVE [Abs!Next]_(Abs!vars)
  <2>1. PICK r \in Outcomes : /\ cq' = Append(cq, TorusResult(r, u))
                              /\ produced' = Insert(produced, u, r)
    BY <1>12 DEF BackendComplete
  <2>2. PICK g \in Futures : user_data[g] = u /\ state[g] = "Waiting"
    BY DEF FlowsOwned
  <2>3. absStatus' = absStatus /\ returned' = returned /\ user_data' = user_data
    BY <1>12 DEF BackendComplete, absStatus
  <2>4. absStatus[g] \in {"issued", "detached"}
    BY <2>2 DEF absStatus, TypeOK, Phases, Polls
  <2>5. u \notin DOMAIN produced
    BY DEF FlowsOwned
  <2>6. absOutcome[g] = NoValue
    BY <2>2, <2>5 DEF absOutcome
  <2>7. \A h \in Futures \ {g} : user_data[h] # u
    BY <2>2 DEF UniqueIds
  <2>8. /\ DOMAIN produced' = DOMAIN produced \cup {u} /\ produced'[u] = r
        /\ \A v \in DOMAIN produced : v # u => produced'[v] = produced[v]
    BY <2>1 DEF Insert
  <2>9. absOutcome' = [absOutcome EXCEPT ![g] = r]
    BY <2>2, <2>3, <2>5, <2>7, <2>8 DEF absOutcome
  <2>10. Abs!Finish(g)
    BY <2>3, <2>4, <2>6, <2>9 DEF Abs!Finish
  <2>11. QED
    BY <2>10 DEF Abs!Next
<1>13. CASE ReaperReap
  <2>1. absStatus' = absStatus
    BY <1>13 DEF ReaperReap, absStatus, TypeOK, Phases, Unfinished, Unregistering
  <2>2. absOutcome' = absOutcome /\ returned' = returned
    BY <1>13 DEF ReaperReap, absOutcome
  <2>3. QED
    BY <2>1, <2>2 DEF Abs!vars
<1>14. CASE ReaperSleep
  <2>1. absStatus' = absStatus
    BY <1>14 DEF ReaperSleep, absStatus, TypeOK, Phases, Unfinished, Unregistering
  <2>2. absOutcome' = absOutcome /\ returned' = returned
    BY <1>14 DEF ReaperSleep, absOutcome
  <2>3. QED
    BY <2>1, <2>2 DEF Abs!vars
<1>15. CASE CompleteInsert
  <2>1. absStatus' = absStatus
    BY <1>15 DEF CompleteInsert, absStatus, TypeOK, Phases, Unfinished, Unregistering
  <2>2. absOutcome' = absOutcome /\ returned' = returned
    BY <1>15 DEF CompleteInsert, absOutcome
  <2>3. QED
    BY <2>1, <2>2 DEF Abs!vars
<1>16. CASE CompleteWake
  <2>1. absStatus' = absStatus
    BY <1>16 DEF CompleteWake, absStatus, TypeOK, Phases, Unfinished, Unregistering
  <2>2. absOutcome' = absOutcome /\ returned' = returned
    BY <1>16 DEF CompleteWake, absOutcome
  <2>3. QED
    BY <2>1, <2>2 DEF Abs!vars
<1>17. CASE DropTorusAsync
  <2>1. absStatus' = absStatus
    BY <1>17 DEF DropTorusAsync, absStatus, TypeOK, Phases, Unfinished, Unregistering
  <2>2. absOutcome' = absOutcome /\ returned' = returned
    BY <1>17 DEF DropTorusAsync, absOutcome
  <2>3. QED
    BY <2>1, <2>2 DEF Abs!vars
<1>18. CASE UNCHANGED vars
  BY <1>18 DEF vars, absStatus, absOutcome, Abs!vars
<1>19. QED
  BY <1>1, <1>2, <1>3, <1>4, <1>5, <1>6, <1>7, <1>8, <1>9,
     <1>10, <1>11, <1>12, <1>13, <1>14, <1>15, <1>16, <1>17, <1>18
  DEF Next, PollStep, Reaper

\* Every behaviour of TorusAsync, seen through the refinement mapping, is one
\* of AsyncIo: each future gets the outcome of its own operation at most once.
THEOREM Refinement == Spec => ImplementsAsyncIo
<1>1. IInv /\ [Next]_vars => [Abs!Next]_(Abs!vars)
  BY AbsStep DEF IInv
<1>2. QED
  BY AbsInit, <1>1, Invariance, PTL DEF Spec, ImplementsAsyncIo, Abs!Spec
=============================================================================

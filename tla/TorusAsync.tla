----------------------------- MODULE TorusAsync ------------------------------
(***************************************************************************)
(* TorusAsync, its WakerRegistry, its reaper thread and the futures it      *)
(* hands out (tpt-torus-core/src/async_api.rs).                            *)
(*                                                                         *)
(* Every step is what one thread does under one lock or with one atomic:   *)
(* the wakers and the results are two maps behind two mutexes, so a poll,  *)
(* a drop and the reaper's complete() interleave between them.  The seven  *)
(* future types run the same state machine and differ only in the flow     *)
(* they submit and in the type of their Ok value, which is data here.      *)
(*                                                                         *)
(* The backend behind Torus's mutex is external to this module: it may     *)
(* refuse a flow, completes an accepted one when it likes, and hands the   *)
(* completions to reap in completion order.                                *)
(***************************************************************************)
EXTENDS TorusResult, Sequences, FiniteSets

CONSTANTS
    Futures,        \* the futures the program creates; each one is its own task
    Outcomes,       \* raw results the backend may report
    SubmitErrors,   \* codes of the errors Torus::submit may return
    NoValue         \* stands for None

ASSUME OutcomesAssumption == Outcomes \subseteq Int
ASSUME SubmitErrorsAssumption == SubmitErrors \subseteq Int
ASSUME NoValueAssumption == NoValue \notin Outcomes

VARIABLES
    state,          \* FutureState of every future
    pc,             \* where the thread polling or dropping the future is
    user_data,      \* the future's user_data, 0 until it is allocated
    returned,       \* the Poll::Ready value given to the task
    awake,          \* the executor has the future's task scheduled
    next_id,        \* WakerRegistry::next_id
    wakers,         \* WakerRegistry::wakers, user_data -> task
    results,        \* WakerRegistry::results, user_data -> raw result
    in_flight,      \* flows the backend has accepted and not completed
    cq,             \* the backend's completions, oldest first
    produced,       \* history: the raw result the backend gave each flow
    rpc,            \* where the reaper thread is
    batch,          \* its local Vec of results
    torusRefs       \* who owns a clone of the Arc<Torus>

futureVars   == <<state, pc, user_data, returned>>
registryVars == <<next_id, wakers, results>>
backendVars  == <<in_flight, cq, produced>>
reaperVars   == <<rpc, batch>>
vars == <<futureVars, awake, registryVars, backendVars, reaperVars, torusRefs>>

\* HashMap::insert and HashMap::remove.
Insert(m, k, v) == [x \in DOMAIN m \cup {k} |-> IF x = k THEN v ELSE m[x]]
Remove(m, k)    == [x \in DOMAIN m \ {k} |-> m[x]]
EmptyMap        == [x \in {} |-> NoValue]

-----------------------------------------------------------------------------
\* TorusAsync::new and from_torus: an empty registry, the reaper spawned.
\* The futures are created and not polled; a new task is scheduled.
Init ==
    /\ state = [f \in Futures |-> "Init"]
    /\ pc = [f \in Futures |-> "new"]
    /\ user_data = [f \in Futures |-> 0]
    /\ returned = [f \in Futures |-> NoValue]
    /\ awake = [f \in Futures |-> TRUE]
    /\ next_id = 1
    /\ wakers = EmptyMap
    /\ results = EmptyMap
    /\ in_flight = {}
    /\ cq = << >>
    /\ produced = EmptyMap
    /\ rpc = "reap"
    /\ batch = << >>
    /\ torusRefs = {"handle", "reaper"}

-----------------------------------------------------------------------------
(***************************************************************************)
(* poll.                                                                   *)
(***************************************************************************)

\* The Init arm: alloc_id, a fetch_add.
PollInit(f) ==
    /\ pc[f] = "new" /\ state[f] = "Init" /\ awake[f]
    /\ awake' = [awake EXCEPT ![f] = FALSE]
    /\ user_data' = [user_data EXCEPT ![f] = next_id]
    /\ next_id' = next_id + 1
    /\ pc' = [pc EXCEPT ![f] = "submit"]
    /\ UNCHANGED <<state, returned, wakers, results, backendVars, reaperVars, torusRefs>>

\* torus.submit(&flow) is accepted: from here on the reaper may complete it.
SubmitOk(f) ==
    /\ pc[f] = "submit"
    /\ in_flight' = in_flight \cup {user_data[f]}
    /\ state' = [state EXCEPT ![f] = "Waiting"]
    /\ pc' = [pc EXCEPT ![f] = "register"]
    /\ UNCHANGED <<user_data, returned, awake, registryVars, cq, produced, reaperVars, torusRefs>>

\* torus.submit(&flow) fails: Poll::Ready(Err(e)).
SubmitErr(f) ==
    /\ pc[f] = "submit"
    /\ state' = [state EXCEPT ![f] = "Done"]
    /\ \E e \in SubmitErrors : returned' = [returned EXCEPT ![f] = ErrOs(e)]
    /\ pc' = [pc EXCEPT ![f] = "ready"]
    /\ UNCHANGED <<user_data, awake, registryVars, backendVars, reaperVars, torusRefs>>

\* The end of the Init arm: register the waker and return Pending without
\* looking at results.
RegisterFirst(f) ==
    /\ pc[f] = "register"
    /\ wakers' = Insert(wakers, user_data[f], f)
    /\ pc' = [pc EXCEPT ![f] = "first_pending"]
    /\ UNCHANGED <<state, user_data, returned, awake, next_id, results, backendVars, reaperVars, torusRefs>>

\* The Waiting arm: register the waker again ...
PollWaiting(f) ==
    /\ pc[f] \in {"first_pending", "pending"} /\ state[f] = "Waiting" /\ awake[f]
    /\ awake' = [awake EXCEPT ![f] = FALSE]
    /\ wakers' = Insert(wakers, user_data[f], f)
    /\ pc' = [pc EXCEPT ![f] = "take"]
    /\ UNCHANGED <<state, user_data, returned, next_id, results, backendVars, reaperVars, torusRefs>>

\* ... then take_result: None is Pending ...
TakeNone(f) ==
    /\ pc[f] = "take"
    /\ user_data[f] \notin DOMAIN results
    /\ pc' = [pc EXCEPT ![f] = "pending"]
    /\ UNCHANGED <<state, user_data, returned, awake, registryVars, backendVars, reaperVars, torusRefs>>

\* Fault: take_result peeks at any delivered completion and not at its own.
TakeSome_Any(f) ==
    /\ pc[f] = "take"
    /\ \E u \in DOMAIN results :
          /\ returned' = [returned EXCEPT ![f] = ToPoll(results[u])]
          /\ results' = Remove(results, u)
    /\ state' = [state EXCEPT ![f] = "Done"]
    /\ pc' = [pc EXCEPT ![f] = "unregister_waker"]
    /\ UNCHANGED <<user_data, awake, next_id, wakers, backendVars, reaperVars, torusRefs>>

\* ... and Some(result) ends the future, which goes on to unregister.
TakeSome(f) ==
    /\ pc[f] = "take"
    /\ user_data[f] \in DOMAIN results
    /\ returned' = [returned EXCEPT ![f] = ToPoll(results[user_data[f]])]
    /\ results' = Remove(results, user_data[f])
    /\ state' = [state EXCEPT ![f] = "Done"]
    /\ pc' = [pc EXCEPT ![f] = "unregister_waker"]
    /\ UNCHANGED <<user_data, awake, next_id, wakers, backendVars, reaperVars, torusRefs>>

\* Fault: unregister forgets the waker.
UnregisterWaker_Kept(f) ==
    /\ pc[f] = "unregister_waker"
    /\ pc' = [pc EXCEPT ![f] = "unregister_result"]
    /\ UNCHANGED <<state, user_data, returned, awake, registryVars, backendVars, reaperVars, torusRefs>>

\* WakerRegistry::unregister, first the wakers, then the results.
UnregisterWaker(f) ==
    /\ pc[f] = "unregister_waker"
    /\ wakers' = Remove(wakers, user_data[f])
    /\ pc' = [pc EXCEPT ![f] = "unregister_result"]
    /\ UNCHANGED <<state, user_data, returned, awake, next_id, results, backendVars, reaperVars, torusRefs>>

UnregisterResult(f) ==
    /\ pc[f] = "unregister_result"
    /\ results' = Remove(results, user_data[f])
    /\ pc' = [pc EXCEPT ![f] = IF state[f] = "Done" THEN "ready" ELSE "dropped"]
    /\ UNCHANGED <<state, user_data, returned, awake, next_id, wakers, backendVars, reaperVars, torusRefs>>

\* Drop of a future: a Waiting one unregisters, any other does nothing.
DropFuture(f) ==
    /\ pc[f] \in {"new", "first_pending", "pending"}
    /\ pc' = [pc EXCEPT ![f] =
                 IF state[f] = "Waiting" THEN "unregister_waker" ELSE "dropped"]
    /\ UNCHANGED <<state, user_data, returned, awake, registryVars, backendVars, reaperVars, torusRefs>>

\* The executor polls a task nobody woke: join! and select! do, and so does an
\* executor that re-polls its tasks on a timer.
SpuriousWake(f) ==
    /\ pc[f] \in {"first_pending", "pending"} /\ ~awake[f]
    /\ awake' = [awake EXCEPT ![f] = TRUE]
    /\ UNCHANGED <<futureVars, registryVars, backendVars, reaperVars, torusRefs>>

-----------------------------------------------------------------------------
(***************************************************************************)
(* The backend (external) and the reaper thread.                           *)
(***************************************************************************)

BackendComplete(u) ==
    /\ u \in in_flight
    /\ in_flight' = in_flight \ {u}
    /\ \E r \in Outcomes :
          /\ cq' = Append(cq, TorusResult(r, u))
          /\ produced' = Insert(produced, u, r)
    /\ UNCHANGED <<futureVars, awake, registryVars, reaperVars, torusRefs>>

\* Fault: reap hands out one completion and drops the rest of the queue.
ReaperReap_One ==
    /\ rpc = "reap"
    /\ cq # << >>
    /\ batch' = <<Head(cq)>>
    /\ cq' = << >>
    /\ rpc' = "insert"
    /\ UNCHANGED <<futureVars, awake, registryVars, in_flight, produced, torusRefs>>

\* torus.reap drains the completion queue into the local Vec.
ReaperReap ==
    /\ rpc = "reap"
    /\ cq # << >>
    /\ batch' = cq
    /\ cq' = << >>
    /\ rpc' = "insert"
    /\ UNCHANGED <<futureVars, awake, registryVars, in_flight, produced, torusRefs>>

\* Nothing to reap: sleep 500us, then look again.
ReaperSleep ==
    /\ \/ rpc = "reap" /\ cq = << >> /\ rpc' = "sleep"
       \/ rpc = "sleep" /\ rpc' = "reap"
    /\ UNCHANGED <<futureVars, awake, registryVars, backendVars, batch, torusRefs>>

\* WakerRegistry::complete, under the results lock.
CompleteInsert ==
    /\ rpc = "insert"
    /\ results' = Insert(results, Head(batch).user_data, Head(batch).result)
    /\ rpc' = "wake"
    /\ UNCHANGED <<futureVars, awake, next_id, wakers, backendVars, batch, torusRefs>>

\* Fault: complete removes the waker and does not wake it.
CompleteWake_Silent ==
    /\ rpc = "wake"
    /\ wakers' = Remove(wakers, Head(batch).user_data)
    /\ batch' = Tail(batch)
    /\ rpc' = IF Tail(batch) = << >> THEN "reap" ELSE "insert"
    /\ UNCHANGED <<futureVars, awake, next_id, results, backendVars, torusRefs>>

\* WakerRegistry::complete, under the wakers lock, which is held during wake().
CompleteWake ==
    /\ rpc = "wake"
    /\ LET u == Head(batch).user_data IN
          IF u \in DOMAIN wakers
          THEN /\ awake' = [awake EXCEPT ![wakers[u]] = TRUE]
               /\ wakers' = Remove(wakers, u)
          ELSE UNCHANGED <<awake, wakers>>
    /\ batch' = Tail(batch)
    /\ rpc' = IF Tail(batch) = << >> THEN "reap" ELSE "insert"
    /\ UNCHANGED <<futureVars, next_id, results, backendVars, torusRefs>>

\* TorusAsync is dropped.  The futures borrow it, so they are gone; dropping
\* the JoinHandle detaches the reaper, which keeps its own Arc<Torus>.
DropTorusAsync ==
    /\ "handle" \in torusRefs
    /\ \A f \in Futures : pc[f] \in {"ready", "dropped"}
    /\ torusRefs' = torusRefs \ {"handle"}
    /\ UNCHANGED <<futureVars, awake, registryVars, backendVars, reaperVars>>

-----------------------------------------------------------------------------
PollStep(f) ==
    \/ PollInit(f) \/ SubmitOk(f) \/ SubmitErr(f) \/ RegisterFirst(f)
    \/ PollWaiting(f) \/ TakeNone(f) \/ TakeSome(f)
    \/ UnregisterWaker(f) \/ UnregisterResult(f)

Reaper == ReaperReap \/ ReaperSleep \/ CompleteInsert \/ CompleteWake

Next ==
    \/ \E f \in Futures : PollStep(f) \/ DropFuture(f) \/ SpuriousWake(f)
    \/ \E u \in in_flight : BackendComplete(u)
    \/ Reaper
    \/ DropTorusAsync

Spec == Init /\ [][Next]_vars

\* Threads run, the executor polls the tasks that are scheduled, and the device
\* finishes what it accepted.  Nothing obliges a task to drop a future.
Fairness ==
    /\ \A f \in Futures : WF_vars(PollStep(f))
    /\ WF_vars(\E u \in in_flight : BackendComplete(u))
    /\ WF_vars(Reaper)

\* An executor that parks a task until its waker is called (tokio, async-std).
ParkingSpec == Spec /\ Fairness

-----------------------------------------------------------------------------
(***************************************************************************)
(* Properties.                                                             *)
(***************************************************************************)

Polls == {"new", "submit", "register", "first_pending", "pending", "take",
          "unregister_waker", "unregister_result", "ready", "dropped"}

Completions == [result : Outcomes, user_data : Nat]

\* Every variable has the type its Rust declaration gives it.
TypeOK ==
    /\ state \in [Futures -> {"Init", "Waiting", "Done"}]
    /\ pc \in [Futures -> Polls]
    /\ user_data \in [Futures -> Nat]
    /\ returned \in [Futures -> {NoValue} \cup [ok : BOOLEAN, val : Int]]
    /\ awake \in [Futures -> BOOLEAN]
    /\ next_id \in Nat \ {0}
    /\ DOMAIN wakers \subseteq Nat /\ wakers \in [DOMAIN wakers -> Futures]
    /\ DOMAIN results \subseteq Nat /\ results \in [DOMAIN results -> Outcomes]
    /\ in_flight \subseteq Nat
    /\ cq \in Seq(Completions)
    /\ DOMAIN produced \subseteq Nat /\ produced \in [DOMAIN produced -> Outcomes]
    /\ rpc \in {"reap", "sleep", "insert", "wake"}
    /\ batch \in Seq(Completions)
    /\ (rpc \in {"insert", "wake"}) <=> (batch # << >>)
    /\ torusRefs \subseteq {"handle", "reaper"}

\* A future that has returned gave its task the outcome the backend produced
\* for that future's own flow, whatever other futures, drops and batches the
\* reaper went through: no future steals another's completion.
OwnOutcome ==
    \A f \in Futures :
        returned[f] # NoValue =>
            IF user_data[f] \in DOMAIN produced
            THEN returned[f] = ToPoll(produced[user_data[f]])
            ELSE \E e \in SubmitErrors : returned[f] = ErrOs(e)

\* The completions the reaper has taken and not yet stored in results.
Undispatched == IF rpc = "wake" THEN Tail(batch) ELSE batch

UserDataOf(q) == {q[i].user_data : i \in DOMAIN q}

\* Where a flow's completion can be between submission and take_result.
Stages(u) ==
    {p \in {"backend", "cq", "reaper", "results"} :
        CASE p = "backend" -> u \in in_flight
          [] p = "cq"      -> u \in UserDataOf(cq)
          [] p = "reaper"  -> u \in UserDataOf(Undispatched)
          [] p = "results" -> u \in DOMAIN results}

\* The completion of a future that still waits is in exactly one place on its
\* way from the backend to take_result: never lost by the reaper, by a
\* concurrent unregister or by another future, and never there twice.
CompletionConserved ==
    \A f \in Futures :
        pc[f] \in {"register", "first_pending", "pending", "take"} =>
            Cardinality(Stages(user_data[f])) = 1

\* A future that returned or was dropped leaves no waker behind, and one that
\* returned leaves no result either, not even one still to be dispatched.
RegistryClean ==
    \A f \in Futures :
        /\ pc[f] \in {"ready", "dropped"} => user_data[f] \notin DOMAIN wakers
        /\ pc[f] = "ready" => Stages(user_data[f]) = {}

\* A task parked by the Waiting arm will be woken: its waker is registered, and
\* if its result is already stored the reaper is about to call that waker.
\* (After the first poll this does not hold: see EveryTaskServed.)
NoLostWakeup ==
    \A f \in Futures :
        pc[f] = "pending" /\ ~awake[f] =>
            /\ user_data[f] \in DOMAIN wakers
            /\ wakers[user_data[f]] = f
            /\ user_data[f] \in DOMAIN results =>
                   rpc = "wake" /\ Head(batch).user_data = user_data[f]

\* A submitted future is eventually returned to its task, or dropped by it.
EveryTaskServed ==
    \A f \in Futures : state[f] = "Waiting" ~> pc[f] \in {"ready", "dropped"}

\* A future that was polled at least twice is eventually returned or dropped,
\* even by an executor that only polls woken tasks.
RepolledTaskServed ==
    \A f \in Futures : pc[f] = "pending" ~> pc[f] \in {"ready", "dropped"}

-----------------------------------------------------------------------------
(***************************************************************************)
(* The inductive invariant behind the safety properties.                   *)
(***************************************************************************)

Unfinished == {"register", "first_pending", "pending", "take"}
Unregistering == {"unregister_waker", "unregister_result"}

\* FutureState follows the program counter, and only a Done future returned.
Phases ==
    \A f \in Futures :
        /\ pc[f] \in {"new", "submit"} => state[f] = "Init"
        /\ pc[f] \in Unfinished => state[f] = "Waiting"
        /\ pc[f] \in Unregistering => state[f] \in {"Waiting", "Done"}
        /\ pc[f] = "ready" => state[f] = "Done"
        /\ pc[f] = "dropped" => state[f] \in {"Init", "Waiting"}
        /\ returned[f] # NoValue => state[f] = "Done"

\* user_data identifies a future once it is allocated.
UniqueIds ==
    /\ \A f \in Futures :
          /\ user_data[f] < next_id
          /\ pc[f] = "new" => user_data[f] = 0
          /\ pc[f] \in Polls \ {"new", "dropped"} \/ state[f] # "Init" => user_data[f] # 0
    /\ \A f, g \in Futures : user_data[f] = user_data[g] /\ user_data[f] # 0 => f = g

\* A flow in the backend belongs to a submitted future, and completes once.
FlowsOwned ==
    /\ \A u \in in_flight : \E f \in Futures : user_data[f] = u /\ state[f] = "Waiting"
    /\ \A u \in DOMAIN produced : u \notin in_flight /\ u # 0 /\ u < next_id
    /\ \A f \in Futures : pc[f] = "submit" => user_data[f] \notin DOMAIN produced

\* The queues and the registry carry the result the backend produced.
ResultsFaithful ==
    /\ \A i \in DOMAIN cq : /\ cq[i].user_data \in DOMAIN produced
                            /\ cq[i].result = produced[cq[i].user_data]
    /\ \A i \in DOMAIN batch : /\ batch[i].user_data \in DOMAIN produced
                               /\ batch[i].result = produced[batch[i].user_data]
    /\ \A u \in DOMAIN results : u \in DOMAIN produced /\ results[u] = produced[u]

\* The entries of batch that are not in results yet.
Todo == {i \in DOMAIN batch : rpc = "insert" \/ i > 1}

\* No completion is in two places.
StagesDisjoint ==
    /\ \A i, j \in DOMAIN cq : cq[i].user_data = cq[j].user_data => i = j
    /\ \A i, j \in DOMAIN batch : batch[i].user_data = batch[j].user_data => i = j
    /\ \A i \in DOMAIN cq, j \in DOMAIN batch : cq[i].user_data # batch[j].user_data
    /\ \A i \in DOMAIN cq : cq[i].user_data \notin DOMAIN results
    /\ \A i \in Todo : batch[i].user_data \notin DOMAIN results

\* The flows whose completion is between the backend and take_result.
OnTheWay ==
    in_flight \cup UserDataOf(cq) \cup {batch[i].user_data : i \in Todo} \cup DOMAIN results

\* The completion of an unfinished future is on the way, that of a returned one
\* is nowhere.
Located ==
    \A f \in Futures :
        /\ pc[f] \in Unfinished => user_data[f] \in OnTheWay
        /\ state[f] = "Done" => user_data[f] \notin OnTheWay

\* A waker is registered only between RegisterFirst and UnregisterWaker.
WakersOwned ==
    /\ \A u \in DOMAIN wakers : u # 0 /\ u < next_id
    /\ \A f \in Futures :
          pc[f] \in {"new", "submit", "register", "unregister_result", "ready", "dropped"} =>
              user_data[f] \notin DOMAIN wakers

\* A task parked by the Waiting arm has its waker registered for the reaper.
WakersKept ==
    \A f \in Futures :
        pc[f] \in {"take", "pending"} /\ ~awake[f] =>
            user_data[f] \in DOMAIN wakers /\ wakers[user_data[f]] = f

\* The invariant that the proofs in TorusAsyncProofs show to be inductive.
IInv ==
    /\ TypeOK /\ Phases /\ UniqueIds /\ FlowsOwned /\ ResultsFaithful /\ OwnOutcome
    /\ StagesDisjoint /\ Located /\ WakersOwned /\ WakersKept /\ NoLostWakeup

-----------------------------------------------------------------------------
(***************************************************************************)
(* TorusAsync implements AsyncIo.                                          *)
(***************************************************************************)

absStatus ==
    [f \in Futures |->
        CASE pc[f] \in {"new", "submit"} -> "new"
          [] pc[f] \in {"register", "first_pending", "pending", "take"} -> "issued"
          [] OTHER -> IF state[f] = "Done" THEN "answered"
                      ELSE IF state[f] = "Waiting" THEN "detached"
                      ELSE "cancelled"]

absOutcome ==
    [f \in Futures |->
        IF user_data[f] \in DOMAIN produced THEN produced[user_data[f]] ELSE NoValue]

Abs == INSTANCE AsyncIo WITH status <- absStatus, outcome <- absOutcome, answer <- returned

\* The registry, the reaper and the polls deliver to every future the outcome
\* of its own operation at most once, or are told that it is gone.
ImplementsAsyncIo == Abs!Spec
=============================================================================

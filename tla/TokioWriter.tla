----------------------------- MODULE TokioWriter -----------------------------
(***************************************************************************)
(* TorusAsyncWriter (tpt-torus-core/src/async_tokio.rs) over               *)
(* TorusAsync::poll_write_op (async_api.rs).  Unlike the reader it owns no *)
(* buffer: the flow holds the address of the slice the caller polls with,  *)
(* and only a caller that keeps polling that slice keeps it in place.      *)
(* poll_flush and poll_shutdown answer at once and change nothing.         *)
(***************************************************************************)
EXTENDS Integers, Sequences

CONSTANT MaxOps     \* bound: ids allocated

VARIABLES
    submitted, user_data, offset,   \* the writer's own fields
    next_id, results,   \* the WakerRegistry, shared with other adapters
    op,             \* the write in flight: its user_data, slice and offset
    chunk,          \* the caller's slice: which memory it is, and the bytes left in it
    writing,        \* the caller polls
    switched,       \* history: a caller gave a write up and came with another slice
    accepted,       \* history: the bytes the callers were told are written
    file            \* what the device has written

writer == <<submitted, user_data, offset>>
caller == <<chunk, writing, switched, accepted>>

None == [user_data |-> 0, slice |-> 0, bytes |-> << >>, offset |-> 0]

Init ==
    /\ submitted = FALSE /\ user_data = 0 /\ offset = 0 /\ op = None
    /\ chunk = [slice |-> 1, bytes |-> << >>]
    /\ writing = FALSE /\ switched = FALSE /\ accepted = << >> /\ file = << >>

\* A caller (write_all) comes with what is left in its slice.
Call ==
    /\ ~writing /\ chunk.bytes # << >> /\ next_id <= MaxOps
    /\ writing' = TRUE
    /\ UNCHANGED <<writer, next_id, results, op, chunk, switched, accepted, file>>

\* One that gave its write up comes with another slice.
Switch ==
    /\ writing /\ Len(chunk.bytes) > 1 /\ ~switched
    /\ chunk' = [slice |-> chunk.slice + 1, bytes |-> Tail(chunk.bytes)]
    /\ switched' = TRUE
    /\ UNCHANGED <<writer, next_id, results, op, writing, accepted, file>>

\* The first poll of a write: poll_write_op allocates an id and submits.
PollSubmit ==
    /\ writing /\ ~submitted
    /\ user_data' = next_id /\ next_id' = next_id + 1
    /\ op' = [user_data |-> next_id, slice |-> chunk.slice, bytes |-> chunk.bytes, offset |-> offset]
    /\ submitted' = TRUE
    /\ UNCHANGED <<offset, results, caller, file>>

\* The same, refused by Torus::submit.
PollRefused ==
    /\ writing /\ ~submitted
    /\ user_data' = next_id /\ next_id' = next_id + 1
    /\ writing' = FALSE
    /\ UNCHANGED <<submitted, offset, results, op, chunk, switched, accepted, file>>

\* A later poll that finds no completion.
PollPending ==
    /\ writing /\ submitted /\ user_data \notin DOMAIN results
    /\ UNCHANGED <<writer, next_id, results, op, caller, file>>

\* take_result removes the completion.
Taken == [u \in DOMAIN results \ {user_data} |-> results[u]]

\* The caller is told that n bytes are written, and goes on after them.  (After
\* Switch n may be more than its slice has: it counts the first one.)
Accept(n) ==
    LET k == IF n <= Len(chunk.bytes) THEN n ELSE Len(chunk.bytes) IN
    /\ accepted' = accepted \o SubSeq(chunk.bytes, 1, k)
    /\ chunk' = [chunk EXCEPT !.bytes = SubSeq(@, k + 1, Len(@))]
    /\ writing' = FALSE
    /\ UNCHANGED switched

\* Fault: the offset is advanced by the slice, not by what was written.
PollOk_OffsetBySlice ==
    /\ writing /\ submitted /\ user_data \in DOMAIN results /\ results[user_data] >= 0
    /\ results' = Taken
    /\ offset' = offset + Len(chunk.bytes)
    /\ submitted' = FALSE
    /\ Accept(results[user_data])
    /\ UNCHANGED <<user_data, next_id, op, file>>

\* A later poll that finds the count: advance, ready to submit.
PollOk ==
    /\ writing /\ submitted /\ user_data \in DOMAIN results /\ results[user_data] >= 0
    /\ results' = Taken
    /\ offset' = offset + results[user_data]
    /\ submitted' = FALSE
    /\ Accept(results[user_data])
    /\ UNCHANGED <<user_data, next_id, op, file>>

\* A later poll that finds an error: it is passed on, and submitted stays set.
PollErr ==
    /\ writing /\ submitted /\ user_data \in DOMAIN results /\ results[user_data] < 0
    /\ results' = Taken
    /\ writing' = FALSE
    /\ UNCHANGED <<writer, next_id, op, chunk, switched, accepted, file>>

Poll == PollSubmit \/ PollRefused \/ PollPending \/ PollOk \/ PollErr

\* The completion of the write in flight reaches the registry.
Completed(raw) ==
    /\ op # None /\ op' = None
    /\ results' = [u \in DOMAIN results \cup {op.user_data} |->
                      IF u = op.user_data THEN raw ELSE results[u]]

\* External: what the device finds at the address of the flow: the bytes that
\* were there, or anything (-1) once the caller has given that slice up.
Found == {op.bytes} \cup
         IF op.slice = chunk.slice THEN {} ELSE {[i \in DOMAIN op.bytes |-> -1]}

\* External: the device writes some of the bytes at the offset.
DeviceOk ==
    /\ \E n \in 1 .. Len(op.bytes), bytes \in Found :
          /\ Completed(n)
          /\ file' = SubSeq(file, 1, op.offset) \o SubSeq(bytes, 1, n)
                     \o SubSeq(file, op.offset + n + 1, Len(file))
    /\ UNCHANGED <<writer, next_id, caller>>

DeviceErr ==
    /\ Completed(-5)
    /\ UNCHANGED <<writer, next_id, caller, file>>
=============================================================================

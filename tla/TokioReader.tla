----------------------------- MODULE TokioReader -----------------------------
(***************************************************************************)
(* TorusAsyncReader (tpt-torus-core/src/async_tokio.rs) over               *)
(* TorusAsync::poll_read_op (async_api.rs): a stream that keeps a user_data *)
(* and a submitted flag across polls, reads into a scratch Vec it owns and *)
(* copies from there into the caller's ReadBuf.                            *)
(*                                                                         *)
(* The file is the bytes 0, 1, 2, ...  The steps here are composed in      *)
(* TokioCopy with those of a writer that shares next_id and results, and   *)
(* with the wakers; the registry behind poll_read_op is an atomic map,     *)
(* which TorusAsync takes apart.                                           *)
(***************************************************************************)
EXTENDS Integers, Sequences

CONSTANTS
    FileSize,       \* bytes in the file
    Needs,          \* room the callers' buffers have, buf.remaining()
    MaxOps          \* bound: flows submitted

ASSUME NeedsAssumption == FileSize \in Nat /\ Needs \subseteq Nat /\ MaxOps \in Nat

VARIABLES
    submitted, user_data, offset,   \* the reader's own fields
    scratch,        \* its Vec: which allocation it is, and the bytes in it
    next_id,        \* WakerRegistry::next_id
    op,             \* the flow in flight: its user_data, allocation, len, offset
    results,        \* WakerRegistry::results, user_data -> raw result
    need,           \* room of the buffer the caller polls with, 0 between reads
    switched,       \* history: a caller gave a read up and came with another buffer
    delivered,      \* history: the bytes put into the callers' buffers
    overrun         \* put_slice was given more bytes than there was room for

reader == <<submitted, user_data, offset, scratch>>
reader_vars == <<reader, next_id, op, results, need, switched, delivered, overrun>>

None == [user_data |-> 0, alloc |-> 0, len |-> 0, offset |-> 0]

ReaderInit ==
    /\ submitted = FALSE /\ user_data = 0 /\ offset = 0
    /\ scratch = [alloc |-> 0, bytes |-> << >>]
    /\ next_id = 1 /\ op = None
    /\ results = [u \in {} |-> 0]
    /\ need = 0 /\ switched = FALSE /\ delivered = << >> /\ overrun = FALSE

\* A caller comes with a buffer.  One that gave its read up (select!, timeout)
\* comes back with another buffer while the first read is still in flight; then what the read
\* returned goes to the new buffer.
Call(n) ==
    /\ next_id <= MaxOps
    /\ need # n
    /\ need' = n
    /\ switched' = (switched \/ need # 0)
    /\ UNCHANGED <<reader, next_id, op, results, delivered, overrun>>

\* Fault: a buffer of the size asked for is allocated on every poll.
Resized_Fresh(n) == {[alloc |-> scratch.alloc + 1, bytes |-> [i \in 1 .. n |-> 0]]}

\* Vec::resize to at least n bytes; growing it may move it to a new allocation.
Resized(n) ==
    IF Len(scratch.bytes) >= n THEN {scratch}
    ELSE {[alloc |-> a, bytes |-> scratch.bytes \o [i \in 1 .. n - Len(scratch.bytes) |-> 0]] :
             a \in {scratch.alloc, scratch.alloc + 1}}

\* poll_read answers; the caller may come with its next buffer.
Answered == need' = 0 /\ UNCHANGED switched

\* A poll with no room: poll_read answers at once.
PollNoRoom ==
    /\ need = 0 /\ 0 \in Needs
    /\ UNCHANGED reader_vars

\* The first poll of a read: poll_read_op allocates an id and submits.
PollSubmit ==
    /\ need > 0 /\ ~submitted
    /\ scratch' \in Resized(need)
    /\ user_data' = next_id /\ next_id' = next_id + 1
    /\ op' = [user_data |-> next_id, alloc |-> scratch'.alloc, len |-> need, offset |-> offset]
    /\ submitted' = TRUE
    /\ UNCHANGED <<offset, results, need, switched, delivered, overrun>>

\* The same, refused by Torus::submit.
PollRefused ==
    /\ need > 0 /\ ~submitted
    /\ scratch' \in Resized(need)
    /\ user_data' = next_id /\ next_id' = next_id + 1
    /\ Answered
    /\ UNCHANGED <<submitted, offset, op, results, delivered, overrun>>

\* A later poll that finds no completion.
PollPending ==
    /\ need > 0 /\ submitted /\ user_data \notin DOMAIN results
    /\ scratch' \in Resized(need)
    /\ UNCHANGED <<submitted, user_data, offset, next_id, op, results, need, switched, delivered, overrun>>

\* take_result removes the completion.
Taken == [u \in DOMAIN results \ {user_data} |-> results[u]]

\* Fault: submitted is not reset after an answer.
PollOk_StillSubmitted ==
    /\ need > 0 /\ submitted /\ user_data \in DOMAIN results /\ results[user_data] >= 0
    /\ scratch' \in Resized(need)
    /\ results' = Taken
    /\ delivered' = delivered \o SubSeq(scratch'.bytes, 1, results[user_data])
    /\ overrun' = (overrun \/ results[user_data] > need)
    /\ offset' = offset + results[user_data]
    /\ Answered
    /\ UNCHANGED <<submitted, user_data, next_id, op>>

\* A later poll that finds the bytes: copy them out, advance, ready to submit.
PollOk ==
    /\ need > 0 /\ submitted /\ user_data \in DOMAIN results /\ results[user_data] >= 0
    /\ scratch' \in Resized(need)
    /\ results' = Taken
    /\ delivered' = delivered \o SubSeq(scratch'.bytes, 1, results[user_data])
    /\ overrun' = (overrun \/ results[user_data] > need)
    /\ offset' = offset + results[user_data]
    /\ submitted' = FALSE
    /\ Answered
    /\ UNCHANGED <<user_data, next_id, op>>

\* A later poll that finds an error: it is passed on, and submitted stays set.
PollErr ==
    /\ need > 0 /\ submitted /\ user_data \in DOMAIN results /\ results[user_data] < 0
    /\ scratch' \in Resized(need)
    /\ results' = Taken
    /\ Answered
    /\ UNCHANGED <<submitted, user_data, offset, next_id, op, delivered, overrun>>

\* External: the device reads n bytes, as many as the file still has or fewer
\* but some, into the allocation it was given.  If the Vec has moved since,
\* that is not where the reader looks.
DeviceOk ==
    /\ op # None
    /\ \E n \in 0 .. op.len :
          /\ n <= FileSize - op.offset
          /\ n = 0 => op.offset >= FileSize
          /\ results' = [u \in DOMAIN results \cup {op.user_data} |->
                            IF u = op.user_data THEN n ELSE results[u]]
          /\ scratch' = IF scratch.alloc # op.alloc THEN scratch
                        ELSE [scratch EXCEPT !.bytes =
                                 [i \in DOMAIN @ |-> IF i <= n THEN op.offset + i - 1 ELSE @[i]]]
    /\ op' = None
    /\ UNCHANGED <<submitted, user_data, offset, next_id, need, switched, delivered, overrun>>

DeviceErr ==
    /\ op # None
    /\ results' = [u \in DOMAIN results \cup {op.user_data} |->
                      IF u = op.user_data THEN -5 ELSE results[u]]
    /\ op' = None
    /\ UNCHANGED <<reader, next_id, need, switched, delivered, overrun>>

-----------------------------------------------------------------------------
(***************************************************************************)
(* Properties.                                                             *)
(***************************************************************************)

\* As long as a caller polls one buffer until it is answered, the bytes the
\* callers have received are the file's bytes from the start, in order, with
\* none missing, none repeated and none stale, and the offset says how many:
\* short reads, the re-used scratch buffer, refused submissions and failed
\* reads included.
SequentialBytes ==
    /\ delivered = [i \in 1 .. Len(delivered) |-> i - 1]
    /\ offset = Len(delivered)

\* The memory a read in flight writes to is the scratch buffer of the reader: no
\* poll moved it.
InFlightOwned == op # None => op.alloc = scratch.alloc

\* Such a caller gets the file, never more bytes than its buffer has room for
\* (which would panic in ReadBuf::put_slice), and the device writes to memory that
\* the reader owns.
ReaderExact == ~switched => SequentialBytes /\ ~overrun /\ InFlightOwned
=============================================================================

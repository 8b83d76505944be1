----------------------------- MODULE TorusResult -----------------------------
(***************************************************************************)
(* tpt_torus_core::Result: the raw i64 a backend reports for one flow, and  *)
(* the value a future returns for it.  A result is a record carrying the   *)
(* user_data of its flow.  Backends only report byte counts, descriptors   *)
(* and negated errno values, which fit an i32, so the narrowing casts of   *)
(* the accessors do not change them.                                       *)
(***************************************************************************)
EXTENDS Integers

TorusResult(result, user_data) == [result |-> result, user_data |-> user_data]

is_ok(r) == r >= 0

\* Poll::Ready(Err(Error::Os(code))).
ErrOs(code) == [ok |-> FALSE, val |-> code]

\* Poll::Ready for a raw result: Ok(bytes) when it is not negative, otherwise
\* the error whose code is the negated result.
ToPoll(r) == IF is_ok(r) THEN [ok |-> TRUE, val |-> r] ELSE ErrOs(-r)
=============================================================================

---------------------------- MODULE MCTorusAsync -----------------------------
\* Model-checking instances of TorusAsync.
EXTENDS TorusAsync

\* A byte count and the negated errno EIO.
MCOutcomes == {4, -5}
MCSubmitErrors == {11}
=============================================================================

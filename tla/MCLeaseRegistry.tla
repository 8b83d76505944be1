-------------------------- MODULE MCLeaseRegistry ----------------------------
\* Model-checking instance of LeaseRegistry.
EXTENDS LeaseRegistry, TLC

Symmetric == Permutations(Ops)
=============================================================================

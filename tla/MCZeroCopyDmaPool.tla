-------------------------- MODULE MCZeroCopyDmaPool --------------------------
\* Model-checking instance of ZeroCopyDmaPool: two slots, of which the second
\* has the alignment, so that a scan for it takes and releases the first.
EXTENDS ZeroCopyDmaPool

MCAligned == {2}
=============================================================================

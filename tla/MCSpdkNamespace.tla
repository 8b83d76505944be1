--------------------------- MODULE MCSpdkNamespace ---------------------------
\* Model-checking instance of SpdkNamespace: two threads that pass
\* two buffers to and fro.
EXTENDS SpdkNamespace
=============================================================================

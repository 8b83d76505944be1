---------------------------- MODULE MCIocpBackend ----------------------------
(* IocpBackend for TLC: a file and a socket, vectored flows of two buffers.  *)
EXTENDS IocpBackend
=============================================================================

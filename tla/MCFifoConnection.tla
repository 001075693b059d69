-------------------------- MODULE MCFifoConnection --------------------------
(* Connections in FIFO order for TLC.                                       *)
EXTENDS FifoConnection

MCMessage == {<<9, 0, 65, 77, 73, 66, 0, 33, 26, 34, 26>>}
=============================================================================

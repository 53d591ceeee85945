---------------------------- MODULE MCUartServer ----------------------------
(* UartServer with two clients, two wait nodes and two-byte buffers.        *)
EXTENDS UartServer, TLC
=============================================================================

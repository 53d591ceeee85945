--------------------------- MODULE MCSwitchServer ---------------------------
(* SwitchServer with one turn-out and the code's list of listeners.         *)
EXTENDS SwitchServer, TLC
=============================================================================

------------------------------- MODULE MCBoot -------------------------------
(* Boot with one turn-out, one byte left over and two interrupts that take a *)
(* running task's turn, besides those that come while nothing runs: enough  *)
(* for the one case in which a name is looked up too soon.                  *)
EXTENDS Boot
=============================================================================

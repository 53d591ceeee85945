------------------------------ MODULE MCKernel ------------------------------
(* Kernel on a small machine: the idle task and up to three user tasks of   *)
(* two priorities, two event interrupts and the ESC key.                    *)
EXTENDS Kernel

MCIrqSources == {EVENT_TIMER, EVENT_UART1_RX, ESC_PRESSED}
=============================================================================

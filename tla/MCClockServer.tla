--------------------------- MODULE MCClockServer ---------------------------
(* ClockServer with two tasks that delay, two timers, ticks of two counts    *)
(* and a timer register of eight values, which wraps within the bound.       *)
EXTENDS ClockServer, TLC
=============================================================================

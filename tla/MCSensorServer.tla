--------------------------- MODULE MCSensorServer ---------------------------
(* SensorServer with answers of two bytes.                                  *)
EXTENDS SensorServer, TLC
=============================================================================

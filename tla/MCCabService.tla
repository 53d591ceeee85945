---------------------------- MODULE MCCabService ----------------------------
(* CabService with the code's two cabs.                                     *)
EXTENDS CabService

MCCabs == <<35, 41>>
=============================================================================

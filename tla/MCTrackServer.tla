--------------------------- MODULE MCTrackServer ---------------------------
(* TrackServer with two trains on the layout of MCLayout, one longer than   *)
(* the other.                                                               *)
EXTENDS TrackServer, MCLayout

MCBranchSafety(train) == IF train = "t41" THEN 1 ELSE 2
=============================================================================

------------------------- MODULE MCTrainController -------------------------
(* TrainController with one train or two.                                    *)
EXTENDS TrainController, TLC
OneTrain  == <<41>>
TwoTrains == <<35, 41>>
=============================================================================

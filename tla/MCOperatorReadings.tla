------------------------- MODULE MCOperatorReadings -------------------------
(* The runs of MCOperatorRun with the history of their readings.             *)
EXTENDS OperatorReadings, MCOperatorRun
=============================================================================

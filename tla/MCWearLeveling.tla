--------------------------- MODULE MCWearLeveling ---------------------------
(* Model-checking instance of WearLeveling: small geometry and bounds.     *)
EXTENDS WearLeveling

MCClientBlocks == {0, 1}
MCWriteVals    == {0, 1}
=============================================================================

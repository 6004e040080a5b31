------------------------------ MODULE MCEnergy ------------------------------
(* Energy with the bounds of the configurations: thresholds of two units,  *)
(* so that three units of consumption pass through offset, report, store.  *)
EXTENDS Energy

=============================================================================

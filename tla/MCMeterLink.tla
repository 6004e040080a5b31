----------------------------- MODULE MCMeterLink -----------------------------
(* MeterLink with two channels and one value each besides the voltage:     *)
(* three reads per scan, with a queue and intervals in the proportions of  *)
(* the real ones (ten reads, 16 slots, 20 and 50 ticks).                   *)
EXTENDS MeterLink

CounterOnly == <<CF1_CNT>>

ASSUME ProvisionedAsTheRealOne == Provisioned

=============================================================================

---------------------------- MODULE MCEnergyReport ----------------------------
(* EnergyReport in ticks of about three seconds, with the periods shortened. *)
EXTENDS EnergyReport

\* Nothing, a lamp and the same lamp dimmed to a twentieth: from nothing to the
\* lamp and from the dimmed one to the lamp are enough, each way back is not.
Reading(i, p) == [i_rms |-> i, v_rms |-> 230000, active_power |-> p]
Loads == {Reading(0, 0), Reading(87, 20000), Reading(5, 1000)}

===============================================================================

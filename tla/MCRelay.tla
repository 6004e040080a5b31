------------------------------ MODULE MCRelay ------------------------------
(* Model-checking instances of Relay: the constants are given in the cfgs. *)
EXTENDS Relay
=============================================================================

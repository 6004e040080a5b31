------------------------------ MODULE MCSwConfig ------------------------------
(* SwConfig as built for three relays behind two scene buttons.            *)
EXTENDS SwConfig
=============================================================================

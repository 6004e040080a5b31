------------------------------ MODULE MCDimming ------------------------------
(* Buttons share nothing in the scanner and the dimming, so one is enough; it *)
(* is a scene button or that of a lit channel.                                *)
EXTENDS Dimming

MCButton == {0}
==============================================================================

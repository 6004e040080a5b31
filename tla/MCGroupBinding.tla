---------------------------- MODULE MCGroupBinding ----------------------------
(* GroupBinding with a switch of two channels and one of one channel.      *)
EXTENDS GroupBinding

TwoAndOne == {<<"a", 0>>, <<"a", 1>>, <<"b", 0>>}

=============================================================================

---------------------------- MODULE MCFlashLog ----------------------------
(* FlashLog with four slots, two records and up to two power failures.   *)
EXTENDS FlashLog

=============================================================================

---------------------------- MODULE DurableCell ----------------------------
(***************************************************************************)
(* What a log sector promises to the code that keeps one record in it: a   *)
(* cell whose value survives a restart.  Storing takes time; a restart in  *)
(* between leaves the old value or a torn one, never the new one half      *)
(* announced.  The one weakness is stated too: after every Capacity stores *)
(* the sector is erased before the next record is written, and a restart   *)
(* in that window finds the cell blank.                                    *)
(***************************************************************************)
EXTENDS Naturals

CONSTANTS Value, Blank, Torn, None, Capacity

VARIABLES cell,     \* what a restart would restore
          pending,  \* the value being stored, or None
          fill      \* records written since the last erase

vars == <<cell, pending, fill>>

Init ==
    /\ cell = Blank
    /\ pending = None
    /\ fill = 0

Begin(v) ==
    /\ pending = None
    /\ pending' = v
    /\ UNCHANGED <<cell, fill>>

\* The sector is full and erased to make room.
Lose ==
    /\ pending # None
    /\ fill = Capacity
    /\ cell' = Blank
    /\ fill' = 0
    /\ UNCHANGED pending

Commit ==
    /\ pending # None
    /\ fill < Capacity
    /\ cell' = pending
    /\ fill' = fill + 1
    /\ pending' = None

\* A restart abandons the store in progress, leaving no trace of it or a torn
\* record.
Abandon ==
    /\ pending # None
    /\ pending' = None
    /\ \/ UNCHANGED <<cell, fill>>
       \/ fill < Capacity /\ cell' = Torn /\ fill' = fill + 1

Next == Lose \/ Commit \/ Abandon \/ \E v \in Value : Begin(v)

Spec == Init /\ [][Next]_vars
=============================================================================

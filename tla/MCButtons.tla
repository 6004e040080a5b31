------------------------------ MODULE MCButtons ------------------------------
(* Three buttons: the two of the reset gesture, and a relay button beside     *)
(* them.  The three together are out of TLC's reach with all they may do, so  *)
(* each behaviour is in one of four situations.                               *)
EXTENDS Buttons

\* A relay button outside the gesture
BUTTON_SWITCH_1_IDX == 3

MCScene   == {BUTTON_SCENE_0_IDX}
MCSwitch  == {BUTTON_SWITCH_0_IDX}
MCRelay   == MCSwitch \cup {BUTTON_SWITCH_1_IDX}
MCBoard   == MCScene \cup MCRelay

VARIABLE situation     \* never changes

\* Nothing was done to i since the start-up.
Untouched(i) ==
    /\ ~pressed[i] /\ ~open[i]
    /\ hold_step[i] = 0
    /\ press_age[i] = "recent"

\* The reads of each visit to i agree.
Steady(i) == pressed[i] = open[i] /\ ~tapped[i]

\* i is not held beyond the hold event of this number.
HeldUpTo(i, n) == hold_step[i] \in 0..n + 1 \cup {NOT_HELD}

GesturePair == MCScene \cup MCSwitch

\* What each situation leaves out
Within ==
    CASE situation = "gesture" ->   \* only the pair, no locks
             /\ Untouched(BUTTON_SWITCH_1_IDX)
             /\ \A i \in GesturePair : Steady(i) /\ ~locked[i]
             /\ HeldUpTo(BUTTON_SCENE_0_IDX, 4)
      [] situation = "locked" ->    \* only the pair, no presses in quick succession
             /\ Untouched(BUTTON_SWITCH_1_IDX)
             /\ \A i \in GesturePair : Steady(i) /\ HeldUpTo(i, 4) /\ press_cnt[i] < MaxPress
      [] situation = "beside" ->    \* all three, up to the first reset, no locks
             /\ \A i \in MCBoard : Steady(i) /\ ~locked[i] /\ press_cnt[i] < MaxPress
             /\ \A i \in GesturePair : HeldUpTo(i, 4)
             /\ hold_step[BUTTON_SWITCH_1_IDX] \in {0, NOT_HELD}
             /\ press_age[BUTTON_SWITCH_1_IDX] = "recent"
             /\ factory = "none"
      [] situation = "bounce" ->    \* only the lockable relay button, short holds
             /\ Untouched(BUTTON_SCENE_0_IDX) /\ Untouched(BUTTON_SWITCH_1_IDX)
             /\ HeldUpTo(BUTTON_SWITCH_0_IDX, 3)

BoundedInit == Init /\ situation \in {"gesture", "locked", "beside", "bounce"}
BoundedSpec ==
    BoundedInit /\ [][Next /\ UNCHANGED situation /\ Within']_<<vars, situation>>
==============================================================================

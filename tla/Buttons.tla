------------------------------ MODULE Buttons ------------------------------
(***************************************************************************)
(* What the buttons do (user/button.c), on top of the scanner: requests to *)
(* the relay driver, key reports of the scene buttons, and the two         *)
(* gestures that prepare a factory reset.                                  *)
(*                                                                         *)
(* Modelled for normal operation (no factory test), switch types TOGGLE    *)
(* and MOMENTARY, and scene buttons to which no dimming is bound.  Blinks  *)
(* and the ten-press announcements are left out.                           *)
(***************************************************************************)
EXTENDS ButtonScan

CONSTANTS
    SceneButton,    \* buttons of scene elements, the others switch a relay
    Momentary,      \* relay buttons of switch type MOMENTARY
    MayLock         \* buttons that may become locked, at any time

BUTTON_SCENE_0_IDX  == 0
BUTTON_SCENE_1_IDX  == 1
BUTTON_SWITCH_0_IDX == 2

RelayButton == Button \ SceneButton

ASSUME ButtonsAssumption ==
    /\ Button \subseteq Nat
    /\ SceneButton \subseteq Button
    /\ Momentary \subseteq RelayButton
    /\ MayLock \subseteq Button

Gesture == {"reset", "default"}

\* const_button_config_idx_arr and const_button_default_idx_arr
Pair == [reset   |-> {BUTTON_SCENE_0_IDX, BUTTON_SWITCH_0_IDX},
         default |-> {BUTTON_SCENE_1_IDX, BUTTON_SWITCH_0_IDX}]

\* A button of a pair that is never touched only has its initial event.
Listed == Button \cup UNION {Pair[g] : g \in Gesture}

\* The event that confirms a gesture
Confirm == [reset   |-> <<BUTTON_SWITCH_0_IDX, "PRESS_ONE_TIME">>,
            default |-> <<BUTTON_SCENE_1_IDX, "PRESS_FIVE_TIME">>]

VARIABLES
    before,         \* opt_btn_before_st[i].evt
    step, active,   \* para_btn_reset and para_btn_default
    asked,          \* what the relay driver was last asked for
    key_report,     \* key reports sent since the last START_PRESS
    factory,        \* the gesture whose factory reset is set up, or "none"
    together,       \* history: both buttons were held for 5 s at once, and the
                    \* gesture has not been given up since
    locked,         \* lock_com_par.present_lock
    barred          \* history: a relay button was locked, or the reset gesture
                    \* armed, in the middle of a press, and the relay has not
                    \* heard a press since

gestureVars == <<step, active, factory, together>>
vars == <<scanVars, before, gestureVars, asked, key_report, locked, barred>>

Steps == {"STEP_IDLE", "STEP_HOLD_5S", "STEP_HOLD_5S_RELEASE"}
Keys  == {"BTN_KEY_PRESS_1_TIME", "BTN_KEY_PRESS_2_TIMES", "BTN_KEY_HOLD_2_SECONDS"}

ButtonsTypeOK ==
    /\ TypeOK
    /\ before \in [Listed -> Events]
    /\ step \in [Gesture -> Steps]
    /\ active \in [Gesture -> BOOLEAN]
    /\ asked \in [RelayButton -> BOOLEAN]
    /\ key_report \in [SceneButton -> SUBSET Keys]
    /\ factory \in Gesture \cup {"none"}
    /\ together \in [Gesture -> BOOLEAN]
    /\ locked \in [Button -> BOOLEAN]
    /\ barred \in [RelayButton -> BOOLEAN]

Init ==
    /\ ScanInit
    /\ before = [i \in Listed |-> "NO_PRESS"]
    /\ step = [g \in Gesture |-> "STEP_IDLE"]
    /\ active = [g \in Gesture |-> FALSE]
    /\ asked = [i \in RelayButton |-> FALSE]
    /\ key_report = [i \in SceneButton |-> {}]
    /\ factory = "none"
    /\ together = [g \in Gesture |-> FALSE]
    /\ locked = [i \in Button |-> FALSE]
    /\ barred = [i \in RelayButton |-> FALSE]

-----------------------------------------------------------------------------
\* Mutant: relays ignore their buttons from the hold on.
RelayListensNotInGesture(i) == step["reset"] = "STEP_IDLE" /\ ~locked[i]

\* A relay button is ignored while the reset gesture is armed or it is locked.
RelayListens(i) == ~active["reset"] /\ ~locked[i]

\* button_handle_relay_btn_state
HandleRelay(i, e) ==
    asked' = IF i \notin RelayButton \/ ~RelayListens(i) THEN asked
             ELSE IF e = "START_PRESS"
             THEN [asked EXCEPT ![i] = i \in Momentary \/ ~@]
             ELSE IF e = "RELEASE" /\ i \in Momentary
             THEN [asked EXCEPT ![i] = FALSE]
             ELSE asked

\* Mutant: a hold of any length is reported as one of two seconds.
KeyReportAnyHold(i, e, held_late) ==
    IF locked[i] THEN {}
    ELSE IF e = "RELEASE" /\ before[i] \in HoldEvents THEN {"BTN_KEY_HOLD_2_SECONDS"}
    ELSE {}

\* The key report an event of a scene button causes; held_late: the two
\* seconds after HOLD_2S are over.
KeyReport(i, e, held_late) ==
    IF locked[i] THEN {}
    ELSE IF e = "PRESS_ONE_TIME" THEN {"BTN_KEY_PRESS_1_TIME"}
    ELSE IF e = "PRESS_TWO_TIME" THEN {"BTN_KEY_PRESS_2_TIMES"}
    ELSE IF e = "RELEASE" /\ before[i] = "HOLD_2S" /\ ~held_late
    THEN {"BTN_KEY_HOLD_2_SECONDS"}
    ELSE {}

\* button_handle_scene_btn_state
HandleScene(i, e) ==
    \E held_late \in BOOLEAN :
        key_report' =
            IF i \notin SceneButton THEN key_report
            ELSE [key_report EXCEPT ![i] = IF e = "START_PRESS" THEN {}
                                           ELSE @ \cup KeyReport(i, e, held_late)]

\* button_handle_special_event for one gesture.  late: the two seconds since
\* the hold, or the five since the arming, are over.
InPair(g, i, e, what) == i \in Pair[g] /\ e = what

\* Mutant: the other button need only be down.
BothDown(g, i, e) ==
    /\ InPair(g, i, e, "HOLD_5S")
    /\ \A j \in Pair[g] : before[j] \in HoldEvents \cup {"START_PRESS"}

BothHeld(g, i, e) ==
    InPair(g, i, e, "HOLD_5S") /\ \A j \in Pair[g] : j # i => before[j] = "HOLD_5S"

\* Mutant: the other button need not be released.
ArmsEitherReleased(g, i, e, late) ==
    InPair(g, i, e, "RELEASE") /\ step[g] = "STEP_HOLD_5S" /\ ~late

Arms(g, i, e, late) ==
    /\ InPair(g, i, e, "RELEASE")
    /\ step[g] = "STEP_HOLD_5S"
    /\ ~late
    /\ \A j \in Pair[g] : j # i => before[j] = "RELEASE"

Confirms(g, i, e) ==
    <<i, e>> = Confirm[g] /\ active[g] /\ step[g] = "STEP_HOLD_5S_RELEASE"

Abandons(g, i, e, late) ==
    /\ late
    /\ \/ InPair(g, i, e, "RELEASE") /\ step[g] = "STEP_HOLD_5S"
       \/ Confirms(g, i, e)

HeldTogether(g) ==
    \A j \in Pair[g] : j \in Button /\ open[j] /\ longest[j] >= 4

HandleSpecial(i, e) ==
    \E over \in SUBSET Gesture :
       LET late(g) == g \in over
           sets_up == {g \in Gesture : Confirms(g, i, e) /\ ~late(g)}
       IN /\ step' = [g \in Gesture |->
                         IF BothHeld(g, i, e) THEN "STEP_HOLD_5S"
                         ELSE IF Abandons(g, i, e, late(g)) THEN "STEP_IDLE"
                         ELSE IF Arms(g, i, e, late(g)) THEN "STEP_HOLD_5S_RELEASE"
                         ELSE step[g]]
          /\ active' = [g \in Gesture |-> /\ active[g] \/ Arms(g, i, e, late(g))
                                          /\ ~Abandons(g, i, e, late(g))]
          /\ factory' = IF sets_up = {} THEN factory
                        ELSE CHOOSE g \in Gesture : g \in sets_up
          /\ together' = [g \in Gesture |->
                /\ together[g] \/ HeldTogether(g)
                /\ ~Abandons(g, i, e, late(g))]

\* Every relay button with a press open when the gesture is armed is barred.
Bars(i, e) ==
    barred' = [j \in RelayButton |->
        \/ ~active["reset"] /\ active'["reset"] /\ open[j]
        \/ barred[j] /\ ~(j = i /\ e = "START_PRESS" /\ RelayListens(i))]

\* button_handle_option_btn_state: the scanner's call, up to its return
Handle ==
    /\ Returns
    /\ LET i == Head(out)[1]  e == Head(out)[2] IN
       /\ HandleRelay(i, e)
       /\ HandleScene(i, e)
       /\ HandleSpecial(i, e)
       /\ Bars(i, e)
       /\ before' = [before EXCEPT ![i] = e]
    /\ UNCHANGED locked

Scan(i) ==
    /\ option_button_scan(i) \/ Ages(i)
    /\ UNCHANGED <<before, gestureVars, asked, key_report, locked, barred>>

\* button_check_clean_reset_param and button_check_clean_default_param, every
\* 100 ms, the time being over
CleanGesture(g) ==
    /\ out = <<>>
    /\ active[g] \/ step[g] = "STEP_HOLD_5S"
    /\ step' = [step EXCEPT ![g] = "STEP_IDLE"]
    /\ active' = [active EXCEPT ![g] = FALSE]
    /\ together' = [together EXCEPT ![g] = FALSE]
    /\ UNCHANGED <<scanVars, before, factory, asked, key_report, locked, barred>>

\* The lock schedule or a message locks or unlocks a button.
SetLock(i) ==
    /\ out = <<>>
    /\ i \in MayLock
    /\ locked' = [locked EXCEPT ![i] = ~@]
    /\ barred' = [j \in RelayButton |->
                     barred[j] \/ (j = i /\ locked'[i] /\ open[i])]
    /\ UNCHANGED <<scanVars, before, gestureVars, asked, key_report>>

Next ==
    \/ Handle
    \/ \E i \in Button : Scan(i) \/ SetLock(i)
    \/ \E g \in Gesture : CleanGesture(g)

Spec == Init /\ [][Next]_vars

-----------------------------------------------------------------------------
\* The relay of a momentary button is asked to open before its button is
\* reported idle, whatever gestures and locks come and go and however contacts
\* bounce, but for a lock or an armed gesture in the middle of the press and a
\* tap that one visit ends.  (Each of the three does leave the relay closed.)
MomentaryOpens ==
    \A i \in Momentary :
        before[i] = "NO_PRESS" /\ out = <<>> /\ asked[i] => barred[i] \/ tapped[i]

\* A gesture is armed only when both of its buttons have been released: no
\* press of the gesture itself is still to be answered.
ArmedIsReleased ==
    [][ \A g \in Gesture : ~active[g] /\ active'[g]
           => \A i \in Pair[g] \cap Button : ~open[i] ]_vars

\* A factory reset is set up only after both buttons of the gesture have been
\* held for five seconds at the same time, whatever else is pressed meanwhile.
ResetNeedsHold ==
    [][ \A g \in Gesture : factory # g /\ factory' = g => together[g] ]_vars

\* A hold of five seconds, of which the gestures are made, is nothing else: it is
\* not counted as a short press, which could confirm a gesture, nor reported as a
\* key press of the scene button, neither as presses nor as a hold of two seconds.
GestureIsSilent ==
    /\ LongIsNotShort
    /\ \A i \in SceneButton : longest[i] >= 4 => key_report[i] = {}

=============================================================================

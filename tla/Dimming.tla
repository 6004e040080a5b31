------------------------------- MODULE Dimming -------------------------------
(***************************************************************************)
(* Buttons that dim (user/dimming.c, user/button.c), on top of the         *)
(* scanner: those of relay channels of switch type LIGHTING, and scene     *)
(* buttons to which a dimming is bound.  A hold of 500 ms has the lights   *)
(* of the bound group fade, the release stops them, and a tap toggles.     *)
(*                                                                         *)
(* Modelled for normal operation, outside of the reset gestures; another   *)
(* group is bound by unbinding and binding.  Lights are what the group was *)
(* told last; messages arrive.                                             *)
(***************************************************************************)
EXTENDS ButtonScan

VARIABLES
    kind,           \* of the element: "scene", or "light" for a lit channel
    before_st,      \* touch_btn_before_st[].evt, opt_btn_before_st[].evt
    hold_500ms_flag,
    is_enable,      \* of btn_many_par
    disabled_for,   \* since disable_st_time_ms: "short", a second or more
                    \* ("second"), or less with a press after it ("pressed")
    lights,         \* whether the group stands still or fades
    present_lock,   \* lock_com_par.present_lock
    bound,          \* a group, or for a scene button a dimming, is bound
    uneven,         \* history: reads of one visit disagreed in the latest press, or
                    \* in a hold before it that is not over for the scanner
    disturbed,      \* history: an event of the latest press found it locked or
                    \* unbound
    left_on,        \* history: the latest press began with the flag set
    acts,           \* history: what the latest press did, "toggle" or "fade",
                    \* up to two of them
    key_reported    \* history: the latest press is reported as pressed

dimState == <<before_st, hold_500ms_flag, is_enable, disabled_for>>
dimTold  == <<lights, acts, key_reported>>
history  == <<disturbed, left_on>>
dimVars  == <<scanVars, dimState, dimTold, present_lock, bound, uneven,
              history, kind>>

SceneElement == {i \in Button : kind[i] = "scene"}
LightElement == Button \ SceneElement

Lights  == {"still", "up", "down"}
OfPress == HoldEvents \cup {"START_PRESS", "RELEASE"}

DimmingTypeOK ==
    /\ TypeOK
    /\ before_st \in [Button -> Events]
    /\ hold_500ms_flag \in [Button -> BOOLEAN]
    /\ is_enable \in [Button -> BOOLEAN]
    /\ disabled_for \in [Button -> {"short", "pressed", "second"}]
    /\ lights \in [Button -> Lights]
    /\ present_lock \in [Button -> BOOLEAN]
    /\ bound \in [Button -> BOOLEAN]
    /\ kind \in [Button -> {"scene", "light"}]
    /\ uneven \in [Button -> BOOLEAN]
    /\ disturbed \in [Button -> BOOLEAN]
    /\ left_on \in [Button -> BOOLEAN]
    /\ acts \in [Button -> Seq({"toggle", "fade"})]
    /\ \A i \in Button : Len(acts[i]) <= 2
    /\ key_reported \in [Button -> BOOLEAN]

DimmingInit ==
    /\ ScanInit
    /\ kind \in [Button -> {"scene", "light"}]
    /\ before_st = [i \in Button |-> "NO_PRESS"]
    /\ hold_500ms_flag = [i \in Button |-> FALSE]
    /\ is_enable = [i \in Button |-> TRUE]
    /\ disabled_for = [i \in Button |-> "second"]
    /\ lights = [i \in Button |-> "still"]
    /\ present_lock = [i \in Button |-> FALSE]
    /\ bound \in [Button -> BOOLEAN]
    /\ uneven = [i \in Button |-> FALSE]
    /\ disturbed = [i \in Button |-> FALSE]
    /\ left_on = [i \in Button |-> FALSE]
    /\ acts = [i \in Button |-> <<>>]
    /\ key_reported = [i \in Button |-> FALSE]

-----------------------------------------------------------------------------
\* What event e of button i does: a set of "toggle" (for a scene button, one
\* step up or down), "fade", "stop" and "report".

\* Mutant: a release toggles whatever came before.
LightToggleAtRelease(i, e) == e = "RELEASE"

\* A bound channel toggles when released early.
LightTaps(i, e) == /\ e = "RELEASE"
                   /\ ~hold_500ms_flag[i]
                   /\ before_st[i] \in {"START_PRESS", "HOLD_50MS"}

\* dimming_handle_btn_st, which button_handle_relay_btn_state calls unless the
\* button is locked
LightEffect(i, e) ==
    IF present_lock[i] THEN {}
    ELSE IF ~bound[i] THEN IF e = "START_PRESS" THEN {"toggle"} ELSE {}
    ELSE {x \in {"toggle", "fade", "stop"} :
             \/ x = "toggle" /\ LightTaps(i, e)
             \/ x = "fade" /\ e = "HOLD_500MS"
             \/ x = "stop" /\ e = "RELEASE" /\ hold_500ms_flag[i]}

Presses == {"PRESS_ONE_TIME", "PRESS_TWO_TIME"}

\* Mutant: a press is reported whatever was held before it.
SceneReportsAny(i, e) == e \in Presses

SceneReports(i, e) == e \in Presses /\ is_enable[i]

\* button_handle_scene_btn_state with a dimming bound.  Without one it is in
\* Buttons.  A hold is not refused when locked.
SceneEffect(i, e) ==
    IF ~bound[i] THEN {}
    ELSE {x \in {"toggle", "fade", "stop", "report"} :
             \/ x = "fade" /\ e = "HOLD_500MS"
             \/ /\ ~present_lock[i]
                /\ \/ x = "stop" /\ e = "RELEASE" /\ hold_500ms_flag[i]
                   \/ /\ x = "toggle" /\ e = "RELEASE"
                      /\ ~hold_500ms_flag[i] /\ before_st[i] = "START_PRESS"
                   \/ x = "report" /\ SceneReports(i, e)}

Effect(i, e) ==
    IF i \in SceneElement THEN SceneEffect(i, e) ELSE LightEffect(i, e)

\* Mutant: the next event of the hold clears the flag.
FlagOfOneEvent(i, e) == "fade" \in Effect(i, e)

FlagAfter(i, e) ==
    "fade" \in Effect(i, e) \/ (hold_500ms_flag[i] /\ "stop" \notin Effect(i, e))

\* The events remembered: a channel forgets those it did not handle.
BeforeAfter(i, e) ==
    IF i \in LightElement /\ (e = "NO_PRESS" \/ present_lock[i] \/ ~bound[i])
    THEN before_st[i] ELSE e

\* Presses are disabled by a hold that dims, for a second or up to the first
\* press after it.
EnableAfter(i, e) ==
    IF i \notin SceneElement THEN TRUE
    ELSE IF "fade" \in Effect(i, e) THEN FALSE
    ELSE \/ is_enable[i]
         \/ e = "NO_PRESS" /\ disabled_for[i] = "second"
         \/ e \in Presses /\ bound[i] /\ ~present_lock[i]

\* button_handle_option_btn_state: the scanner's call, up to its return.  The
\* direction alternates unless the lamp is off, which the relay tells.
DimmingHandle ==
    /\ Returns
    /\ LET i == Head(out)[1]
           e == Head(out)[2]
           does == Effect(i, e)
           done == IF e = "START_PRESS" THEN <<>> ELSE acts[i]
       IN
       /\ before_st' = [before_st EXCEPT ![i] = BeforeAfter(i, e)]
       /\ hold_500ms_flag' = [hold_500ms_flag EXCEPT ![i] = FlagAfter(i, e)]
       /\ is_enable' = [is_enable EXCEPT ![i] = EnableAfter(i, e)]
       /\ disabled_for' = [disabled_for EXCEPT ![i] =
                              IF i \notin SceneElement THEN @
                              ELSE IF "fade" \in does THEN "short"
                              ELSE IF e = "START_PRESS" /\ @ = "short"
                              THEN "pressed" ELSE @]
       /\ \E way \in {"up", "down"} :
             lights' = [lights EXCEPT ![i] = IF "fade" \in does THEN way
                                             ELSE IF "stop" \in does THEN "still"
                                             ELSE @]
       /\ acts' = [acts EXCEPT ![i] =
                      IF Len(done) = 2 THEN done
                      ELSE IF "toggle" \in does THEN Append(done, "toggle")
                      ELSE IF "fade" \in does THEN Append(done, "fade")
                      ELSE done]
       /\ key_reported' = [key_reported EXCEPT ![i] =
                              (@ /\ e # "START_PRESS") \/ "report" \in does]
       /\ disturbed' = [disturbed EXCEPT ![i] =
              \/ @ /\ e # "START_PRESS"
              \/ e \in OfPress /\ (present_lock[i] \/ ~bound[i])]
       /\ left_on' = [left_on EXCEPT ![i] =
                         IF e = "START_PRESS" THEN hold_500ms_flag[i] ELSE @]
    /\ UNCHANGED <<present_lock, bound, uneven, kind>>

DimmingScan(i) ==
    /\ \/ /\ ScanPress(i)
          /\ uneven' = [uneven EXCEPT ![i] =
                         \/ @ /\ hold_step[i] # NOT_HELD
                         \/ ~pressed'[i]]
       \/ /\ ScanHold(i)
          /\ uneven' = [uneven EXCEPT ![i] = @ \/ ~pressed'[i]]
       \/ /\ ScanRelease(i) \/ ScanIdle(i)
          /\ uneven' = [uneven EXCEPT ![i] = @ \/ pressed'[i]]
       \/ /\ ScanBounce(i)
          /\ uneven' = [uneven EXCEPT ![i] = TRUE]
       \/ /\ Ages(i)
          /\ UNCHANGED uneven
    /\ UNCHANGED <<dimState, dimTold, present_lock, bound, history, kind>>

\* A second has passed since the hold: without a press after it, more than
\* 900 ms have since the press.
SecondPasses(i) ==
    /\ out = <<>>
    /\ \/ disabled_for[i] = "pressed"
       \/ disabled_for[i] = "short" /\ press_age[i] = "over"
    /\ disabled_for' = [disabled_for EXCEPT ![i] = "second"]
    /\ UNCHANGED <<scanVars, before_st, hold_500ms_flag, is_enable, dimTold,
                   present_lock, bound, uneven, history, kind>>

\* The lock schedule or a message locks or unlocks a button.
DimmingSetLock(i) ==
    /\ out = <<>>
    /\ present_lock' = [present_lock EXCEPT ![i] = ~@]
    /\ UNCHANGED <<scanVars, dimState, dimTold, bound, uneven, history, kind>>

\* The gateway binds or unbinds it.
SetBound(i) ==
    /\ out = <<>>
    /\ bound' = [bound EXCEPT ![i] = ~@]
    /\ UNCHANGED <<scanVars, dimState, dimTold, present_lock, uneven, history, kind>>

DimmingNext ==
    \/ DimmingHandle
    \/ \E i \in Button :
          DimmingScan(i) \/ SecondPasses(i) \/ DimmingSetLock(i) \/ SetBound(i)

DimmingSpec == DimmingInit /\ [][DimmingNext]_dimVars

-----------------------------------------------------------------------------
\* No press is being made or still to be answered.
AtRest(i) == ~open[i] /\ ~held[i] /\ out = <<>>

\* Lights that fade are stopped once the button is released, however its
\* contacts bounce, unless it was locked or unbound meanwhile; the next
\* undisturbed press stops them then.
FadingStops ==
    \A i \in Button : AtRest(i) /\ lights[i] # "still" => disturbed[i]

\* A press of a lit channel that nothing disturbs, with contacts that are steady
\* during each visit, toggles it or fades the lights, once and never both, unless
\* it had to stop the lights first that an earlier press has left fading.
PressActsOnce ==
    \A i \in LightElement :
        AtRest(i) /\ press_cnt[i] > 0 /\ ~disturbed[i] /\ ~uneven[i]
              /\ ~left_on[i]
            => Len(acts[i]) = 1

\* A press that fades is not also reported as a press, if the contacts are steady
\* during each visit.
FadeIsNotPress ==
    \A i \in SceneElement :
        out = <<>> /\ ~uneven[i] /\ key_reported[i]
            => \A n \in DOMAIN acts[i] : acts[i][n] # "fade"

=============================================================================

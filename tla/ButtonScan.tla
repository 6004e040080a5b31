----------------------------- MODULE ButtonScan -----------------------------
(***************************************************************************)
(* The button scanner (user/periph/periph_button.c).                       *)
(*                                                                         *)
(* option_button_scan visits every button and calls one handler, at most   *)
(* twice per visit; out holds the calls of the visit in progress.  Each    *)
(* visit reads the pin several times: to choose its branch, to debounce a  *)
(* press, and a last time to remember prev_state.  The contacts are free   *)
(* to change between two reads, so every read is a free choice; with       *)
(* LateReads = FALSE the last read agrees with the branch taken.           *)
(*                                                                         *)
(* Time is abstracted to what is compared: press_age tells how long ago    *)
(* the last counted press was, and a hold threshold may have passed        *)
(* whenever the age of the press allows it.                                *)
(***************************************************************************)
EXTENDS Naturals, Sequences

CONSTANTS
    Button,         \* the buttons scanned
    LateReads,      \* the last read of a visit may differ from the first
    MaxPress        \* counts from MaxPress on are not told apart

ASSUME ButtonScanAssumption ==
    /\ LateReads \in BOOLEAN
    /\ MaxPress \in Nat \ {0}

VARIABLES
    pressed,        \* prev_state = OPTION_BUTTON_PRESS
    hold_step,
    press_cnt, press_many_time_f,
    press_age,      \* of press_last_t: "recent" up to 700 ms, "due" up to
                    \* 900 ms, "over" beyond
    hold_old,       \* start_hold_t is older than press_last_t; the 0 of a
                    \* button pressed since start-up counts as its press
    out,            \* calls of the handler still to be made, <<idx, event>>
    open, held,     \* START_PRESS (a hold event) without a RELEASE so far
    longest,        \* number of the latest hold event since START_PRESS, or 0
    tapped          \* history: the press was over, to the reads of a visit that
                    \* ended it, before any visit of its hold

scanState == <<pressed, hold_step, press_cnt, press_many_time_f, press_age,
               hold_old>>
told      == <<open, held, longest>>
scanVars  == <<scanState, out, told, tapped>>

NOT_HELD == 255     \* hold_step before the first visit of a hold
STUCK    == 254     \* hold_step after OPTION_BUTTON_ERROR_HOLD_TIME

\* The event that leaving hold_step 1, 2, ... 6 reports
HoldEvent == <<"HOLD_50MS", "HOLD_500MS", "HOLD_2S", "HOLD_5S", "HOLD_10S",
               "HOLD_15S">>

\* The events that report 1, 2, ... presses; 7, 9 and 11 are not reported
TimesEvent == <<"PRESS_ONE_TIME", "PRESS_TWO_TIME", "PRESS_THREE_TIME",
                "PRESS_FOUR_TIME", "PRESS_FIVE_TIME", "PRESS_SIX_TIME", "",
                "PRESS_EIGHT_TIME", "", "PRESS_TEN_TIME", "",
                "PRESS_TWELVE_TIME">>
Reported   == {1, 2, 3, 4, 5, 6, 8, 10, 12}

HoldEvents  == {HoldEvent[n] : n \in DOMAIN HoldEvent}
TimesEvents == {TimesEvent[n] : n \in Reported}
Events      == HoldEvents \cup TimesEvents \cup {"START_PRESS", "RELEASE", "NO_PRESS"}

TypeOK ==
    /\ pressed \in [Button -> BOOLEAN]
    /\ hold_step \in [Button -> 0..7 \cup {STUCK, NOT_HELD}]
    /\ press_cnt \in [Button -> 0..MaxPress]
    /\ press_many_time_f \in [Button -> BOOLEAN]
    /\ press_age \in [Button -> {"recent", "due", "over"}]
    /\ hold_old \in [Button -> BOOLEAN]
    /\ out \in Seq(Button \X Events) /\ Len(out) <= 2
    /\ open \in [Button -> BOOLEAN]
    /\ held \in [Button -> BOOLEAN]
    /\ longest \in [Button -> 0..Len(HoldEvent)]
    /\ tapped \in [Button -> BOOLEAN]

\* option_button_init
ScanInit ==
    /\ pressed = [i \in Button |-> FALSE]
    /\ hold_step = [i \in Button |-> 0]
    /\ press_cnt = [i \in Button |-> 0]
    /\ press_many_time_f = [i \in Button |-> FALSE]
    /\ press_age = [i \in Button |-> "recent"]
    /\ hold_old = [i \in Button |-> FALSE]
    /\ out = <<>>
    /\ open = [i \in Button |-> FALSE]
    /\ held = [i \in Button |-> FALSE]
    /\ longest = [i \in Button |-> 0]
    /\ tapped = [i \in Button |-> FALSE]

-----------------------------------------------------------------------------
\* The handler is called for button i with the events evts, in this order.
Calls(i, evts) ==
    LET tells(E) == \E n \in DOMAIN evts : evts[n] \in E IN
    /\ out = <<>>
    /\ out' = [n \in DOMAIN evts |-> <<i, evts[n]>>]
    /\ open' = [open EXCEPT ![i] = (@ \/ tells({"START_PRESS"})) /\ ~tells({"RELEASE"})]
    /\ held' = [held EXCEPT ![i] = (@ \/ tells(HoldEvents)) /\ ~tells({"RELEASE"})]
    /\ longest' = [longest EXCEPT ![i] =
                      IF tells({"START_PRESS"}) THEN 0
                      ELSE IF tells(HoldEvents)
                      THEN CHOOSE n \in DOMAIN HoldEvent : evts = <<HoldEvent[n]>>
                      ELSE @]

\* The read that ends every visit; seen is what the branch has seen.
LastRead(i, seen) ==
    \E level \in BOOLEAN : /\ LateReads \/ level = seen
                           /\ pressed' = [pressed EXCEPT ![i] = level]

\* Released, now pressed, and the four debouncing reads agree:
\* option_button_press.
ScanPress(i) ==
    /\ ~pressed[i]
    /\ Calls(i, <<"START_PRESS">>)
    /\ press_cnt' = [press_cnt EXCEPT ![i] =
                        IF press_age[i] # "recent" THEN 1
                        ELSE IF @ = MaxPress THEN @ ELSE @ + 1]
    /\ press_many_time_f' = [press_many_time_f EXCEPT ![i] = TRUE]
    /\ press_age' = [press_age EXCEPT ![i] = "recent"]
    /\ hold_old' = [hold_old EXCEPT ![i] = hold_step[i] # NOT_HELD /\ press_cnt[i] > 0]
    /\ LastRead(i, TRUE)
    /\ tapped' = [tapped EXCEPT ![i] = ~pressed'[i] /\ hold_step[i] = NOT_HELD]
    /\ UNCHANGED hold_step

\* Mutant: the step moves on at every visit, past the last case.
HoldFromMovesOn(step) == IF step = NOT_HELD THEN 0 ELSE step + 1

\* hold_step at the visit of a held button, start_hold_t being set first
HoldFrom(step) == IF step = NOT_HELD THEN 0 ELSE step

\* The threshold that ends hold_step has passed.  800 ms and more after
\* start_hold_t the press is not recent, and 5 s after it is over.
ThresholdPassed(i, step) ==
    \/ hold_step[i] # NOT_HELD /\ hold_old[i]
    \/ /\ step >= 3 => press_age[i] # "recent"
       /\ step >= 4 => press_age[i] = "over"

\* Pressed and still pressed: poll_cnt or the time held moves hold_step on by
\* one, or not yet.
ScanHold(i) ==
    /\ pressed[i]
    /\ LET step == HoldFrom(hold_step[i]) IN
       \/ /\ Calls(i, <<>>)
          /\ \/ hold_step' = [hold_step EXCEPT ![i] = step]
             \/ step = 0 /\ hold_step' = [hold_step EXCEPT ![i] = 1]
             \/ /\ hold_step[i] # NOT_HELD
                /\ ThresholdPassed(i, 7)
                /\ hold_step' = [hold_step EXCEPT ![i] = STUCK]
       \/ /\ step \in DOMAIN HoldEvent
          /\ ThresholdPassed(i, step)
          /\ hold_step' = [hold_step EXCEPT ![i] = step + 1]
          /\ Calls(i, <<HoldEvent[step]>>)
    /\ hold_old' = [hold_old EXCEPT ![i] = @ /\ hold_step[i] # NOT_HELD]
    /\ LastRead(i, TRUE)
    /\ UNCHANGED <<press_cnt, press_many_time_f, press_age, tapped>>

\* Mutant: the release is left to the next visit.
ScanReleaseSilent(i) ==
    /\ pressed[i]
    /\ Calls(i, <<>>)
    /\ hold_step' = [hold_step EXCEPT ![i] = NOT_HELD]
    /\ LastRead(i, FALSE)
    /\ UNCHANGED <<press_cnt, press_many_time_f, press_age, hold_old, tapped>>

\* Pressed, now released.
ScanRelease(i) ==
    /\ pressed[i]
    /\ Calls(i, <<"RELEASE">>)
    /\ hold_step' = [hold_step EXCEPT ![i] = NOT_HELD]
    /\ LastRead(i, FALSE)
    /\ UNCHANGED <<press_cnt, press_many_time_f, press_age, hold_old, tapped>>

\* option_button_press_times: what it reports
TimesReport(i) ==
    IF press_age[i] = "due" /\ press_many_time_f[i]
          /\ press_cnt[i] < MaxPress /\ press_cnt[i] \in Reported
    THEN <<TimesEvent[press_cnt[i]]>> ELSE <<>>

\* Mutant: only the branch of ScanRelease reports a release.
IdleReportNoPress(i) == "NO_PRESS"

\* A hold whose end no visit has seen is ended here.
IdleReport(i) ==
    IF hold_step[i] < NOT_HELD THEN "RELEASE" ELSE "NO_PRESS"

\* Released and still released.
ScanIdle(i) ==
    /\ ~pressed[i]
    /\ Calls(i, Append(TimesReport(i), IdleReport(i)))
    /\ press_many_time_f' = [press_many_time_f EXCEPT ![i] =
                                @ /\ press_age[i] = "recent"]
    /\ hold_step' = [hold_step EXCEPT ![i] = NOT_HELD]
    /\ LastRead(i, FALSE)
    /\ UNCHANGED <<press_cnt, press_age, hold_old, tapped>>

\* The reads of one visit disagree, no branch is taken: a debounce that
\* fails, or contacts that move between two conditions.
ScanBounce(i) ==
    /\ LateReads
    /\ Calls(i, <<>>)
    /\ LastRead(i, FALSE)
    /\ tapped' = [tapped EXCEPT ![i] =
                     @ \/ (~pressed'[i] /\ hold_step[i] = NOT_HELD)]
    /\ UNCHANGED <<hold_step, press_cnt, press_many_time_f, press_age, hold_old>>

\* Time passes between two visits.
Ages(i) ==
    /\ out = <<>>
    /\ \/ press_age[i] = "recent" /\ press_age' = [press_age EXCEPT ![i] = "due"]
       \/ press_age[i] = "due" /\ press_age' = [press_age EXCEPT ![i] = "over"]
    /\ UNCHANGED <<pressed, hold_step, press_cnt, press_many_time_f, hold_old,
                   out, told, tapped>>

\* One call of the handler returns.
Returns ==
    /\ out # <<>>
    /\ out' = Tail(out)
    /\ UNCHANGED <<scanState, told, tapped>>

option_button_scan(i) ==
    \/ ScanPress(i)
    \/ ScanHold(i)
    \/ ScanRelease(i)
    \/ ScanIdle(i)
    \/ ScanBounce(i)

ScanNext ==
    \/ \E i \in Button : option_button_scan(i) \/ Ages(i)
    \/ Returns

ScanSpec == ScanInit /\ [][ScanNext]_scanVars

-----------------------------------------------------------------------------
Reports(i, e) == \E n \in DOMAIN out : out[n] = <<i, e>>

\* A hold that was reported is ended by a RELEASE before the button is
\* reported idle, however the contacts bounce: the purpose of the second
\* RELEASE of option_button_scan.
HeldIsReleased == \A i \in Button : Reports(i, "NO_PRESS") => ~held[i]

\* A START_PRESS is answered by a RELEASE before the button is reported idle,
\* however the contacts bounce, but for a tap that one visit both ends and does
\* not notice as released; a momentary relay stays closed otherwise.
PressIsReleased ==
    \A i \in Button : Reports(i, "NO_PRESS") /\ open[i] => tapped[i]

\* A press that was held for 5 seconds, of which the reset gestures are made,
\* is not also counted as a short one: option_button_press_times drops counts
\* older than 900 ms.
LongIsNotShort ==
    \A i \in Button : longest[i] >= 4 => \A e \in TimesEvents : ~Reports(i, e)

=============================================================================

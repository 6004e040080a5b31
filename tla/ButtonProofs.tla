---------------------------- MODULE ButtonProofs ----------------------------
(***************************************************************************)
(* Safety of the button scanner and of its two handlers, for any set of    *)
(* buttons: what the scanner promises (a reported hold is released), what  *)
(* the reset gestures need of it, and what a press that dims amounts to.   *)
(***************************************************************************)
EXTENDS Buttons, Dimming, SequenceTheorems, TLAPS

-----------------------------------------------------------------------------
(* Names and sequences of events.                                          *)

\* What a count of presses can be reported as.
LEMMA TimesNames ==
    TimesEvents = {"PRESS_ONE_TIME", "PRESS_TWO_TIME", "PRESS_THREE_TIME",
                   "PRESS_FOUR_TIME", "PRESS_FIVE_TIME", "PRESS_SIX_TIME",
                   "PRESS_EIGHT_TIME", "PRESS_TEN_TIME", "PRESS_TWELVE_TIME"}
<1>1. /\ TimesEvent[1] = "PRESS_ONE_TIME" /\ TimesEvent[2] = "PRESS_TWO_TIME"
      /\ TimesEvent[3] = "PRESS_THREE_TIME" /\ TimesEvent[4] = "PRESS_FOUR_TIME"
      /\ TimesEvent[5] = "PRESS_FIVE_TIME" /\ TimesEvent[6] = "PRESS_SIX_TIME"
      /\ TimesEvent[8] = "PRESS_EIGHT_TIME" /\ TimesEvent[10] = "PRESS_TEN_TIME"
      /\ TimesEvent[12] = "PRESS_TWELVE_TIME"
  BY DEF TimesEvent
<1>2. QED
  BY <1>1 DEF TimesEvents, Reported

\* What the length of a hold can be reported as.
LEMMA HoldNames ==
    /\ HoldEvents = {"HOLD_50MS", "HOLD_500MS", "HOLD_2S", "HOLD_5S", "HOLD_10S",
                     "HOLD_15S"}
    /\ DOMAIN HoldEvent = 1..6 /\ Len(HoldEvent) = 6
    /\ HoldEvent[1] = "HOLD_50MS" /\ HoldEvent[2] = "HOLD_500MS"
    /\ HoldEvent[3] = "HOLD_2S" /\ HoldEvent[4] = "HOLD_5S"
    /\ HoldEvent[5] = "HOLD_10S" /\ HoldEvent[6] = "HOLD_15S"
BY DEF HoldEvents, HoldEvent

\* The number of a hold event.
HoldNumber(e) == CHOOSE n \in DOMAIN HoldEvent : e = HoldEvent[n]

LEMMA HoldNumbers ==
    /\ HoldNumber("HOLD_50MS") = 1 /\ HoldNumber("HOLD_500MS") = 2
    /\ HoldNumber("HOLD_2S") = 3   /\ HoldNumber("HOLD_5S") = 4
    /\ HoldNumber("HOLD_10S") = 5  /\ HoldNumber("HOLD_15S") = 6
<1>1. \A n \in 1..6 : HoldNumber(HoldEvent[n]) = n
  <2>1. \A m, n \in 1..6 : HoldEvent[m] = HoldEvent[n] => m = n
    BY HoldNames
  <2>2. QED
    BY <2>1, HoldNames DEF HoldNumber
<1>2. QED
  BY <1>1, HoldNames

\* The kinds of events exclude each other.
LEMMA EventKinds ==
    /\ TimesEvents \cap HoldEvents = {}
    /\ TimesEvents \cap {"START_PRESS", "RELEASE", "NO_PRESS"} = {}
    /\ HoldEvents \cap {"START_PRESS", "RELEASE", "NO_PRESS"} = {}
    /\ TimesEvents \subseteq Events /\ HoldEvents \subseteq Events
    /\ {"START_PRESS", "RELEASE", "NO_PRESS"} \subseteq Events
    /\ Events \subseteq HoldEvents \cup TimesEvents
                          \cup {"START_PRESS", "RELEASE", "NO_PRESS"}
BY TimesNames, HoldNames DEF Events

-----------------------------------------------------------------------------
(* The calls of one visit: none, one, or a count of presses and the state. *)

NoCall(s)        == s = <<>>
OneCall(s, i, e) == s = << <<i, e>> >>
TwoCalls(s, i, t, e) == s = << <<i, t>>, <<i, e>> >>

Settles == {"RELEASE", "NO_PRESS"}

CallShape(s) ==
    \/ NoCall(s)
    \/ \E i \in Button, e \in Events : OneCall(s, i, e)
    \/ \E i \in Button, t \in TimesEvents, e \in Settles : TwoCalls(s, i, t, e)

\* The shapes exclude each other, and a shape has one content.
LEMMA ShapeUnique ==
    ASSUME NEW s, NEW i, NEW e, OneCall(s, i, e)
    PROVE  /\ ~NoCall(s)
           /\ \A j, f : OneCall(s, j, f) => j = i /\ f = e
           /\ \A j, t, f : ~TwoCalls(s, j, t, f)
<1>1. Len(s) = 1 /\ s[1] = <<i, e>>
  BY DEF OneCall
<1>2. QED
  BY <1>1 DEF NoCall, OneCall, TwoCalls

\* Calls of either shape are calls with events.
LEMMA ShapeSeq ==
    ASSUME NEW s, CallShape(s)
    PROVE  s \in Seq(Button \X Events) /\ Len(s) <= 2
<1>1. CASE NoCall(s)
  BY <1>1 DEF NoCall
<1>2. ASSUME NEW i \in Button, NEW e \in Events, OneCall(s, i, e)
      PROVE  s \in Seq(Button \X Events) /\ Len(s) <= 2
  BY <1>2 DEF OneCall
<1>3. ASSUME NEW i \in Button, NEW t \in TimesEvents, NEW e \in Settles,
             TwoCalls(s, i, t, e)
      PROVE  s \in Seq(Button \X Events) /\ Len(s) <= 2
  <2>1. t \in Events /\ e \in Events
    BY EventKinds DEF Settles
  <2>2. <<i, t>> \in Button \X Events /\ <<i, e>> \in Button \X Events
    BY <2>1
  <2>3. QED
    BY <1>3, <2>2 DEF TwoCalls
<1>4. QED
  BY <1>1, <1>2, <1>3 DEF CallShape

\* The scanner's type invariant, with the shape of the calls it makes.
ScanType == TypeOK /\ CallShape(out)

LEMMA CallsNone ==
    ASSUME NEW i \in Button, Calls(i, <<>>), TypeOK
    PROVE  NoCall(out) /\ NoCall(out') /\ UNCHANGED told
BY DEF Calls, TypeOK, NoCall, told

LEMMA CallsOne ==
    ASSUME NEW i \in Button, NEW e \in Events, Calls(i, <<e>>), TypeOK
    PROVE  /\ NoCall(out) /\ OneCall(out', i, e)
           /\ open' = [open EXCEPT ![i] = (@ \/ e = "START_PRESS") /\ e # "RELEASE"]
           /\ held' = [held EXCEPT ![i] = (@ \/ e \in HoldEvents) /\ e # "RELEASE"]
           /\ longest' = [longest EXCEPT ![i] = IF e = "START_PRESS" THEN 0
                                                ELSE IF e \in HoldEvents
                                                THEN HoldNumber(e) ELSE @]
<1>1. DOMAIN <<e>> = {1} /\ <<e>>[1] = e
  OBVIOUS
<1>2. \A E : (\E n \in DOMAIN <<e>> : <<e>>[n] \in E) <=> e \in E
  BY <1>1
<1>3. NoCall(out) /\ OneCall(out', i, e)
  <2>1. out = <<>> /\ out' = [n \in DOMAIN <<e>> |-> <<i, <<e>>[n]>>]
    BY DEF Calls
  <2>2. out' = << <<i, e>> >>
    BY <2>1, <1>1
  <2>3. QED
    BY <2>1, <2>2 DEF NoCall, OneCall
<1>4. open' = [open EXCEPT ![i] = (@ \/ e = "START_PRESS") /\ e # "RELEASE"]
  BY <1>2 DEF Calls, TypeOK
<1>5. held' = [held EXCEPT ![i] = (@ \/ e \in HoldEvents) /\ e # "RELEASE"]
  BY <1>2 DEF Calls, TypeOK
<1>6. (CHOOSE n \in DOMAIN HoldEvent : <<e>> = <<HoldEvent[n]>>) = HoldNumber(e)
  <2>1. \A n \in DOMAIN HoldEvent : <<e>> = <<HoldEvent[n]>> <=> e = HoldEvent[n]
    OBVIOUS
  <2>2. QED
    BY <2>1 DEF HoldNumber
<1>7. longest' = [longest EXCEPT ![i] = IF e = "START_PRESS" THEN 0
                                        ELSE IF e \in HoldEvents
                                        THEN HoldNumber(e) ELSE @]
  BY <1>2, <1>6 DEF Calls, TypeOK
<1>8. QED
  BY <1>3, <1>4, <1>5, <1>7

LEMMA CallsTwo ==
    ASSUME NEW i \in Button, NEW t \in TimesEvents, NEW e \in Settles,
           Calls(i, <<t, e>>), TypeOK
    PROVE  /\ NoCall(out) /\ TwoCalls(out', i, t, e)
           /\ open' = [open EXCEPT ![i] = @ /\ e # "RELEASE"]
           /\ held' = [held EXCEPT ![i] = @ /\ e # "RELEASE"]
           /\ longest' = longest
<1>1. DOMAIN <<t, e>> = {1, 2} /\ <<t, e>>[1] = t /\ <<t, e>>[2] = e
  OBVIOUS
<1>2. \A E : (\E n \in DOMAIN <<t, e>> : <<t, e>>[n] \in E) <=> t \in E \/ e \in E
  BY <1>1
<1>3. t \notin HoldEvents /\ e \notin HoldEvents
      /\ t \notin {"START_PRESS", "RELEASE"} /\ e # "START_PRESS"
  BY EventKinds DEF Settles
<1>4. NoCall(out) /\ TwoCalls(out', i, t, e)
  <2>1. out = <<>> /\ out' = [n \in DOMAIN <<t, e>> |-> <<i, <<t, e>>[n]>>]
    BY DEF Calls
  <2>2. out' = << <<i, t>>, <<i, e>> >>
    BY <2>1, <1>1
  <2>3. QED
    BY <2>1, <2>2 DEF NoCall, TwoCalls
<1>5. open' = [open EXCEPT ![i] = @ /\ e # "RELEASE"]
  BY <1>2, <1>3 DEF Calls, TypeOK
<1>6. held' = [held EXCEPT ![i] = @ /\ e # "RELEASE"]
  BY <1>2, <1>3 DEF Calls, TypeOK
<1>7. longest' = longest
  BY <1>2, <1>3 DEF Calls, TypeOK
<1>8. QED
  BY <1>4, <1>5, <1>6, <1>7

-----------------------------------------------------------------------------
(* What each branch of option_button_scan calls, and what it tells.        *)

LEMMA PressCalls ==
    ASSUME NEW i \in Button, ScanPress(i), TypeOK
    PROVE  /\ NoCall(out) /\ OneCall(out', i, "START_PRESS")
           /\ open' = [open EXCEPT ![i] = TRUE]
           /\ held' = held
           /\ longest' = [longest EXCEPT ![i] = 0]
<1>1. Calls(i, <<"START_PRESS">>) /\ "START_PRESS" \in Events
      /\ "START_PRESS" \notin HoldEvents
  BY EventKinds DEF ScanPress
<1>2. /\ NoCall(out) /\ OneCall(out', i, "START_PRESS")
      /\ open' = [open EXCEPT ![i] = (@ \/ "START_PRESS" = "START_PRESS")
                                        /\ "START_PRESS" # "RELEASE"]
      /\ held' = [held EXCEPT ![i] = (@ \/ "START_PRESS" \in HoldEvents)
                                        /\ "START_PRESS" # "RELEASE"]
      /\ longest' = [longest EXCEPT ![i] =
                        IF "START_PRESS" = "START_PRESS" THEN 0
                        ELSE IF "START_PRESS" \in HoldEvents
                        THEN HoldNumber("START_PRESS") ELSE @]
  BY <1>1, CallsOne
<1>3. held' = held
  BY <1>1, <1>2 DEF TypeOK
<1>4. QED
  BY <1>2, <1>3

\* A hold event and the step it leads to have the same number.
HoldCall(i, n) ==
    /\ OneCall(out', i, HoldEvent[n])
    /\ n = HoldFrom(hold_step[i]) /\ ThresholdPassed(i, n)
    /\ open' = open
    /\ held' = [held EXCEPT ![i] = TRUE]
    /\ longest' = [longest EXCEPT ![i] = n]
    /\ hold_step' = [hold_step EXCEPT ![i] = n + 1]

HoldSilent(i) ==
    /\ NoCall(out') /\ UNCHANGED told
    /\ \E k \in 0..7 \cup {STUCK} :
          /\ hold_step' = [hold_step EXCEPT ![i] = k]
          /\ \/ k \in {HoldFrom(hold_step[i]), STUCK}
             \/ k = 1 /\ HoldFrom(hold_step[i]) = 0

LEMMA HoldCalls ==
    ASSUME NEW i \in Button, ScanHold(i), TypeOK
    PROVE  NoCall(out) /\ (HoldSilent(i) \/ \E n \in 1..6 : HoldCall(i, n))
<1> DEFINE s == HoldFrom(hold_step[i])
<1>1. s \in 0..7 \cup {STUCK}
  BY DEF HoldFrom, TypeOK, STUCK, NOT_HELD
<1>2. CASE Calls(i, <<>>)
           /\ (\/ hold_step' = [hold_step EXCEPT ![i] = s]
               \/ s = 0 /\ hold_step' = [hold_step EXCEPT ![i] = 1]
               \/ hold_step' = [hold_step EXCEPT ![i] = STUCK])
  BY <1>1, <1>2, CallsNone DEF HoldSilent
<1>3. CASE /\ s \in 1..6 /\ ThresholdPassed(i, s)
           /\ hold_step' = [hold_step EXCEPT ![i] = s + 1]
           /\ Calls(i, <<HoldEvent[s]>>)
  <2>1. HoldEvent[s] \in HoldEvents /\ HoldEvent[s] \in Events
        /\ HoldEvent[s] \notin {"START_PRESS", "RELEASE"}
    BY <1>3, HoldNames, EventKinds
  <2>2. HoldNumber(HoldEvent[s]) = s
    BY <1>3, HoldNames, HoldNumbers
  <2>3. /\ NoCall(out) /\ OneCall(out', i, HoldEvent[s])
        /\ open' = [open EXCEPT ![i] = (@ \/ HoldEvent[s] = "START_PRESS")
                                          /\ HoldEvent[s] # "RELEASE"]
        /\ held' = [held EXCEPT ![i] = (@ \/ HoldEvent[s] \in HoldEvents)
                                          /\ HoldEvent[s] # "RELEASE"]
        /\ longest' = [longest EXCEPT ![i] =
                          IF HoldEvent[s] = "START_PRESS" THEN 0
                          ELSE IF HoldEvent[s] \in HoldEvents
                          THEN HoldNumber(HoldEvent[s]) ELSE @]
    BY <1>3, <2>1, CallsOne
  <2>4. open' = open
    BY <2>1, <2>3 DEF TypeOK
  <2>5. held' = [held EXCEPT ![i] = TRUE]
    BY <2>1, <2>3
  <2>6. longest' = [longest EXCEPT ![i] = s]
    BY <2>1, <2>2, <2>3
  <2>7. HoldCall(i, s)
    BY <1>3, <2>3, <2>4, <2>5, <2>6 DEF HoldCall
  <2>8. QED
    BY <1>3, <2>3, <2>7
<1>4. QED
  BY <1>2, <1>3, HoldNames DEF ScanHold

LEMMA ReleaseCalls ==
    ASSUME NEW i \in Button, ScanRelease(i), TypeOK
    PROVE  /\ NoCall(out) /\ OneCall(out', i, "RELEASE")
           /\ open' = [open EXCEPT ![i] = FALSE]
           /\ held' = [held EXCEPT ![i] = FALSE]
           /\ longest' = longest
<1>1. Calls(i, <<"RELEASE">>) /\ "RELEASE" \in Events /\ "RELEASE" \notin HoldEvents
  BY EventKinds DEF ScanRelease
<1>2. /\ NoCall(out) /\ OneCall(out', i, "RELEASE")
      /\ open' = [open EXCEPT ![i] = (@ \/ "RELEASE" = "START_PRESS")
                                        /\ "RELEASE" # "RELEASE"]
      /\ held' = [held EXCEPT ![i] = (@ \/ "RELEASE" \in HoldEvents)
                                        /\ "RELEASE" # "RELEASE"]
      /\ longest' = [longest EXCEPT ![i] =
                        IF "RELEASE" = "START_PRESS" THEN 0
                        ELSE IF "RELEASE" \in HoldEvents
                        THEN HoldNumber("RELEASE") ELSE @]
  BY <1>1, CallsOne
<1>3. longest' = longest
  BY <1>1, <1>2 DEF TypeOK
<1>4. QED
  BY <1>2, <1>3

\* What an idle button is reported as, e, possibly after a count of presses.
IdleCall(i, e) ==
    /\ e = "NO_PRESS" <=> hold_step[i] = NOT_HELD
    /\ open' = [open EXCEPT ![i] = @ /\ e # "RELEASE"]
    /\ held' = [held EXCEPT ![i] = @ /\ e # "RELEASE"]
    /\ longest' = longest
    /\ \/ OneCall(out', i, e)
       \/ /\ press_age[i] = "due" /\ press_cnt[i] # 0
          /\ press_many_time_f[i]
          /\ \E t \in TimesEvents : TwoCalls(out', i, t, e)

LEMMA IdleCalls ==
    ASSUME NEW i \in Button, ScanIdle(i), TypeOK
    PROVE  NoCall(out) /\ \E e \in Settles : IdleCall(i, e)
<1>1. PICK e \in Settles : /\ IdleReport(i) = e
                           /\ e = "NO_PRESS" <=> hold_step[i] = NOT_HELD
  <2>1. hold_step[i] \in 0..7 \cup {STUCK, NOT_HELD}
    BY DEF TypeOK
  <2>2. hold_step[i] < NOT_HELD <=> hold_step[i] # NOT_HELD
    BY <2>1 DEF NOT_HELD, STUCK
  <2>3. QED
    BY <2>2 DEF IdleReport, Settles
<1>2. Calls(i, Append(TimesReport(i), e))
  BY <1>1 DEF ScanIdle
<1>3. e \in Events /\ e \notin HoldEvents /\ e # "START_PRESS"
  BY EventKinds DEF Settles
<1>4. CASE TimesReport(i) = <<>>
  <2>1. Calls(i, <<e>>)
    BY <1>2, <1>4
  <2>2. /\ NoCall(out) /\ OneCall(out', i, e)
        /\ open' = [open EXCEPT ![i] = (@ \/ e = "START_PRESS") /\ e # "RELEASE"]
        /\ held' = [held EXCEPT ![i] = (@ \/ e \in HoldEvents) /\ e # "RELEASE"]
        /\ longest' = [longest EXCEPT ![i] = IF e = "START_PRESS" THEN 0
                                             ELSE IF e \in HoldEvents
                                             THEN HoldNumber(e) ELSE @]
    BY <1>3, <2>1, CallsOne
  <2>3. longest' = longest
    BY <1>3, <2>2 DEF TypeOK
  <2>4. /\ open' = [open EXCEPT ![i] = @ /\ e # "RELEASE"]
        /\ held' = [held EXCEPT ![i] = @ /\ e # "RELEASE"]
    BY <1>3, <2>2 DEF TypeOK
  <2>5. IdleCall(i, e)
    BY <1>1, <2>2, <2>3, <2>4 DEF IdleCall
  <2>6. QED
    BY <2>2, <2>5
<1>5. CASE TimesReport(i) # <<>>
  <2>1. PICK t \in TimesEvents : TimesReport(i) = <<t>>
    BY <1>5 DEF TimesReport, TimesEvents
  <2>2. press_age[i] = "due" /\ press_cnt[i] # 0 /\ press_many_time_f[i]
    BY <1>5 DEF TimesReport, Reported
  <2>3. Append(<<t>>, e) = <<t, e>>
    <3>1. <<t>> \in Seq({t, e}) /\ <<t, e>> \in Seq({t, e})
      OBVIOUS
    <3>2. /\ Append(<<t>>, e) \in Seq({t, e})
          /\ Len(Append(<<t>>, e)) = 2
          /\ Append(<<t>>, e)[1] = t /\ Append(<<t>>, e)[2] = e
      BY <3>1, AppendProperties
    <3>3. Len(<<t, e>>) = 2 /\ <<t, e>>[1] = t /\ <<t, e>>[2] = e
      OBVIOUS
    <3>4. \A k \in 1..2 : Append(<<t>>, e)[k] = <<t, e>>[k]
      BY <3>2, <3>3
    <3>5. QED
      BY <3>1, <3>2, <3>3, <3>4, SeqEqual
  <2>4. Calls(i, <<t, e>>)
    BY <1>2, <2>1, <2>3
  <2>5. QED
    BY <1>1, <2>2, <2>4, CallsTwo DEF IdleCall
<1>6. QED
  BY <1>4, <1>5

LEMMA BounceCalls ==
    ASSUME NEW i \in Button, ScanBounce(i), TypeOK
    PROVE  LateReads /\ NoCall(out) /\ NoCall(out') /\ UNCHANGED told
BY CallsNone DEF ScanBounce

\* The call that returns is of button i, with event e.
ReturnCall(i, e) ==
    /\ Head(out) = <<i, e>>
    /\ \/ OneCall(out, i, e) /\ NoCall(out')
       \/ e \in TimesEvents /\ \E f \in Settles : /\ TwoCalls(out, i, e, f)
                                                  /\ OneCall(out', i, f)

LEMMA ReturnCalls ==
    ASSUME Returns, CallShape(out)
    PROVE  /\ UNCHANGED <<scanState, told, tapped>>
           /\ \E i \in Button, e \in Events : ReturnCall(i, e)
<1>1. out # <<>> /\ out' = Tail(out) /\ UNCHANGED <<scanState, told, tapped>>
  BY DEF Returns
<1>2. ASSUME NEW i \in Button, NEW e \in Events, OneCall(out, i, e)
      PROVE  ReturnCall(i, e)
  <2>1. Head(out) = <<i, e>> /\ Tail(out) = <<>>
    BY <1>2 DEF OneCall
  <2>2. QED
    BY <1>1, <1>2, <2>1 DEF ReturnCall, NoCall
<1>3. ASSUME NEW i \in Button, NEW t \in TimesEvents, NEW e \in Settles,
             TwoCalls(out, i, t, e)
      PROVE  ReturnCall(i, t)
  <2> DEFINE x == <<i, t>>
             y == <<i, e>>
  <2>1. out = <<x, y>>
    BY <1>3 DEF TwoCalls
  <2>2. Head(out) = x
    BY <2>1
  <2>3. Tail(out) = <<y>>
    <3> HIDE DEF x, y
    <3>1. <<x, y>> \in Seq({x, y}) /\ <<y>> \in Seq({x, y}) /\ <<x, y>> # <<>>
          /\ Len(<<x, y>>) = 2 /\ <<x, y>>[2] = y
      OBVIOUS
    <3>2. /\ Tail(<<x, y>>) \in Seq({x, y})
          /\ Len(Tail(<<x, y>>)) = 1 /\ Tail(<<x, y>>)[1] = y
      BY <3>1, HeadTailProperties
    <3>3. Len(<<y>>) = 1 /\ <<y>>[1] = y
      OBVIOUS
    <3>4. \A k \in 1..1 : Tail(<<x, y>>)[k] = <<y>>[k]
      BY <3>2, <3>3
    <3>5. Tail(<<x, y>>) = <<y>>
      BY <3>1, <3>2, <3>3, <3>4, SeqEqual
    <3>6. QED
      BY <2>1, <3>5
  <2>4. OneCall(out', i, e)
    BY <1>1, <2>3 DEF OneCall
  <2>5. QED
    BY <1>3, <2>2, <2>4 DEF ReturnCall
<1>4. QED
  BY <1>1, <1>2, <1>3, EventKinds DEF CallShape, NoCall

-----------------------------------------------------------------------------
(* The scanner keeps its types.                                            *)

LEMMA ScanTypeInit == ScanInit => ScanType
<1> SUFFICES ASSUME ScanInit PROVE ScanType
  OBVIOUS
<1>1. NoCall(out) /\ CallShape(out)
  BY DEF ScanInit, NoCall, CallShape
<1>2. out \in Seq(Button \X Events) /\ Len(out) <= 2
  BY <1>1, ShapeSeq
<1>3. press_cnt \in [Button -> 0..MaxPress] /\ longest \in [Button -> 0..Len(HoldEvent)]
  BY ButtonScanAssumption, HoldNames DEF ScanInit
<1>4. QED
  BY <1>1, <1>2, <1>3 DEF ScanType, TypeOK, ScanInit, STUCK, NOT_HELD

LEMMA ScanTypeStep == ScanType /\ [ScanNext]_scanVars => ScanType'
<1> SUFFICES ASSUME ScanType, [ScanNext]_scanVars PROVE ScanType'
  OBVIOUS
<1>0. TypeOK /\ CallShape(out)
  BY DEF ScanType
<1> DEFINE StateOK == /\ pressed \in [Button -> BOOLEAN]
                      /\ hold_step \in [Button -> 0..7 \cup {STUCK, NOT_HELD}]
                      /\ press_cnt \in [Button -> 0..MaxPress]
                      /\ press_many_time_f \in [Button -> BOOLEAN]
                      /\ press_age \in [Button -> {"recent", "due", "over"}]
                      /\ hold_old \in [Button -> BOOLEAN]
                      /\ tapped \in [Button -> BOOLEAN]
           ToldOK == /\ open \in [Button -> BOOLEAN]
                     /\ held \in [Button -> BOOLEAN]
                     /\ longest \in [Button -> 0..Len(HoldEvent)]
<1>a. StateOK /\ ToldOK
  BY <1>0 DEF TypeOK
<1>b. ASSUME StateOK', ToldOK', CallShape(out') PROVE ScanType'
  BY <1>b, ShapeSeq DEF ScanType, TypeOK
<1>1. ASSUME NEW i \in Button, ScanPress(i) PROVE ScanType'
  <2>1. /\ OneCall(out', i, "START_PRESS")
        /\ open' = [open EXCEPT ![i] = TRUE]
        /\ held' = held
        /\ longest' = [longest EXCEPT ![i] = 0]
    BY <1>0, <1>1, PressCalls
  <2>2. ToldOK' /\ CallShape(out')
    BY <1>a, <2>1, EventKinds, HoldNames DEF CallShape
  <2>3. press_cnt' \in [Button -> 0..MaxPress]
    BY <1>a, <1>1, ButtonScanAssumption DEF ScanPress
  <2>4. /\ pressed' \in [Button -> BOOLEAN]
        /\ press_many_time_f' \in [Button -> BOOLEAN]
        /\ press_age' \in [Button -> {"recent", "due", "over"}]
        /\ hold_old' \in [Button -> BOOLEAN]
        /\ hold_step' = hold_step
        /\ tapped' \in [Button -> BOOLEAN]
    BY <1>a, <1>1 DEF ScanPress, LastRead
  <2>5. StateOK'
    BY <1>a, <2>3, <2>4
  <2>6. QED
    BY <2>2, <2>5, <1>b
<1>2. ASSUME NEW i \in Button, ScanHold(i) PROVE ScanType'
  <2>1. /\ pressed' \in [Button -> BOOLEAN]
        /\ hold_old' \in [Button -> BOOLEAN]
        /\ UNCHANGED <<press_cnt, press_many_time_f, press_age, tapped>>
    BY <1>a, <1>2 DEF ScanHold, LastRead
  <2>2. hold_step' \in [Button -> 0..7 \cup {STUCK, NOT_HELD}]
        /\ ToldOK' /\ CallShape(out')
    <3>1. CASE HoldSilent(i)
      BY <1>a, <3>1 DEF HoldSilent, told, CallShape
    <3>2. ASSUME NEW n \in 1..6, HoldCall(i, n)
          PROVE  hold_step' \in [Button -> 0..7 \cup {STUCK, NOT_HELD}]
                 /\ ToldOK' /\ CallShape(out')
      <4>1. hold_step' \in [Button -> 0..7 \cup {STUCK, NOT_HELD}]
        BY <1>a, <3>2 DEF HoldCall
      <4>2. ToldOK'
        BY <1>a, <3>2, HoldNames DEF HoldCall
      <4>3. CallShape(out')
        BY <3>2, HoldNames, EventKinds DEF HoldCall, CallShape
      <4>4. QED
        BY <4>1, <4>2, <4>3
    <3>3. QED
      BY <1>0, <1>2, <3>1, <3>2, HoldCalls
  <2>3. StateOK'
    BY <1>a, <2>1, <2>2
  <2>4. QED
    BY <2>2, <2>3, <1>b
<1>3. ASSUME NEW i \in Button, ScanRelease(i) PROVE ScanType'
  <2>1. /\ OneCall(out', i, "RELEASE")
        /\ open' = [open EXCEPT ![i] = FALSE]
        /\ held' = [held EXCEPT ![i] = FALSE]
        /\ longest' = longest
    BY <1>0, <1>3, ReleaseCalls
  <2>2. ToldOK' /\ CallShape(out')
    BY <1>a, <2>1, EventKinds DEF CallShape
  <2>3. StateOK'
    BY <1>a, <1>3 DEF ScanRelease, LastRead
  <2>4. QED
    BY <2>2, <2>3, <1>b
<1>4. ASSUME NEW i \in Button, ScanIdle(i) PROVE ScanType'
  <2>1. PICK e \in Settles : IdleCall(i, e)
    BY <1>0, <1>4, IdleCalls
  <2>2. ToldOK'
    BY <1>a, <2>1 DEF IdleCall
  <2>3. CallShape(out')
    BY <2>1, EventKinds DEF IdleCall, CallShape, Settles
  <2>4. StateOK'
    BY <1>a, <1>4 DEF ScanIdle, LastRead
  <2>5. QED
    BY <2>2, <2>3, <2>4, <1>b
<1>5. ASSUME NEW i \in Button, ScanBounce(i) PROVE ScanType'
  <2>1. NoCall(out') /\ UNCHANGED told
    BY <1>0, <1>5, BounceCalls
  <2>2. ToldOK' /\ CallShape(out')
    BY <1>a, <2>1 DEF told, CallShape
  <2>3. StateOK'
    BY <1>a, <1>5 DEF ScanBounce, LastRead
  <2>4. QED
    BY <2>2, <2>3, <1>b
<1>6. ASSUME NEW i \in Button, Ages(i) PROVE ScanType'
  <2>1. StateOK' /\ ToldOK' /\ out' = out
    BY <1>a, <1>6 DEF Ages, told
  <2>2. QED
    BY <1>0, <2>1, <1>b
<1>7. ASSUME Returns PROVE ScanType'
  <2>1. StateOK' /\ ToldOK'
    BY <1>a, <1>7 DEF Returns, scanState, told
  <2>2. CallShape(out')
    BY <1>0, <1>7, ReturnCalls, EventKinds DEF ReturnCall, CallShape, Settles
  <2>3. QED
    BY <2>1, <2>2, <1>b
<1>8. ASSUME UNCHANGED scanVars PROVE ScanType'
  BY <1>0, <1>8, <1>a, <1>b DEF scanVars, scanState, told
<1>9. QED
  BY <1>1, <1>2, <1>3, <1>4, <1>5, <1>6, <1>7, <1>8
  DEF ScanNext, option_button_scan

\* The variables of the scanner keep their ranges; every visit makes no call, one
\* call, or reports a count of presses and then the state of the button.
THEOREM ScanTypeCorrect == ScanSpec => [](ScanType /\ TypeOK)
<1>1. ScanType => TypeOK
  BY DEF ScanType
<1>2. QED
  BY <1>1, ScanTypeInit, ScanTypeStep, PTL DEF ScanSpec

-----------------------------------------------------------------------------
(* One visit is about one button.                                          *)

\* What each shape of calls reports, before a step and after it.
LEMMA NoneReports ==
    ASSUME NEW j, NEW f
    PROVE  /\ NoCall(out) => ~Reports(j, f)
           /\ NoCall(out') => ~Reports(j, f)'
BY DEF NoCall, Reports

LEMMA OneReports ==
    ASSUME NEW i, NEW e, NEW j, NEW f
    PROVE  /\ OneCall(out, i, e) => (Reports(j, f) <=> j = i /\ f = e)
           /\ OneCall(out', i, e) => (Reports(j, f)' <=> j = i /\ f = e)
<1>1. ASSUME OneCall(out, i, e) PROVE Reports(j, f) <=> j = i /\ f = e
  <2>1. DOMAIN out = {1} /\ out[1] = <<i, e>>
    BY <1>1 DEF OneCall
  <2>2. QED
    BY <2>1 DEF Reports
<1>2. ASSUME OneCall(out', i, e) PROVE Reports(j, f)' <=> j = i /\ f = e
  <2>1. DOMAIN out' = {1} /\ out'[1] = <<i, e>>
    BY <1>2 DEF OneCall
  <2>2. QED
    BY <2>1 DEF Reports
<1>3. QED
  BY <1>1, <1>2

LEMMA TwoReports ==
    ASSUME NEW i, NEW t, NEW e, NEW j, NEW f
    PROVE  /\ TwoCalls(out, i, t, e) => (Reports(j, f) <=> j = i /\ f \in {t, e})
           /\ TwoCalls(out', i, t, e) => (Reports(j, f)' <=> j = i /\ f \in {t, e})
<1>1. ASSUME TwoCalls(out, i, t, e) PROVE Reports(j, f) <=> j = i /\ f \in {t, e}
  <2>1. DOMAIN out = {1, 2} /\ out[1] = <<i, t>> /\ out[2] = <<i, e>>
    BY <1>1 DEF TwoCalls
  <2>2. QED
    BY <2>1 DEF Reports
<1>2. ASSUME TwoCalls(out', i, t, e) PROVE Reports(j, f)' <=> j = i /\ f \in {t, e}
  <2>1. DOMAIN out' = {1, 2} /\ out'[1] = <<i, t>> /\ out'[2] = <<i, e>>
    BY <1>2 DEF TwoCalls
  <2>2. QED
    BY <2>1 DEF Reports
<1>3. QED
  BY <1>1, <1>2

\* A visit is made with no calls left, and leaves those of its button.
LEMMA CallsOfVisit ==
    ASSUME NEW i \in Button, option_button_scan(i), TypeOK
    PROVE  NoCall(out) /\ \A j, f : Reports(j, f)' => j = i
<1> DEFINE ofOne == \/ NoCall(out')
                    \/ \E e : OneCall(out', i, e)
                    \/ \E t, e : TwoCalls(out', i, t, e)
<1>1. ASSUME ofOne, NEW j, NEW f, Reports(j, f)' PROVE j = i
  <2>1. CASE NoCall(out')
    BY <1>1, <2>1, NoneReports
  <2>2. ASSUME NEW e, OneCall(out', i, e) PROVE j = i
    BY <1>1, <2>2, OneReports
  <2>3. ASSUME NEW t, NEW e, TwoCalls(out', i, t, e) PROVE j = i
    BY <1>1, <2>3, TwoReports
  <2>4. QED
    BY <1>1, <2>1, <2>2, <2>3
<1>2. NoCall(out) /\ ofOne
  <2>1. CASE ScanPress(i)
    BY <2>1, PressCalls
  <2>2. CASE ScanHold(i)
    BY <2>2, HoldCalls DEF HoldSilent, HoldCall
  <2>3. CASE ScanRelease(i)
    BY <2>3, ReleaseCalls
  <2>4. CASE ScanIdle(i)
    BY <2>4, IdleCalls DEF IdleCall
  <2>5. CASE ScanBounce(i)
    BY <2>5, BounceCalls
  <2>6. QED
    BY <2>1, <2>2, <2>3, <2>4, <2>5 DEF option_button_scan
<1>3. QED
  BY <1>1, <1>2

\* ... and leaves the other buttons alone.
LEMMA OthersKept ==
    ASSUME NEW i \in Button, option_button_scan(i) \/ Ages(i), TypeOK,
           NEW j \in Button, j # i
    PROVE  /\ pressed'[j] = pressed[j] /\ hold_step'[j] = hold_step[j]
           /\ press_cnt'[j] = press_cnt[j] /\ hold_old'[j] = hold_old[j]
           /\ press_many_time_f'[j] = press_many_time_f[j]
           /\ press_age'[j] = press_age[j]
           /\ open'[j] = open[j] /\ held'[j] = held[j] /\ longest'[j] = longest[j]
           /\ tapped'[j] = tapped[j]
<1> USE DEF TypeOK
<1>1. CASE ScanPress(i)
  <2>1. open'[j] = open[j] /\ held'[j] = held[j] /\ longest'[j] = longest[j]
    BY <1>1, PressCalls
  <2>2. QED
    BY <1>1, <2>1 DEF ScanPress, LastRead
<1>2. CASE ScanHold(i)
  <2>1. /\ pressed'[j] = pressed[j] /\ hold_old'[j] = hold_old[j]
        /\ UNCHANGED <<press_cnt, press_many_time_f, press_age, tapped>>
    BY <1>2 DEF ScanHold, LastRead
  <2>2. CASE HoldSilent(i)
    BY <2>1, <2>2 DEF HoldSilent, told
  <2>3. CASE \E n \in 1..6 : HoldCall(i, n)
    BY <2>1, <2>3 DEF HoldCall
  <2>4. QED
    BY <1>2, <2>2, <2>3, HoldCalls
<1>3. CASE ScanRelease(i)
  BY <1>3, ReleaseCalls DEF ScanRelease, LastRead
<1>4. CASE ScanIdle(i)
  <2>1. PICK e \in Settles : IdleCall(i, e)
    BY <1>4, IdleCalls
  <2>2. open'[j] = open[j] /\ held'[j] = held[j] /\ longest'[j] = longest[j]
    BY <2>1 DEF IdleCall
  <2>3. QED
    BY <1>4, <2>2 DEF ScanIdle, LastRead
<1>5. CASE ScanBounce(i)
  BY <1>5, BounceCalls DEF ScanBounce, LastRead, told
<1>6. CASE Ages(i)
  BY <1>6 DEF Ages, told
<1>7. QED
  BY <1>1, <1>2, <1>3, <1>4, <1>5, <1>6 DEF option_button_scan

\* A call that returns leaves none that was not there.
LEMMA ReturnsKeep ==
    ASSUME Returns, CallShape(out), NEW j, NEW f, Reports(j, f)'
    PROVE  Reports(j, f)
<1>1. PICK i \in Button, e \in Events : ReturnCall(i, e)
  BY ReturnCalls
<1>2. CASE OneCall(out, i, e) /\ NoCall(out')
  BY <1>2, NoneReports, OneReports, TwoReports
<1>3. ASSUME NEW g \in Settles, TwoCalls(out, i, e, g), OneCall(out', i, g)
      PROVE  Reports(j, f)
  <2>1. Reports(j, f)' <=> j = i /\ f = g
    BY <1>3, NoneReports, OneReports, TwoReports
  <2>2. Reports(j, f) <=> j = i /\ f \in {e, g}
    BY <1>3, NoneReports, OneReports, TwoReports
  <2>3. QED
    BY <2>1, <2>2
<1>4. QED
  BY <1>1, <1>2, <1>3 DEF ReturnCall

-----------------------------------------------------------------------------
(* Holds.                                                                  *)

\* A reported hold is remembered in hold_step.
HoldKept(i) ==
    /\ held[i] => hold_step[i] # NOT_HELD
    /\ Reports(i, "NO_PRESS") => ~held[i]

HoldInv == ScanType /\ \A i \in Button : HoldKept(i)

LEMMA HoldInvStep == HoldInv /\ [ScanNext]_scanVars => HoldInv'
<1> SUFFICES ASSUME HoldInv, [ScanNext]_scanVars PROVE HoldInv'
  OBVIOUS
<1>0. TypeOK /\ CallShape(out) /\ ScanType'
  BY ScanTypeStep DEF HoldInv, ScanType
<1>a. \A e \in HoldEvents \cup {"START_PRESS", "RELEASE"} : e # "NO_PRESS"
  BY HoldNames
<1>1. ASSUME NEW i \in Button, option_button_scan(i) \/ Ages(i)
      PROVE  \A j \in Button : HoldKept(j)'
  <2>1. HoldKept(i)
    BY DEF HoldInv
  <2>2. CASE ScanPress(i)
    <3>1. OneCall(out', i, "START_PRESS") /\ held' = held
      BY <1>0, <2>2, PressCalls
    <3>1a. ~Reports(i, "NO_PRESS")' /\ hold_step' = hold_step
      BY <2>2, <3>1, NoneReports, OneReports, TwoReports DEF ScanPress
    <3>2. HoldKept(i)'
      BY <2>1, <3>1, <3>1a DEF HoldKept
    <3>3. QED
      BY <1>0, <2>2, <3>2, OthersKept, CallsOfVisit
      DEF HoldInv, HoldKept, option_button_scan
  <2>3. CASE ScanHold(i)
    <3>1. hold_step'[i] # NOT_HELD
      <4>1. CASE HoldSilent(i)
        BY <1>0, <4>1 DEF HoldSilent, TypeOK, STUCK, NOT_HELD
      <4>2. CASE \E n \in 1..6 : HoldCall(i, n)
        BY <1>0, <4>2 DEF HoldCall, TypeOK, STUCK, NOT_HELD
      <4>3. QED
        BY <1>0, <2>3, <4>1, <4>2, HoldCalls
    <3>2. ~Reports(i, "NO_PRESS")'
      <4>1. CASE NoCall(out')
        BY <4>1, NoneReports, OneReports, TwoReports
      <4>2. ASSUME NEW n \in 1..6, OneCall(out', i, HoldEvent[n])
            PROVE  ~Reports(i, "NO_PRESS")'
        <5>1. HoldEvent[n] # "NO_PRESS"
          BY HoldNames
        <5>2. QED
          BY <4>2, <5>1, NoneReports, OneReports, TwoReports
      <4>3. QED
        BY <1>0, <2>3, <4>1, <4>2, HoldCalls DEF HoldSilent, HoldCall
    <3>3. HoldKept(i)'
      BY <3>1, <3>2 DEF HoldKept
    <3>4. QED
      BY <1>0, <2>3, <3>3, OthersKept, CallsOfVisit
      DEF HoldInv, HoldKept, option_button_scan
  <2>4. CASE ScanRelease(i)
    <3>1. ~held'[i]
      BY <1>0, <2>4, ReleaseCalls DEF TypeOK
    <3>2. HoldKept(i)'
      BY <3>1 DEF HoldKept
    <3>3. QED
      BY <1>0, <2>4, <3>2, OthersKept, CallsOfVisit
      DEF HoldInv, HoldKept, option_button_scan
  <2>5. CASE ScanIdle(i)
    <3>1. PICK e \in Settles : IdleCall(i, e)
      BY <1>0, <2>5, IdleCalls
    <3>2. ~held'[i]
      BY <1>0, <2>1, <3>1 DEF IdleCall, HoldKept, Settles, TypeOK
    <3>3. HoldKept(i)'
      BY <3>2 DEF HoldKept
    <3>4. QED
      BY <1>0, <2>5, <3>3, OthersKept, CallsOfVisit
      DEF HoldInv, HoldKept, option_button_scan
  <2>6. CASE ScanBounce(i)
    <3>1. ~Reports(i, "NO_PRESS")' /\ held' = held /\ hold_step' = hold_step
      BY <1>0, <2>6, BounceCalls, NoneReports, OneReports, TwoReports DEF told, ScanBounce
    <3>2. HoldKept(i)'
      BY <2>1, <3>1 DEF HoldKept
    <3>3. QED
      BY <1>0, <2>6, <3>2, OthersKept, CallsOfVisit
      DEF HoldInv, HoldKept, option_button_scan
  <2>7. CASE Ages(i)
    BY <2>7 DEF Ages, told, HoldInv, HoldKept, Reports
  <2>8. QED
    BY <1>1, <2>2, <2>3, <2>4, <2>5, <2>6, <2>7 DEF option_button_scan
<1>2. ASSUME Returns PROVE \A j \in Button : HoldKept(j)'
  BY <1>0, <1>2, ReturnCalls, ReturnsKeep DEF scanState, told, HoldInv, HoldKept
<1>3. ASSUME UNCHANGED scanVars PROVE \A j \in Button : HoldKept(j)'
  BY <1>3 DEF scanVars, told, scanState, HoldInv, HoldKept, Reports
<1>4. QED
  BY <1>0, <1>1, <1>2, <1>3 DEF ScanNext, HoldInv

LEMMA HoldInvInit == ScanInit => HoldInv
BY ScanTypeInit DEF ScanInit, HoldInv, HoldKept, Reports

\* Whatever the contacts do, a hold that was reported is released before the
\* button is reported idle: the second RELEASE of option_button_scan suffices.
THEOREM HoldsAreReleased == ScanSpec => []HeldIsReleased
<1>1. HoldInv => HeldIsReleased
  BY DEF HoldInv, HoldKept, HeldIsReleased
<1>2. QED
  BY <1>1, HoldInvInit, HoldInvStep, PTL DEF ScanSpec

-----------------------------------------------------------------------------
(* Presses, whatever the contacts do.                                      *)

\* A press that is not over is remembered, in prev_state or in hold_step, unless
\* the visit that began it or one that bounced saw its end.
PressKept(i) ==
    /\ open[i] => tapped[i] \/ pressed[i] \/ hold_step[i] # NOT_HELD
    /\ Reports(i, "NO_PRESS") /\ open[i] => tapped[i]

PressInv == ScanType /\ \A i \in Button : PressKept(i)

LEMMA PressInvInit == ScanInit => PressInv
BY ScanTypeInit DEF ScanInit, PressInv, PressKept, Reports

LEMMA PressVisit ==
    ASSUME TypeOK, NEW i \in Button, PressKept(i), option_button_scan(i)
    PROVE  PressKept(i)'
<1>1. CASE ScanPress(i)
  <2>1. tapped'[i] = (~pressed'[i] /\ hold_step[i] = NOT_HELD) /\ hold_step' = hold_step
    BY <1>1 DEF ScanPress, TypeOK
  <2>2. ~Reports(i, "NO_PRESS")'
    BY <1>1, PressCalls, OneReports
  <2>3. QED
    BY <2>1, <2>2 DEF PressKept
<1>2. CASE ScanHold(i)
  <2>1. hold_step'[i] # NOT_HELD
    <3>1. CASE HoldSilent(i)
      BY <3>1 DEF HoldSilent, TypeOK, STUCK, NOT_HELD
    <3>2. CASE \E n \in 1..6 : HoldCall(i, n)
      BY <3>2 DEF HoldCall, TypeOK, STUCK, NOT_HELD
    <3>3. QED
      BY <1>2, <3>1, <3>2, HoldCalls
  <2>2. ~Reports(i, "NO_PRESS")'
    <3>1. CASE NoCall(out')
      BY <3>1, NoneReports
    <3>2. ASSUME NEW n \in 1..6, OneCall(out', i, HoldEvent[n])
          PROVE  ~Reports(i, "NO_PRESS")'
      <4>1. HoldEvent[n] # "NO_PRESS"
        BY HoldNames
      <4>2. QED
        BY <3>2, <4>1, OneReports
    <3>3. QED
      BY <1>2, <3>1, <3>2, HoldCalls DEF HoldSilent, HoldCall
  <2>3. QED
    BY <2>1, <2>2 DEF PressKept
<1>3. CASE ScanRelease(i)
  <2>1. ~open'[i]
    BY <1>3, ReleaseCalls DEF TypeOK
  <2>2. QED
    BY <2>1 DEF PressKept
<1>4. CASE ScanIdle(i)
  <2>1. PICK e \in Settles : IdleCall(i, e)
    BY <1>4, IdleCalls
  <2>2. open'[i] = (open[i] /\ e # "RELEASE")
    BY <2>1 DEF IdleCall, TypeOK
  <2>3. open'[i] => hold_step[i] = NOT_HELD
    BY <2>1, <2>2 DEF IdleCall, Settles
  <2>4. ~pressed[i] /\ tapped' = tapped
    BY <1>4 DEF ScanIdle
  <2>5. open'[i] => tapped'[i]
    BY <2>2, <2>3, <2>4 DEF PressKept
  <2>6. QED
    BY <2>5 DEF PressKept
<1>5. CASE ScanBounce(i)
  <2>1. NoCall(out') /\ open' = open
    BY <1>5, BounceCalls DEF told
  <2>2. hold_step' = hold_step /\ tapped'[i] = (\/ tapped[i]
                                                \/ ~pressed'[i] /\ hold_step[i] = NOT_HELD)
    BY <1>5 DEF ScanBounce, TypeOK
  <2>3. QED
    BY <2>1, <2>2, NoneReports DEF PressKept
<1>6. QED
  BY <1>1, <1>2, <1>3, <1>4, <1>5 DEF option_button_scan

LEMMA PressInvStep == PressInv /\ [ScanNext]_scanVars => PressInv'
<1> SUFFICES ASSUME PressInv, [ScanNext]_scanVars PROVE PressInv'
  OBVIOUS
<1>0. TypeOK /\ CallShape(out) /\ ScanType'
  BY ScanTypeStep DEF PressInv, ScanType
<1>1. ASSUME NEW i \in Button, option_button_scan(i), NEW j \in Button
      PROVE  PressKept(j)'
  <2>1. PressKept(j)
    BY DEF PressInv
  <2>2. CASE j = i
    BY <1>0, <1>1, <2>1, <2>2, PressVisit
  <2>3. CASE j # i
    BY <1>0, <1>1, <2>1, <2>3, OthersKept, CallsOfVisit DEF PressKept
  <2>4. QED
    BY <2>2, <2>3
<1>2. ASSUME NEW i \in Button, Ages(i), NEW j \in Button PROVE PressKept(j)'
  BY <1>2 DEF Ages, told, PressInv, PressKept, Reports
<1>3. ASSUME Returns, NEW j \in Button PROVE PressKept(j)'
  <2>1. UNCHANGED <<scanState, told, tapped>>
    BY <1>3 DEF Returns
  <2>2. Reports(j, "NO_PRESS")' => Reports(j, "NO_PRESS")
    BY <1>0, <1>3, ReturnsKeep
  <2>3. QED
    BY <2>1, <2>2 DEF scanState, told, PressInv, PressKept
<1>4. ASSUME UNCHANGED scanVars, NEW j \in Button PROVE PressKept(j)'
  BY <1>4 DEF scanVars, scanState, told, PressInv, PressKept, Reports
<1>5. QED
  BY <1>0, <1>1, <1>2, <1>3, <1>4 DEF ScanNext, PressInv

\* However the contacts bounce, every START_PRESS is answered by a RELEASE before
\* option_button_scan reports the button idle, but for a tap that a visit ended
\* before any visit of its hold.
THEOREM PressesAreReleased == ScanSpec => []PressIsReleased
<1>1. PressInv => PressIsReleased
  BY DEF PressInv, PressKept, PressIsReleased
<1>2. QED
  BY <1>1, PressInvInit, PressInvStep, PTL DEF ScanSpec

-----------------------------------------------------------------------------
(* Presses, while the last read of a visit agrees with the branch taken.   *)

\* What the call in progress tells of its button: a hold or the start of a press
\* that goes on, or the end of a press that was short if a count is reported.
CallFits(i, e) ==
    /\ open[i] <=> e \in HoldEvents \cup {"START_PRESS"}
    /\ e = "START_PRESS" => longest[i] = 0
    /\ \A n \in 1..6 : e = HoldEvent[n] => longest[i] = n
    /\ e \in TimesEvents => longest[i] < 4

\* A press is remembered in prev_state and a hold of 5 seconds in the age of its
\* press, since a hold is never taken for older than its press.
Steady(i) ==
    /\ open[i] <=> pressed[i]
    /\ ~hold_old[i]
    /\ ~pressed[i] => hold_step[i] = NOT_HELD \/ press_cnt[i] = 0
    /\ longest[i] >= 4 => press_age[i] = "over"
    /\ \A e \in Events : Reports(i, e) => CallFits(i, e)

SteadyInv == ScanType /\ \A i \in Button : Steady(i)

\* Reads that agree make the last one of a visit what its branch has seen.
LEMMA SteadyRead ==
    ASSUME ~LateReads, TypeOK, NEW i \in Button, NEW seen \in BOOLEAN, LastRead(i, seen)
    PROVE  pressed'[i] = seen
BY DEF LastRead, TypeOK

LEMMA SteadyVisit ==
    ASSUME ~LateReads, SteadyInv, NEW i \in Button, option_button_scan(i)
    PROVE  Steady(i)'
<1>0. TypeOK /\ Steady(i)
  BY DEF SteadyInv, ScanType
<1>a. longest[i] \in 0..6 /\ press_age[i] \in {"recent", "due", "over"}
  BY <1>0, HoldNames DEF TypeOK
<1>1. CASE ScanPress(i)
  <2>1. /\ OneCall(out', i, "START_PRESS") /\ open'[i] /\ longest'[i] = 0
    BY <1>0, <1>1, PressCalls DEF TypeOK
  <2>2. pressed'[i]
    BY <1>0, <1>1, SteadyRead DEF ScanPress
  <2>3. ~hold_old'[i]
    BY <1>0, <1>1 DEF ScanPress, Steady, TypeOK
  <2>4. \A e \in Events : Reports(i, e)' => e = "START_PRESS"
    BY <2>1, OneReports
  <2>5. \A e \in Events : Reports(i, e)' => CallFits(i, e)'
    BY <2>1, <2>4, EventKinds, HoldNames DEF CallFits
  <2>6. QED
    BY <2>1, <2>2, <2>3, <2>5 DEF Steady
<1>2. CASE ScanHold(i)
  <2>1. pressed[i] /\ pressed'[i] /\ open[i]
    BY <1>0, <1>2, SteadyRead DEF ScanHold, Steady
  <2>2. ~hold_old'[i] /\ press_age' = press_age
    BY <1>0, <1>2 DEF ScanHold, Steady, TypeOK
  <2>3. CASE HoldSilent(i)
    <3>1. \A e \in Events : ~Reports(i, e)'
      BY <2>3, NoneReports DEF HoldSilent
    <3>2. open' = open /\ longest' = longest
      BY <2>3 DEF HoldSilent, told
    <3>3. QED
      BY <1>0, <2>1, <2>2, <3>1, <3>2 DEF Steady
  <2>4. ASSUME NEW n \in 1..6, HoldCall(i, n) PROVE Steady(i)'
    <3>1. open'[i] /\ longest'[i] = n
      BY <1>0, <2>1, <2>4 DEF HoldCall, TypeOK
    <3>2. n >= 4 => press_age[i] = "over"
      BY <1>0, <2>4 DEF HoldCall, ThresholdPassed, Steady
    <3>3. \A e \in Events : Reports(i, e)' => e = HoldEvent[n]
      BY <2>4, OneReports DEF HoldCall
    <3>4. \A e \in Events : Reports(i, e)' => CallFits(i, e)'
      BY <3>1, <3>3, HoldNames, EventKinds DEF CallFits
    <3>5. QED
      BY <2>1, <2>2, <3>1, <3>2, <3>4 DEF Steady
  <2>5. QED
    BY <1>0, <1>2, <2>3, <2>4, HoldCalls
<1>3. CASE ScanRelease(i)
  <2>1. OneCall(out', i, "RELEASE") /\ ~open'[i] /\ longest' = longest
    BY <1>0, <1>3, ReleaseCalls DEF TypeOK
  <2>2. ~pressed'[i]
    BY <1>0, <1>3, SteadyRead DEF ScanRelease
  <2>3. hold_step'[i] = NOT_HELD /\ UNCHANGED <<press_age, hold_old>>
    BY <1>0, <1>3 DEF ScanRelease, TypeOK
  <2>4. \A e \in Events : Reports(i, e)' => e = "RELEASE"
    BY <2>1, OneReports
  <2>5. \A e \in Events : Reports(i, e)' => CallFits(i, e)'
    BY <2>1, <2>4, EventKinds, HoldNames DEF CallFits
  <2>6. QED
    BY <1>0, <2>1, <2>2, <2>3, <2>5 DEF Steady
<1>4. CASE ScanIdle(i)
  <2>1. PICK e \in Settles : IdleCall(i, e)
    BY <1>0, <1>4, IdleCalls
  <2>2. ~pressed[i] /\ ~open[i]
    BY <1>0, <1>4 DEF ScanIdle, Steady
  <2>3. ~pressed'[i]
    BY <1>0, <1>4, SteadyRead DEF ScanIdle
  <2>4. ~open'[i] /\ longest' = longest
    BY <1>0, <2>1, <2>2 DEF IdleCall, TypeOK
  <2>5. hold_step'[i] = NOT_HELD /\ UNCHANGED <<press_age, hold_old>>
    BY <1>0, <1>4 DEF ScanIdle, TypeOK
  <2>6. \A f \in Events : Reports(i, f)' => f \notin HoldEvents \cup {"START_PRESS"}
                                          /\ (f \in TimesEvents => longest[i] < 4)
    <3>1. CASE OneCall(out', i, e)
      <4>1. \A f \in Events : Reports(i, f)' => f = e
        BY <3>1, OneReports
      <4>2. QED
        BY <4>1, EventKinds DEF Settles
    <3>2. ASSUME NEW t \in TimesEvents, TwoCalls(out', i, t, e), press_age[i] = "due"
          PROVE  \A f \in Events : Reports(i, f)' =>
                    /\ f \notin HoldEvents \cup {"START_PRESS"}
                    /\ f \in TimesEvents => longest[i] < 4
      <4>1. \A f \in Events : Reports(i, f)' => f \in {t, e}
        BY <3>2, TwoReports
      <4>2. longest[i] < 4
        BY <1>0, <1>a, <3>2 DEF Steady
      <4>3. QED
        BY <4>1, <4>2, EventKinds DEF Settles
    <3>3. QED
      BY <2>1, <3>1, <3>2 DEF IdleCall
  <2>7. \A f \in Events : Reports(i, f)' => CallFits(i, f)'
    BY <2>4, <2>6, HoldNames DEF CallFits
  <2>8. QED
    BY <1>0, <2>3, <2>4, <2>5, <2>7 DEF Steady
<1>5. CASE ScanBounce(i)
  BY <1>5 DEF ScanBounce
<1>6. QED
  BY <1>1, <1>2, <1>3, <1>4, <1>5 DEF option_button_scan

LEMMA SteadyInvInit == ScanInit => SteadyInv
BY ScanTypeInit DEF ScanInit, SteadyInv, Steady, Reports

LEMMA SteadyInvStep == ~LateReads /\ SteadyInv /\ [ScanNext]_scanVars => SteadyInv'
<1> SUFFICES ASSUME ~LateReads, SteadyInv, [ScanNext]_scanVars PROVE SteadyInv'
  OBVIOUS
<1>0. TypeOK /\ CallShape(out) /\ ScanType'
  BY ScanTypeStep DEF SteadyInv, ScanType
<1>1. ASSUME NEW i \in Button, option_button_scan(i), NEW j \in Button
      PROVE  Steady(j)'
  <2>1. CASE j = i
    BY <1>1, <2>1, SteadyVisit
  <2>2. CASE j # i
    <3>1. \A e \in Events : ~Reports(j, e)'
      BY <1>0, <1>1, <2>2, CallsOfVisit
    <3>2. /\ pressed'[j] = pressed[j] /\ hold_step'[j] = hold_step[j]
          /\ press_cnt'[j] = press_cnt[j] /\ hold_old'[j] = hold_old[j]
          /\ press_age'[j] = press_age[j]
          /\ open'[j] = open[j] /\ longest'[j] = longest[j]
      BY <1>0, <1>1, <2>2, OthersKept
    <3>3. QED
      BY <3>1, <3>2 DEF SteadyInv, Steady
  <2>3. QED
    BY <2>1, <2>2
<1>2. ASSUME NEW i \in Button, Ages(i), NEW j \in Button PROVE Steady(j)'
  <2>1. press_age[j] = "over" => press_age'[j] = "over"
    BY <1>0, <1>2 DEF Ages, TypeOK
  <2>2. UNCHANGED <<pressed, hold_step, press_cnt, hold_old, out, open, longest>>
    BY <1>2 DEF Ages, told
  <2>3. QED
    BY <2>1, <2>2 DEF SteadyInv, Steady, CallFits, Reports
<1>3. ASSUME Returns, NEW j \in Button PROVE Steady(j)'
  <2>1. UNCHANGED <<scanState, told>>
    BY <1>3 DEF Returns
  <2>2. \A e \in Events : Reports(j, e)' => Reports(j, e)
    BY <1>0, <1>3, ReturnsKeep
  <2>3. QED
    BY <2>1, <2>2 DEF scanState, told, SteadyInv, Steady, CallFits
<1>4. ASSUME UNCHANGED scanVars, NEW j \in Button PROVE Steady(j)'
  BY <1>4 DEF scanVars, scanState, told, SteadyInv, Steady, CallFits, Reports
<1>5. QED
  BY <1>0, <1>1, <1>2, <1>3, <1>4 DEF ScanNext, SteadyInv

\* A press held for five seconds is not also counted as a short one.
THEOREM LongPressesAreNotShort == ~LateReads => (ScanSpec => []LongIsNotShort)
<1> SUFFICES ASSUME ~LateReads PROVE ScanSpec => []LongIsNotShort
  OBVIOUS
<1>1. SteadyInv /\ [ScanNext]_scanVars => SteadyInv'
  BY SteadyInvStep
<1>2. SteadyInv => LongIsNotShort
  <2>1. ASSUME SteadyInv, NEW i \in Button, NEW e \in TimesEvents, Reports(i, e)
        PROVE  ~(longest[i] >= 4)
    <3>1. longest[i] < 4
      BY <2>1, EventKinds DEF SteadyInv, Steady, CallFits
    <3>2. longest[i] \in 0..6
      BY <2>1, HoldNames DEF SteadyInv, ScanType, TypeOK
    <3>3. QED
      BY <3>1, <3>2
  <2>2. QED
    BY <2>1 DEF LongIsNotShort
<1>3. QED
  BY <1>1, <1>2, SteadyInvInit, PTL DEF ScanSpec

-----------------------------------------------------------------------------
(* The handler of relay and scene buttons, and the reset gestures.         *)

\* Between two calls of the scanner its handler, the clean-up of the gestures and
\* the locks change nothing of the scanner's.
LEMMA ButtonsScan == [Next]_vars => [ScanNext]_scanVars
<1> SUFFICES ASSUME [Next]_vars PROVE [ScanNext]_scanVars
  OBVIOUS
<1>1. CASE Handle
  BY <1>1 DEF Handle, ScanNext
<1>2. ASSUME NEW i \in Button, Scan(i) PROVE ScanNext
  BY <1>2 DEF Scan, ScanNext
<1>3. ASSUME NEW i \in Button, SetLock(i) PROVE UNCHANGED scanVars
  BY <1>3 DEF SetLock
<1>4. ASSUME NEW g \in Gesture, CleanGesture(g) PROVE UNCHANGED scanVars
  BY <1>4 DEF CleanGesture
<1>5. CASE UNCHANGED vars
  BY <1>5 DEF vars
<1>6. QED
  BY <1>1, <1>2, <1>3, <1>4, <1>5 DEF Next

\* The scanner under its handler behaves as the scanner alone, so that what is
\* promised above holds of it.
THEOREM ButtonsImplementScanner == Spec => ScanSpec
<1>1. Init => ScanInit
  BY DEF Init
<1>2. QED
  BY <1>1, ButtonsScan, PTL DEF Spec, ScanSpec

\* A momentary relay's button, like any other, is reported idle only after the
\* press that was reported has been reported over, or was such a tap.
THEOREM ButtonsPressesAreReleased == Spec => []PressIsReleased
BY PressesAreReleased, ButtonsImplementScanner, PTL

\* What one call of the handler does.
HandledCall(i, e) ==
    /\ ReturnCall(i, e)
    /\ HandleRelay(i, e) /\ HandleScene(i, e) /\ HandleSpecial(i, e) /\ Bars(i, e)
    /\ before' = [before EXCEPT ![i] = e]

LEMMA HandleCalls ==
    ASSUME Handle, CallShape(out)
    PROVE  /\ UNCHANGED <<scanState, told, tapped, locked>>
           /\ \E i \in Button, e \in Events : HandledCall(i, e)
<1>1. Returns /\ UNCHANGED locked
  BY DEF Handle
<1>2. PICK i \in Button, e \in Events : ReturnCall(i, e)
  BY <1>1, ReturnCalls
<1>3. Head(out)[1] = i /\ Head(out)[2] = e
  BY <1>2 DEF ReturnCall
<1>4. HandledCall(i, e)
  BY <1>2, <1>3 DEF Handle, HandledCall
<1>5. QED
  BY <1>1, <1>4, ReturnCalls

ButtonsType == ButtonsTypeOK /\ CallShape(out)

LEMMA ButtonsTypeInit == Init => ButtonsType
<1> SUFFICES ASSUME Init PROVE ButtonsType
  OBVIOUS
<1>1. TypeOK /\ CallShape(out)
  BY ScanTypeInit DEF Init, ScanType
<1>2. QED
  BY <1>1, EventKinds DEF Init, ButtonsType, ButtonsTypeOK, Steps

LEMMA ButtonsTypeStep == ButtonsType /\ [Next]_vars => ButtonsType'
<1> SUFFICES ASSUME ButtonsType, [Next]_vars PROVE ButtonsType'
  OBVIOUS
<1>0. TypeOK' /\ CallShape(out) /\ CallShape(out')
  BY ScanTypeStep, ButtonsScan DEF ButtonsType, ButtonsTypeOK, ScanType
<1> DEFINE GestureOK == /\ step \in [Gesture -> Steps]
                        /\ active \in [Gesture -> BOOLEAN]
                        /\ factory \in Gesture \cup {"none"}
                        /\ together \in [Gesture -> BOOLEAN]
           RestOK == /\ before \in [Listed -> Events]
                     /\ asked \in [RelayButton -> BOOLEAN]
                     /\ key_report \in [SceneButton -> SUBSET Keys]
                     /\ locked \in [Button -> BOOLEAN]
                     /\ barred \in [RelayButton -> BOOLEAN]
<1>a. GestureOK /\ RestOK
  BY DEF ButtonsType, ButtonsTypeOK
<1>b. ASSUME GestureOK', RestOK' PROVE ButtonsType'
  BY <1>0, <1>b DEF ButtonsType, ButtonsTypeOK
<1>1. CASE Handle
  <2>1. PICK i \in Button, e \in Events : HandledCall(i, e)
    BY <1>0, <1>1, HandleCalls
  <2>2. before' \in [Listed -> Events]
    BY <1>a, <2>1 DEF HandledCall
  <2>3. asked' \in [RelayButton -> BOOLEAN]
    BY <1>a, <2>1 DEF HandledCall, HandleRelay
  <2>4. key_report' \in [SceneButton -> SUBSET Keys]
    <3>1. \A late \in BOOLEAN : KeyReport(i, e, late) \in SUBSET Keys
      BY DEF KeyReport, Keys
    <3>2. PICK late \in BOOLEAN :
             key_report' =
                IF i \notin SceneButton THEN key_report
                ELSE [key_report EXCEPT ![i] = IF e = "START_PRESS" THEN {}
                                               ELSE @ \cup KeyReport(i, e, late)]
      BY <2>1 DEF HandledCall, HandleScene
    <3>3. QED
      BY <1>a, <3>1, <3>2
  <2>5. locked' \in [Button -> BOOLEAN]
    BY <1>0, <1>a, <1>1, HandleCalls
  <2>6. GestureOK'
    BY <1>a, <2>1 DEF HandledCall, HandleSpecial, Steps
  <2>7. barred' \in [RelayButton -> BOOLEAN]
    BY <2>1 DEF HandledCall, Bars
  <2>8. QED
    BY <2>2, <2>3, <2>4, <2>5, <2>6, <2>7, <1>b
<1>2. ASSUME NEW i \in Button, Scan(i) PROVE ButtonsType'
  BY <1>a, <1>b, <1>2 DEF Scan, gestureVars
<1>3. ASSUME NEW i \in Button, SetLock(i) PROVE ButtonsType'
  BY <1>a, <1>b, <1>3 DEF SetLock, gestureVars
<1>4. ASSUME NEW g \in Gesture, CleanGesture(g) PROVE ButtonsType'
  BY <1>a, <1>b, <1>4 DEF CleanGesture, Steps
<1>5. CASE UNCHANGED vars
  BY <1>a, <1>b, <1>5 DEF vars, gestureVars
<1>6. QED
  BY <1>1, <1>2, <1>3, <1>4, <1>5 DEF Next

\* Every variable of the scanner and of the handler keeps its range, in particular
\* the pairs of a gesture only ever remember events.
THEOREM ButtonsTypeCorrect == Spec => []ButtonsTypeOK
<1>1. ButtonsType => ButtonsTypeOK
  BY DEF ButtonsType
<1>2. QED
  BY <1>1, ButtonsTypeInit, ButtonsTypeStep, PTL DEF Spec

\* The call that returns was listed, the calls are all of its button, and what it
\* leaves is the state after a count of presses.
LEMMA ReturnReports ==
    ASSUME NEW i \in Button, NEW e \in Events, ReturnCall(i, e)
    PROVE  /\ Reports(i, e)
           /\ \A j, f : Reports(j, f) => j = i /\ f \in {e} \cup Settles
           /\ \A j, f : Reports(j, f)' => Reports(j, f) /\ f \in Settles
                                          /\ e \in TimesEvents
<1>1. CASE OneCall(out, i, e) /\ NoCall(out')
  BY <1>1, OneReports, NoneReports
<1>2. ASSUME NEW g \in Settles, e \in TimesEvents, TwoCalls(out, i, e, g),
             OneCall(out', i, g)
      PROVE  /\ Reports(i, e)
             /\ \A j, f : Reports(j, f) => j = i /\ f \in {e} \cup Settles
             /\ \A j, f : Reports(j, f)' => Reports(j, f) /\ f \in Settles
                                            /\ e \in TimesEvents
  <2>1. \A j, f : Reports(j, f) <=> j = i /\ f \in {e, g}
    BY <1>2, TwoReports
  <2>2. \A j, f : Reports(j, f)' <=> j = i /\ f = g
    BY <1>2, OneReports
  <2>3. QED
    BY <1>2, <2>1, <2>2
<1>3. QED
  BY <1>1, <1>2 DEF ReturnCall

\* A RELEASE in progress has ended its press, and so has one that is the latest
\* event of its button unless a new press is being reported.
ReleasedOf(i) ==
    /\ Reports(i, "RELEASE") => ~open[i]
    /\ before[i] = "RELEASE" /\ open[i] => Reports(i, "START_PRESS")

ReleasedInv == ButtonsType /\ \A i \in Button : ReleasedOf(i)

LEMMA ReleasedInvInit == Init => ReleasedInv
BY ButtonsTypeInit DEF Init, ScanInit, ReleasedInv, ReleasedOf, Reports, Listed

LEMMA ReleasedVisit ==
    ASSUME ReleasedInv, NEW i \in Button, option_button_scan(i), before' = before
    PROVE  ReleasedOf(i)'
<1>0. TypeOK /\ ReleasedOf(i)
  BY DEF ReleasedInv, ButtonsType, ButtonsTypeOK
<1>a. ~(before[i] = "RELEASE" /\ open[i])
  BY <1>0, CallsOfVisit, NoneReports DEF ReleasedOf
<1>1. CASE ScanPress(i)
  <2>1. OneCall(out', i, "START_PRESS")
    BY <1>0, <1>1, PressCalls
  <2>2. Reports(i, "START_PRESS")' /\ ~Reports(i, "RELEASE")'
    BY <2>1, OneReports
  <2>3. QED
    BY <2>2 DEF ReleasedOf
<1>2. CASE ScanHold(i)
  <2>1. open' = open
    BY <1>0, <1>2, HoldCalls DEF HoldSilent, HoldCall, told
  <2>2. ~Reports(i, "RELEASE")'
    <3>1. CASE NoCall(out')
      BY <3>1, NoneReports
    <3>2. ASSUME NEW n \in 1..6, OneCall(out', i, HoldEvent[n])
          PROVE  ~Reports(i, "RELEASE")'
      <4>1. HoldEvent[n] # "RELEASE"
        BY HoldNames
      <4>2. QED
        BY <3>2, <4>1, OneReports
    <3>3. QED
      BY <1>0, <1>2, <3>1, <3>2, HoldCalls DEF HoldSilent, HoldCall
  <2>3. QED
    BY <1>a, <2>1, <2>2 DEF ReleasedOf
<1>3. CASE ScanRelease(i)
  <2>1. ~open'[i]
    BY <1>0, <1>3, ReleaseCalls DEF TypeOK
  <2>2. QED
    BY <2>1 DEF ReleasedOf
<1>4. CASE ScanIdle(i)
  <2>1. PICK e \in Settles : IdleCall(i, e)
    BY <1>0, <1>4, IdleCalls
  <2>2. open'[i] = (open[i] /\ e # "RELEASE")
    BY <1>0, <2>1 DEF IdleCall, TypeOK
  <2>3. Reports(i, "RELEASE")' => e = "RELEASE"
    <3>1. CASE OneCall(out', i, e)
      BY <3>1, OneReports
    <3>2. ASSUME NEW t \in TimesEvents, TwoCalls(out', i, t, e)
          PROVE  Reports(i, "RELEASE")' => e = "RELEASE"
      <4>1. t # "RELEASE"
        BY EventKinds
      <4>2. QED
        BY <3>2, <4>1, TwoReports
    <3>3. QED
      BY <2>1, <3>1, <3>2 DEF IdleCall
  <2>4. QED
    BY <1>a, <2>2, <2>3 DEF ReleasedOf
<1>5. CASE ScanBounce(i)
  BY <1>0, <1>a, <1>5, BounceCalls, NoneReports DEF ReleasedOf, told
<1>6. QED
  BY <1>1, <1>2, <1>3, <1>4, <1>5 DEF option_button_scan

LEMMA ReleasedInvStep == ReleasedInv /\ [Next]_vars => ReleasedInv'
<1> SUFFICES ASSUME ReleasedInv, [Next]_vars PROVE ReleasedInv'
  OBVIOUS
<1>0. TypeOK /\ CallShape(out) /\ ButtonsType'
  BY ButtonsTypeStep DEF ReleasedInv, ButtonsType, ButtonsTypeOK
<1>a. before \in [Listed -> Events] /\ Button \subseteq Listed
  BY DEF ReleasedInv, ButtonsType, ButtonsTypeOK, Listed
<1>1. ASSUME Handle, NEW j \in Button PROVE ReleasedOf(j)'
  <2>1. PICK i \in Button, e \in Events : HandledCall(i, e)
    BY <1>0, <1>1, HandleCalls
  <2>2. open' = open /\ before' = [before EXCEPT ![i] = e]
    BY <1>0, <1>1, <2>1, HandleCalls DEF HandledCall, told
  <2>3. /\ Reports(i, e)
        /\ \A k, f : Reports(k, f) => k = i
        /\ \A k, f : Reports(k, f)' => Reports(k, f)
    BY <2>1, ReturnReports DEF HandledCall
  <2>4. ReleasedOf(j)
    BY DEF ReleasedInv
  <2>5. Reports(j, "RELEASE")' => ~open'[j]
    BY <2>2, <2>3, <2>4 DEF ReleasedOf
  <2>6. ~(before'[j] = "RELEASE" /\ open'[j])
    <3>1. CASE j = i
      BY <1>a, <2>2, <2>3, <2>4, <3>1 DEF ReleasedOf
    <3>2. CASE j # i
      BY <1>a, <2>2, <2>3, <2>4, <3>2 DEF ReleasedOf
    <3>3. QED
      BY <3>1, <3>2
  <2>7. QED
    BY <2>5, <2>6 DEF ReleasedOf
<1>2. ASSUME NEW i \in Button, Scan(i), NEW j \in Button PROVE ReleasedOf(j)'
  <2>1. before' = before /\ ReleasedOf(j)
    BY <1>2 DEF Scan, ReleasedInv
  <2>2. CASE option_button_scan(i)
    <3>1. CASE j = i
      BY <2>1, <2>2, <3>1, ReleasedVisit
    <3>2. CASE j # i
      BY <1>0, <2>1, <2>2, <3>2, CallsOfVisit, NoneReports, OthersKept DEF ReleasedOf
    <3>3. QED
      BY <3>1, <3>2
  <2>3. CASE Ages(i)
    BY <2>1, <2>3 DEF Ages, told, ReleasedOf, Reports
  <2>4. QED
    BY <1>2, <2>2, <2>3 DEF Scan
<1>3. ASSUME UNCHANGED <<scanVars, before>>, NEW j \in Button PROVE ReleasedOf(j)'
  BY <1>3 DEF scanVars, told, ReleasedInv, ReleasedOf, Reports
<1>4. QED
  BY <1>0, <1>1, <1>2, <1>3 DEF Next, CleanGesture, SetLock, vars, ReleasedInv

\* A gesture is armed only when both of its buttons have been released, whatever
\* their contacts do and whatever the other buttons are up to.
THEOREM ArmingReleased == Spec => ArmedIsReleased
<1>1. ReleasedInv /\ [Next]_vars =>
         [\A g \in Gesture : ~active[g] /\ active'[g]
             => \A i \in Pair[g] \cap Button : ~open[i]]_vars
  <2> SUFFICES ASSUME ReleasedInv, Next, NEW g \in Gesture, ~active[g], active'[g],
                      NEW j \in Pair[g] \cap Button
               PROVE  ~open[j]
    OBVIOUS
  <2>1. active \in [Gesture -> BOOLEAN] /\ CallShape(out) /\ ReleasedOf(j)
    BY DEF ReleasedInv, ButtonsType, ButtonsTypeOK
  <2>2. Handle
    BY <2>1 DEF Next, Scan, SetLock, CleanGesture, gestureVars
  <2>3. PICK i \in Button, e \in Events : HandledCall(i, e)
    BY <2>1, <2>2, HandleCalls
  <2>4. PICK over \in SUBSET Gesture :
           active' = [h \in Gesture |-> /\ active[h] \/ Arms(h, i, e, h \in over)
                                        /\ ~Abandons(h, i, e, h \in over)]
    BY <2>3 DEF HandledCall, HandleSpecial
  <2>5. Arms(g, i, e, g \in over)
    BY <2>4
  <2>6. e = "RELEASE" /\ (j # i => before[j] = "RELEASE")
    BY <2>5 DEF Arms, InPair
  <2>7. Reports(i, "RELEASE") /\ \A k, f : Reports(k, f) => k = i
    BY <2>3, <2>6, ReturnReports DEF HandledCall
  <2>8. QED
    BY <2>1, <2>6, <2>7 DEF ReleasedOf
<1>2. QED
  BY <1>1, ReleasedInvInit, ReleasedInvStep, PTL DEF Spec, ArmedIsReleased

-----------------------------------------------------------------------------
(* Gestures while the reads of a visit agree.                              *)

LEMMA SteadySpec == ASSUME ~LateReads PROVE Spec => []SteadyInv
<1>1. Init => SteadyInv
  BY SteadyInvInit DEF Init
<1>2. SteadyInv /\ [Next]_vars => SteadyInv'
  BY SteadyInvStep, ButtonsScan
<1>3. QED
  BY <1>1, <1>2, PTL DEF Spec

\* Before the step of a visit there are no calls, and after it none of the other
\* buttons, whose state it leaves alone.
LEMMA QuietOthers ==
    ASSUME TypeOK, NEW i \in Button, option_button_scan(i), NEW j \in Button, j # i
    PROVE  /\ \A e : ~Reports(j, e) /\ ~Reports(j, e)'
           /\ pressed'[j] = pressed[j] /\ open'[j] = open[j] /\ longest'[j] = longest[j]
BY CallsOfVisit, NoneReports, OthersKept

\* No key report of a press that goes on, nor of one that was held for 5 seconds;
\* the hold of two seconds is forgotten by then.
SilentOf(i) ==
    /\ pressed[i] /\ ~Reports(i, "START_PRESS") => key_report[i] = {}
    /\ longest[i] >= 4 => key_report[i] = {}
    /\ longest[i] >= 4 /\ before[i] = "HOLD_2S" => \E e \in HoldEvents : Reports(i, e)

SilentInv == ButtonsType /\ \A i \in SceneButton : SilentOf(i)

LEMMA SilentVisit ==
    ASSUME ~LateReads, SteadyInv, SilentInv, NEW i \in SceneButton, option_button_scan(i),
           UNCHANGED <<before, key_report>>
    PROVE  SilentOf(i)'
<1>0. TypeOK /\ SilentOf(i) /\ i \in Button
  BY ButtonsAssumption DEF SilentInv, ButtonsType, ButtonsTypeOK
<1>a. /\ pressed[i] => key_report[i] = {}
      /\ longest[i] >= 4 => key_report[i] = {}
      /\ ~(longest[i] >= 4 /\ before[i] = "HOLD_2S")
  BY <1>0, CallsOfVisit, NoneReports DEF SilentOf
<1>1. CASE ScanPress(i)
  <2>1. OneCall(out', i, "START_PRESS") /\ longest'[i] = 0
    BY <1>0, <1>1, PressCalls DEF TypeOK
  <2>2. Reports(i, "START_PRESS")'
    BY <2>1, OneReports
  <2>3. QED
    BY <2>1, <2>2 DEF SilentOf
<1>2. CASE ScanHold(i)
  <2>1. key_report'[i] = {}
    BY <1>a, <1>2 DEF ScanHold
  <2>2. CASE HoldSilent(i)
    BY <1>a, <2>1, <2>2 DEF HoldSilent, told, SilentOf
  <2>3. ASSUME NEW n \in 1..6, HoldCall(i, n) PROVE SilentOf(i)'
    <3>1. HoldEvent[n] \in HoldEvents /\ Reports(i, HoldEvent[n])'
      BY <2>3, HoldNames, OneReports DEF HoldCall
    <3>2. QED
      BY <2>1, <3>1 DEF SilentOf
  <2>4. QED
    BY <1>0, <1>2, <2>2, <2>3, HoldCalls
<1>3. CASE ScanRelease(i)
  <2>1. longest' = longest /\ key_report'[i] = {}
    BY <1>0, <1>a, <1>3, ReleaseCalls DEF ScanRelease
  <2>2. QED
    BY <1>a, <2>1 DEF SilentOf
<1>4. CASE ScanIdle(i)
  <2>1. longest' = longest
    BY <1>0, <1>4, IdleCalls DEF IdleCall
  <2>2. ~pressed'[i]
    BY <1>0, <1>4, SteadyRead DEF ScanIdle
  <2>3. QED
    BY <1>a, <2>1, <2>2 DEF SilentOf
<1>5. CASE ScanBounce(i)
  BY <1>5 DEF ScanBounce
<1>6. QED
  BY <1>1, <1>2, <1>3, <1>4, <1>5 DEF option_button_scan

LEMMA SilentHandle ==
    ASSUME SteadyInv, SilentInv, NEW i \in SceneButton, NEW e \in Events,
           HandledCall(i, e), UNCHANGED <<pressed, longest>>
    PROVE  SilentOf(i)'
<1>0. SilentOf(i) /\ Steady(i) /\ i \in Button
  BY ButtonsAssumption DEF SilentInv, SteadyInv
<1>1. key_report \in [SceneButton -> SUBSET Keys] /\ before'[i] = e
  BY <1>0 DEF SilentInv, ButtonsType, ButtonsTypeOK, HandledCall, Listed
<1>a. longest[i] \in 0..6
  BY <1>0, HoldNames DEF SteadyInv, ScanType, TypeOK
<1>2. /\ Reports(i, e) /\ CallFits(i, e)
      /\ \A f : Reports(i, f) => f \in {e} \cup Settles
  BY <1>0, ReturnReports DEF HandledCall, Steady
<1>3. ~(longest[i] >= 4 /\ before'[i] = "HOLD_2S")
  <2>1. e = "HOLD_2S" => longest[i] = 3
    BY <1>2, HoldNames DEF CallFits
  <2>2. QED
    BY <1>1, <2>1
<1>4. CASE e = "START_PRESS"
  BY <1>1, <1>3, <1>4 DEF HandledCall, HandleScene, SilentOf
<1>5. CASE e # "START_PRESS"
  <2>1. PICK late \in BOOLEAN : key_report'[i] = key_report[i] \cup KeyReport(i, e, late)
    BY <1>1, <1>5 DEF HandledCall, HandleScene
  <2>2. ASSUME pressed[i] \/ longest[i] >= 4 PROVE key_report'[i] = {}
    <3>1. ~Reports(i, "START_PRESS")
      BY <1>2, <1>5 DEF Settles
    <3>2. key_report[i] = {}
      BY <1>0, <2>2, <3>1 DEF SilentOf
    <3>3. e \notin TimesEvents
      BY <1>0, <1>a, <1>2, <2>2, EventKinds DEF CallFits, Steady
    <3>4. ~(e = "RELEASE" /\ before[i] = "HOLD_2S")
      <4>1. SUFFICES ASSUME e = "RELEASE", before[i] = "HOLD_2S" PROVE FALSE
        OBVIOUS
      <4>2. ~open[i] /\ ~pressed[i]
        BY <1>0, <1>2, <4>1, EventKinds DEF CallFits, Steady
      <4>3. PICK h \in HoldEvents : Reports(i, h)
        BY <1>0, <2>2, <4>1, <4>2 DEF SilentOf
      <4>4. QED
        BY <1>2, <4>1, <4>3, EventKinds DEF Settles
    <3>5. KeyReport(i, e, late) = {}
      BY <3>3, <3>4, TimesNames DEF KeyReport
    <3>6. QED
      BY <2>1, <3>2, <3>5
  <2>3. QED
    BY <1>3, <2>2 DEF SilentOf
<1>6. QED
  BY <1>4, <1>5

LEMMA SilentInvStep ==
    ~LateReads /\ SteadyInv /\ SilentInv /\ [Next]_vars => SilentInv'
<1> SUFFICES ASSUME ~LateReads, SteadyInv, SilentInv, [Next]_vars PROVE SilentInv'
  OBVIOUS
<1>0. TypeOK /\ CallShape(out) /\ ButtonsType' /\ SceneButton \subseteq Button
  BY ButtonsTypeStep, ButtonsAssumption DEF SilentInv, ButtonsType, ButtonsTypeOK
<1>a. /\ key_report \in [SceneButton -> SUBSET Keys]
      /\ before \in [Listed -> Events] /\ Button \subseteq Listed
  BY DEF SilentInv, ButtonsType, ButtonsTypeOK, Listed
<1>1. ASSUME Handle, NEW j \in SceneButton PROVE SilentOf(j)'
  <2>1. PICK i \in Button, e \in Events : HandledCall(i, e)
    BY <1>0, <1>1, HandleCalls
  <2>2. UNCHANGED <<pressed, longest>>
    BY <1>0, <1>1, HandleCalls DEF scanState, told
  <2>3. CASE j = i
    BY <2>1, <2>2, <2>3, SilentHandle
  <2>4. CASE j # i
    <3>1. key_report'[j] = key_report[j]
      BY <1>a, <2>1, <2>4 DEF HandledCall, HandleScene
    <3>2. before'[j] = before[j]
      BY <1>0, <1>a, <2>1, <2>4 DEF HandledCall
    <3>3. \A f : ~Reports(j, f)
      BY <2>1, <2>4, ReturnReports DEF HandledCall
    <3>4. QED
      BY <2>2, <3>1, <3>2, <3>3 DEF SilentInv, SilentOf
  <2>5. QED
    BY <2>3, <2>4
<1>2. ASSUME NEW i \in Button, Scan(i), NEW j \in SceneButton PROVE SilentOf(j)'
  <2>1. UNCHANGED <<before, key_report>> /\ SilentOf(j)
    BY <1>2 DEF Scan, SilentInv
  <2>2. CASE option_button_scan(i)
    <3>1. CASE j = i
      BY <2>1, <2>2, <3>1, SilentVisit
    <3>2. CASE j # i
      BY <1>0, <2>1, <2>2, <3>2, QuietOthers DEF SilentOf
    <3>3. QED
      BY <3>1, <3>2
  <2>3. CASE Ages(i)
    BY <2>1, <2>3 DEF Ages, told, SilentOf, Reports
  <2>4. QED
    BY <1>2, <2>2, <2>3 DEF Scan
<1>3. ASSUME UNCHANGED <<scanVars, before, key_report>>, NEW j \in SceneButton
      PROVE  SilentOf(j)'
  BY <1>3 DEF scanVars, scanState, told, SilentInv, SilentOf, Reports
<1>4. QED
  BY <1>0, <1>1, <1>2, <1>3 DEF Next, CleanGesture, SetLock, vars, SilentInv

\* A hold of five seconds, which the reset gestures are made of, is neither counted
\* as a short press nor reported as a key press, whichever buttons are in the
\* gestures and whatever is locked meanwhile.
THEOREM GesturesAreSilent == ~LateReads => (Spec => []GestureIsSilent)
<1> SUFFICES ASSUME ~LateReads PROVE Spec => []GestureIsSilent
  OBVIOUS
<1>1. Init => SilentInv
  BY ButtonsTypeInit, ButtonsAssumption DEF Init, ScanInit, SilentInv, SilentOf
<1>2. SteadyInv /\ SilentInv /\ [Next]_vars => SilentInv'
  BY SilentInvStep
<1>3. ScanSpec => []LongIsNotShort
  BY LongPressesAreNotShort
<1>4. LongIsNotShort /\ SilentInv => GestureIsSilent
  BY DEF SilentInv, SilentOf, GestureIsSilent
<1>5. Spec => []SteadyInv
  BY SteadySpec
<1>6. QED
  BY <1>1, <1>2, <1>3, <1>4, <1>5, ButtonsImplementScanner, PTL DEF Spec

\* What a call of the handler makes of the gestures, with the times that are over.
GesturesAfter(i, e, over) ==
    /\ step' = [g \in Gesture |->
                   IF BothHeld(g, i, e) THEN "STEP_HOLD_5S"
                   ELSE IF Abandons(g, i, e, g \in over) THEN "STEP_IDLE"
                   ELSE IF Arms(g, i, e, g \in over) THEN "STEP_HOLD_5S_RELEASE"
                   ELSE step[g]]
    /\ active' = [g \in Gesture |-> /\ active[g] \/ Arms(g, i, e, g \in over)
                                    /\ ~Abandons(g, i, e, g \in over)]
    /\ together' = [g \in Gesture |-> /\ together[g] \/ HeldTogether(g)
                                      /\ ~Abandons(g, i, e, g \in over)]

LEMMA SpecialGestures ==
    ASSUME NEW i, NEW e, HandleSpecial(i, e)
    PROVE  \E over \in SUBSET Gesture : GesturesAfter(i, e, over)
BY DEF HandleSpecial, GesturesAfter

\* A momentary relay that is asked to be on will still hear of the release, or has
\* been barred in the middle of its press.  Its button is known as idle only when
\* the press is over, or was a tap that one visit ended.
HeardOf(i) ==
    /\ asked[i] /\ ~barred[i] => RelayListens(i) /\ (open[i] \/ Reports(i, "RELEASE"))
    /\ before[i] = "NO_PRESS" /\ open[i] => tapped[i] \/ Reports(i, "START_PRESS")
    /\ Reports(i, "START_PRESS") => open[i]

HeardInv == ButtonsType /\ \A i \in Momentary : HeardOf(i)

LEMMA HeardInvInit == Init => HeardInv
BY ButtonsTypeInit, ButtonsAssumption
DEF Init, ScanInit, HeardInv, HeardOf, Reports, RelayButton

LEMMA HeardVisit ==
    ASSUME HeardInv, NEW i \in Momentary, option_button_scan(i),
           UNCHANGED <<before, asked, active, locked, barred>>
    PROVE  HeardOf(i)'
<1>0. TypeOK /\ HeardOf(i) /\ i \in Button
  BY ButtonsAssumption DEF HeardInv, ButtonsType, ButtonsTypeOK, RelayButton
<1>a. /\ asked[i] /\ ~barred[i] => open[i]
      /\ before[i] = "NO_PRESS" /\ open[i] => tapped[i]
  BY <1>0, CallsOfVisit, NoneReports DEF HeardOf
<1>b. ASSUME \/ open'[i] /\ Reports(i, "START_PRESS")'
             \/ /\ ~Reports(i, "START_PRESS")'
                /\ open[i] => open'[i] \/ Reports(i, "RELEASE")'
                /\ open'[i] => open[i] /\ (tapped[i] => tapped'[i])
      PROVE  HeardOf(i)'
  BY <1>0, <1>a, <1>b DEF HeardOf, RelayListens
<1>1. CASE ScanPress(i)
  <2>1. open'[i] /\ Reports(i, "START_PRESS")'
    BY <1>0, <1>1, PressCalls, OneReports DEF TypeOK
  <2>2. QED
    BY <1>b, <2>1
<1>2. CASE ScanHold(i)
  <2>1. open' = open /\ tapped' = tapped
    BY <1>0, <1>2, HoldCalls DEF ScanHold, HoldSilent, HoldCall, told
  <2>2. ~Reports(i, "START_PRESS")'
    <3>1. CASE NoCall(out')
      BY <3>1, NoneReports
    <3>2. ASSUME NEW n \in 1..6, OneCall(out', i, HoldEvent[n])
          PROVE  ~Reports(i, "START_PRESS")'
      <4>1. HoldEvent[n] # "START_PRESS"
        BY HoldNames
      <4>2. QED
        BY <3>2, <4>1, OneReports
    <3>3. QED
      BY <1>0, <1>2, <3>1, <3>2, HoldCalls DEF HoldSilent, HoldCall
  <2>3. QED
    BY <1>b, <2>1, <2>2
<1>3. CASE ScanRelease(i)
  <2>1. ~open'[i] /\ OneCall(out', i, "RELEASE")
    BY <1>0, <1>3, ReleaseCalls DEF TypeOK
  <2>2. Reports(i, "RELEASE")' /\ ~Reports(i, "START_PRESS")'
    BY <2>1, OneReports
  <2>3. QED
    BY <1>b, <2>1, <2>2
<1>4. CASE ScanIdle(i)
  <2>1. PICK e \in Settles : IdleCall(i, e)
    BY <1>0, <1>4, IdleCalls
  <2>2. open'[i] = (open[i] /\ e # "RELEASE") /\ tapped' = tapped
    BY <1>0, <1>4, <2>1 DEF IdleCall, TypeOK, ScanIdle
  <2>3. Reports(i, e)' /\ ~Reports(i, "START_PRESS")'
    <3>1. e # "START_PRESS" /\ "START_PRESS" \notin TimesEvents
      BY EventKinds DEF Settles
    <3>2. CASE OneCall(out', i, e)
      BY <3>1, <3>2, OneReports
    <3>3. ASSUME NEW t \in TimesEvents, TwoCalls(out', i, t, e)
          PROVE  Reports(i, e)' /\ ~Reports(i, "START_PRESS")'
      BY <3>1, <3>3, TwoReports
    <3>4. QED
      BY <2>1, <3>2, <3>3 DEF IdleCall
  <2>4. QED
    BY <1>b, <2>2, <2>3
<1>5. CASE ScanBounce(i)
  <2>1. NoCall(out') /\ open' = open
    BY <1>0, <1>5, BounceCalls DEF told
  <2>2. tapped[i] => tapped'[i]
    BY <1>0, <1>5 DEF ScanBounce, TypeOK
  <2>3. QED
    BY <1>b, <2>1, <2>2, NoneReports
<1>6. QED
  BY <1>1, <1>2, <1>3, <1>4, <1>5 DEF option_button_scan

LEMMA HeardHandle ==
    ASSUME PressInv, HeardInv, NEW i \in Button, NEW e \in Events, HandledCall(i, e),
           UNCHANGED <<told, tapped, locked>>, NEW j \in Momentary
    PROVE  HeardOf(j)'
<1>0. /\ HeardOf(j) /\ j \in Button /\ j \in RelayButton /\ "reset" \in Gesture
      /\ PressKept(j)
  BY ButtonsAssumption DEF HeardInv, PressInv, RelayButton, Gesture
<1>1. /\ asked \in [RelayButton -> BOOLEAN] /\ before \in [Listed -> Events]
      /\ Button \subseteq Listed
  BY DEF HeardInv, ButtonsType, ButtonsTypeOK, Listed
<1>2. PICK over \in SUBSET Gesture : GesturesAfter(i, e, over)
  BY SpecialGestures DEF HandledCall
<1>3. active'["reset"] => active["reset"] \/ e = "RELEASE"
  BY <1>0, <1>2 DEF GesturesAfter, Arms, InPair
<1>4. barred'[j] = (\/ ~active["reset"] /\ active'["reset"] /\ open[j]
                    \/ barred[j] /\ ~(j = i /\ e = "START_PRESS" /\ RelayListens(i)))
  BY <1>0 DEF HandledCall, Bars
<1>5. open' = open /\ tapped' = tapped /\ locked' = locked
  BY DEF told
<1>6. /\ Reports(i, e)
      /\ \A k, f : Reports(k, f) => k = i
      /\ \A k, f : Reports(k, f)' => Reports(k, f) /\ f \in Settles
  BY ReturnReports DEF HandledCall
<1>7. CASE j # i
  <2>1. asked'[j] = asked[j] /\ before'[j] = before[j]
    BY <1>0, <1>1, <1>7 DEF HandledCall, HandleRelay
  <2>2. ~Reports(j, "RELEASE") /\ ~Reports(j, "START_PRESS") /\ ~Reports(j, "START_PRESS")'
    BY <1>6, <1>7
  <2>3. asked'[j] /\ ~barred'[j] => RelayListens(j)' /\ open'[j]
    BY <1>0, <1>4, <1>5, <1>7, <2>1, <2>2 DEF HeardOf, RelayListens
  <2>4. QED
    BY <1>0, <1>5, <2>1, <2>2, <2>3 DEF HeardOf
<1>8. CASE j = i
  <2>1. before'[j] = e
    BY <1>0, <1>1, <1>8 DEF HandledCall
  <2>2. ~Reports(j, "START_PRESS")'
    BY <1>6 DEF Settles
  <2>3. e = "NO_PRESS" /\ open[j] => tapped[j]
    BY <1>0, <1>6, <1>8 DEF PressKept
  <2>4. asked'[j] /\ ~barred'[j] => /\ RelayListens(j)'
                                    /\ open'[j] \/ Reports(j, "RELEASE")'
    <3> SUFFICES ASSUME asked'[j], ~barred'[j]
                 PROVE  RelayListens(j)' /\ (open'[j] \/ Reports(j, "RELEASE")')
      OBVIOUS
    <3>1. RelayListens(j)
      <4>1. SUFFICES ASSUME ~RelayListens(j) PROVE FALSE
        OBVIOUS
      <4>2. asked[j] /\ ~barred[j]
        BY <1>0, <1>4, <1>8, <4>1 DEF HandledCall, HandleRelay
      <4>3. QED
        BY <1>0, <4>1, <4>2 DEF HeardOf
    <3>2. e # "RELEASE"
      BY <1>0, <1>1, <1>8, <3>1 DEF HandledCall, HandleRelay
    <3>3. RelayListens(j)'
      BY <1>3, <1>5, <3>1, <3>2 DEF RelayListens
    <3>4. CASE e = "START_PRESS"
      BY <1>0, <1>5, <1>6, <1>8, <3>3, <3>4 DEF HeardOf
    <3>5. CASE e # "START_PRESS"
      <4>1. asked[j] /\ ~barred[j]
        BY <1>0, <1>4, <1>8, <3>2, <3>5 DEF HandledCall, HandleRelay
      <4>2. Reports(j, "RELEASE") => Reports(j, "RELEASE")'
        <5>1. CASE OneCall(out, i, e)
          BY <3>2, <5>1, OneReports
        <5>2. ASSUME NEW f \in Settles, TwoCalls(out, i, e, f), OneCall(out', i, f)
              PROVE  Reports(j, "RELEASE") => Reports(j, "RELEASE")'
          BY <3>2, <5>2, TwoReports, OneReports
        <5>3. QED
          BY <5>1, <5>2 DEF HandledCall, ReturnCall
      <4>3. QED
        BY <1>0, <1>5, <3>3, <4>1, <4>2 DEF HeardOf
    <3>6. QED
      BY <3>4, <3>5
  <2>5. QED
    BY <1>5, <2>1, <2>2, <2>3, <2>4 DEF HeardOf
<1>9. QED
  BY <1>7, <1>8

LEMMA HeardInvStep == PressInv /\ HeardInv /\ [Next]_vars => HeardInv'
<1> SUFFICES ASSUME PressInv, HeardInv, [Next]_vars PROVE HeardInv'
  OBVIOUS
<1>0. TypeOK /\ CallShape(out) /\ ButtonsType' /\ Momentary \subseteq Button
      /\ Momentary \subseteq RelayButton
  BY ButtonsTypeStep, ButtonsAssumption
  DEF HeardInv, ButtonsType, ButtonsTypeOK, RelayButton
<1>a. /\ locked \in [Button -> BOOLEAN] /\ active \in [Gesture -> BOOLEAN]
      /\ "reset" \in Gesture
  BY DEF HeardInv, ButtonsType, ButtonsTypeOK, Gesture
<1>1. ASSUME Handle, NEW j \in Momentary PROVE HeardOf(j)'
  <2>1. PICK i \in Button, e \in Events : HandledCall(i, e)
    BY <1>0, <1>1, HandleCalls
  <2>2. UNCHANGED <<told, tapped, locked>>
    BY <1>0, <1>1, HandleCalls
  <2>3. QED
    BY <2>1, <2>2, HeardHandle
<1>2. ASSUME NEW i \in Button, Scan(i), NEW j \in Momentary PROVE HeardOf(j)'
  <2>1. UNCHANGED <<before, asked, active, locked, barred>> /\ HeardOf(j)
    BY <1>2 DEF Scan, gestureVars, HeardInv
  <2>2. CASE option_button_scan(i)
    <3>1. CASE j = i
      BY <2>1, <2>2, <3>1, HeardVisit
    <3>2. CASE j # i
      <4>1. open'[j] = open[j] /\ tapped'[j] = tapped[j]
        BY <1>0, <2>2, <3>2, OthersKept
      <4>2. \A f : ~Reports(j, f) /\ ~Reports(j, f)'
        BY <1>0, <2>2, <3>2, CallsOfVisit, NoneReports
      <4>3. QED
        BY <2>1, <4>1, <4>2 DEF HeardOf, RelayListens
    <3>3. QED
      BY <3>1, <3>2
  <2>3. CASE Ages(i)
    BY <2>1, <2>3 DEF Ages, told, HeardOf, RelayListens, Reports
  <2>4. QED
    BY <1>2, <2>2, <2>3 DEF Scan
<1>3. ASSUME NEW i \in Button, SetLock(i), NEW j \in Momentary PROVE HeardOf(j)'
  <2>1. /\ HeardOf(j) /\ out = <<>>
        /\ UNCHANGED <<scanVars, before, gestureVars, asked>>
        /\ locked' = [locked EXCEPT ![i] = ~@]
        /\ barred'[j] = (barred[j] \/ (j = i /\ locked'[i] /\ open[i]))
    BY <1>0, <1>3 DEF SetLock, HeardInv
  <2>2. open' = open /\ tapped' = tapped /\ out' = out /\ active' = active
    BY <2>1 DEF scanVars, told, gestureVars
  <2>3. ~Reports(j, "RELEASE")
    BY <2>1, NoneReports DEF NoCall
  <2>4. asked[j] /\ ~barred'[j] => ~locked'[j] \/ locked'[j] = locked[j]
    BY <1>0, <1>a, <2>1, <2>3 DEF HeardOf
  <2>5. QED
    BY <2>1, <2>2, <2>4 DEF HeardOf, RelayListens, Reports
<1>4. ASSUME NEW g \in Gesture, CleanGesture(g), NEW j \in Momentary PROVE HeardOf(j)'
  <2>1. UNCHANGED <<scanVars, before, asked, locked, barred>> /\ HeardOf(j)
    BY <1>4 DEF CleanGesture, HeardInv
  <2>2. active'["reset"] => active["reset"]
    BY <1>a, <1>4 DEF CleanGesture
  <2>3. QED
    BY <2>1, <2>2 DEF scanVars, told, HeardOf, RelayListens, Reports
<1>5. ASSUME UNCHANGED vars, NEW j \in Momentary PROVE HeardOf(j)'
  BY <1>5 DEF vars, scanVars, told, gestureVars, HeardInv, HeardOf, RelayListens, Reports
<1>6. QED
  BY <1>0, <1>1, <1>2, <1>3, <1>4, <1>5 DEF Next, HeardInv

\* The relay of a momentary button, of the reset pair or not, is asked to open
\* before its button is reported idle, whatever the contacts, the gestures and the
\* locks do, unless the button was barred in the middle of the press or the press
\* was a tap that one visit ended.
THEOREM MomentaryRelaysOpen == Spec => []MomentaryOpens
<1>1. Init => PressInv /\ HeardInv
  BY PressInvInit, HeardInvInit DEF Init
<1>2. PressInv /\ [Next]_vars => PressInv'
  BY PressInvStep, ButtonsScan
<1>3. PressInv /\ HeardInv /\ [Next]_vars => HeardInv'
  BY HeardInvStep
<1>4. HeardInv => MomentaryOpens
  <2> SUFFICES ASSUME HeardInv, NEW i \in Momentary, before[i] = "NO_PRESS", out = <<>>,
                      asked[i], ~barred[i]
               PROVE  tapped[i]
    BY DEF MomentaryOpens
  <2>1. HeardOf(i) /\ ~Reports(i, "RELEASE") /\ ~Reports(i, "START_PRESS")
    BY NoneReports DEF HeardInv, NoCall
  <2>2. QED
    BY <2>1 DEF HeardOf
<1>5. QED
  BY <1>1, <1>2, <1>3, <1>4, PTL DEF Spec

\* A button remembered as held for 5 seconds still is, unless its next event is
\* being reported.
StillHeld(j) == j \in Button /\ open[j] /\ longest[j] >= 4

HeldOf(j) == before[j] = "HOLD_5S" => StillHeld(j) \/ \E e \in Events : Reports(j, e)

\* A gesture that has begun has seen both of its buttons held.
Begun(g) == active[g] \/ step[g] # "STEP_IDLE" => together[g]

TogetherInv == /\ ButtonsType
               /\ \A j \in Listed : HeldOf(j)
               /\ \A g \in Gesture : Begun(g)

LEMMA TogetherInvInit == Init => TogetherInv
BY ButtonsTypeInit DEF Init, TogetherInv, HeldOf, Begun

LEMMA HeldVisit ==
    ASSUME TogetherInv, NEW i \in Button, option_button_scan(i), UNCHANGED before
    PROVE  HeldOf(i)'
<1>0. TypeOK /\ i \in Listed /\ HeldOf(i)
  BY DEF TogetherInv, ButtonsType, ButtonsTypeOK, Listed
<1>1. before[i] = "HOLD_5S" => StillHeld(i)
  BY <1>0, CallsOfVisit, NoneReports DEF HeldOf
<1>2. ASSUME NEW e \in Events, OneCall(out', i, e) PROVE HeldOf(i)'
  BY <1>2, OneReports DEF HeldOf
<1>3. ASSUME UNCHANGED told PROVE HeldOf(i)'
  BY <1>1, <1>3 DEF told, HeldOf, StillHeld
<1>4. CASE ScanPress(i)
  BY <1>0, <1>2, <1>4, PressCalls, EventKinds
<1>5. CASE ScanHold(i)
  BY <1>0, <1>2, <1>3, <1>5, HoldCalls, HoldNames, EventKinds DEF HoldSilent, HoldCall
<1>6. CASE ScanRelease(i)
  BY <1>0, <1>2, <1>6, ReleaseCalls, EventKinds
<1>7. CASE ScanIdle(i)
  <2>1. PICK e \in Settles : IdleCall(i, e)
    BY <1>0, <1>7, IdleCalls
  <2>2. e \in Events
    BY EventKinds DEF Settles
  <2>3. CASE \E t \in TimesEvents : TwoCalls(out', i, t, e)
    BY <2>2, <2>3, TwoReports DEF HeldOf
  <2>4. QED
    BY <1>2, <2>1, <2>2, <2>3 DEF IdleCall
<1>8. CASE ScanBounce(i)
  BY <1>0, <1>3, <1>8, BounceCalls
<1>9. QED
  BY <1>4, <1>5, <1>6, <1>7, <1>8 DEF option_button_scan

LEMMA TogetherHandle ==
    ASSUME SteadyInv, TogetherInv, NEW i \in Button, NEW e \in Events,
           HandledCall(i, e), UNCHANGED told
    PROVE  (\A j \in Listed : HeldOf(j)') /\ (\A g \in Gesture : Begun(g)')
<1>1. /\ before \in [Listed -> Events] /\ i \in Listed
      /\ step \in [Gesture -> Steps] /\ active \in [Gesture -> BOOLEAN]
      /\ together \in [Gesture -> BOOLEAN]
  BY DEF TogetherInv, ButtonsType, ButtonsTypeOK, Listed
<1>2. /\ Reports(i, e) /\ CallFits(i, e)
      /\ \A k, f : Reports(k, f) => k = i
  BY ReturnReports DEF HandledCall, SteadyInv, Steady
<1>3. e = "HOLD_5S" => StillHeld(i)
  BY <1>2, HoldNames DEF CallFits, StillHeld
<1>4. ASSUME NEW j \in Listed, j # i PROVE before[j] = "HOLD_5S" => StillHeld(j)
  BY <1>2, <1>4 DEF TogetherInv, HeldOf
<1>5. ASSUME NEW j \in Listed PROVE HeldOf(j)'
  BY <1>1, <1>3, <1>4 DEF HandledCall, HeldOf, StillHeld, told
<1>6. ASSUME NEW g \in Gesture PROVE Begun(g)'
  <2>1. PICK over \in SUBSET Gesture : GesturesAfter(i, e, over)
    BY SpecialGestures DEF HandledCall
  <2>2. Pair[g] \subseteq Listed /\ Begun(g)
    BY DEF Listed, TogetherInv
  <2>3. CASE BothHeld(g, i, e)
    <3>1. e = "HOLD_5S" /\ \A j \in Pair[g] : j # i => before[j] = "HOLD_5S"
      BY <2>3 DEF BothHeld, InPair
    <3>2. HeldTogether(g)
      BY <1>3, <1>4, <2>2, <3>1 DEF HeldTogether, StillHeld
    <3>3. Confirm[g][2] \in {"PRESS_ONE_TIME", "PRESS_FIVE_TIME"}
      BY DEF Confirm, Gesture
    <3>4. ~Confirms(g, i, e)
      BY <3>1, <3>3 DEF Confirms
    <3>5. ~Abandons(g, i, e, g \in over)
      BY <3>1, <3>4 DEF Abandons, InPair
    <3>6. together'[g]
      BY <2>1, <3>2, <3>5 DEF GesturesAfter
    <3>7. QED
      BY <3>6 DEF Begun
  <2>4. CASE ~BothHeld(g, i, e) /\ Abandons(g, i, e, g \in over)
    <3>1. step'[g] = "STEP_IDLE" /\ ~active'[g]
      BY <2>1, <2>4 DEF GesturesAfter
    <3>2. QED
      BY <3>1 DEF Begun
  <2>5. CASE ~BothHeld(g, i, e) /\ ~Abandons(g, i, e, g \in over)
    <3>1. Arms(g, i, e, g \in over) => step[g] = "STEP_HOLD_5S"
      BY DEF Arms
    <3>2. active'[g] \/ step'[g] # "STEP_IDLE" => active[g] \/ step[g] # "STEP_IDLE"
      BY <2>1, <2>5, <3>1 DEF GesturesAfter
    <3>3. together[g] => together'[g]
      BY <2>1, <2>5 DEF GesturesAfter
    <3>4. QED
      BY <2>2, <3>2, <3>3 DEF Begun
  <2>6. QED
    BY <2>3, <2>4, <2>5
<1>7. QED
  BY <1>5, <1>6

LEMMA TogetherInvStep == SteadyInv /\ TogetherInv /\ [Next]_vars => TogetherInv'
<1> SUFFICES ASSUME SteadyInv, TogetherInv, [Next]_vars PROVE TogetherInv'
  OBVIOUS
<1>0. TypeOK /\ CallShape(out) /\ ButtonsType'
  BY ButtonsTypeStep DEF TogetherInv, ButtonsType, ButtonsTypeOK
<1> DEFINE Kept == (\A j \in Listed : HeldOf(j)') /\ (\A g \in Gesture : Begun(g)')
<1>1. ASSUME Handle PROVE Kept
  <2>1. PICK i \in Button, e \in Events : HandledCall(i, e)
    BY <1>0, <1>1, HandleCalls
  <2>2. UNCHANGED told
    BY <1>0, <1>1, HandleCalls
  <2>3. QED
    BY <2>1, <2>2, TogetherHandle
<1>2. ASSUME NEW i \in Button, Scan(i) PROVE Kept
  <2>1. UNCHANGED <<before, step, active, together>>
    BY <1>2 DEF Scan, gestureVars
  <2>2. \A g \in Gesture : Begun(g)'
    BY <2>1 DEF TogetherInv, Begun
  <2>3. ASSUME option_button_scan(i), NEW j \in Listed PROVE HeldOf(j)'
    <3>1. CASE j = i
      BY <2>1, <2>3, <3>1, HeldVisit
    <3>2. CASE j \in Button /\ j # i
      BY <1>0, <2>1, <2>3, <3>2, QuietOthers DEF TogetherInv, HeldOf, StillHeld
    <3>3. CASE j \notin Button
      BY <1>0, <2>1, <2>3, <3>3, CallsOfVisit, NoneReports
      DEF TogetherInv, HeldOf, StillHeld
    <3>4. QED
      BY <3>1, <3>2, <3>3
  <2>4. ASSUME Ages(i), NEW j \in Listed PROVE HeldOf(j)'
    BY <2>1, <2>4 DEF Ages, told, TogetherInv, HeldOf, StillHeld, Reports
  <2>5. QED
    BY <1>2, <2>2, <2>3, <2>4 DEF Scan
<1>3. ASSUME NEW i \in Button, SetLock(i) PROVE Kept
  BY <1>3 DEF SetLock, gestureVars, scanVars, told, TogetherInv, HeldOf, StillHeld,
              Begun, Reports
<1>4. ASSUME NEW g \in Gesture, CleanGesture(g) PROVE Kept
  <2>1. UNCHANGED <<scanVars, before>>
    BY <1>4 DEF CleanGesture
  <2>2. \A j \in Listed : HeldOf(j)'
    BY <2>1 DEF scanVars, told, TogetherInv, HeldOf, StillHeld, Reports
  <2>3. /\ step \in [Gesture -> Steps] /\ active \in [Gesture -> BOOLEAN]
        /\ together \in [Gesture -> BOOLEAN]
    BY DEF TogetherInv, ButtonsType, ButtonsTypeOK
  <2>4. \A h \in Gesture : Begun(h)'
    BY <1>4, <2>3 DEF CleanGesture, TogetherInv, Begun
  <2>5. QED
    BY <2>2, <2>4
<1>5. ASSUME UNCHANGED vars PROVE Kept
  BY <1>5 DEF vars, gestureVars, scanVars, told, TogetherInv, HeldOf, StillHeld,
              Begun, Reports
<1>6. Kept
  BY <1>1, <1>2, <1>3, <1>4, <1>5 DEF Next
<1>7. QED
  BY <1>0, <1>6 DEF TogetherInv

\* A factory reset is set up only after both buttons of its gesture were held for
\* five seconds at once, for any further buttons and any locks, while the reads of
\* a visit agree.
THEOREM ResetsNeedHold == ~LateReads => (Spec => ResetNeedsHold)
<1> SUFFICES ASSUME ~LateReads PROVE Spec => ResetNeedsHold
  OBVIOUS
<1>1. TogetherInv /\ [Next]_vars =>
         [\A g \in Gesture : factory # g /\ factory' = g => together[g]]_vars
  <2> SUFFICES ASSUME TogetherInv, Next, NEW g \in Gesture, factory # g, factory' = g
               PROVE  together[g]
    OBVIOUS
  <2>1. CallShape(out) /\ Begun(g)
    BY DEF TogetherInv, ButtonsType
  <2>2. Handle
    BY DEF Next, Scan, SetLock, CleanGesture, gestureVars
  <2>3. PICK i \in Button, e \in Events : HandledCall(i, e)
    BY <2>1, <2>2, HandleCalls
  <2>4. PICK over \in SUBSET Gesture :
           LET sets_up == {h \in Gesture : Confirms(h, i, e) /\ ~(h \in over)}
           IN factory' = IF sets_up = {} THEN factory
                         ELSE CHOOSE h \in Gesture : h \in sets_up
    BY <2>3 DEF HandledCall, HandleSpecial
  <2>5. Confirms(g, i, e)
    BY <2>4
  <2>6. QED
    BY <2>1, <2>5 DEF Confirms, Begun
<1>2. SteadyInv /\ TogetherInv /\ [Next]_vars => TogetherInv'
  BY TogetherInvStep
<1>3. Spec => []SteadyInv
  BY SteadySpec
<1>4. QED
  BY <1>1, <1>2, <1>3, TogetherInvInit, PTL DEF Spec, ResetNeedsHold

-----------------------------------------------------------------------------
(* Buttons that dim.                                                       *)

\* Between two calls of the scanner nothing that dims changes the scanner's state.
LEMMA DimmingScans == [DimmingNext]_dimVars => [ScanNext]_scanVars
<1> SUFFICES ASSUME [DimmingNext]_dimVars PROVE [ScanNext]_scanVars
  OBVIOUS
<1>1. CASE DimmingHandle
  BY <1>1 DEF DimmingHandle, ScanNext
<1>2. ASSUME NEW i \in Button, DimmingScan(i) PROVE ScanNext
  BY <1>2 DEF DimmingScan, option_button_scan, ScanNext
<1>3. ASSUME NEW i \in Button, SecondPasses(i) \/ DimmingSetLock(i) \/ SetBound(i)
      PROVE  UNCHANGED scanVars
  BY <1>3 DEF SecondPasses, DimmingSetLock, SetBound
<1>4. CASE UNCHANGED dimVars
  BY <1>4 DEF dimVars
<1>5. QED
  BY <1>1, <1>2, <1>3, <1>4 DEF DimmingNext

\* The scanner under the handler that dims behaves as the scanner alone.
THEOREM DimmingImplementsScanner == DimmingSpec => ScanSpec
<1>1. DimmingInit => ScanInit
  BY DEF DimmingInit
<1>2. QED
  BY <1>1, DimmingScans, PTL DEF DimmingSpec, ScanSpec

\* A hold that was reported to the handler that dims is released before its button
\* is reported idle, however the contacts bounce.
THEOREM DimmingHoldsAreReleased == DimmingSpec => []HeldIsReleased
BY HoldsAreReleased, DimmingImplementsScanner, PTL

\* The visit of one button, for the history of its contacts.
EvenVisit(i) ==
    \/ /\ ScanPress(i)
       /\ uneven' = [uneven EXCEPT ![i] = \/ @ /\ hold_step[i] # NOT_HELD
                                          \/ ~pressed'[i]]
    \/ ScanHold(i) /\ uneven' = [uneven EXCEPT ![i] = @ \/ ~pressed'[i]]
    \/ ScanRelease(i) /\ uneven' = [uneven EXCEPT ![i] = @ \/ pressed'[i]]
    \/ ScanIdle(i) /\ uneven' = [uneven EXCEPT ![i] = @ \/ pressed'[i]]
    \/ ScanBounce(i) /\ uneven' = [uneven EXCEPT ![i] = TRUE]

\* What one call of the handler does, and what its history becomes.
DimmedCall(i, e) ==
    LET does == Effect(i, e)
        done == IF e = "START_PRESS" THEN <<>> ELSE acts[i]
    IN
    /\ ReturnCall(i, e)
    /\ before_st' = [before_st EXCEPT ![i] = BeforeAfter(i, e)]
    /\ hold_500ms_flag' = [hold_500ms_flag EXCEPT ![i] = FlagAfter(i, e)]
    /\ is_enable' = [is_enable EXCEPT ![i] = EnableAfter(i, e)]
    /\ disabled_for' = [disabled_for EXCEPT ![i] =
                           IF i \notin SceneElement THEN @
                           ELSE IF "fade" \in does THEN "short"
                           ELSE IF e = "START_PRESS" /\ @ = "short"
                           THEN "pressed" ELSE @]
    /\ \E way \in {"up", "down"} :
          lights' = [lights EXCEPT ![i] = IF "fade" \in does THEN way
                                          ELSE IF "stop" \in does THEN "still"
                                          ELSE @]
    /\ acts' = [acts EXCEPT ![i] =
                   IF Len(done) = 2 THEN done
                   ELSE IF "toggle" \in does THEN Append(done, "toggle")
                   ELSE IF "fade" \in does THEN Append(done, "fade")
                   ELSE done]
    /\ key_reported' = [key_reported EXCEPT ![i] =
                           (@ /\ e # "START_PRESS") \/ "report" \in does]
    /\ disturbed' = [disturbed EXCEPT ![i] =
                        \/ @ /\ e # "START_PRESS"
                        \/ e \in OfPress /\ (present_lock[i] \/ ~bound[i])]
    /\ left_on' = [left_on EXCEPT ![i] =
                      IF e = "START_PRESS" THEN hold_500ms_flag[i] ELSE @]

LEMMA DimmingCalls ==
    ASSUME DimmingHandle, CallShape(out)
    PROVE  /\ UNCHANGED <<scanState, told, present_lock, bound, uneven, kind>>
           /\ \E i \in Button, e \in Events : DimmedCall(i, e)
<1>1. Returns /\ UNCHANGED <<present_lock, bound, uneven, kind>>
  BY DEF DimmingHandle
<1>2. PICK i \in Button, e \in Events : ReturnCall(i, e)
  BY <1>1, ReturnCalls
<1>3. Head(out)[1] = i /\ Head(out)[2] = e
  BY <1>2 DEF ReturnCall
<1>4. DimmedCall(i, e)
  BY <1>2, <1>3 DEF DimmingHandle, DimmedCall
<1>5. QED
  BY <1>1, <1>4, ReturnCalls

DimmingType == DimmingTypeOK /\ CallShape(out)

LEMMA DimmingTypeInit == DimmingInit => DimmingType
<1> SUFFICES ASSUME DimmingInit PROVE DimmingType
  OBVIOUS
<1>1. TypeOK /\ CallShape(out)
  BY ScanTypeInit DEF DimmingInit, ScanType
<1>2. acts \in [Button -> Seq({"toggle", "fade"})] /\ \A i \in Button : Len(acts[i]) <= 2
  <2> DEFINE Acts == {"toggle", "fade"}
  <2>1. <<>> \in Seq(Acts) /\ Len(<<>>) <= 2
    OBVIOUS
  <2>2. acts = [i \in Button |-> <<>>]
    BY DEF DimmingInit
  <2>3. acts \in [Button -> Seq(Acts)]
    BY <2>1, <2>2
  <2>4. ASSUME NEW i \in Button PROVE Len(acts[i]) <= 2
    <3>1. acts[i] = <<>>
      BY <2>2
    <3>2. QED
      BY <2>1, <3>1, Zenon
  <2>5. QED
    BY <2>3, <2>4, Zenon
<1>3. QED
  BY <1>1, <1>2, EventKinds DEF DimmingInit, DimmingType, DimmingTypeOK, Lights

LEMMA AppendShort ==
    ASSUME NEW S, NEW s \in Seq(S), NEW x \in S, Len(s) <= 2, Len(s) # 2
    PROVE  Append(s, x) \in Seq(S) /\ Len(Append(s, x)) <= 2
<1>1. Append(s, x) \in Seq(S)
  BY AppendProperties
<1>2. Len(Append(s, x)) = Len(s) + 1
  BY AppendProperties
<1>3. Len(s) \in Nat
  OBVIOUS
<1>4. \A n \in Nat : n <= 2 /\ n # 2 => n + 1 <= 2
  OBVIOUS
<1>5. QED
  BY <1>1, <1>2, <1>3, <1>4, Zenon

LEMMA DimmingTypeStep == DimmingType /\ [DimmingNext]_dimVars => DimmingType'
<1> SUFFICES ASSUME DimmingType, [DimmingNext]_dimVars PROVE DimmingType'
  OBVIOUS
<1>0. TypeOK /\ TypeOK' /\ CallShape(out) /\ CallShape(out')
  BY ScanTypeStep, DimmingScans DEF DimmingType, DimmingTypeOK, ScanType
<1> DEFINE StateOK == /\ before_st \in [Button -> Events]
                      /\ hold_500ms_flag \in [Button -> BOOLEAN]
                      /\ is_enable \in [Button -> BOOLEAN]
                      /\ disabled_for \in [Button -> {"short", "pressed", "second"}]
           ToldOK == /\ lights \in [Button -> Lights]
                     /\ key_reported \in [Button -> BOOLEAN]
                     /\ acts \in [Button -> Seq({"toggle", "fade"})]
                     /\ \A i \in Button : Len(acts[i]) <= 2
           RestOK == /\ present_lock \in [Button -> BOOLEAN]
                     /\ bound \in [Button -> BOOLEAN]
                     /\ kind \in [Button -> {"scene", "light"}]
                     /\ disturbed \in [Button -> BOOLEAN]
                     /\ left_on \in [Button -> BOOLEAN]
           EvenOK == uneven \in [Button -> BOOLEAN]
<1>a. StateOK /\ ToldOK /\ RestOK /\ EvenOK
  BY DEF DimmingType, DimmingTypeOK
<1>b. ASSUME StateOK', ToldOK', RestOK', EvenOK' PROVE DimmingType'
  BY <1>0, <1>b DEF DimmingType, DimmingTypeOK
<1>1. CASE DimmingHandle
  <2>1. PICK i \in Button, e \in Events : DimmedCall(i, e)
    BY <1>0, <1>1, DimmingCalls
  <2>2. UNCHANGED <<present_lock, bound, uneven, kind>>
    BY <1>0, <1>1, DimmingCalls
  <2>3. StateOK'
    <3>1. before_st' \in [Button -> Events]
      BY <1>a, <2>1 DEF DimmedCall, BeforeAfter
    <3>2. hold_500ms_flag' \in [Button -> BOOLEAN]
      BY <1>a, <2>1 DEF DimmedCall, FlagAfter
    <3>3. is_enable' \in [Button -> BOOLEAN]
      BY <1>a, <2>1 DEF DimmedCall, EnableAfter
    <3>4. disabled_for' \in [Button -> {"short", "pressed", "second"}]
      BY <1>a, <2>1 DEF DimmedCall
    <3>5. QED
      BY <3>1, <3>2, <3>3, <3>4
  <2>4. ToldOK'
    <3>1. lights' \in [Button -> Lights]
      BY <1>a, <2>1 DEF DimmedCall, Lights
    <3>2. key_reported' \in [Button -> BOOLEAN]
      BY <1>a, <2>1 DEF DimmedCall
    <3>3. ASSUME NEW s \in Seq({"toggle", "fade"}), Len(s) <= 2, Len(s) # 2,
                 NEW x \in {"toggle", "fade"}
          PROVE  Append(s, x) \in Seq({"toggle", "fade"}) /\ Len(Append(s, x)) <= 2
      BY <3>3, AppendShort
    <3>4. PICK new \in Seq({"toggle", "fade"}) :
             Len(new) <= 2 /\ acts' = [acts EXCEPT ![i] = new]
      <4> DEFINE done == IF e = "START_PRESS" THEN <<>> ELSE acts[i]
      <4>1. done \in Seq({"toggle", "fade"}) /\ Len(done) <= 2
        BY <1>a
      <4>2. \/ acts' = [acts EXCEPT ![i] = done]
            \/ /\ Len(done) # 2
               /\ \E x \in {"toggle", "fade"} : acts' = [acts EXCEPT ![i] = Append(done, x)]
        BY <2>1 DEF DimmedCall
      <4>3. QED
        BY <3>3, <4>1, <4>2
    <3>5. acts' \in [Button -> Seq({"toggle", "fade"})]
          /\ \A j \in Button : Len(acts'[j]) <= 2
      BY <1>a, <3>4
    <3>6. QED
      BY <3>1, <3>2, <3>5
  <2>5. RestOK'
    BY <1>a, <2>1, <2>2 DEF DimmedCall
  <2>6. EvenOK'
    BY <1>a, <2>2
  <2>7. QED
    BY <1>b, <2>3, <2>4, <2>5, <2>6
<1>2. ASSUME NEW i \in Button, DimmingScan(i) PROVE DimmingType'
  <2>1. StateOK' /\ ToldOK' /\ RestOK'
    BY <1>a, <1>2 DEF DimmingScan, dimState, dimTold, history
  <2>2. EvenOK'
    <3>1. \/ UNCHANGED uneven
          \/ \E b \in BOOLEAN : uneven' = [uneven EXCEPT ![i] = b]
      <4>1. uneven[i] \in BOOLEAN /\ pressed'[i] \in BOOLEAN
        BY <1>0, <1>a DEF TypeOK
      <4>2. /\ ((uneven[i] /\ hold_step[i] # NOT_HELD) \/ ~pressed'[i]) \in BOOLEAN
            /\ (uneven[i] \/ ~pressed'[i]) \in BOOLEAN
            /\ (uneven[i] \/ pressed'[i]) \in BOOLEAN
        BY <4>1
      <4>3. QED
        BY <1>a, <1>2, <4>2 DEF DimmingScan
    <3>2. QED
      BY <1>a, <3>1
  <2>3. QED
    BY <1>b, <2>1, <2>2
<1>3. ASSUME NEW i \in Button, SecondPasses(i) PROVE DimmingType'
  <2>1. StateOK'
    BY <1>a, <1>3 DEF SecondPasses
  <2>2. QED
    BY <1>a, <1>b, <1>3, <2>1 DEF SecondPasses, dimTold, history
<1>4. ASSUME NEW i \in Button, DimmingSetLock(i) \/ SetBound(i) PROVE DimmingType'
  <2>1. RestOK'
    BY <1>a, <1>4 DEF DimmingSetLock, SetBound, history
  <2>2. QED
    BY <1>a, <1>b, <1>4, <2>1 DEF DimmingSetLock, SetBound, dimState, dimTold
<1>5. CASE UNCHANGED dimVars
  BY <1>a, <1>b, <1>5 DEF dimVars, dimState, dimTold, history
<1>6. QED
  BY <1>1, <1>2, <1>3, <1>4, <1>5 DEF DimmingNext

\* Every variable of the scanner and of what dims keeps its range; in particular a
\* press never does more than two things.
THEOREM DimmingTypeCorrect == DimmingSpec => []DimmingTypeOK
<1>1. DimmingType => DimmingTypeOK
  BY DEF DimmingType
<1>2. QED
  BY <1>1, DimmingTypeInit, DimmingTypeStep, PTL DEF DimmingSpec

\* What is said below of a button survives a step in which nothing of it changes
\* but its age, its lock, its binding and the time since its hold.
Kept(j) ==
    /\ pressed'[j] = pressed[j] /\ hold_step'[j] = hold_step[j]
    /\ press_cnt'[j] = press_cnt[j] /\ press_many_time_f'[j] = press_many_time_f[j]
    /\ open'[j] = open[j] /\ held'[j] = held[j]
    /\ before_st'[j] = before_st[j] /\ hold_500ms_flag'[j] = hold_500ms_flag[j]
    /\ is_enable'[j] = is_enable[j] /\ lights'[j] = lights[j]
    /\ acts'[j] = acts[j] /\ key_reported'[j] = key_reported[j]
    /\ uneven'[j] = uneven[j]
    /\ disturbed'[j] = disturbed[j] /\ left_on'[j] = left_on[j]
    /\ \A f : Reports(j, f)' <=> Reports(j, f)
    /\ press_age[j] = "over" => press_age'[j] = "over"
    /\ \/ disabled_for'[j] = disabled_for[j]
       \/ /\ disabled_for[j] = "short" => press_age[j] = "over"
          /\ \A f : ~Reports(j, f)

Visited(i) ==
    /\ EvenVisit(i)
    /\ UNCHANGED <<dimState, dimTold, history, kind>>

Dimmed(i, e) == DimmedCall(i, e) /\ UNCHANGED <<scanState, told, uneven, kind>>

\* A step is a visit of one button or a call about one, or leaves all alone.
LEMMA DimmingCases ==
    ASSUME DimmingType, [DimmingNext]_dimVars
    PROVE  /\ kind' = kind
           /\ \/ \E i \in Button : /\ Visited(i)
                                   /\ \A f : ~Reports(i, f)
                                   /\ \A j \in Button \ {i} : Kept(j)
              \/ \E i \in Button, e \in Events : /\ Dimmed(i, e)
                                                 /\ \A j \in Button \ {i} : Kept(j)
              \/ \A j \in Button : Kept(j)
<1>0. TypeOK /\ CallShape(out) /\ DimmingTypeOK
  BY DEF DimmingType, DimmingTypeOK
<1>1. ASSUME NEW i \in Button, DimmingScan(i), ~Ages(i)
      PROVE  /\ Visited(i)
             /\ \A f : ~Reports(i, f)
             /\ \A j \in Button \ {i} : Kept(j)
  <2>1. Visited(i) /\ option_button_scan(i)
    BY <1>1 DEF DimmingScan, EvenVisit, Visited, option_button_scan
  <2>2. NoCall(out) /\ \A j, f : Reports(j, f)' => j = i
    BY <1>0, <2>1, CallsOfVisit
  <2>3. \A j, f : ~Reports(j, f)
    BY <2>2, NoneReports
  <2>4. ASSUME NEW j \in Button, j # i PROVE Kept(j)
    <3>1. uneven'[j] = uneven[j]
      BY <1>0, <2>1, <2>4 DEF Visited, EvenVisit, DimmingTypeOK
    <3>2. \A f : Reports(j, f)' <=> Reports(j, f)
      BY <2>2, <2>3, <2>4
    <3>3. /\ pressed'[j] = pressed[j] /\ hold_step'[j] = hold_step[j]
          /\ press_cnt'[j] = press_cnt[j]
          /\ press_many_time_f'[j] = press_many_time_f[j]
          /\ press_age'[j] = press_age[j]
          /\ open'[j] = open[j] /\ held'[j] = held[j]
      BY <1>0, <2>1, <2>4, OthersKept
    <3>4. UNCHANGED <<dimState, dimTold, history>>
      BY <2>1 DEF Visited
    <3>5. QED
      BY <3>1, <3>2, <3>3, <3>4 DEF Kept, dimState, dimTold, history
  <2>5. QED
    BY <2>1, <2>3, <2>4
<1>2. ASSUME NEW i \in Button, DimmingScan(i), Ages(i), NEW j \in Button PROVE Kept(j)
  <2>1. UNCHANGED <<pressed, hold_step, press_cnt, press_many_time_f, out, told>>
    BY <1>2 DEF Ages
  <2>2. press_age[j] = "over" => press_age'[j] = "over"
    BY <1>0, <1>2 DEF Ages, TypeOK
  <2>3. uneven'[j] = uneven[j]
    <3>1. press_age'[i] \in {"due", "over"} /\ press_age'[i] # press_age[i]
      BY <1>0, <1>2 DEF Ages, TypeOK
    <3>2. ~ScanPress(i)
      BY <1>0, <3>1 DEF ScanPress, TypeOK
    <3>3. ~ScanHold(i) /\ ~ScanRelease(i) /\ ~ScanIdle(i) /\ ~ScanBounce(i)
      BY <3>1 DEF ScanHold, ScanRelease, ScanIdle, ScanBounce
    <3>4. QED
      BY <1>2, <3>2, <3>3 DEF DimmingScan
  <2>4. UNCHANGED <<dimState, dimTold, history>>
    BY <1>2 DEF DimmingScan
  <2>5. QED
    BY <2>1, <2>2, <2>3, <2>4 DEF Kept, told, dimState, dimTold, history, Reports
<1>3. CASE DimmingHandle
  <2>1. PICK i \in Button, e \in Events : DimmedCall(i, e)
    BY <1>0, <1>3, DimmingCalls
  <2>2. UNCHANGED <<scanState, told, uneven, kind>>
    BY <1>0, <1>3, DimmingCalls
  <2>3. ASSUME NEW j \in Button, j # i PROVE Kept(j)
    <3>1. \A f : ~Reports(j, f) /\ ~Reports(j, f)'
      BY <2>1, <2>3, ReturnReports DEF DimmedCall
    <3>2. /\ before_st'[j] = before_st[j]
          /\ hold_500ms_flag'[j] = hold_500ms_flag[j]
          /\ is_enable'[j] = is_enable[j] /\ disabled_for'[j] = disabled_for[j]
      BY <1>0, <2>1, <2>3 DEF DimmedCall, DimmingTypeOK
    <3>3. lights'[j] = lights[j] /\ key_reported'[j] = key_reported[j]
          /\ disturbed'[j] = disturbed[j] /\ left_on'[j] = left_on[j]
      BY <1>0, <2>1, <2>3 DEF DimmedCall, DimmingTypeOK
    <3>4. acts'[j] = acts[j]
      BY <2>1, <2>3 DEF DimmedCall
    <3>5. QED
      BY <2>2, <3>1, <3>2, <3>3, <3>4 DEF Kept, scanState, told
  <2>4. QED
    BY <2>1, <2>2, <2>3 DEF Dimmed
<1>4. ASSUME NEW i \in Button, SecondPasses(i), NEW j \in Button PROVE Kept(j)
  <2>1. out = <<>> /\ disabled_for' = [disabled_for EXCEPT ![i] = "second"]
        /\ (disabled_for[i] = "short" => press_age[i] = "over")
    BY <1>4 DEF SecondPasses
  <2>2. \A f : ~Reports(j, f)
    BY <2>1, NoneReports DEF NoCall
  <2>3. \/ disabled_for'[j] = disabled_for[j]
        \/ disabled_for[j] = "short" => press_age[j] = "over"
    BY <1>0, <2>1 DEF DimmingTypeOK
  <2>4. QED
    BY <1>4, <2>2, <2>3
    DEF SecondPasses, Kept, scanVars, scanState, told, dimTold, history, Reports
<1>5. ASSUME NEW i \in Button, DimmingSetLock(i) \/ SetBound(i), NEW j \in Button
      PROVE  Kept(j)
  BY <1>5 DEF DimmingSetLock, SetBound, Kept, scanVars, scanState, told, dimState,
              dimTold, history, Reports
<1>6. ASSUME UNCHANGED dimVars, NEW j \in Button PROVE Kept(j)
  BY <1>6 DEF dimVars, Kept, scanVars, scanState, told, dimState, dimTold, history,
              Reports
<1>7. kind' = kind
  BY DEF DimmingNext, DimmingHandle, DimmingScan, SecondPasses, DimmingSetLock,
         SetBound, dimVars
<1>8. QED
  BY <1>1, <1>2, <1>3, <1>4, <1>5, <1>6, <1>7 DEF DimmingNext

\* The lights fade while the flag of the hold is set, and its release is still to
\* come or found the button locked or unbound.
FadeOf(i) ==
    /\ lights[i] = "still" <=> ~hold_500ms_flag[i]
    /\ Reports(i, "START_PRESS") => open[i]
    /\ \A e \in HoldEvents : Reports(i, e) => held[i]
    /\ hold_500ms_flag[i] => \/ disturbed[i] \/ open[i] \/ held[i]
                             \/ Reports(i, "RELEASE")

FadeInv == DimmingType /\ \A i \in Button : FadeOf(i)

LEMMA FadeInvInit == DimmingInit => FadeInv
BY DimmingTypeInit DEF DimmingInit, ScanInit, FadeInv, FadeOf, Reports

LEMMA FadeVisit ==
    ASSUME FadeInv, NEW i \in Button, Visited(i) PROVE FadeOf(i)'
<1>0. TypeOK /\ FadeOf(i) /\ UNCHANGED <<lights, hold_500ms_flag, disturbed>>
  BY DEF FadeInv, DimmingType, DimmingTypeOK, Visited, dimState, dimTold, history
<1>a. \A e \in HoldEvents : e \notin {"START_PRESS", "RELEASE", "NO_PRESS"}
                              \cup TimesEvents
  BY EventKinds
<1>1. CASE ScanPress(i)
  <2>1. OneCall(out', i, "START_PRESS") /\ open'[i] /\ held' = held
    BY <1>0, <1>1, PressCalls DEF TypeOK
  <2>2. \A f : Reports(i, f)' => f = "START_PRESS"
    BY <2>1, OneReports
  <2>3. QED
    BY <1>0, <1>a, <2>1, <2>2 DEF FadeOf
<1>2. CASE ScanHold(i)
  <2>1. NoCall(out) /\ \A f : ~Reports(i, f)
    BY <1>0, <1>2, HoldCalls, NoneReports
  <2>2. CASE HoldSilent(i)
    BY <1>0, <2>1, <2>2, NoneReports DEF HoldSilent, told, FadeOf
  <2>3. ASSUME NEW n \in 1..6, HoldCall(i, n) PROVE FadeOf(i)'
    <3>1. held'[i] /\ open' = open
      BY <1>0, <2>3 DEF HoldCall, TypeOK
    <3>2. HoldEvent[n] # "START_PRESS"
      BY HoldNames
    <3>3. ~Reports(i, "START_PRESS")'
      BY <2>3, <3>2, OneReports DEF HoldCall
    <3>4. QED
      BY <1>0, <3>1, <3>3 DEF FadeOf
  <2>4. QED
    BY <1>0, <1>2, <2>2, <2>3, HoldCalls
<1>3. CASE ScanRelease(i)
  <2>1. OneCall(out', i, "RELEASE")
    BY <1>0, <1>3, ReleaseCalls
  <2>2. \A f : Reports(i, f)' <=> f = "RELEASE"
    BY <2>1, OneReports
  <2>3. QED
    BY <1>0, <1>a, <2>2 DEF FadeOf
<1>4. CASE ScanIdle(i)
  <2>1. PICK e \in Settles : IdleCall(i, e)
    BY <1>0, <1>4, IdleCalls
  <2>2. NoCall(out) /\ \A f : ~Reports(i, f)
    BY <1>0, <1>4, IdleCalls, NoneReports
  <2>3. Reports(i, e)' /\ \A f : Reports(i, f)' => f \in TimesEvents \cup Settles
    <3>1. CASE OneCall(out', i, e)
      BY <3>1, OneReports
    <3>2. ASSUME NEW t \in TimesEvents, TwoCalls(out', i, t, e)
          PROVE  Reports(i, e)' /\ \A f : Reports(i, f)' => f \in TimesEvents \cup Settles
      <4>1. \A f : Reports(i, f)' <=> f \in {t, e}
        BY <3>2, TwoReports
      <4>2. QED
        BY <4>1
    <3>3. QED
      BY <2>1, <3>1, <3>2 DEF IdleCall
  <2>4. ~Reports(i, "START_PRESS")' /\ \A f \in HoldEvents : ~Reports(i, f)'
    BY <1>a, <2>3, EventKinds DEF Settles
  <2>5. \/ Reports(i, "RELEASE")'
        \/ open'[i] = open[i] /\ held'[i] = held[i]
    BY <1>0, <2>1, <2>3 DEF IdleCall, TypeOK
  <2>6. QED
    BY <1>0, <2>2, <2>4, <2>5 DEF FadeOf
<1>5. CASE ScanBounce(i)
  BY <1>0, <1>5, BounceCalls, NoneReports DEF told, FadeOf
<1>6. QED
  BY <1>1, <1>2, <1>3, <1>4, <1>5 DEF Visited, EvenVisit

LEMMA FadeCall ==
    ASSUME FadeInv, NEW i \in Button, NEW e \in Events, Dimmed(i, e) PROVE FadeOf(i)'
<1>0. /\ DimmingTypeOK /\ FadeOf(i) /\ UNCHANGED <<open, held>>
      /\ DimmedCall(i, e)
  BY DEF FadeInv, DimmingType, Dimmed, told
<1>1. /\ Reports(i, e)
      /\ \A f : Reports(i, f) => f \in {e} \cup Settles
      /\ \A f : Reports(i, f)' => Reports(i, f)
  BY <1>0, ReturnReports DEF DimmedCall
<1>a. OneCall(out, i, e) \/ e \in TimesEvents
  BY <1>0 DEF DimmedCall, ReturnCall
<1>2. /\ hold_500ms_flag'[i] = FlagAfter(i, e)
      /\ disturbed'[i] = (\/ disturbed[i] /\ e # "START_PRESS"
                          \/ e \in OfPress /\ (present_lock[i] \/ ~bound[i]))
  BY <1>0 DEF DimmedCall, DimmingTypeOK
<1>3. \/ "fade" \in Effect(i, e) /\ lights'[i] # "still"
      \/ "fade" \notin Effect(i, e) /\ "stop" \in Effect(i, e) /\ lights'[i] = "still"
      \/ /\ "fade" \notin Effect(i, e) /\ "stop" \notin Effect(i, e)
         /\ lights'[i] = lights[i]
  BY <1>0 DEF DimmedCall, DimmingTypeOK
<1>4. /\ "fade" \in Effect(i, e) => e = "HOLD_500MS"
      /\ "stop" \in Effect(i, e) => e = "RELEASE"
  BY DEF Effect, SceneEffect, LightEffect
<1>5. lights'[i] = "still" <=> ~hold_500ms_flag'[i]
  BY <1>0, <1>2, <1>3, <1>4 DEF FadeOf, FlagAfter
<1>6. CASE e = "RELEASE"
  <2>1. CASE present_lock[i] \/ ~bound[i]
    BY <1>0, <1>1, <1>2, <1>5, <1>6, <2>1 DEF OfPress, FadeOf
  <2>2. CASE ~present_lock[i] /\ bound[i]
    <3>1. hold_500ms_flag[i] => "stop" \in Effect(i, e)
      BY <1>6, <2>2 DEF Effect, SceneEffect, LightEffect
    <3>2. ~hold_500ms_flag'[i]
      BY <1>2, <1>4, <1>6, <3>1 DEF FlagAfter
    <3>3. QED
      BY <1>0, <1>1, <1>5, <3>2 DEF FadeOf
  <2>3. QED
    BY <2>1, <2>2
<1>7. CASE e # "RELEASE"
  <2>1. e = "START_PRESS" => open[i]
    BY <1>0, <1>1 DEF FadeOf
  <2>2. "fade" \in Effect(i, e) => held[i]
    BY <1>0, <1>1, <1>4, HoldNames DEF FadeOf
  <2>3. Reports(i, "RELEASE") => Reports(i, "RELEASE")'
    <3>1. CASE OneCall(out, i, e)
      BY <1>7, <3>1, OneReports
    <3>2. ASSUME NEW f \in Settles, TwoCalls(out, i, e, f), OneCall(out', i, f)
          PROVE  Reports(i, "RELEASE") => Reports(i, "RELEASE")'
      <4>1. Reports(i, "RELEASE") => "RELEASE" \in {e, f}
        BY <3>2, TwoReports
      <4>2. Reports(i, f)'
        BY <3>2, OneReports
      <4>3. QED
        BY <1>7, <4>1, <4>2
    <3>3. QED
      BY <1>0, <3>1, <3>2 DEF DimmedCall, ReturnCall
  <2>4. hold_500ms_flag'[i] => \/ disturbed'[i] \/ open'[i] \/ held'[i]
                               \/ Reports(i, "RELEASE")'
    BY <1>0, <1>2, <2>1, <2>2, <2>3 DEF FlagAfter, FadeOf
  <2>5. QED
    BY <1>0, <1>1, <1>5, <2>4 DEF FadeOf
<1>8. QED
  BY <1>6, <1>7

LEMMA FadeInvStep == FadeInv /\ [DimmingNext]_dimVars => FadeInv'
<1> SUFFICES ASSUME FadeInv, [DimmingNext]_dimVars PROVE FadeInv'
  OBVIOUS
<1>0. DimmingType /\ DimmingType'
  BY DimmingTypeStep DEF FadeInv
<1>1. ASSUME NEW j \in Button, Kept(j) PROVE FadeOf(j)'
  BY <1>1 DEF Kept, FadeInv, FadeOf
<1>2. ASSUME NEW j \in Button PROVE FadeOf(j)'
  BY <1>0, <1>1, DimmingCases, FadeVisit, FadeCall
<1>3. QED
  BY <1>0, <1>2 DEF FadeInv

\* However its contacts bounce, a button at rest has left no lights fading, unless
\* its latest press was locked or unbound at some event.
THEOREM FadingsStop == DimmingSpec => []FadingStops
<1>1. FadeInv => FadingStops
  <2>1. ASSUME out = <<>>, NEW i \in Button PROVE ~Reports(i, "RELEASE")
    BY <2>1, NoneReports DEF NoCall
  <2>2. QED
    BY <2>1 DEF FadeInv, FadeOf, FadingStops, AtRest
<1>2. QED
  BY <1>1, FadeInvInit, FadeInvStep, PTL DEF DimmingSpec

\* Since the latest press all visits have read its contacts alike: it is remembered
\* in prev_state, a button at rest has no hold, and a call tells which it is.
EvenOf(i) ==
    ~uneven[i] =>
       /\ open[i] <=> pressed[i]
       /\ ~pressed[i] => \/ hold_step[i] = NOT_HELD
                         \/ hold_step[i] = 0 /\ press_cnt[i] = 0
       /\ Reports(i, "START_PRESS") => open[i] /\ hold_step[i] \in {NOT_HELD, 0}
       /\ \A e \in HoldEvents : Reports(i, e) => open[i]
       /\ \A e \in TimesEvents \cup Settles : Reports(i, e) => ~open[i]
       /\ \A t \in TimesEvents : Reports(i, t) => ~Reports(i, "RELEASE")

EvenInv == DimmingType /\ \A i \in Button : EvenOf(i)

LEMMA EvenInvInit == DimmingInit => EvenInv
BY DimmingTypeInit DEF DimmingInit, ScanInit, EvenInv, EvenOf, Reports

LEMMA EvenVisitStep ==
    ASSUME EvenInv, NEW i \in Button, Visited(i), \A f : ~Reports(i, f)
    PROVE  EvenOf(i)'
<1>0. TypeOK /\ EvenOf(i) /\ uneven[i] \in BOOLEAN /\ uneven \in [Button -> BOOLEAN]
  BY DEF EvenInv, DimmingType, DimmingTypeOK
<1>1. CASE /\ ScanPress(i)
           /\ uneven' = [uneven EXCEPT ![i] = \/ @ /\ hold_step[i] # NOT_HELD
                                              \/ ~pressed'[i]]
  <2>1. /\ OneCall(out', i, "START_PRESS") /\ open'[i]
        /\ hold_step' = hold_step /\ ~pressed[i]
    BY <1>0, <1>1, PressCalls DEF TypeOK, ScanPress
  <2>2. \A f : Reports(i, f)' => f = "START_PRESS"
    BY <2>1, OneReports
  <2>3. ~uneven'[i] => pressed'[i] /\ (uneven[i] => hold_step[i] = NOT_HELD)
    BY <1>0, <1>1
  <2>4. ~uneven'[i] => hold_step[i] \in {NOT_HELD, 0}
    BY <1>0, <2>1, <2>3 DEF EvenOf
  <2>5. QED
    BY <2>1, <2>2, <2>3, <2>4, EventKinds DEF EvenOf, Settles
<1>2. CASE ScanHold(i) /\ uneven' = [uneven EXCEPT ![i] = @ \/ ~pressed'[i]]
  <2>1. pressed[i] /\ press_cnt' = press_cnt
    BY <1>2 DEF ScanHold
  <2>2. ~uneven'[i] => ~uneven[i] /\ pressed'[i]
    BY <1>0, <1>2
  <2>3. CASE HoldSilent(i)
    <3>1. open' = open /\ \A f : ~Reports(i, f)'
      BY <2>3, NoneReports DEF HoldSilent, told
    <3>2. QED
      BY <1>0, <2>1, <2>2, <3>1 DEF EvenOf
  <2>4. ASSUME NEW n \in 1..6, HoldCall(i, n) PROVE EvenOf(i)'
    <3>1. open' = open /\ \A f : Reports(i, f)' => f = HoldEvent[n]
      BY <2>4, OneReports DEF HoldCall
    <3>2. HoldEvent[n] \notin {"START_PRESS"} \cup TimesEvents \cup Settles
      BY HoldNames, EventKinds DEF Settles
    <3>3. QED
      BY <1>0, <2>1, <2>2, <3>1, <3>2 DEF EvenOf
  <2>5. QED
    BY <1>0, <1>2, <2>3, <2>4, HoldCalls
<1>3. CASE ScanRelease(i) /\ uneven' = [uneven EXCEPT ![i] = @ \/ pressed'[i]]
  <2>1. /\ OneCall(out', i, "RELEASE") /\ ~open'[i]
        /\ hold_step'[i] = NOT_HELD
    BY <1>0, <1>3, ReleaseCalls DEF TypeOK, ScanRelease
  <2>2. \A f : Reports(i, f)' => f = "RELEASE"
    BY <2>1, OneReports
  <2>3. ~uneven'[i] => ~pressed'[i]
    BY <1>0, <1>3
  <2>4. QED
    BY <2>1, <2>2, <2>3, EventKinds DEF EvenOf, Settles
<1>4. CASE ScanIdle(i) /\ uneven' = [uneven EXCEPT ![i] = @ \/ pressed'[i]]
  <2>1. PICK e \in Settles : IdleCall(i, e)
    BY <1>0, <1>4, IdleCalls
  <2>2. ~pressed[i] /\ hold_step'[i] = NOT_HELD
    BY <1>0, <1>4 DEF TypeOK, ScanIdle
  <2>3. ~uneven'[i] => ~uneven[i] /\ ~pressed'[i]
    BY <1>0, <1>4
  <2>4. ~uneven'[i] => ~open'[i]
    BY <1>0, <2>1, <2>2, <2>3 DEF EvenOf, IdleCall, TypeOK
  <2>5. \A f : Reports(i, f)' => f \in TimesEvents \cup Settles
    <3>1. CASE OneCall(out', i, e)
      BY <3>1, OneReports
    <3>2. ASSUME NEW t \in TimesEvents, TwoCalls(out', i, t, e)
          PROVE  \A f : Reports(i, f)' => f \in TimesEvents \cup Settles
      BY <3>2, TwoReports
    <3>3. QED
      BY <2>1, <3>1, <3>2 DEF IdleCall
  <2>6. ~uneven'[i] =>
           \A t \in TimesEvents : Reports(i, t)' => ~Reports(i, "RELEASE")'
    <3>1. CASE OneCall(out', i, e)
      BY <3>1, OneReports, EventKinds DEF Settles
    <3>2. ASSUME NEW u \in TimesEvents, TwoCalls(out', i, u, e), press_cnt[i] # 0,
                 ~uneven'[i]
          PROVE  ~Reports(i, "RELEASE")'
      <4>1. e = "NO_PRESS"
        BY <1>0, <2>1, <2>2, <2>3, <3>2 DEF EvenOf, IdleCall
      <4>2. Reports(i, "RELEASE")' => "RELEASE" \in {u, e}
        BY <3>2, TwoReports
      <4>3. QED
        BY <4>1, <4>2, EventKinds
    <3>3. QED
      BY <2>1, <3>1, <3>2 DEF IdleCall
  <2>7. QED
    BY <2>2, <2>3, <2>4, <2>5, <2>6, EventKinds DEF EvenOf, Settles
<1>5. CASE uneven' = [uneven EXCEPT ![i] = TRUE]
  BY <1>0, <1>5 DEF EvenOf
<1>6. QED
  BY <1>1, <1>2, <1>3, <1>4, <1>5 DEF Visited, EvenVisit

LEMMA EvenInvStep == EvenInv /\ [DimmingNext]_dimVars => EvenInv'
<1> SUFFICES ASSUME EvenInv, [DimmingNext]_dimVars PROVE EvenInv'
  OBVIOUS
<1>0. DimmingType /\ DimmingType'
  BY DimmingTypeStep DEF EvenInv
<1>1. ASSUME NEW j \in Button, Kept(j) PROVE EvenOf(j)'
  BY <1>1 DEF Kept, EvenInv, EvenOf
<1>2. ASSUME NEW i \in Button, NEW e \in Events, Dimmed(i, e) PROVE EvenOf(i)'
  <2>1. \A f : Reports(i, f)' => Reports(i, f)
    BY <1>2, ReturnReports DEF Dimmed, DimmedCall
  <2>2. QED
    BY <1>2, <2>1 DEF Dimmed, scanState, told, EvenInv, EvenOf
<1>3. ASSUME NEW j \in Button PROVE EvenOf(j)'
  BY <1>0, <1>1, <1>2, DimmingCases, EvenVisitStep
<1>4. QED
  BY <1>0, <1>3 DEF EvenInv

LEMMA AppendItems ==
    ASSUME NEW S, NEW s \in Seq(S), NEW x \in S
    PROVE  \A n \in DOMAIN Append(s, x) :
              (n \in DOMAIN s /\ Append(s, x)[n] = s[n]) \/ Append(s, x)[n] = x
<1>1. /\ Append(s, x) \in Seq(S) /\ Len(Append(s, x)) = Len(s) + 1
      /\ \A n \in 1..Len(s) : Append(s, x)[n] = s[n]
      /\ Append(s, x)[Len(s) + 1] = x
  BY AppendProperties
<1>2. /\ Len(s) \in Nat /\ DOMAIN s = 1..Len(s)
      /\ DOMAIN Append(s, x) = 1..Len(Append(s, x))
  BY <1>1
<1>3. \A n \in 1..(Len(s) + 1) : n \in 1..Len(s) \/ n = Len(s) + 1
  BY <1>2
<1>4. QED
  BY <1>1, <1>2, <1>3

-----------------------------------------------------------------------------
(* A scene button that dims is not reported as pressed.                    *)

Faded(i) == \E n \in DOMAIN acts[i] : acts[i][n] = "fade"

\* The latest press is not counted any more, nor is a count of it being reported.
Counted(i) ==
    /\ press_age[i] = "over" \/ ~press_many_time_f[i]
    /\ \A t \in TimesEvents : ~Reports(i, t)

\* A press that fades is not reported: presses are disabled up to the next press,
\* or for a second, after which the count is dropped.
UnreportedOf(i) ==
    /\ \A t \in TimesEvents : Reports(i, t) => ~press_many_time_f[i]
    /\ ~uneven[i] /\ ~Reports(i, "START_PRESS") =>
          /\ open[i] => ~key_reported[i]
          /\ Faded(i) => /\ ~key_reported[i]
                         /\ \/ Counted(i)
                            \/ ~is_enable[i] /\ disabled_for[i] = "short"

UnreportedInv == DimmingType /\ \A i \in SceneElement : UnreportedOf(i)

LEMMA UnreportedInit == DimmingInit => UnreportedInv
BY DimmingTypeInit
DEF DimmingInit, ScanInit, UnreportedInv, UnreportedOf, Reports, Faded, SceneElement

LEMMA UnreportedVisit ==
    ASSUME EvenInv, UnreportedInv, NEW i \in SceneElement, Visited(i),
           \A f : ~Reports(i, f)
    PROVE  UnreportedOf(i)'
<1>0. /\ TypeOK /\ i \in Button /\ EvenOf(i) /\ UnreportedOf(i)
      /\ uneven \in [Button -> BOOLEAN]
  BY DEF EvenInv, UnreportedInv, DimmingType, DimmingTypeOK, SceneElement
<1>a. UNCHANGED <<key_reported, acts, is_enable, disabled_for>>
  BY DEF Visited, dimState, dimTold
<1>1. CASE ScanPress(i)
  <2>1. OneCall(out', i, "START_PRESS")
    BY <1>0, <1>1, PressCalls
  <2>2. \A f : Reports(i, f)' <=> f = "START_PRESS"
    BY <2>1, OneReports
  <2>3. QED
    BY <2>2, EventKinds DEF UnreportedOf
<1>2. CASE ScanHold(i) /\ uneven' = [uneven EXCEPT ![i] = @ \/ ~pressed'[i]]
  <2>1. ~uneven'[i] => ~uneven[i]
    BY <1>0, <1>2
  <2>2. UNCHANGED <<press_age, press_many_time_f>>
    BY <1>2 DEF ScanHold
  <2>3. open' = open /\ \A f : Reports(i, f)' => f \in HoldEvents
    <3>1. CASE HoldSilent(i)
      BY <3>1, NoneReports DEF HoldSilent, told
    <3>2. ASSUME NEW n \in 1..6, HoldCall(i, n)
          PROVE  open' = open /\ \A f : Reports(i, f)' => f \in HoldEvents
      <4>1. open' = open /\ \A f : Reports(i, f)' => f = HoldEvent[n]
        BY <3>2, OneReports DEF HoldCall
      <4>2. HoldEvent[n] \in HoldEvents
        BY HoldNames
      <4>3. QED
        BY <4>1, <4>2
    <3>3. QED
      BY <1>0, <1>2, <3>1, <3>2, HoldCalls
  <2>4. \A t \in TimesEvents : ~Reports(i, t)'
    BY <2>3, EventKinds
  <2>5. QED
    BY <1>0, <1>a, <2>1, <2>2, <2>3, <2>4 DEF UnreportedOf, Counted, Faded
<1>3. CASE ScanRelease(i) /\ uneven' = [uneven EXCEPT ![i] = @ \/ pressed'[i]]
  <2>1. OneCall(out', i, "RELEASE") /\ ~open'[i]
    BY <1>0, <1>3, ReleaseCalls DEF TypeOK
  <2>2. \A t \in TimesEvents : ~Reports(i, t)'
    BY <2>1, OneReports, EventKinds
  <2>3. ~uneven'[i] => ~uneven[i]
    BY <1>0, <1>3
  <2>4. UNCHANGED <<press_age, press_many_time_f>>
    BY <1>3 DEF ScanRelease
  <2>5. QED
    BY <1>0, <1>a, <2>1, <2>2, <2>3, <2>4 DEF UnreportedOf, Counted, Faded
<1>4. CASE ScanIdle(i) /\ uneven' = [uneven EXCEPT ![i] = @ \/ pressed'[i]]
  <2>1. PICK e \in Settles : IdleCall(i, e)
    BY <1>0, <1>4, IdleCalls
  <2>2. ~uneven'[i] => ~uneven[i]
    BY <1>0, <1>4
  <2>3. ~uneven[i] => ~open'[i]
    BY <1>0, <1>4, <2>1 DEF EvenOf, IdleCall, TypeOK, ScanIdle
  <2>4. /\ press_age' = press_age
        /\ press_many_time_f'[i] = (press_many_time_f[i] /\ press_age[i] = "recent")
    BY <1>0, <1>4 DEF TypeOK, ScanIdle
  <2>5. \/ \A t \in TimesEvents : ~Reports(i, t)'
        \/ press_age[i] = "due" /\ press_many_time_f[i]
    <3>1. CASE OneCall(out', i, e)
      BY <3>1, OneReports, EventKinds DEF Settles
    <3>2. QED
      BY <2>1, <3>1 DEF IdleCall
  <2>6. Counted(i) => Counted(i)'
    BY <2>4, <2>5 DEF Counted
  <2>7. \A t \in TimesEvents : Reports(i, t)' => ~press_many_time_f'[i]
    BY <2>4, <2>5
  <2>8. QED
    BY <1>0, <1>a, <2>2, <2>3, <2>6, <2>7 DEF UnreportedOf, Faded
<1>5. CASE ScanBounce(i) /\ uneven' = [uneven EXCEPT ![i] = TRUE]
  <2>1. \A f : ~Reports(i, f)'
    BY <1>0, <1>5, BounceCalls, NoneReports
  <2>2. QED
    BY <1>0, <1>5, <2>1 DEF UnreportedOf
<1>6. QED
  BY <1>1, <1>2, <1>3, <1>4, <1>5 DEF Visited, EvenVisit

LEMMA UnreportedCall ==
    ASSUME EvenInv, UnreportedInv, NEW i \in SceneElement, NEW e \in Events,
           Dimmed(i, e)
    PROVE  UnreportedOf(i)'
<1>0. /\ DimmingTypeOK /\ i \in Button /\ EvenOf(i) /\ UnreportedOf(i)
      /\ DimmedCall(i, e) /\ UNCHANGED <<scanState, told, uneven>>
  BY DEF EvenInv, UnreportedInv, DimmingType, SceneElement, Dimmed
<1>1. /\ Reports(i, e)
      /\ \A f : Reports(i, f)' => Reports(i, f) /\ f \in Settles /\ e \in TimesEvents
  BY <1>0, ReturnReports DEF DimmedCall
<1>2. /\ \A t \in TimesEvents : ~Reports(i, t)'
      /\ ~Reports(i, "START_PRESS")'
  BY <1>1, EventKinds DEF Settles
<1>3. key_reported'[i] = ((key_reported[i] /\ e # "START_PRESS")
                             \/ "report" \in Effect(i, e))
  BY <1>0 DEF DimmedCall, DimmingTypeOK
<1>4. /\ "fade" \in Effect(i, e) => e = "HOLD_500MS"
      /\ "toggle" \in Effect(i, e) => e = "RELEASE"
      /\ "report" \in Effect(i, e) => e \in Presses /\ is_enable[i]
  BY DEF Effect, SceneEffect, SceneReports
<1>5. /\ Presses \subseteq TimesEvents
      /\ "START_PRESS" \notin Presses /\ "HOLD_500MS" \notin Presses
      /\ "HOLD_500MS" \in HoldEvents
  BY TimesNames, HoldNames DEF Presses
<1>6. Faded(i)' => \/ Faded(i) /\ e # "START_PRESS"
                   \/ "fade" \in Effect(i, e)
  <2> DEFINE done == IF e = "START_PRESS" THEN <<>> ELSE acts[i]
  <2>1. done \in Seq({"toggle", "fade"})
    BY <1>0 DEF DimmingTypeOK
  <2>2. CASE acts'[i] = done
    BY <2>2 DEF Faded
  <2>3. CASE acts'[i] = Append(done, "toggle")
    <3>1. \A n \in DOMAIN Append(done, "toggle") :
             \/ n \in DOMAIN done /\ Append(done, "toggle")[n] = done[n]
             \/ Append(done, "toggle")[n] = "toggle"
      BY <2>1, AppendItems
    <3>2. QED
      BY <2>3, <3>1 DEF Faded
  <2>4. \/ acts'[i] = done
        \/ acts'[i] = Append(done, "toggle")
        \/ "fade" \in Effect(i, e)
    BY <1>0 DEF DimmedCall, DimmingTypeOK
  <2>5. QED
    BY <2>2, <2>3, <2>4
<1>7. CASE ~uneven[i]
  <2>1. "fade" \in Effect(i, e) => /\ open[i] /\ ~key_reported[i]
                                   /\ is_enable'[i] = FALSE
                                   /\ disabled_for'[i] = "short"
    <3>1. ASSUME "fade" \in Effect(i, e) PROVE open[i] /\ ~Reports(i, "START_PRESS")
      <4>1. OneCall(out, i, e)
        BY <1>0, <1>4, <1>5, <3>1, EventKinds DEF DimmedCall, ReturnCall
      <4>2. QED
        BY <1>0, <1>1, <1>4, <1>5, <1>7, <3>1, <4>1, OneReports, EventKinds DEF EvenOf
    <3>2. ASSUME "fade" \in Effect(i, e)
          PROVE  is_enable'[i] = FALSE /\ disabled_for'[i] = "short"
      BY <1>0, <3>2 DEF DimmedCall, DimmingTypeOK, EnableAfter
    <3>3. QED
      BY <1>0, <1>7, <3>1, <3>2 DEF UnreportedOf
  <2>2. e # "START_PRESS" => ~Reports(i, "START_PRESS")
    <3>1. ASSUME NEW f \in Settles, e \in TimesEvents, TwoCalls(out, i, e, f)
          PROVE  ~Reports(i, "START_PRESS")
      <4>1. \A g : Reports(i, g) => g \in {e, f}
        BY <3>1, TwoReports
      <4>2. QED
        BY <3>1, <4>1, EventKinds DEF Settles
    <3>2. ASSUME OneCall(out, i, e), e # "START_PRESS" PROVE ~Reports(i, "START_PRESS")
      BY <3>2, OneReports
    <3>3. QED
      BY <1>0, <3>1, <3>2 DEF DimmedCall, ReturnCall
  <2>3. "report" \in Effect(i, e) => ~open[i] /\ is_enable[i] /\ ~Counted(i)
    BY <1>0, <1>1, <1>4, <1>5, <1>7 DEF EvenOf, Counted
  <2>4. open'[i] => ~key_reported'[i]
    BY <1>0, <1>3, <1>7, <2>2, <2>3 DEF UnreportedOf, told
  <2>5. "fade" \in Effect(i, e) => ~key_reported'[i]
    BY <1>3, <1>4, <1>5, <2>1
  <2>6. ASSUME Faded(i), e # "START_PRESS", "fade" \notin Effect(i, e)
        PROVE  /\ ~key_reported'[i]
               /\ Counted(i)' \/ (~is_enable'[i] /\ disabled_for'[i] = "short")
    <3>1. ~key_reported[i] /\ (Counted(i) \/ (~is_enable[i] /\ disabled_for[i] = "short"))
      BY <1>0, <1>7, <2>2, <2>6 DEF UnreportedOf
    <3>2. Counted(i) => Counted(i)'
      BY <1>0, <1>2 DEF Counted, scanState
    <3>3. e \in TimesEvents => Counted(i)'
      BY <1>0, <1>1, <1>2 DEF Counted, UnreportedOf, scanState
    <3>4. disabled_for'[i] = disabled_for[i]
      BY <1>0, <2>6 DEF DimmedCall, DimmingTypeOK
    <3>5. is_enable'[i] => \/ is_enable[i] \/ disabled_for[i] = "second"
                           \/ e \in Presses
      BY <1>0, <2>6 DEF DimmedCall, DimmingTypeOK, EnableAfter
    <3>6. QED
      BY <1>3, <1>4, <1>5, <2>3, <3>1, <3>2, <3>3, <3>4, <3>5
  <2>7. QED
    BY <1>0, <1>2, <1>6, <2>1, <2>4, <2>5, <2>6 DEF UnreportedOf, scanState
<1>8. QED
  BY <1>0, <1>2, <1>7 DEF UnreportedOf

LEMMA UnreportedStep ==
    EvenInv /\ UnreportedInv /\ [DimmingNext]_dimVars => UnreportedInv'
<1> SUFFICES ASSUME EvenInv, UnreportedInv, [DimmingNext]_dimVars PROVE UnreportedInv'
  OBVIOUS
<1>0. DimmingType /\ DimmingType' /\ kind' = kind
  BY DimmingTypeStep, DimmingCases DEF UnreportedInv
<1>1. ASSUME NEW j \in SceneElement, Kept(j) PROVE UnreportedOf(j)'
  <2>1. UnreportedOf(j)
    BY DEF UnreportedInv
  <2>2. Counted(j) => Counted(j)'
    BY <1>1 DEF Kept, Counted
  <2>3. disabled_for[j] = "short" => Counted(j)' \/ disabled_for'[j] = "short"
    BY <1>1 DEF Kept, Counted
  <2>4. QED
    BY <1>1, <2>1, <2>2, <2>3 DEF Kept, UnreportedOf, Faded
<1>2. ASSUME NEW j \in SceneElement PROVE UnreportedOf(j)'
  <2>1. j \in Button
    BY DEF SceneElement
  <2>2. QED
    BY <1>0, <1>1, <2>1, DimmingCases, UnreportedVisit, UnreportedCall
<1>3. SceneElement' = SceneElement
  BY <1>0 DEF SceneElement
<1>4. QED
  BY <1>0, <1>2, <1>3 DEF UnreportedInv

\* A press of a scene button that has the lights fade is not also reported to the
\* gateway as a press, when the contacts are steady during each visit.
THEOREM FadesAreNotPresses == DimmingSpec => []FadeIsNotPress
<1>1. UnreportedInv => FadeIsNotPress
  <2>1. ASSUME out = <<>>, NEW i \in Button PROVE ~Reports(i, "START_PRESS")
    BY <2>1, NoneReports DEF NoCall
  <2>2. QED
    BY <2>1 DEF UnreportedInv, UnreportedOf, FadeIsNotPress, Faded, SceneElement
<1>2. QED
  BY <1>1, EvenInvInit, EvenInvStep, UnreportedInit, UnreportedStep, PTL
  DEF DimmingSpec

-----------------------------------------------------------------------------
(* A lit channel does one thing for a press.                               *)

\* How far a press is: it has done nothing yet and a release toggles; its hold of
\* 500 ms is being reported; it has the lights fade; it is over.
Untouched(i) == ~hold_500ms_flag[i] /\ acts[i] = <<>>

Waits(i) ==
    /\ open[i] \/ Reports(i, "RELEASE")
    /\ Untouched(i) /\ before_st[i] \in {"START_PRESS", "HOLD_50MS"}
    /\ \A e \in HoldEvents \ {"HOLD_50MS"} : ~Reports(i, e)
    /\ hold_step[i] \in {NOT_HELD, 0, 1, 2, STUCK}

Starts(i) ==
    /\ open[i] /\ Untouched(i)
    /\ Reports(i, "HOLD_500MS") /\ hold_step[i] = 3

Fades(i) ==
    /\ open[i] \/ Reports(i, "RELEASE")
    /\ hold_500ms_flag[i] /\ acts[i] = <<"fade">>
    /\ ~Reports(i, "HOLD_500MS")
    /\ open[i] => hold_step[i] \in 3..7 \cup {STUCK}

Over(i) == ~open[i] /\ ~Reports(i, "RELEASE") /\ Len(acts[i]) = 1

Undisturbed(i) ==
    /\ ~uneven[i] /\ ~disturbed[i] /\ ~left_on[i]
    /\ press_cnt[i] > 0 /\ ~Reports(i, "START_PRESS")

OnceOf(i) == Undisturbed(i) => Waits(i) \/ Starts(i) \/ Fades(i) \/ Over(i)

OnceInv == DimmingType /\ \A i \in LightElement : OnceOf(i)

LEMMA OnceInvInit == DimmingInit => OnceInv
<1> SUFFICES ASSUME DimmingInit PROVE OnceInv
  OBVIOUS
<1>1. \A i \in Button : press_cnt[i] = 0
  BY DEF DimmingInit, ScanInit
<1>2. QED
  BY <1>1, DimmingTypeInit DEF OnceInv, OnceOf, Undisturbed, LightElement, SceneElement

LEMMA OnceVisit ==
    ASSUME EvenInv, OnceInv, NEW i \in LightElement, Visited(i), \A f : ~Reports(i, f)
    PROVE  OnceOf(i)'
<1>0. /\ TypeOK /\ i \in Button /\ EvenOf(i) /\ OnceOf(i)
      /\ uneven \in [Button -> BOOLEAN]
  BY DEF EvenInv, OnceInv, DimmingType, DimmingTypeOK, LightElement
<1>a. UNCHANGED <<acts, before_st, hold_500ms_flag, disturbed, left_on>>
  BY DEF Visited, dimState, dimTold, history
<1>1. CASE ScanPress(i)
  <2>1. OneCall(out', i, "START_PRESS")
    BY <1>0, <1>1, PressCalls
  <2>2. Reports(i, "START_PRESS")'
    BY <2>1, OneReports
  <2>3. QED
    BY <2>2 DEF OnceOf, Undisturbed
<1>2. CASE ScanHold(i) /\ uneven' = [uneven EXCEPT ![i] = @ \/ ~pressed'[i]]
  <2>1. ~uneven'[i] => ~uneven[i] /\ open[i]
    BY <1>0, <1>2 DEF EvenOf, ScanHold
  <2>2. press_cnt' = press_cnt
    BY <1>2 DEF ScanHold
  <2>3. Undisturbed(i)' => Undisturbed(i) /\ open[i] /\ (Waits(i) \/ Fades(i))
    BY <1>0, <1>a, <2>1, <2>2 DEF Undisturbed, OnceOf, Starts, Over
  <2>4. CASE HoldSilent(i)
    <3>1. open' = open /\ \A f : ~Reports(i, f)'
      BY <2>4, NoneReports DEF HoldSilent, told
    <3>2. hold_step[i] \in {NOT_HELD, 0, 1, 2, STUCK}
             => hold_step'[i] \in {NOT_HELD, 0, 1, 2, STUCK}
      BY <1>0, <2>4 DEF HoldSilent, HoldFrom, TypeOK, STUCK, NOT_HELD
    <3>3. hold_step[i] \in 3..7 \cup {STUCK} => hold_step'[i] \in 3..7 \cup {STUCK}
      BY <1>0, <2>4 DEF HoldSilent, HoldFrom, TypeOK, STUCK, NOT_HELD
    <3>4. open[i] /\ Waits(i) => Waits(i)'
      BY <1>a, <3>1, <3>2 DEF Waits, Untouched
    <3>5. open[i] /\ Fades(i) => Fades(i)'
      BY <1>a, <3>1, <3>3 DEF Fades
    <3>6. QED
      BY <2>3, <3>4, <3>5 DEF OnceOf
  <2>5. ASSUME NEW n \in 1..6, HoldCall(i, n) PROVE OnceOf(i)'
    <3>1. /\ open' = open /\ n = HoldFrom(hold_step[i]) /\ hold_step'[i] = n + 1
          /\ \A f : Reports(i, f)' <=> f = HoldEvent[n]
      <4>1. \A f : Reports(i, f)' <=> f = HoldEvent[n]
        BY <2>5, OneReports DEF HoldCall
      <4>2. hold_step'[i] = n + 1
        BY <1>0, <2>5 DEF HoldCall, TypeOK
      <4>3. QED
        BY <2>5, <4>1, <4>2 DEF HoldCall
    <3>2. CASE open[i] /\ Waits(i)
      <4>1. n \in {1, 2}
        BY <3>1, <3>2 DEF Waits, HoldFrom, STUCK, NOT_HELD
      <4>2. CASE n = 1
        BY <1>a, <3>1, <3>2, <4>2, HoldNames DEF Waits, Untouched, OnceOf
      <4>3. CASE n = 2
        BY <1>a, <3>1, <3>2, <4>3, HoldNames DEF Waits, Untouched, Starts, OnceOf
      <4>4. QED
        BY <4>1, <4>2, <4>3
    <3>3. CASE open[i] /\ Fades(i)
      <4>1. n \in 3..6
        BY <3>1, <3>3 DEF Fades, HoldFrom, STUCK, NOT_HELD
      <4>2. HoldEvent[n] # "HOLD_500MS"
        BY <4>1, HoldNames
      <4>3. QED
        BY <1>a, <3>1, <3>3, <4>1, <4>2 DEF Fades, OnceOf
    <3>4. QED
      BY <2>3, <3>2, <3>3 DEF OnceOf
  <2>6. QED
    BY <1>0, <1>2, <2>4, <2>5, HoldCalls
<1>3. CASE ScanRelease(i) /\ uneven' = [uneven EXCEPT ![i] = @ \/ pressed'[i]]
  <2>1. /\ OneCall(out', i, "RELEASE") /\ ~open'[i]
        /\ hold_step'[i] = NOT_HELD /\ press_cnt' = press_cnt
    BY <1>0, <1>3, ReleaseCalls DEF TypeOK, ScanRelease
  <2>2. \A f : Reports(i, f)' <=> f = "RELEASE"
    BY <2>1, OneReports
  <2>3. ~uneven'[i] => ~uneven[i] /\ open[i]
    BY <1>0, <1>3 DEF EvenOf, ScanRelease
  <2>4. Undisturbed(i)' => Waits(i) \/ Fades(i)
    BY <1>0, <1>a, <2>1, <2>3 DEF Undisturbed, OnceOf, Starts, Over
  <2>5. Waits(i) => Waits(i)'
    BY <1>a, <2>1, <2>2, HoldNames DEF Waits, Untouched
  <2>6. Fades(i) => Fades(i)'
    BY <1>a, <2>1, <2>2 DEF Fades
  <2>7. QED
    BY <2>4, <2>5, <2>6 DEF OnceOf
<1>4. CASE ScanIdle(i) /\ uneven' = [uneven EXCEPT ![i] = @ \/ pressed'[i]]
  <2>1. PICK e \in Settles : IdleCall(i, e)
    BY <1>0, <1>4, IdleCalls
  <2>2. press_cnt' = press_cnt /\ ~pressed[i]
    BY <1>4 DEF ScanIdle
  <2>3. ~uneven'[i] => ~uneven[i] /\ ~open[i] /\ ~open'[i]
    BY <1>0, <1>4, <2>1, <2>2 DEF EvenOf, IdleCall, TypeOK
  <2>4. Undisturbed(i)' => Over(i) /\ hold_step[i] = NOT_HELD
    BY <1>0, <1>a, <2>2, <2>3
    DEF Undisturbed, OnceOf, Waits, Starts, Fades, EvenOf, TypeOK
  <2>5. e = "NO_PRESS" => ~Reports(i, "RELEASE")'
    <3>1. CASE OneCall(out', i, e)
      BY <3>1, OneReports
    <3>2. ASSUME NEW t \in TimesEvents, TwoCalls(out', i, t, e), e = "NO_PRESS"
          PROVE  ~Reports(i, "RELEASE")'
      <4>1. Reports(i, "RELEASE")' => "RELEASE" \in {t, e}
        BY <3>2, TwoReports
      <4>2. QED
        BY <3>2, <4>1, EventKinds
    <3>3. QED
      BY <2>1, <3>1, <3>2 DEF IdleCall
  <2>6. QED
    BY <1>a, <2>1, <2>3, <2>4, <2>5 DEF OnceOf, Undisturbed, Over, IdleCall
<1>5. CASE uneven' = [uneven EXCEPT ![i] = TRUE]
  BY <1>0, <1>5 DEF OnceOf, Undisturbed
<1>6. QED
  BY <1>1, <1>2, <1>3, <1>4, <1>5 DEF Visited, EvenVisit

LEMMA OnceCall ==
    ASSUME EvenInv, OnceInv, NEW i \in LightElement, NEW e \in Events, Dimmed(i, e)
    PROVE  OnceOf(i)'
<1>0. /\ DimmingTypeOK /\ i \in Button /\ EvenOf(i) /\ OnceOf(i)
      /\ DimmedCall(i, e) /\ UNCHANGED <<scanState, told, uneven>>
  BY DEF EvenInv, OnceInv, DimmingType, LightElement, Dimmed
<1>1. /\ Reports(i, e)
      /\ \A f : Reports(i, f)' => Reports(i, f) /\ f \in Settles /\ e \in TimesEvents
  BY <1>0, ReturnReports DEF DimmedCall
<1>2. e \notin TimesEvents => /\ \A f : Reports(i, f) <=> f = e
                              /\ \A f : ~Reports(i, f)'
  <2>1. e \notin TimesEvents => OneCall(out, i, e) /\ NoCall(out')
    BY <1>0 DEF DimmedCall, ReturnCall
  <2>2. QED
    BY <2>1, OneReports, NoneReports
<1>3. e \in TimesEvents => \A f : Reports(i, f) => f \in {e} \cup Settles
  BY <1>0, ReturnReports DEF DimmedCall
<1>a. /\ \A f \in HoldEvents \cup {"START_PRESS"} : f \notin Settles \cup TimesEvents
      /\ "START_PRESS" \notin HoldEvents
      /\ "RELEASE" \notin TimesEvents
      /\ HoldEvents \subseteq OfPress /\ "START_PRESS" \in OfPress /\ "RELEASE" \in OfPress
  BY EventKinds DEF Settles, OfPress
<1>4. /\ hold_500ms_flag'[i] = FlagAfter(i, e)
      /\ before_st'[i] = BeforeAfter(i, e)
      /\ disturbed'[i] = (\/ disturbed[i] /\ e # "START_PRESS"
                          \/ e \in OfPress /\ (present_lock[i] \/ ~bound[i]))
      /\ left_on'[i] = IF e = "START_PRESS" THEN hold_500ms_flag[i] ELSE left_on[i]
  BY <1>0 DEF DimmedCall, DimmingTypeOK
<1>5. Effect(i, e) = LightEffect(i, e) /\ i \notin SceneElement
  BY DEF Effect, LightElement
<1> DEFINE done == IF e = "START_PRESS" THEN <<>> ELSE acts[i]
<1>6. acts'[i] = IF Len(done) = 2 THEN done
                 ELSE IF "toggle" \in Effect(i, e) THEN Append(done, "toggle")
                 ELSE IF "fade" \in Effect(i, e) THEN Append(done, "fade")
                 ELSE done
  BY <1>0 DEF DimmedCall, DimmingTypeOK
<1>7. CASE Undisturbed(i)' /\ e = "START_PRESS"
  <2>1. bound[i] /\ ~present_lock[i] /\ ~hold_500ms_flag[i]
    BY <1>4, <1>7, <1>a DEF Undisturbed
  <2>2. LightEffect(i, e) = {}
    BY <1>7, <2>1 DEF LightEffect, LightTaps
  <2>3. ~hold_500ms_flag'[i] /\ acts'[i] = <<>> /\ before_st'[i] = "START_PRESS"
    BY <1>4, <1>5, <1>6, <1>7, <2>1, <2>2 DEF FlagAfter, BeforeAfter
  <2>4. open[i] /\ hold_step[i] \in {NOT_HELD, 0}
    BY <1>0, <1>1, <1>7 DEF EvenOf, Undisturbed
  <2>5. Waits(i)'
    BY <1>0, <1>2, <1>7, <1>a, <2>3, <2>4 DEF Waits, Untouched, scanState, told
  <2>6. QED
    BY <2>5 DEF OnceOf
<1>8. CASE Undisturbed(i)' /\ e # "START_PRESS"
  <2>1. /\ Undisturbed(i) /\ ~uneven[i] /\ press_cnt[i] > 0
        /\ e \in OfPress => bound[i] /\ ~present_lock[i]
    <3>1. ~Reports(i, "START_PRESS")
      BY <1>2, <1>3, <1>8, <1>a
    <3>2. QED
      BY <1>0, <1>4, <1>8, <3>1 DEF Undisturbed, scanState
  <2>2. CASE Waits(i)
    <3>1. e \in {"HOLD_50MS", "RELEASE"}
      BY <1>0, <1>1, <1>2, <1>8, <1>a, <2>1, <2>2, EventKinds
      DEF Waits, EvenOf, Settles
    <3>2. bound[i] /\ ~present_lock[i] /\ e \in OfPress
      BY <1>a, <2>1, <3>1, HoldNames
    <3>3. CASE e = "HOLD_50MS"
      <4>1. LightEffect(i, e) = {}
        BY <3>2, <3>3 DEF LightEffect, LightTaps
      <4>2. Untouched(i)' /\ before_st'[i] = "HOLD_50MS"
        BY <1>4, <1>5, <1>6, <2>2, <3>2, <3>3, <4>1
        DEF Untouched, Waits, FlagAfter, BeforeAfter
      <4>3. open[i] /\ e \notin TimesEvents
        BY <1>0, <1>1, <1>a, <2>1, <3>3, HoldNames DEF EvenOf
      <4>4. Waits(i)'
        BY <1>0, <1>2, <2>2, <4>2, <4>3 DEF Waits, scanState, told
      <4>5. QED
        BY <4>4 DEF OnceOf
    <3>4. CASE e = "RELEASE"
      <4>1. LightEffect(i, e) = {"toggle"}
        BY <2>2, <3>2, <3>4 DEF LightEffect, LightTaps, Waits, Untouched
      <4>2. acts'[i] = Append(<<>>, "toggle")
        BY <1>5, <1>6, <2>2, <3>4, <4>1 DEF Waits, Untouched
      <4>3. Len(acts'[i]) = 1
        BY <4>2
      <4>4. ~open[i] /\ ~Reports(i, "RELEASE")'
        BY <1>0, <1>1, <1>2, <1>a, <2>1, <3>4 DEF EvenOf, Settles
      <4>5. QED
        BY <1>0, <4>3, <4>4 DEF Over, OnceOf, told
    <3>5. QED
      BY <3>1, <3>3, <3>4
  <2>3. CASE Starts(i)
    <3>1. e = "HOLD_500MS" /\ e \notin TimesEvents
      BY <1>2, <1>3, <1>a, <2>3, HoldNames, TimesNames DEF Starts, Settles
    <3>2. bound[i] /\ ~present_lock[i]
      BY <1>a, <2>1, <3>1, HoldNames
    <3>3. LightEffect(i, e) = {"fade"}
      BY <2>3, <3>1, <3>2 DEF LightEffect, LightTaps
    <3>4. acts'[i] = Append(<<>>, "fade") /\ hold_500ms_flag'[i]
      <4>1. Effect(i, e) = {"fade"} /\ e # "START_PRESS" /\ acts[i] = <<>>
        BY <1>5, <2>3, <3>1, <3>3 DEF Starts, Untouched
      <4>2. done = <<>> /\ Len(done) # 2
        BY <4>1
      <4>3. "toggle" \notin Effect(i, e) /\ "fade" \in Effect(i, e)
        BY <4>1
      <4>4. acts'[i] = Append(<<>>, "fade")
        <5> HIDE DEF done
        <5>1. acts'[i] = Append(done, "fade")
          BY <1>6, <4>2, <4>3, Zenon
        <5>2. QED
          BY <4>2, <5>1
      <4>5. hold_500ms_flag'[i]
        BY <1>4, <4>3 DEF FlagAfter
      <4>6. QED
        BY <4>4, <4>5
    <3>5. acts'[i] = <<"fade">>
      BY <3>4
    <3>6. Fades(i)'
      BY <1>0, <1>2, <2>3, <3>1, <3>4, <3>5 DEF Starts, Fades, scanState, told
    <3>7. QED
      BY <3>6 DEF OnceOf
  <2>4. CASE Fades(i)
    <3>1. e \in (HoldEvents \ {"HOLD_500MS"}) \cup {"RELEASE"}
      BY <1>0, <1>1, <1>2, <1>8, <1>a, <2>1, <2>4, EventKinds
      DEF Fades, EvenOf, Settles
    <3>2. bound[i] /\ ~present_lock[i] /\ e \notin TimesEvents
      BY <1>a, <2>1, <3>1
    <3>3. LightEffect(i, e) \subseteq {"stop"}
      BY <2>4, <3>1, <3>2 DEF LightEffect, LightTaps, Fades
    <3>4. acts'[i] = <<"fade">>
      <4>1. acts'[i] = acts[i]
        BY <1>5, <1>6, <1>8, <3>3
      <4>2. QED
        BY <2>4, <4>1 DEF Fades
    <3>5. CASE e = "RELEASE"
      <4>1. ~open[i] /\ ~Reports(i, "RELEASE")'
        BY <1>0, <1>1, <1>2, <2>1, <3>2, <3>5 DEF EvenOf, Settles
      <4>2. Len(acts'[i]) = 1
        BY <3>4
      <4>3. QED
        BY <1>0, <4>1, <4>2 DEF Over, OnceOf, told
    <3>6. CASE e # "RELEASE"
      <4>1. "stop" \notin LightEffect(i, e)
        BY <3>6 DEF LightEffect
      <4>2. hold_500ms_flag'[i]
        BY <1>4, <1>5, <2>4, <4>1 DEF FlagAfter, Fades
      <4>3. open[i]
        BY <1>0, <1>1, <2>1, <3>1, <3>6 DEF EvenOf
      <4>4. Fades(i)'
        BY <1>0, <1>2, <2>4, <3>2, <3>4, <4>2, <4>3 DEF Fades, scanState, told
      <4>5. QED
        BY <4>4 DEF OnceOf
    <3>7. QED
      BY <3>5, <3>6
  <2>5. CASE Over(i)
    <3>1. e \notin HoldEvents \cup {"RELEASE"}
      BY <1>0, <1>1, <2>1, <2>5 DEF EvenOf, Over
    <3>2. LightEffect(i, e) = {}
      BY <1>8, <3>1, HoldNames DEF LightEffect, LightTaps
    <3>3. acts'[i] = acts[i]
      BY <1>5, <1>6, <1>8, <3>2
    <3>4. ~Reports(i, "RELEASE")'
      BY <1>1, <2>5 DEF Over
    <3>5. QED
      BY <1>0, <2>5, <3>3, <3>4 DEF Over, OnceOf, told
  <2>6. QED
    BY <1>0, <2>1, <2>2, <2>3, <2>4, <2>5 DEF OnceOf
<1>9. QED
  BY <1>7, <1>8 DEF OnceOf

LEMMA OnceStep == EvenInv /\ OnceInv /\ [DimmingNext]_dimVars => OnceInv'
<1> SUFFICES ASSUME EvenInv, OnceInv, [DimmingNext]_dimVars PROVE OnceInv'
  OBVIOUS
<1>0. DimmingType /\ DimmingType' /\ kind' = kind
  BY DimmingTypeStep, DimmingCases DEF OnceInv
<1>1. ASSUME NEW j \in LightElement, Kept(j) PROVE OnceOf(j)'
  <2>1. OnceOf(j)
    BY DEF OnceInv
  <2>2. QED
    BY <1>1, <2>1 DEF Kept, OnceOf, Undisturbed, Waits, Starts, Fades, Over, Untouched
<1>2. ASSUME NEW j \in LightElement PROVE OnceOf(j)'
  <2>1. j \in Button
    BY DEF LightElement
  <2>2. QED
    BY <1>0, <1>1, <2>1, DimmingCases, OnceVisit, OnceCall
<1>3. LightElement' = LightElement
  BY <1>0 DEF LightElement, SceneElement
<1>4. QED
  BY <1>0, <1>2, <1>3 DEF OnceInv

\* An undisturbed press of a lit channel with steady contacts toggles it or has the
\* lights fade, never both and never neither.
THEOREM PressesActOnce == DimmingSpec => []PressActsOnce
<1>1. OnceInv => PressActsOnce
  <2>1. ASSUME out = <<>>, NEW i \in Button, NEW f PROVE ~Reports(i, f)
    BY <2>1, NoneReports DEF NoCall
  <2>2. ASSUME OnceInv, NEW i \in LightElement, AtRest(i), press_cnt[i] > 0,
               ~disturbed[i], ~uneven[i], ~left_on[i]
        PROVE  Len(acts[i]) = 1
    <3>1. i \in Button /\ OnceOf(i)
      BY <2>2 DEF LightElement, OnceInv
    <3>2. Waits(i) \/ Starts(i) \/ Fades(i) \/ Over(i)
      BY <2>1, <2>2, <3>1 DEF OnceOf, Undisturbed, AtRest
    <3>3. QED
      BY <2>1, <2>2, <3>1, <3>2 DEF AtRest, Waits, Starts, Fades, Over
  <2>3. QED
    BY <2>2 DEF PressActsOnce
<1>2. QED
  BY <1>1, EvenInvInit, EvenInvStep, OnceInvInit, OnceStep, PTL DEF DimmingSpec
=============================================================================

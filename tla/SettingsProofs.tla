---------------------------- MODULE SettingsProofs ----------------------------
(***************************************************************************)
(* Proofs about what a user sets and expects to stay set.                  *)
(*                                                                         *)
(* LockSchedule, for every length of day and week, every set of buttons    *)
(* and of windows: the comparisons of lock_schedule.c are those of a       *)
(* cyclic interval, the locks follow the schedule in every minute the      *)
(* task has seen, and a restart keeps them.                                *)
(*                                                                         *)
(* SwConfig, for every number of channels and of elements before them:     *)
(* the settings keep their ranges, what the gateway was told of them is    *)
(* what they are, a restart takes back nothing but links, and the end of   *)
(* an announcement leaves no false belief in those either.                 *)
(***************************************************************************)
EXTENDS LockSchedule, SwConfig, TLAPS

-----------------------------------------------------------------------------
(* The arithmetic of days and weeks.                                       *)

LEMMA ModuloWithin ==
    ASSUME NEW n \in Nat \ {0}, NEW x \in 0..(n - 1)
    PROVE  x % n = x
OBVIOUS

\* The first remainder below zero.
LEMMA ModuloBelow ==
    ASSUME NEW n \in Nat \ {0}, NEW x \in Int, -n <= x, x < 0
    PROVE  x % n = x + n
<1> DEFINE q == x \div n
           r == x % n
<1>1. q \in Int /\ r \in 0..(n - 1) /\ x = n * q + r
  OBVIOUS
<1> HIDE DEF q, r
<1>2. q = -1
  <2>1. CASE q >= 0
    <3>1. n * q >= 0
      BY <1>1, <2>1
    <3> QED
      BY <1>1, <3>1
  <2>2. CASE q <= -2
    <3>1. n * q <= n * (-2)
      BY <1>1, <2>2
    <3> QED
      BY <1>1, <3>1
  <2> QED
    BY <1>1, <2>1, <2>2
<1>3. r = x + n
  BY <1>1, <1>2
<1> QED
  BY <1>3 DEF r

LEMMA ModuloFull ==
    ASSUME NEW n \in Nat \ {0}
    PROVE  n % n = 0
<1> DEFINE q == n \div n
           r == n % n
<1>1. q \in Int /\ r \in 0..(n - 1) /\ n = n * q + r
  OBVIOUS
<1> HIDE DEF q, r
<1>2. q = 1
  <2>1. CASE q <= 0
    <3>1. n * q <= 0
      BY <1>1, <2>1
    <3> QED
      BY <1>1, <3>1
  <2>2. CASE q >= 2
    <3>1. n * q >= n * 2
      BY <1>1, <2>2
    <3> QED
      BY <1>1, <3>1
  <2> QED
    BY <1>1, <2>1, <2>2
<1> QED
  BY <1>1, <1>2 DEF r

\* The next minute is another one.
LEMMA NextDiffers ==
    ASSUME NEW m \in Minute
    PROVE  (m + 1) % DAY \in Minute /\ (m + 1) % DAY # m
<1>1. CASE m + 1 \in Minute
  BY <1>1, ModuloWithin, LockScheduleAssumption DEF Minute
<1>2. CASE m + 1 = DAY
  BY <1>2, ModuloFull, LockScheduleAssumption DEF Minute
<1> QED
  BY <1>1, <1>2, LockScheduleAssumption DEF Minute

\* The five comparisons of lock_schedule_check_active_time_point are the
\* membership in an interval of the clock's face, whether it spans midnight or
\* not, for every length of the day and every window a message may ask for.
THEOREM WindowIsCyclic ==
    ASSUME NEW w \in AnyWindow, Valid(w), NEW m \in Minute
    PROVE  InWindow(w, m) <=> During(w, m)
<1> DEFINE a == w.start_t_min
           z == w.stop_t_min
<1>1. a \in 0..(DAY - 1) /\ z \in 0..(DAY - 1) /\ m \in 0..(DAY - 1)
      /\ DAY \in Nat \ {0}
  BY LockScheduleAssumption DEF AnyWindow, Valid, Minute
<1>2. /\ InWindow(w, m) <=> \/ a > z /\ (m >= a \/ m < z)
                            \/ a < z /\ m >= a /\ m < z
                            \/ a = z
      /\ During(w, m) <=> a = z \/ (m - a) % DAY < (z - a) % DAY
  BY DEF InWindow, During
<1> HIDE DEF a, z
<1>3. (m - a) % DAY = IF m >= a THEN m - a ELSE m - a + DAY
  <2>1. CASE m >= a
    BY <1>1, <2>1, ModuloWithin
  <2>2. CASE m < a
    BY <1>1, <2>2, ModuloBelow
  <2> QED
    BY <1>1, <2>1, <2>2
<1>4. (z - a) % DAY = IF z >= a THEN z - a ELSE z - a + DAY
  <2>1. CASE z >= a
    BY <1>1, <2>1, ModuloWithin
  <2>2. CASE z < a
    BY <1>1, <2>2, ModuloBelow
  <2> QED
    BY <1>1, <2>1, <2>2
<1> QED
  BY <1>1, <1>2, <1>3, <1>4

\* The bit the code shifts to is that of the day.
LEMMA BitOfDay ==
    ASSUME NEW w \in AnyWindow, wday \in WeekDay
    PROVE  DayPassed(w) <=> OnDay(w, wday)
<1>1. WEEK \in Nat \ {0} /\ wday \in 0..(WEEK - 1)
  BY LockScheduleAssumption DEF WeekDay
<1>2. CASE wday = 0
  <2>1. (WEEK - wday) % WEEK = 0 /\ WEEK - 1 - (WEEK - 1) = 0
    BY <1>1, <1>2, ModuloFull
  <2> QED
    BY <1>2, <2>1 DEF DayPassed, OnDay
<1>3. CASE wday # 0
  <2>1. (WEEK - wday) % WEEK = WEEK - wday
        /\ WEEK - 1 - (wday - 1) = WEEK - wday
    BY <1>1, <1>3, ModuloWithin
  <2> QED
    BY <1>3, <2>1 DEF DayPassed, OnDay
<1> QED
  BY <1>2, <1>3

-----------------------------------------------------------------------------
(* Types.                                                                  *)

LEMMA LockInit == Init => TypeOK
<1> SUFFICES ASSUME Init PROVE TypeOK
  OBVIOUS
<1> USE LockScheduleAssumption DEF Init, TypeOK
<1>1. DefaultWindow \in {w \in Window \cup {DefaultWindow} : Valid(w)}
  BY DEF DefaultWindow, Valid
<1>2. schedule \in [Button -> Schedule]
  BY <1>1 DEF Schedule
<1>3. present_lock \in [Button -> Lock]
  BY DEF Lock
<1>4. 0 \in WeekDay /\ 0 \in Minute
  BY DEF WeekDay, Minute
<1> QED
  BY <1>2, <1>3, <1>4

LEMMA CheckedType ==
    ASSUME NEW s, NEW held \in Lock, NEW m
    PROVE  Checked(s, held, m) \in Lock
BY DEF Checked, Lock

LEMMA CheckType ==
    ASSUME TypeOK, NEW new, NEW m, CheckLockUnlock(new, m)
    PROVE  /\ present_lock' \in [Button -> Lock]
           /\ stored_lock' \in [Button -> Lock]
           /\ unsaved' \subseteq Button
<1>1. present_lock' \in [Button -> Lock]
  BY CheckedType DEF CheckLockUnlock, TypeOK
<1> QED
  BY <1>1 DEF CheckLockUnlock, TypeOK

LEMMA LockStepType == TypeOK /\ [Next]_vars => TypeOK'
<1> SUFFICES ASSUME TypeOK, [Next]_vars PROVE TypeOK'
  OBVIOUS
<1>1. CASE BecomeReady
  BY <1>1 DEF BecomeReady, TypeOK, clock, flash
<1>2. CASE CheckMinute
  BY <1>2, CheckType DEF CheckMinute, TypeOK, clock
<1>3. CASE NextMinute
  <2>1. minute' \in Minute
    BY <1>3, NextDiffers DEF NextMinute, TypeOK
  <2>2. wday' \in WeekDay
    BY <1>3, ModuloWithin, LockScheduleAssumption
       DEF NextMinute, TypeOK, WeekDay
  <2> QED
    BY <1>3, <2>1, <2>2 DEF NextMinute, TypeOK, flash
<1>4. CASE Expire
  BY <1>4 DEF Expire, TypeOK, flash
<1>5. ASSUME NEW d \in WeekDay, NEW m \in Minute, timestamp_set(d, m)
      PROVE  TypeOK'
  BY <1>5 DEF timestamp_set, TypeOK, flash
<1>6. ASSUME NEW b \in Button, NEW w \in Window, LockBySchedule(b, w)
      PROVE  TypeOK'
  <2>1. [lock |-> TRUE, en_schedule |-> TRUE, window |-> w] \in Schedule
    BY <1>6 DEF LockBySchedule, Schedule
  <2>2. schedule' \in [Button -> Schedule]
    BY <1>6, <2>1 DEF LockBySchedule, TypeOK
  <2>3. CheckLockUnlock(schedule', present_min)
    BY <1>6 DEF LockBySchedule
  <2> QED
    BY <1>6, <2>2, <2>3, CheckType DEF LockBySchedule, TypeOK, clock
<1>7. ASSUME NEW b \in Button, NEW locked \in BOOLEAN, SetAlways(b, locked)
      PROVE  TypeOK'
  <2>1. schedule' \in [Button -> Schedule]
    <3>1. schedule[b] \in Schedule
      BY DEF TypeOK
    <3>2. [schedule[b] EXCEPT !.lock = locked, !.en_schedule = FALSE]
            \in Schedule
      BY <3>1 DEF Schedule
    <3>3. schedule' = [schedule EXCEPT
            ![b] = [schedule[b] EXCEPT !.lock = locked, !.en_schedule = FALSE]]
      BY <1>7 DEF SetAlways, TypeOK, Schedule
    <3> QED
      BY <3>2, <3>3 DEF TypeOK
  <2>2. present_lock' \in [Button -> Lock]
    BY <1>7 DEF SetAlways, TypeOK, Lock
  <2> QED
    BY <1>7, <2>1, <2>2 DEF SetAlways, TypeOK, clock, flash
<1>8. CASE lock_schedule_store
  BY <1>8 DEF lock_schedule_store, TypeOK, clock
<1>9. CASE Restart
  <2>1. present_lock' \in [Button -> Lock]
    BY <1>9 DEF Restart, Restored, TypeOK, Lock
  <2>2. 0 \in WeekDay /\ 0 \in Minute
    BY LockScheduleAssumption DEF WeekDay, Minute
  <2> QED
    BY <1>9, <2>1, <2>2 DEF Restart, TypeOK, flash
<1>10. CASE UNCHANGED vars
  BY <1>10 DEF vars, TypeOK, clock, flash
<1> QED
  BY <1>1, <1>2, <1>3, <1>4, <1>5, <1>6, <1>7, <1>8, <1>9, <1>10 DEF Next

\* Every variable keeps its type: no message, however wrong its window, makes a
\* schedule the comparisons are not meant for.
THEOREM LockTypeCorrect == Spec => []TypeOK
<1> QED
  BY LockInit, LockStepType, PTL DEF Spec

-----------------------------------------------------------------------------
(* The locks follow the schedule.                                          *)

\* Before the device is ready, a clock it believes was set since the restart.
FreshClock == HasTime /\ ~is_ready_flag => jumped

FollowInv == TypeOK /\ FreshClock /\ FollowsSchedule

\* A check at the present minute gives what the schedule wants.
LEMMA CheckedIsWanted ==
    ASSUME TypeOK, HasTime, NEW s \in Schedule, NEW held
    PROVE  Checked(s, held, minute) = Wanted(s)
<1>1. s.window \in AnyWindow /\ Valid(s.window)
      /\ s.lock \in BOOLEAN /\ s.en_schedule \in BOOLEAN
  <2>1. DefaultWindow \in AnyWindow
    BY DEF DefaultWindow, AnyWindow
  <2> QED
    BY <2>1, LockScheduleAssumption DEF Schedule
<1>2. InWindow(s.window, minute) <=> During(s.window, minute)
  BY <1>1, WindowIsCyclic DEF TypeOK
<1>3. DayPassed(s.window) <=> OnDay(s.window, wday)
  BY <1>1, BitOfDay DEF TypeOK
<1> QED
  BY <1>1, <1>2, <1>3 DEF Checked, Wanted

\* What the schedule of a button wants depends on the clock and on nothing else.
LEMMA FollowStill ==
    ASSUME FollowInv, UNCHANGED <<schedule, present_lock, clock>>,
           is_ready_flag' = is_ready_flag, present_min' = present_min,
           jumped' = jumped
    PROVE  FollowsSchedule' /\ FreshClock'
BY DEF FollowInv, FollowsSchedule, FreshClock, HasTime, Wanted, clock

LEMMA FollowStep == FollowInv /\ [Next]_vars => FollowsSchedule' /\ FreshClock'
<1> SUFFICES ASSUME FollowInv, [Next]_vars
             PROVE  FollowsSchedule' /\ FreshClock'
  OBVIOUS
<1> USE DEF FollowInv
<1>1. CASE BecomeReady
  BY <1>1 DEF BecomeReady, FollowsSchedule, FreshClock, HasTime, clock
<1>2. CASE CheckMinute
  <2>1. /\ HasTime /\ UNCHANGED <<schedule, clock>>
        /\ is_ready_flag' /\ minute' = minute /\ wday' = wday
        /\ present_lock' = [b \in Button |->
                              Checked(schedule[b], present_lock[b], minute)]
    BY <1>2 DEF CheckMinute, CheckLockUnlock, clock
  <2>2. \A b \in Button : present_lock'[b] = Wanted(schedule[b])
    BY <2>1, CheckedIsWanted DEF TypeOK
  <2>3. \A b \in Button : Wanted(schedule[b])' = Wanted(schedule[b])
    BY <2>1 DEF Wanted
  <2> QED
    BY <2>1, <2>2, <2>3 DEF FollowsSchedule, FreshClock
<1>3. CASE NextMinute
  <2>1. minute' # minute
    BY <1>3, NextDiffers DEF NextMinute, TypeOK
  <2>2. (HasTime' <=> HasTime) /\ is_ready_flag' = is_ready_flag
        /\ present_min' = present_min /\ jumped' = jumped
    BY <1>3 DEF NextMinute, HasTime
  <2>3. HasTime /\ is_ready_flag => minute' # present_min
    BY <1>3, <2>1 DEF NextMinute
  <2> QED
    BY <2>2, <2>3 DEF FollowsSchedule, FreshClock
<1>4. CASE Expire
  BY <1>4 DEF Expire, FollowsSchedule, FreshClock, HasTime
<1>5. ASSUME NEW d \in WeekDay, NEW m \in Minute, timestamp_set(d, m)
      PROVE  FollowsSchedule' /\ FreshClock'
  BY <1>5 DEF timestamp_set, FollowsSchedule, FreshClock
<1>6. ASSUME NEW b \in Button, NEW w \in Window, LockBySchedule(b, w)
      PROVE  FollowsSchedule' /\ FreshClock'
  <2>1. /\ UNCHANGED clock /\ minute' = minute /\ wday' = wday
        /\ is_ready_flag' = is_ready_flag /\ present_min' = present_min
        /\ jumped' = jumped
        /\ present_lock' = [c \in Button |->
                         Checked(schedule'[c], present_lock[c], present_min)]
    BY <1>6 DEF LockBySchedule, CheckLockUnlock, clock
  <2>2. schedule' \in [Button -> Schedule]
    BY LockStepType DEF TypeOK
  <2>3. ASSUME HasTime, minute = present_min, NEW c \in Button
        PROVE  present_lock'[c] = Wanted(schedule'[c])
    BY <2>1, <2>2, <2>3, CheckedIsWanted
  <2>4. \A c \in Button : Wanted(schedule[c])' = Wanted(schedule'[c])
    BY <2>1 DEF Wanted
  <2>5. HasTime' <=> HasTime
    BY <2>1 DEF HasTime, clock
  <2> QED
    BY <2>1, <2>3, <2>4, <2>5 DEF FollowsSchedule, FreshClock
<1>7. ASSUME NEW b \in Button, NEW locked \in BOOLEAN, SetAlways(b, locked)
      PROVE  FollowsSchedule' /\ FreshClock'
  <2>1. /\ UNCHANGED clock /\ minute' = minute /\ wday' = wday
        /\ is_ready_flag' = is_ready_flag /\ present_min' = present_min
        /\ jumped' = jumped
    BY <1>7 DEF SetAlways, clock
  <2>2. /\ schedule'[b].lock = locked /\ schedule'[b].en_schedule = FALSE
        /\ present_lock'[b] = IF locked THEN TS_LOCK ELSE TS_UNLOCK
        /\ \A c \in Button \ {b} : schedule'[c] = schedule[c]
                                   /\ present_lock'[c] = present_lock[c]
    BY <1>7 DEF SetAlways, TypeOK, Schedule
  <2>3. Wanted(schedule[b])' = IF locked THEN TS_LOCK ELSE TS_UNLOCK
    BY <2>2 DEF Wanted
  <2>4. \A c \in Button \ {b} : Wanted(schedule[c])' = Wanted(schedule[c])
    BY <2>1, <2>2 DEF Wanted
  <2>5. HasTime' <=> HasTime
    BY <2>1 DEF HasTime, clock
  <2> QED
    BY <2>1, <2>2, <2>3, <2>4, <2>5 DEF FollowsSchedule, FreshClock
<1>8. CASE lock_schedule_store
  BY <1>8, FollowStill DEF lock_schedule_store
<1>9. CASE Restart
  BY <1>9 DEF Restart, FollowsSchedule, FreshClock, HasTime
<1>10. CASE UNCHANGED vars
  BY <1>10, FollowStill DEF vars
<1> QED
  BY <1>1, <1>2, <1>3, <1>4, <1>5, <1>6, <1>7, <1>8, <1>9, <1>10 DEF Next

\* In every minute the task has seen, unless the clock was set since, exactly
\* the buttons are locked whose schedule says so, for every order of messages,
\* clock settings, expiries and restarts.
THEOREM LockFollowsSchedule == Spec => []FollowsSchedule
<1>1. Init => FollowInv
  BY LockInit DEF Init, FollowInv, FollowsSchedule, FreshClock, HasTime
<1>2. FollowInv /\ [Next]_vars => FollowInv'
  BY LockStepType, FollowStep DEF FollowInv
<1>3. FollowInv => FollowsSchedule
  BY DEF FollowInv
<1> QED
  BY <1>1, <1>2, <1>3, PTL DEF Spec

-----------------------------------------------------------------------------
(* A restart keeps the locks.                                              *)

\* While nothing is being stored the schedule in flash is the one in RAM.
ScheduleStored == ~storing => stored_schedule = schedule

\* A button that is always or never locked is so.
AlwaysHolds ==
    \A b \in Button :
        /\ ~schedule[b].lock => present_lock[b] = TS_UNLOCK
        /\ schedule[b].lock /\ ~schedule[b].en_schedule
               => present_lock[b] = TS_LOCK

\* Only an unsaved button has another status in flash.
StatusStored ==
    \A b \in Button : b \notin unsaved => stored_lock[b] = present_lock[b]

RestartInv == TypeOK /\ ScheduleStored /\ AlwaysHolds /\ StatusStored

\* Checking the buttons against any schedules leaves the always and the never
\* locked right, and stores the status if it changes another one.
LEMMA CheckKeeps ==
    ASSUME TypeOK, StatusStored, NEW new, NEW m, CheckLockUnlock(new, m),
           \A b \in Button : \/ new[b].lock /\ new[b].en_schedule
                             \/ new[b] = schedule[b],
           AlwaysHolds
    PROVE  /\ StatusStored'
           /\ \A b \in Button :
                /\ ~new[b].lock => present_lock'[b] = TS_UNLOCK
                /\ new[b].lock /\ ~new[b].en_schedule
                      => present_lock'[b] = TS_LOCK
<1>1. \A b \in Button : present_lock'[b] = Checked(new[b], present_lock[b], m)
  BY DEF CheckLockUnlock
<1>2. \A b \in Button :
                /\ ~new[b].lock => present_lock'[b] = TS_UNLOCK
                /\ new[b].lock /\ ~new[b].en_schedule
                      => present_lock'[b] = TS_LOCK
  BY <1>1 DEF Checked
<1>3. CASE \E b \in Button : Stores(new[b], present_lock[b], m)
  BY <1>2, <1>3 DEF CheckLockUnlock, StatusStored
<1>4. CASE ~\E b \in Button : Stores(new[b], present_lock[b], m)
  <2>1. \A b \in Button : present_lock'[b] = present_lock[b]
    <3> SUFFICES ASSUME NEW b \in Button
                 PROVE  present_lock'[b] = present_lock[b]
      OBVIOUS
    <3>1. CASE new[b].lock /\ new[b].en_schedule
      BY <1>1, <1>4, <3>1 DEF Stores, Checked
    <3>2. CASE ~(new[b].lock /\ new[b].en_schedule)
      BY <1>2, <3>2 DEF AlwaysHolds
    <3> QED
      BY <3>1, <3>2
  <2>2. UNCHANGED <<stored_lock, unsaved>>
    BY <1>4 DEF CheckLockUnlock
  <2> QED
    BY <1>2, <2>1, <2>2 DEF StatusStored
<1> QED
  BY <1>2, <1>3, <1>4

LEMMA RestartStep ==
    RestartInv /\ [Next]_vars => ScheduleStored' /\ AlwaysHolds' /\ StatusStored'
<1> SUFFICES ASSUME RestartInv, [Next]_vars
             PROVE  ScheduleStored' /\ AlwaysHolds' /\ StatusStored'
  OBVIOUS
<1> USE DEF RestartInv
<1>1. CASE UNCHANGED <<schedule, present_lock, flash, storing, unsaved>>
  BY <1>1 DEF ScheduleStored, AlwaysHolds, StatusStored, flash
<1>2. CASE CheckMinute
  <2>1. /\ CheckLockUnlock(schedule, minute) /\ schedule' = schedule
        /\ UNCHANGED <<stored_schedule, storing>>
    BY <1>2 DEF CheckMinute
  <2>2. /\ StatusStored'
        /\ \A b \in Button :
              /\ ~schedule[b].lock => present_lock'[b] = TS_UNLOCK
              /\ schedule[b].lock /\ ~schedule[b].en_schedule
                    => present_lock'[b] = TS_LOCK
    BY <2>1, CheckKeeps
  <2> QED
    BY <2>1, <2>2 DEF ScheduleStored, AlwaysHolds
<1>3. ASSUME NEW b \in Button, NEW w \in Window, LockBySchedule(b, w)
      PROVE  ScheduleStored' /\ AlwaysHolds' /\ StatusStored'
  <2>1. /\ CheckLockUnlock(schedule', present_min) /\ storing'
        /\ schedule' = [schedule EXCEPT ![b] =
                          [lock |-> TRUE, en_schedule |-> TRUE, window |-> w]]
    BY <1>3 DEF LockBySchedule
  <2>2. \A c \in Button : \/ schedule'[c].lock /\ schedule'[c].en_schedule
                          \/ schedule'[c] = schedule[c]
    BY <2>1 DEF TypeOK
  <2> DEFINE new == schedule'
  <2>3. CheckLockUnlock(new, present_min)
        /\ \A c \in Button : \/ new[c].lock /\ new[c].en_schedule
                             \/ new[c] = schedule[c]
    BY <2>1, <2>2
  <2>4. /\ StatusStored'
        /\ \A c \in Button :
              /\ ~new[c].lock => present_lock'[c] = TS_UNLOCK
              /\ new[c].lock /\ ~new[c].en_schedule
                    => present_lock'[c] = TS_LOCK
    <3> HIDE DEF new
    <3> QED
      BY <2>3, CheckKeeps
  <2> QED
    BY <2>1, <2>4 DEF ScheduleStored, AlwaysHolds
<1>4. ASSUME NEW b \in Button, NEW locked \in BOOLEAN, SetAlways(b, locked)
      PROVE  ScheduleStored' /\ AlwaysHolds' /\ StatusStored'
  <2>1. storing' /\ UNCHANGED flash /\ unsaved' = unsaved \cup {b}
    BY <1>4 DEF SetAlways
  <2>2. /\ schedule'[b].lock = locked
        /\ present_lock'[b] = IF locked THEN TS_LOCK ELSE TS_UNLOCK
        /\ \A c \in Button \ {b} : schedule'[c] = schedule[c]
                                   /\ present_lock'[c] = present_lock[c]
    BY <1>4 DEF SetAlways, TypeOK, Schedule
  <2>3. AlwaysHolds'
    BY <2>2 DEF AlwaysHolds
  <2>4. StatusStored'
    BY <2>1, <2>2 DEF StatusStored, flash
  <2> QED
    BY <2>1, <2>3, <2>4 DEF ScheduleStored
<1>5. CASE lock_schedule_store
  BY <1>5 DEF lock_schedule_store, ScheduleStored, AlwaysHolds, StatusStored
<1>6. CASE Restart
  BY <1>6 DEF Restart, Restored, ScheduleStored, AlwaysHolds, StatusStored,
              TypeOK, flash
<1>7. CASE BecomeReady \/ NextMinute \/ Expire \/ UNCHANGED vars
  BY <1>1, <1>7 DEF BecomeReady, NextMinute, Expire, vars
<1>8. ASSUME NEW d \in WeekDay, NEW m \in Minute, timestamp_set(d, m)
      PROVE  ScheduleStored' /\ AlwaysHolds' /\ StatusStored'
  BY <1>1, <1>8 DEF timestamp_set
<1> QED
  BY <1>2, <1>3, <1>4, <1>5, <1>6, <1>7, <1>8 DEF Next

\* A restart between two messages changes no lock, except that of a button put
\* on a schedule which has not changed it since.
THEOREM LockSurvivesRestart == Spec => RestartKeepsLock
<1>1. Init => RestartInv
  BY LockInit DEF Init, RestartInv, ScheduleStored, AlwaysHolds, StatusStored
<1>2. RestartInv /\ [Next]_vars => RestartInv'
  BY LockStepType, RestartStep DEF RestartInv
<1>3. RestartInv =>
        [Restart /\ ~storing =>
          \A b \in Button : present_lock'[b] # present_lock[b]
                                => b \in unsaved /\ schedule[b].en_schedule]_vars
  <2> SUFFICES ASSUME RestartInv, Restart, ~storing, NEW b \in Button,
                      present_lock'[b] # present_lock[b]
               PROVE  b \in unsaved /\ schedule[b].en_schedule
    OBVIOUS
  <2>1. present_lock'[b] = Restored(schedule[b], stored_lock[b])
    BY DEF Restart, RestartInv, ScheduleStored
  <2>2. schedule[b].lock /\ schedule[b].en_schedule
    BY <2>1 DEF Restored, RestartInv, AlwaysHolds
  <2> QED
    BY <2>1, <2>2 DEF Restored, RestartInv, StatusStored
<1> QED
  BY <1>1, <1>2, <1>3, PTL DEF Spec, RestartKeepsLock

-----------------------------------------------------------------------------
(* The settings of the relay channels: what is stored and what is told.    *)

ConfigOK(f) ==
    /\ f \in [Channel -> [Setting -> Value \cup {UNKNOWN}]]
    /\ \A c \in Channel, s \in Setting \ {"type"} : f[c][s] # UNKNOWN

SaidOK(f) == f \in [Channel -> [Setting -> Value \cup {UNKNOWN, UNSAID}]]

AutoOK ==
    /\ en \in BOOLEAN
    /\ op_index \in 0..(LastOp + 1)
    /\ btn_idx \in 0..(NUMBER_RL + ELE_RELAY_OFFSET)

LEMMA ConfigParts ==
    /\ ConfigTypeOK <=>
          /\ ConfigOK(cfg) /\ ConfigOK(saved) /\ SaidOK(said) /\ AutoOK
          /\ en_delay \in BOOLEAN /\ events \in 0..MaxEvents /\ owed \in BOOLEAN
    /\ ConfigTypeOK' <=>
          /\ ConfigOK(cfg') /\ ConfigOK(saved') /\ SaidOK(said') /\ AutoOK'
          /\ en_delay' \in BOOLEAN /\ events' \in 0..MaxEvents /\ owed' \in BOOLEAN
BY DEF ConfigTypeOK, ConfigOK, SaidOK, AutoOK

\* A message on settings of channels tells them as they are then.
LEMMA SayTells ==
    ASSUME ConfigOK(cfg'), SaidOK(said), NEW C, NEW S, Say(C, S)
    PROVE  /\ SaidOK(said')
           /\ \A c \in Channel, s \in Setting :
                 said'[c][s] = IF c \in C /\ s \in S THEN cfg'[c][s] ELSE said[c][s]
BY DEF ConfigOK, SaidOK, Say

\* Every setting but the toggle type that a step changes, it tells.
TellsChanges ==
    \A c \in Channel, s \in Setting :
        \/ said'[c][s] = cfg'[c][s]
        \/ said'[c][s] = said[c][s] /\ (s # "type" => cfg'[c][s] = cfg[c][s])

\* Every setting but a link that a step changes, it stores.
StoresChanges ==
    \A c \in Channel, s \in Setting \ {"link"} :
        \/ saved'[c][s] = cfg'[c][s]
        \/ saved'[c][s] = saved[c][s] /\ cfg'[c][s] = cfg[c][s]

ConfigStep ==
    /\ ConfigOK(cfg') /\ ConfigOK(saved') /\ SaidOK(said')
    /\ TellsChanges /\ StoresChanges

\* A step is one if what it changes is told, and stored.
LEMMA ConfigStepBy ==
    ASSUME ConfigTypeOK, ConfigOK(cfg'), NEW C, NEW S, Say(C, S),
           \A c \in Channel, s \in Setting :
              \/ cfg'[c][s] = cfg[c][s]
              \/ s = "type"
              \/ c \in C /\ s \in S,
           \/ saved' = cfg'
           \/ /\ saved' = saved
              /\ \A c \in Channel, s \in Setting \ {"link"} : cfg'[c][s] = cfg[c][s]
    PROVE  ConfigStep
<1>1. SaidOK(said) /\ ConfigOK(saved)
  BY ConfigParts
<1>2. SaidOK(said') /\ TellsChanges
  BY <1>1, SayTells DEF TellsChanges
<1>3. ConfigOK(saved') /\ StoresChanges
  BY <1>1 DEF StoresChanges
<1>4. QED
  BY <1>2, <1>3 DEF ConfigStep

\* A message that only tells.
LEMMA TellingStep ==
    ASSUME ConfigTypeOK, UNCHANGED <<cfg, saved>>,
           UNCHANGED said \/ \E C, S : Say(C, S)
    PROVE  ConfigStep
<1>1. ConfigOK(cfg')
  BY ConfigParts
<1>2. CASE UNCHANGED said
  BY <1>1, <1>2, ConfigParts DEF ConfigStep, TellsChanges, StoresChanges
<1>3. ASSUME NEW C, NEW S, Say(C, S) PROVE ConfigStep
  BY <1>1, <1>3, ConfigStepBy
<1>4. QED
  BY <1>2, <1>3

LEMMA WithOne ==
    ASSUME ConfigTypeOK, NEW c \in Channel, NEW s \in Setting, NEW v \in Value,
           cfg' = With(c, s, v)
    PROVE  /\ ConfigOK(cfg')
           /\ \A d \in Channel, r \in Setting :
                 cfg'[d][r] = IF d = c /\ r = s THEN v ELSE cfg[d][r]
<1>1. cfg \in [Channel -> [Setting -> Value \cup {UNKNOWN}]]
  BY DEF ConfigTypeOK
<1>2. \A d \in Channel, r \in Setting :
         cfg'[d][r] = IF d = c /\ r = s THEN v ELSE cfg[d][r]
  BY <1>1 DEF With
<1>3. cfg' \in [Channel -> [Setting -> Value \cup {UNKNOWN}]]
  BY <1>1 DEF With
<1>4. v # UNKNOWN
  BY DEF Value, UNKNOWN
<1>5. QED
  BY <1>2, <1>3, <1>4 DEF ConfigOK, ConfigTypeOK

LEMMA SetOneStep ==
    ASSUME ConfigTypeOK, NEW c \in Channel, NEW s \in Setting, NEW v,
           \/ /\ v \in Value /\ cfg' = With(c, s, v)
              /\ (Store \/ (s = "link" /\ saved' = saved))
           \/ UNCHANGED <<cfg, saved>>,
           Say({c}, {s})
    PROVE  ConfigStep
<1>1. CASE UNCHANGED <<cfg, saved>>
  BY <1>1, TellingStep
<1>2. CASE /\ v \in Value /\ cfg' = With(c, s, v)
           /\ (Store \/ (s = "link" /\ saved' = saved))
  BY <1>2, WithOne, ConfigStepBy DEF Store
<1>3. QED
  BY <1>1, <1>2

LEMMA SayModeTells ==
    ASSUME NEW c, SayMode(c)
    PROVE  UNCHANGED said \/ \E S : Say({c}, S)
BY DEF SayMode

\* The mode of the channel a message is for, with a toggle type of some channel.
LEMMA SetModeStep ==
    ASSUME ConfigTypeOK, NEW id \in Channel, NEW v \in Value, SayMode(id), Store,
           ConfigOK(cfg'), cfg'[id]["mode"] = v,
           \A c \in Channel, s \in Setting :
              cfg'[c][s] = cfg[c][s] \/ s = "type" \/ (c = id /\ s = "mode")
    PROVE  ConfigStep
<1>1. \E S : "mode" \in S /\ Say({id}, S)
  BY DEF SayMode
<1>2. QED
  BY <1>1, ConfigStepBy DEF Store

LEMMA SetSteps == ConfigTypeOK /\ Set => ConfigStep
<1> SUFFICES ASSUME ConfigTypeOK, Set PROVE ConfigStep
  OBVIOUS
<1>a. {"link", "up", "group", "mode", "type"} = Setting
  BY DEF Setting
<1>b. cfg \in [Channel -> [Setting -> Value \cup {UNKNOWN}]]
      /\ \A c \in Channel, s \in Setting \ {"type"} : cfg[c][s] # UNKNOWN
  BY DEF ConfigTypeOK
<1>c. UNKNOWN \notin Value /\ DEFAULT \in Value
  BY DEF UNKNOWN, Value, DEFAULT
<1>1. ASSUME NEW c \in Channel, NEW v \in Value \cup {UNKNOWN}, SetLink(c, v)
      PROVE  ConfigStep
  <2>1. v \in Value /\ cfg' = With(c, "link", v) /\ saved' = saved /\ Say({c}, {"link"})
    BY <1>1 DEF SetLink
  <2>2. QED
    BY <1>a, <2>1, SetOneStep
<1>2. ASSUME NEW c \in Channel, NEW v \in Value \cup {UNKNOWN}, SetOnPowerUp(c, v)
      PROVE  ConfigStep
  <2>1. /\ \/ v \in Value /\ cfg' = With(c, "up", v) /\ Store
           \/ UNCHANGED <<cfg, saved>>
        /\ Say({c}, {"up"})
    BY <1>2 DEF SetOnPowerUp
  <2>2. QED
    BY <1>a, <2>1, SetOneStep
<1>3. ASSUME NEW c \in Channel, NEW v \in Value \cup {UNKNOWN}, SetGroup(c, v)
      PROVE  ConfigStep
  <2>1. /\ \/ v \in Value /\ cfg' = With(c, "group", v) /\ Store
           \/ UNCHANGED <<cfg, saved>>
        /\ Say({c}, {"group"})
    BY <1>3 DEF SetGroup
  <2>2. QED
    BY <1>a, <2>1, SetOneStep
<1>4. ASSUME NEW b \in BtnId, NEW v \in Value \cup {UNKNOWN}, SetPowerUp(b, v)
      PROVE  ConfigStep
  <2> DEFINE id == b - 1
  <2>1. /\ id \in Channel
        /\ \/ v \in Value /\ cfg' = With(id, "up", v) /\ Store
           \/ UNCHANGED <<cfg, saved>>
        /\ Say({id}, {"up"})
    BY <1>4 DEF SetPowerUp
  <2> HIDE DEF id
  <2>2. QED
    BY <1>a, <2>1, SetOneStep
<1>5. ASSUME NEW b \in BtnId, NEW v \in Value \cup {UNKNOWN}, SetMode(b, v)
      PROVE  ConfigStep
  <2> DEFINE id == b - 1 - ELE_RELAY_OFFSET
             other == b - 1
  <2>1. id \in Channel /\ SayMode(id)
    BY <1>5 DEF SetMode
  <2>2. CASE v \in Value
    <3>1. /\ Store
          /\ cfg' = [c \in Channel |-> [s \in Setting |->
                        CASE c = id /\ s = "mode" -> v
                          [] c = other /\ s = "type" /\ v = TOGGLE -> DEFAULT
                          [] OTHER -> cfg[c][s]]]
      BY <1>5, <2>2 DEF SetMode
    <3> HIDE DEF id, other
    <3>2. \A c \in Channel, s \in Setting :
             \/ cfg'[c][s] = cfg[c][s]
             \/ s = "type" /\ cfg'[c][s] = DEFAULT
             \/ c = id /\ s = "mode" /\ cfg'[c][s] = v
      BY <3>1
    <3>3. cfg'[id]["mode"] = v
      BY <1>a, <2>1, <3>1
    <3>4. ConfigOK(cfg')
      <4>1. cfg' \in [Channel -> [Setting -> Value \cup {UNKNOWN}]]
        <5>1. \A c \in Channel, s \in Setting : cfg'[c][s] \in Value \cup {UNKNOWN}
          BY <1>b, <1>c, <2>2, <3>2
        <5>2. cfg' = [c \in Channel |-> [s \in Setting |-> cfg'[c][s]]]
          BY <3>1
        <5>3. QED
          BY <5>1, <5>2
      <4>2. QED
        BY <1>b, <1>c, <2>2, <3>2, <4>1 DEF ConfigOK
    <3>5. \A c \in Channel, s \in Setting :
             cfg'[c][s] = cfg[c][s] \/ s = "type" \/ (c = id /\ s = "mode")
      BY <3>2
    <3>6. QED
      BY <2>1, <2>2, <3>1, <3>3, <3>4, <3>5, SetModeStep
  <2>3. CASE v \notin Value
    BY <1>5, <2>1, <2>3, SayModeTells, TellingStep DEF SetMode
  <2>4. QED
    BY <2>2, <2>3
<1>6. ASSUME NEW b \in BtnId, NEW v \in Value \cup {UNKNOWN},
             NEW t \in Value \cup {UNKNOWN}, SetModeAndType(b, v, t)
      PROVE  ConfigStep
  <2> DEFINE id == b - 1 - ELE_RELAY_OFFSET
  <2>1. id \in Channel /\ SayMode(id)
    BY <1>6 DEF SetModeAndType
  <2>2. CASE v \in Value
    <3>1. /\ Store
          /\ cfg' = [cfg EXCEPT ![id]["mode"] = v,
                                ![id]["type"] =
                        IF v = TOGGLE /\ t \in Value THEN t ELSE @]
      BY <1>6, <2>2 DEF SetModeAndType
    <3> HIDE DEF id
    <3>2. PICK x \in Value \cup {UNKNOWN} :
             \A s \in Setting : cfg'[id][s] = IF s = "type" THEN x
                                              ELSE IF s = "mode" THEN v
                                              ELSE cfg[id][s]
      <4> DEFINE x == IF v = TOGGLE /\ t \in Value THEN t ELSE cfg[id]["type"]
      <4>1. x \in Value \cup {UNKNOWN}
        BY <1>a, <1>b, <2>1
      <4>2. cfg[id] \in [Setting -> Value \cup {UNKNOWN}]
        BY <1>b, <2>1
      <4>3. \A s \in Setting \ {"mode", "type"} : cfg'[id][s] = cfg[id][s]
        BY <1>b, <2>1, <3>1, <4>2
      <4>4. cfg'[id]["mode"] = v
        BY <1>a, <1>b, <2>1, <3>1, <4>2
      <4>5. cfg'[id]["type"] = x
        <5>1. "type" \in Setting /\ "mode" \in Setting /\ "type" # "mode"
          BY <1>a
        <5>2. CASE v = TOGGLE /\ t \in Value
          BY <1>b, <2>1, <3>1, <4>2, <5>1, <5>2
        <5>3. CASE ~(v = TOGGLE /\ t \in Value)
          BY <1>b, <2>1, <3>1, <4>2, <5>1, <5>3
        <5>4. QED
          BY <5>2, <5>3
      <4> HIDE DEF x
      <4>6. QED
        BY <4>1, <4>3, <4>4, <4>5
    <3>3. cfg'[id] \in [Setting -> Value \cup {UNKNOWN}]
      <4>1. cfg[id] \in [Setting -> Value \cup {UNKNOWN}]
        BY <1>b, <2>1
      <4>2. \A s \in Setting : cfg'[id][s] \in Value \cup {UNKNOWN}
        BY <2>2, <3>2, <4>1
      <4>3. cfg'[id] = [s \in Setting |-> cfg'[id][s]]
        BY <2>1, <3>1, <4>1, <1>b
      <4>4. QED
        BY <4>2, <4>3
    <3>4. \A c \in Channel \ {id} : cfg'[c] = cfg[c]
      BY <1>b, <3>1
    <3>5. /\ cfg'[id]["mode"] = v
          /\ \A c \in Channel, s \in Setting :
                cfg'[c][s] = cfg[c][s] \/ s = "type" \/ (c = id /\ s = "mode")
      BY <1>a, <3>2, <3>4
    <3>6. ConfigOK(cfg')
      <4>1. cfg' \in [Channel -> [Setting -> Value \cup {UNKNOWN}]]
        BY <1>b, <2>1, <3>1, <3>3
      <4>2. QED
        BY <1>b, <1>c, <2>2, <3>5, <4>1 DEF ConfigOK
    <3>7. QED
      BY <2>1, <2>2, <3>1, <3>5, <3>6, SetModeStep
  <2>3. CASE v \notin Value
    BY <1>6, <2>1, <2>3, SayModeTells, TellingStep DEF SetModeAndType
  <2>4. QED
    BY <2>2, <2>3
<1>7. ASSUME NEW C \in SUBSET Channel, NEW l \in [C -> Value \cup {UNKNOWN}],
             SetLinks(C, l)
      PROVE  ConfigStep
  <2> DEFINE valid == {c \in C : l[c] \in Value}
  <2>1. /\ Store /\ Say(Channel, {"link"})
        /\ cfg' = [c \in Channel |-> IF c \in valid
                                     THEN [cfg[c] EXCEPT !["link"] = l[c]]
                                     ELSE cfg[c]]
    BY <1>7 DEF SetLinks
  <2>2. \A c \in valid : l[c] \in Value
    OBVIOUS
  <2> HIDE DEF valid
  <2>3. \A c \in Channel, s \in Setting :
           cfg'[c][s] = cfg[c][s] \/ (s = "link" /\ cfg'[c][s] \in Value)
    BY <1>a, <1>b, <2>1, <2>2
  <2>4. ConfigOK(cfg')
    <3>1. cfg' \in [Channel -> [Setting -> Value \cup {UNKNOWN}]]
      BY <1>a, <1>b, <2>1, <2>2
    <3>2. QED
      BY <1>b, <1>c, <2>3, <3>1 DEF ConfigOK
  <2>5. QED
    BY <2>1, <2>3, <2>4, ConfigStepBy DEF Store
<1>8. QED
  BY <1>1, <1>2, <1>3, <1>4, <1>5, <1>6, <1>7 DEF Set

LEMMA SetFrame ==
    Set => UNCHANGED <<auto, en_delay, owed>> /\ events < MaxEvents /\ events' = events + 1
BY DEF Set, SetLink, SetOnPowerUp, SetGroup, SetMode, SetPowerUp, SetModeAndType,
       SetLinks, Listening, Message

LEMMA SayModeOfTells ==
    ASSUME NEW b, SayModeOf(b)
    PROVE  UNCHANGED said \/ \E C, S : Say(C, S)
BY SayModeTells DEF SayModeOf

\* Getting a setting tells it.
LEMMA GetSteps == ConfigTypeOK /\ Get => ConfigStep
<1> SUFFICES ASSUME ConfigTypeOK, Get PROVE ConfigStep
  OBVIOUS
<1>1. UNCHANGED <<cfg, saved>>
  BY DEF Get
<1>2. UNCHANGED said \/ \E C, S : Say(C, S)
  BY SayModeOfTells DEF Get
<1>3. QED
  BY <1>1, <1>2, TellingStep

\* Announcing tells.
LEMMA AnnounceTells == Announce => UNCHANGED said \/ \E C, S : Say(C, S)
<1> SUFFICES ASSUME Announce PROVE UNCHANGED said \/ \E C, S : Say(C, S)
  OBVIOUS
<1> DEFINE op == Announced[op_index + 1]
<1>1. CASE op = "mode" \/ op = "group"
  BY <1>1, SayModeOfTells DEF Announce
<1>2. CASE op = "up" \/ op = "link"
  BY <1>2 DEF Announce
<1>3. CASE op \notin {"mode", "group", "up", "link"}
  <2> HIDE DEF op
  <2>1. UNCHANGED said
    BY <1>3 DEF Announce, op
  <2>2. QED
    BY <2>1
<1>4. QED
  BY <1>1, <1>2, <1>3

LEMMA QuietSteps == ConfigTypeOK /\ (GetAll \/ DelayOver \/ AutoSend) => ConfigStep
<1> SUFFICES ASSUME ConfigTypeOK, GetAll \/ DelayOver \/ AutoSend PROVE ConfigStep
  OBVIOUS
<1>1. UNCHANGED <<cfg, saved>>
  BY DEF GetAll, DelayOver, AutoSend
<1>2. UNCHANGED said \/ \E C, S : Say(C, S)
  BY AnnounceTells DEF GetAll, DelayOver, AutoSend
<1>3. QED
  BY <1>1, <1>2, TellingStep

\* Every step but a join and a restart is one.
LEMMA MostSteps ==
    ConfigTypeOK /\ [ConfigNext]_configVars => ConfigStep \/ Join \/ ConfigRestart
<1> SUFFICES ASSUME ConfigTypeOK, [ConfigNext]_configVars,
                    ~Join, ~ConfigRestart
             PROVE  ConfigStep
  OBVIOUS
<1>1. CASE UNCHANGED configVars
  BY <1>1, TellingStep DEF configVars
<1>2. CASE Set \/ Get \/ GetAll \/ DelayOver \/ AutoSend
  BY <1>2, SetSteps, GetSteps, QuietSteps
<1>3. QED
  BY <1>1, <1>2 DEF ConfigNext

-----------------------------------------------------------------------------
\* The position of the announcement stays in its bounds and moves by one.
LEMMA NextIndexBounds ==
    ASSUME AutoOK, op_index <= LastOp, NEW btn \in Nat, NEW count \in Nat,
           count <= NUMBER_RL + ELE_RELAY_OFFSET, NextIndex(btn, count)
    PROVE  /\ op_index' \in 0..(LastOp + 1)
           /\ btn_idx' \in 0..(NUMBER_RL + ELE_RELAY_OFFSET)
           /\ op_index' \in {op_index, op_index + 1}
BY SwConfigAssumption DEF AutoOK, NextIndex, LastOp

LEMMA AnnounceBounds ==
    AutoOK /\ op_index <= LastOp /\ Announce =>
        /\ op_index' \in 0..(LastOp + 1)
        /\ btn_idx' \in 0..(NUMBER_RL + ELE_RELAY_OFFSET)
        /\ op_index' \in {op_index, op_index + 1}
<1> SUFFICES ASSUME AutoOK, op_index <= LastOp, Announce
             PROVE  /\ op_index' \in 0..(LastOp + 1)
                    /\ btn_idx' \in 0..(NUMBER_RL + ELE_RELAY_OFFSET)
                    /\ op_index' \in {op_index, op_index + 1}
  OBVIOUS
<1>1. /\ btn_idx + 1 \in Nat /\ btn_idx + 2 \in Nat /\ 0 \in Nat
      /\ NUMBER_RL \in Nat /\ NUMBER_RL + ELE_RELAY_OFFSET \in Nat
      /\ NUMBER_RL <= NUMBER_RL + ELE_RELAY_OFFSET
      /\ 0 <= NUMBER_RL + ELE_RELAY_OFFSET
  BY SwConfigAssumption DEF AutoOK
<1> DEFINE op == Announced[op_index + 1]
<1>2. \/ NextIndex(btn_idx + 1, NUMBER_RL)
      \/ NextIndex(0, 0)
      \/ NextIndex(btn_idx + 2, NUMBER_RL)
      \/ NextIndex(btn_idx + 1, NUMBER_RL + ELE_RELAY_OFFSET)
  <2> HIDE DEF op
  <2>1. CASE op = "mode"
    BY <2>1 DEF Announce, op
  <2>2. CASE op \in {"up", "link"}
    BY <2>2 DEF Announce, op
  <2>3. CASE op = "group"
    BY <2>3 DEF Announce, op
  <2>4. CASE op = "lock"
    BY <2>4 DEF Announce, op
  <2>5. CASE op \notin {"mode", "up", "link", "group", "lock"}
    BY <2>5 DEF Announce, op
  <2>6. QED
    BY <2>1, <2>2, <2>3, <2>4, <2>5
<1>3. QED
  BY <1>1, <1>2, NextIndexBounds

LEMMA ZeroBounds ==
    0 \in 0..(LastOp + 1) /\ 0 \in 0..(NUMBER_RL + ELE_RELAY_OFFSET)
<1>1. NUMBER_RL \in Nat /\ ELE_RELAY_OFFSET \in Nat
  BY SwConfigAssumption
<1>2. QED
  BY <1>1 DEF LastOp

LEMMA EnableBounds ==
    AutoOK /\ Enable => AutoOK' /\ (UNCHANGED auto \/ op_index' = 0)
<1>1. CASE en
  BY <1>1 DEF AutoOK, Enable, auto
<1>2. CASE ~en
  BY <1>2, ZeroBounds DEF AutoOK, Enable
<1>3. QED
  BY <1>1, <1>2

LEMMA ConfigTypeInit == ConfigInit => ConfigTypeOK
<1> SUFFICES ASSUME ConfigInit PROVE ConfigTypeOK
  OBVIOUS
<1>1. FirstStart \in [Setting -> Value \cup {UNKNOWN}]
      /\ \A s \in Setting \ {"type"} : FirstStart[s] # UNKNOWN
  BY DEF FirstStart, Setting, Value, UNKNOWN, TOGGLE
<1>2. cfg = [c \in Channel |-> FirstStart]
  BY DEF ConfigInit
<1> HIDE DEF FirstStart
<1>3. ConfigOK(cfg)
  BY <1>1, <1>2 DEF ConfigOK
<1>4. SaidOK(said)
  BY DEF ConfigInit, SaidOK, Nothing
<1>5. /\ AutoOK /\ en_delay \in BOOLEAN /\ events \in 0..MaxEvents
      /\ owed \in BOOLEAN /\ saved = cfg
  <2>1. op_index = 0 /\ btn_idx = 0 /\ events = 0 /\ saved = cfg
    BY DEF ConfigInit
  <2>2. en \in BOOLEAN /\ en_delay \in BOOLEAN /\ owed \in BOOLEAN
    BY DEF ConfigInit
  <2>3. 0 \in 0..MaxEvents
    BY SwConfigAssumption
  <2>4. QED
    BY <2>1, <2>2, <2>3, ZeroBounds DEF AutoOK
<1>6. QED
  BY <1>3, <1>4, <1>5, ConfigParts

LEMMA ConfigTypeStep == ConfigTypeOK /\ [ConfigNext]_configVars => ConfigTypeOK'
<1> SUFFICES ASSUME ConfigTypeOK, [ConfigNext]_configVars PROVE ConfigTypeOK'
  OBVIOUS
<1>1. ConfigOK(cfg') /\ ConfigOK(saved') /\ SaidOK(said')
  <2>1. CASE ConfigStep
    BY <2>1 DEF ConfigStep
  <2>2. CASE Join
    BY <2>2, ConfigParts DEF Join, Nothing, SaidOK
  <2>3. CASE ConfigRestart
    BY <2>3, ConfigParts DEF ConfigRestart
  <2>4. QED
    BY <2>1, <2>2, <2>3, MostSteps
<1>2. /\ AutoOK /\ en_delay \in BOOLEAN /\ events \in 0..MaxEvents /\ owed \in BOOLEAN
      /\ MaxEvents \in Nat
  BY ConfigParts, SwConfigAssumption
<1>3. AutoOK' /\ en_delay' \in BOOLEAN /\ events' \in 0..MaxEvents /\ owed' \in BOOLEAN
  <2>1. CASE UNCHANGED configVars
    BY <1>2, <2>1 DEF configVars, auto, AutoOK
  <2>2. CASE Set
    BY <1>2, <2>2, SetFrame DEF auto, AutoOK
  <2>3. CASE Get
    BY <1>2, <2>3 DEF Get, Listening, Message, auto, AutoOK
  <2>4. CASE GetAll
    BY <1>2, <2>4, EnableBounds DEF GetAll
  <2>5. CASE Join
    BY <1>2, <2>5 DEF Join, Message, auto, AutoOK
  <2>6. CASE DelayOver
    BY <1>2, <2>6, EnableBounds DEF DelayOver
  <2>7. CASE AutoSend
    <3>1. CASE op_index > LastOp
      BY <1>2, <2>7, <3>1 DEF AutoSend, AutoOK
    <3>2. CASE ~(op_index > LastOp)
      <4>1. Announce /\ UNCHANGED <<en, en_delay, events, owed>>
        BY <2>7, <3>2 DEF AutoSend
      <4>2. op_index <= LastOp
        BY <1>2, <3>2 DEF AutoOK, LastOp
      <4>3. QED
        BY <1>2, <4>1, <4>2, AnnounceBounds DEF AutoOK
    <3>3. QED
      BY <3>1, <3>2
  <2>8. CASE ConfigRestart
    <3>1. op_index' = 0 /\ btn_idx' = 0 /\ events < MaxEvents /\ events' = events + 1
      BY <2>8 DEF ConfigRestart, Message
    <3>2. en' \in BOOLEAN /\ en_delay' \in BOOLEAN /\ owed' \in BOOLEAN
      BY <2>8 DEF ConfigRestart
    <3>3. events' \in 0..MaxEvents
      BY <1>2, <3>1
    <3>4. QED
      BY <3>1, <3>2, <3>3, ZeroBounds DEF AutoOK
  <2>9. QED
    BY <2>1, <2>2, <2>3, <2>4, <2>5, <2>6, <2>7, <2>8 DEF ConfigNext
<1>4. QED
  BY <1>1, <1>3, ConfigParts

\* The settings, what is stored and told of them and the announcement's
\* position stay in their ranges: no message leaves a channel without a mode,
\* a link, a group default or a state after power-up (sw_config.c).
THEOREM ConfigTypeCorrect == ConfigSpec => []ConfigTypeOK
<1>1. QED
  BY ConfigTypeInit, ConfigTypeStep, PTL DEF ConfigSpec

-----------------------------------------------------------------------------
\* Nothing but a link is in force and not stored.
SavedInv ==
    \A c \in Channel, s \in Setting \ {"link"} : saved[c][s] = cfg[c][s]

\* An announcement that is past the links leaves no false belief in one.
HealInv ==
    en /\ op_index > 2 =>
        \A c \in Channel : said[c]["link"] \in {UNSAID, cfg[c]["link"]}

BeliefInv == GatewayKnows /\ SavedInv /\ HealInv

LEMMA BeliefInit == ConfigInit => BeliefInv
BY DEF ConfigInit, BeliefInv, GatewayKnows, SavedInv, HealInv, Nothing, Setting

LEMMA BeliefStep == ConfigTypeOK /\ BeliefInv /\ [ConfigNext]_configVars => BeliefInv'
<1> SUFFICES ASSUME ConfigTypeOK, BeliefInv, [ConfigNext]_configVars PROVE BeliefInv'
  OBVIOUS
<1>a. GatewayKnows /\ SavedInv /\ HealInv
  BY DEF BeliefInv
<1>b. {"link", "up", "group", "mode"} \subseteq Setting \ {"type"}
  BY DEF Setting
<1>c. \A c \in Channel, s \in Setting : Nothing[c][s] = UNSAID
  BY DEF Nothing
<1>1. SavedInv'
  <2>1. CASE ConfigStep
    BY <1>a, <2>1 DEF ConfigStep, StoresChanges, SavedInv
  <2>2. CASE Join \/ ConfigRestart
    BY <1>a, <2>2 DEF Join, ConfigRestart, SavedInv
  <2>3. QED
    BY <2>1, <2>2, MostSteps
<1>2. GatewayKnows'
  <2> SUFFICES ASSUME NEW c \in Channel, NEW s \in {"mode", "group", "up"}
               PROVE  said'[c][s] \in {UNSAID, cfg'[c][s]}
    BY DEF GatewayKnows
  <2>1. s \in Setting /\ s # "type" /\ s # "link"
    BY <1>b
  <2>2. said[c][s] \in {UNSAID, cfg[c][s]} /\ saved[c][s] = cfg[c][s]
    BY <1>a, <2>1 DEF GatewayKnows, SavedInv
  <2>3. CASE ConfigStep
    BY <2>1, <2>2, <2>3 DEF ConfigStep, TellsChanges
  <2>4. CASE Join
    BY <1>c, <2>1, <2>4 DEF Join
  <2>5. CASE ConfigRestart
    BY <2>2, <2>5 DEF ConfigRestart
  <2>6. QED
    BY <2>3, <2>4, <2>5, MostSteps
<1>3. HealInv'
  <2> SUFFICES ASSUME en', op_index' > 2, NEW c \in Channel
               PROVE  said'[c]["link"] \in {UNSAID, cfg'[c]["link"]}
    BY DEF HealInv
  <2>1. ASSUME UNCHANGED auto, ConfigStep
        PROVE  said'[c]["link"] \in {UNSAID, cfg'[c]["link"]}
    <3>1. said[c]["link"] \in {UNSAID, cfg[c]["link"]}
      BY <1>a, <2>1 DEF HealInv, auto
    <3>2. QED
      BY <1>b, <2>1, <3>1 DEF ConfigStep, TellsChanges
  <2>2. CASE Set \/ Get \/ UNCHANGED configVars
    <3>1. UNCHANGED auto
      BY <2>2, SetFrame DEF Get, Listening, configVars
    <3>2. ConfigStep
      BY <2>2, SetSteps, GetSteps, TellingStep DEF configVars
    <3>3. QED
      BY <2>1, <3>1, <3>2
  <2>3. CASE GetAll \/ DelayOver
    <3>1. Enable
      BY <2>3 DEF GetAll, DelayOver
    <3>2. UNCHANGED auto
      BY <3>1, EnableBounds, ConfigParts
    <3>3. QED
      BY <2>1, <2>3, <3>2, QuietSteps
  <2>4. CASE AutoSend
    <3>1. en /\ op_index <= LastOp /\ Announce
      BY <2>4, ConfigParts DEF AutoSend, AutoOK, LastOp
    <3>2. op_index' \in {op_index, op_index + 1} /\ op_index \in Nat
      BY <3>1, AnnounceBounds, ConfigParts DEF AutoOK, LastOp
    <3>3. CASE op_index = 2
      <4>1. Announced[op_index + 1] = "link"
        BY <3>3 DEF Announced
      <4>2. Say(Channel, {"link"})
        BY <3>1, <4>1 DEF Announce
      <4>3. QED
        BY <1>b, <4>2 DEF Say
    <3>4. CASE op_index > 2
      <4>1. said[c]["link"] \in {UNSAID, cfg[c]["link"]}
        BY <1>a, <3>1, <3>4 DEF HealInv
      <4>2. QED
        BY <1>b, <2>4, <4>1, QuietSteps DEF ConfigStep, TellsChanges
    <3>5. QED
      BY <3>2, <3>3, <3>4
  <2>5. CASE Join
    BY <1>b, <1>c, <2>5 DEF Join
  <2>6. CASE ConfigRestart
    BY <2>6 DEF ConfigRestart
  <2>7. QED
    BY <2>2, <2>3, <2>4, <2>5, <2>6 DEF ConfigNext
<1>4. QED
  BY <1>1, <1>2, <1>3 DEF BeliefInv

LEMMA BeliefCorrect == ConfigSpec => [](ConfigTypeOK /\ BeliefInv)
<1>1. ConfigInit => ConfigTypeOK /\ BeliefInv
  BY ConfigTypeInit, BeliefInit
<1>2. ConfigTypeOK /\ BeliefInv /\ [ConfigNext]_configVars
         => (ConfigTypeOK /\ BeliefInv)'
  BY ConfigTypeStep, BeliefStep
<1>3. QED
  BY <1>1, <1>2, PTL DEF ConfigSpec

\* What the gateway was told of a mode, a group default or a state after
\* power-up is what the channel does, whatever the gateway sends, asks for and
\* is announced, and however often the power fails (sw_config.c, answers
\* after each change).
THEOREM GatewayIsRight == ConfigSpec => []GatewayKnows
<1>1. BeliefInv => GatewayKnows
  BY DEF BeliefInv
<1>2. QED
  BY <1>1, BeliefCorrect, PTL

\* A power failure takes back nothing but links (sw_config_save with every
\* other change).
THEOREM RestartsKeepConfig == ConfigSpec => RestartKeepsConfig
<1>1. BeliefInv /\ [ConfigNext]_configVars =>
         [ConfigRestart => \A c \in Channel, s \in Setting \ {"link"} :
                              cfg'[c][s] = cfg[c][s]]_configVars
  BY DEF BeliefInv, SavedInv, ConfigRestart
<1>2. QED
  BY <1>1, BeliefCorrect, PTL DEF ConfigSpec, RestartKeepsConfig

\* The end of an announcement leaves no false belief in a link or in a state
\* after power-up (sw_config_auto_send_task).
THEOREM AnnouncementsHeal == ConfigSpec => AnnouncementHeals
<1>1. ConfigTypeOK /\ BeliefInv /\ [ConfigNext]_configVars =>
         [AutoSend /\ ~en' =>
             \A c \in Channel, s \in {"link", "up"} :
                 said[c][s] \in {UNSAID, cfg[c][s]}]_configVars
  <2> SUFFICES ASSUME ConfigTypeOK, BeliefInv, AutoSend, ~en',
                      NEW c \in Channel, NEW s \in {"link", "up"}
               PROVE  said[c][s] \in {UNSAID, cfg[c][s]}
    OBVIOUS
  <2>1. en /\ op_index > 2
    <3>1. op_index \in 0..(LastOp + 1)
      BY ConfigParts DEF AutoOK
    <3>2. CASE op_index > LastOp
      BY <3>1, <3>2 DEF AutoSend, LastOp
    <3>3. CASE ~(op_index > LastOp)
      <4>1. en /\ en' = en
        BY <3>3 DEF AutoSend
      <4>2. QED
        BY <4>1
    <3>4. QED
      BY <3>2, <3>3
  <2>2. QED
    BY <2>1 DEF BeliefInv, HealInv, GatewayKnows
<1>2. QED
  BY <1>1, BeliefCorrect, PTL DEF ConfigSpec, AnnouncementHeals

===============================================================================

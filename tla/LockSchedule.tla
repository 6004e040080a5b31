----------------------------- MODULE LockSchedule -----------------------------
(***************************************************************************)
(* The child lock of the buttons (lock_schedule.c) and the calendar it     *)
(* follows (timestamp.c, gmtime_r of standard/time.c): a button is always  *)
(* locked, never, or by a window of minutes on some days of the week.      *)
(*                                                                         *)
(* The clock is the minute of the week.  It is unset after a restart, is   *)
(* set by a message and is not believed any more seven days after that.    *)
(* lock_schedule_task runs every second, so more than once in a minute,    *)
(* and a message may come before it has seen a new minute.                 *)
(***************************************************************************)
EXTENDS Integers

CONSTANTS
    Button,         \* 0..NUMBER_BUTTON - 1
    DAY,            \* minutes of a day
    WEEK,           \* days of a week
    MAX_U8,         \* what present_min is before the first evaluation
    Window          \* the windows a message may ask for

TS_LOCK   == "TS_LOCK"
TS_UNLOCK == "TS_UNLOCK"
Lock      == {TS_LOCK, TS_UNLOCK}

Minute  == 0..(DAY - 1)
WeekDay == 0..(WEEK - 1)       \* tm_wday: Sunday is 0
Bit     == 0..(WEEK - 1)       \* of active_day

\* What of a lock_schedule_t says when to lock.
AnyWindow == [start_t_min : Nat, stop_t_min : Nat, active_day : SUBSET Bit]

ASSUME LockScheduleAssumption ==
    /\ DAY \in Nat \ {0, 1}
    /\ WEEK \in Nat \ {0}
    /\ MAX_U8 \in Nat
    /\ Window \subseteq AnyWindow

\* memset to zero, and every day active.
DefaultWindow == [start_t_min |-> 0, stop_t_min |-> 0, active_day |-> Bit]

Valid(w)  == w.start_t_min <= DAY - 1 /\ w.stop_t_min <= DAY - 1
Schedule  == [lock : BOOLEAN, en_schedule : BOOLEAN,
              window : {w \in Window \cup {DefaultWindow} : Valid(w)}]

VARIABLES
    schedule,       \* lock_schedule_st
    present_lock,
    present_min,
    is_ready_flag,
    is_set_flag,    \* the clock has been set ...
    believed,       \* ... within the last seven days
    wday, minute,   \* what gmtime_r makes of current_time
    stored_schedule,
    stored_lock,    \* the status record of present_lock
    storing,        \* lock_schedule_store is still to come
    jumped,         \* history: the clock was set after the last evaluation
    unsaved         \* history: buttons locked or unlocked by a message, or by
                    \* a restart, since the status was stored

clock  == <<is_set_flag, believed, wday, minute>>
flash  == <<stored_schedule, stored_lock>>
vars   == <<schedule, present_lock, present_min, is_ready_flag, clock, flash,
            storing, jumped, unsaved>>

TypeOK ==
    /\ schedule \in [Button -> Schedule]
    /\ present_lock \in [Button -> Lock]
    /\ present_min \in Minute \cup {MAX_U8}
    /\ is_ready_flag \in BOOLEAN
    /\ is_set_flag \in BOOLEAN
    /\ believed \in BOOLEAN
    /\ wday \in WeekDay
    /\ minute \in Minute
    /\ stored_schedule \in [Button -> Schedule]
    /\ stored_lock \in [Button -> Lock]
    /\ storing \in BOOLEAN
    /\ jumped \in BOOLEAN
    /\ unsaved \subseteq Button

\* A new device: no record in flash, so both defaults are taken and stored.
Init ==
    /\ schedule = [b \in Button |-> [lock |-> FALSE, en_schedule |-> FALSE,
                                     window |-> DefaultWindow]]
    /\ present_lock = [b \in Button |-> TS_UNLOCK]
    /\ present_min = MAX_U8
    /\ is_ready_flag = FALSE
    /\ is_set_flag = FALSE
    /\ believed = FALSE
    /\ wday = 0
    /\ minute = 0
    /\ stored_schedule = schedule
    /\ stored_lock = present_lock
    /\ storing = FALSE
    /\ jumped = FALSE
    /\ unsaved = {}

\* timestamp_get_minute_in_day and timestamp_get_week_day return something.
HasTime == is_set_flag /\ believed

-----------------------------------------------------------------------------
(* lock_schedule_check_lock_unlock at minute m.                            *)

\* Monday is the first of the seven bits of active_day.
DayPassed(w) ==
    LET bit_pos == IF wday = 0 THEN WEEK - 1 ELSE wday - 1
    IN  WEEK - 1 - bit_pos \in w.active_day

InWindow(w, m) ==
    \/ w.start_t_min > w.stop_t_min /\ (m >= w.start_t_min \/ m < w.stop_t_min)
    \/ w.start_t_min < w.stop_t_min /\ m >= w.start_t_min /\ m < w.stop_t_min
    \/ w.start_t_min = w.stop_t_min

\* The lock of a button with schedule s, which is held so far.
Checked(s, held, m) ==
    IF ~s.lock THEN TS_UNLOCK
    ELSE IF ~s.en_schedule THEN TS_LOCK
    ELSE IF ~HasTime THEN held
    ELSE IF DayPassed(s.window) /\ InWindow(s.window, m) THEN TS_LOCK
    ELSE TS_UNLOCK

\* Mutant: stored at the ends of the window only.
StoresAtEnds(s, held, m) ==
    /\ s.lock /\ s.en_schedule /\ HasTime
    /\ m = s.window.start_t_min \/ m = s.window.stop_t_min

\* A schedule that changes the lock, or is at an end of its window, stores the
\* status; always locking or unlocking does not.
Stores(s, held, m) ==
    /\ s.lock /\ s.en_schedule /\ HasTime
    /\ \/ Checked(s, held, m) # held
       \/ m = s.window.start_t_min
       \/ m = s.window.stop_t_min

\* Every button is checked against its schedule in new.
CheckLockUnlock(new, m) ==
    /\ present_lock' = [b \in Button |-> Checked(new[b], present_lock[b], m)]
    /\ IF \E b \in Button : Stores(new[b], present_lock[b], m)
       THEN stored_lock' = present_lock' /\ unsaved' = {}
       ELSE UNCHANGED <<stored_lock, unsaved>>

-----------------------------------------------------------------------------
(* lock_schedule_task.                                                     *)

\* Nothing is checked in the first ten seconds after a restart.
BecomeReady ==
    /\ ~storing
    /\ HasTime
    /\ ~is_ready_flag
    /\ is_ready_flag' = TRUE
    /\ UNCHANGED <<schedule, present_lock, present_min, clock, flash, storing,
                   jumped, unsaved>>

\* Mutant: the minute is remembered before the device is ready.
CheckUnready ==
    /\ ~storing
    /\ HasTime
    /\ minute # present_min
    /\ present_min' = minute
    /\ jumped' = FALSE
    /\ IF is_ready_flag THEN CheckLockUnlock(schedule, minute)
       ELSE UNCHANGED <<present_lock, stored_lock, unsaved>>
    /\ UNCHANGED <<schedule, is_ready_flag, clock, stored_schedule, storing>>

CheckMinute ==
    /\ ~storing
    /\ HasTime
    /\ is_ready_flag
    /\ minute # present_min
    /\ present_min' = minute
    /\ jumped' = FALSE
    /\ CheckLockUnlock(schedule, minute)
    /\ UNCHANGED <<schedule, is_ready_flag, clock, stored_schedule, storing>>

-----------------------------------------------------------------------------
(* The clock.                                                              *)

\* timestamp_proc, as gmtime_r sees it; lock_schedule_task has run since the
\* minute began.
NextMinute ==
    /\ ~storing
    /\ is_set_flag
    /\ HasTime /\ is_ready_flag => present_min = minute
    /\ minute' = (minute + 1) % DAY
    /\ wday' = IF minute = DAY - 1 THEN (wday + 1) % WEEK ELSE wday
    /\ UNCHANGED <<schedule, present_lock, present_min, is_ready_flag, flash,
                   is_set_flag, believed, storing, jumped, unsaved>>

\* SET_TIMESTAMP_MAX_INTERVAL_S after the clock was set.
Expire ==
    /\ ~storing
    /\ HasTime
    /\ believed' = FALSE
    /\ UNCHANGED <<schedule, present_lock, present_min, is_ready_flag, flash,
                   is_set_flag, wday, minute, storing, jumped, unsaved>>

timestamp_set(d, m) ==
    /\ ~storing
    /\ is_set_flag' = TRUE
    /\ believed' = TRUE
    /\ wday' = d
    /\ minute' = m
    /\ jumped' = TRUE
    /\ UNCHANGED <<schedule, present_lock, present_min, is_ready_flag, flash,
                   storing, unsaved>>

-----------------------------------------------------------------------------
(* vd_lock_schedule_set: the lock is changed first, then the schedule is   *)
(* stored.  A schedule is checked against the minute the task saw last.    *)

LockBySchedule(b, w) ==
    /\ ~storing
    /\ Valid(w)
    /\ schedule' = [schedule EXCEPT ![b] =
                       [lock |-> TRUE, en_schedule |-> TRUE, window |-> w]]
    /\ CheckLockUnlock(schedule', present_min)
    /\ storing' = TRUE
    /\ UNCHANGED <<present_min, is_ready_flag, clock, stored_schedule, jumped>>

SetAlways(b, locked) ==
    /\ ~storing
    /\ schedule' = [schedule EXCEPT ![b].lock = locked,
                                    ![b].en_schedule = FALSE]
    /\ present_lock' = [present_lock EXCEPT
                           ![b] = IF locked THEN TS_LOCK ELSE TS_UNLOCK]
    /\ unsaved' = unsaved \cup {b}
    /\ storing' = TRUE
    /\ UNCHANGED <<present_min, is_ready_flag, clock, flash, jumped>>

lock_schedule_store ==
    /\ storing
    /\ stored_schedule' = schedule
    /\ storing' = FALSE
    /\ UNCHANGED <<schedule, present_lock, present_min, is_ready_flag, clock,
                   stored_lock, jumped, unsaved>>

\* lock_schedule_init: a schedule keeps the lock that was stored.
Restored(s, held) ==
    IF ~s.lock THEN TS_UNLOCK ELSE IF ~s.en_schedule THEN TS_LOCK ELSE held

\* A power failure and lock_schedule_init.
Restart ==
    /\ schedule' = stored_schedule
    /\ present_lock' = [b \in Button |->
                           Restored(stored_schedule[b], stored_lock[b])]
    /\ unsaved' = {b \in Button : present_lock'[b] # stored_lock[b]}
    /\ present_min' = MAX_U8
    /\ is_ready_flag' = FALSE
    /\ is_set_flag' = FALSE
    /\ believed' = FALSE
    /\ wday' = 0
    /\ minute' = 0
    /\ storing' = FALSE
    /\ jumped' = FALSE
    /\ UNCHANGED flash

-----------------------------------------------------------------------------
Next ==
    \/ BecomeReady \/ CheckMinute
    \/ NextMinute \/ Expire
    \/ \E d \in WeekDay, m \in Minute : timestamp_set(d, m)
    \/ \E b \in Button, w \in Window : LockBySchedule(b, w)
    \/ \E b \in Button, locked \in BOOLEAN : SetAlways(b, locked)
    \/ lock_schedule_store
    \/ Restart

Spec == Init /\ [][Next]_vars

-----------------------------------------------------------------------------
\* A window is the part of the day that starts at one end of it and goes, past
\* midnight if it must, to the other; both ends the same is the whole day.
During(w, m) ==
    \/ w.start_t_min = w.stop_t_min
    \/ (m - w.start_t_min) % DAY < (w.stop_t_min - w.start_t_min) % DAY

\* The days count down from Monday, the highest bit, to Sunday, the lowest.
OnDay(w, d) == (WEEK - d) % WEEK \in w.active_day

Wanted(s) ==
    IF s.lock /\ (s.en_schedule => OnDay(s.window, wday)
                                   /\ During(s.window, minute))
    THEN TS_LOCK ELSE TS_UNLOCK

\* In a minute the task has seen, unless the clock was set since, every button
\* is locked exactly if its schedule says so, whatever messages came before or
\* within that minute, in whatever order.
FollowsSchedule ==
    HasTime /\ is_ready_flag /\ minute = present_min /\ ~jumped
        => \A b \in Button : present_lock[b] = Wanted(schedule[b])

\* A restart while nothing is being stored neither locks nor unlocks a button,
\* except one put on a schedule that has not changed its lock since a message
\* or a restart last did.
RestartKeepsLock ==
    [][Restart /\ ~storing =>
          \A b \in Button : present_lock'[b] # present_lock[b]
                                => b \in unsaved /\ schedule[b].en_schedule]_vars
=============================================================================

------------------------------- MODULE Relay -------------------------------
(***************************************************************************)
(* The relay driver of the wall switch (user/relay.c with user/user_irq.c).*)
(*                                                                         *)
(* The main loop calls relay_proc once per pass; two interrupt handlers    *)
(* run between any two of its memory accesses: the falling edge of the     *)
(* mains zero-cross detector (RL_handleZeroSync) and the match of timer 1  *)
(* (relay_handle_control_when_timer_match), which is the only code that    *)
(* drives a relay pin after power-up.  pc splits relay_proc where the two  *)
(* handlers can observe a difference; handlers of requests (mesh messages, *)
(* buttons) run at pc = "loop", elsewhere in the main loop.                *)
(*                                                                         *)
(* Bit masks RLS_xxx are functions from channels to booleans, G_ON = TRUE. *)
(* Elapsed-time tests are free choices: a deadline may or may not have     *)
(* passed when the code looks, and fairness makes it pass in the end.      *)
(***************************************************************************)
EXTENDS Naturals

CONSTANTS
    NUMBER_RL,      \* relays on the board
    Modes,          \* switch types a channel may be configured with
    PowerUps,       \* power-up policies a channel may be configured with
    Requests,       \* kinds of request the environment issues
    MaxRequests,    \* bound on the number of requests
    MaxPowerLosses  \* bound on the number of power failures

AllModes    == {"TOGGLE", "MOMENTARY", "LIGHTING"}
AllPowerUps == {"POWER_UP_OFF", "POWER_UP_ON", "POWER_UP_RESTORE"}
AllRequests == {"app", "toggle", "press", "release", "mode", "mode_completing"}

ASSUME RelayAssumption ==
    /\ NUMBER_RL \in 1..16
    /\ Modes \subseteq AllModes
    /\ PowerUps \subseteq AllPowerUps
    /\ Requests \subseteq AllRequests
    /\ MaxRequests \in Nat
    /\ MaxPowerLosses \in Nat

Channel          == 0..(NUMBER_RL - 1)
NO_RL_CHN_ACTIVE == 255

VARIABLES
    RLS_SET,        \* what was last requested
    RLS_TARGET,     \* what relay_proc has taken over from RLS_SET
    RLS_PRESENT,    \* what relay_proc believes was driven; differing from
                    \* RLS_TARGET is what schedules a channel
    RLS_ACTUAL,     \* what is reported to the energy meter
    src_control,    \* source of the last request
    relay_module_st, done_flag, control_when_timeout,
    active_chn, active_st,         \* relay_active_st
    timer1,                        \* timer 1 runs and may interrupt
    pin,                           \* the relay outputs
    onRelayFlag,                   \* a momentary pulse is being timed
    pulse_young,                   \* ... and began with the switching in flight
    store_enable,                  \* store_relay_st_delay.enable
    flash,                         \* stored RLS_TARGET, survives power loss
    switch_mode, power_on_state,   \* sw_config_st, stored as soon as changed
    pc, requests, losses

relayState == <<RLS_SET, RLS_TARGET, RLS_PRESENT, RLS_ACTUAL, src_control>>
driveState == <<relay_module_st, done_flag, control_when_timeout,
                active_chn, active_st, timer1, pin>>
storeState == <<store_enable, flash>>
config     == <<switch_mode, power_on_state>>
bounds     == <<requests, losses>>

pulseState == <<onRelayFlag, pulse_young>>

vars == <<relayState, driveState, pulseState, storeState, config, pc, bounds>>

TypeOK ==
    /\ RLS_SET \in [Channel -> BOOLEAN]
    /\ RLS_TARGET \in [Channel -> BOOLEAN]
    /\ RLS_PRESENT \in [Channel -> BOOLEAN]
    /\ RLS_ACTUAL \in [Channel -> BOOLEAN]
    /\ src_control \in [Channel -> {"SRC_APP", "SRC_DEVICE"}]
    /\ relay_module_st \in {"RELAY_IDLE", "RELAY_BUSY"}
    /\ done_flag \in BOOLEAN
    /\ control_when_timeout \in BOOLEAN
    /\ active_chn \in Channel \cup {NO_RL_CHN_ACTIVE}
    /\ active_st \in BOOLEAN
    /\ timer1 \in BOOLEAN
    /\ pin \in [Channel -> BOOLEAN]
    /\ onRelayFlag \in [Channel -> BOOLEAN]
    /\ pulse_young \in BOOLEAN
    /\ store_enable \in BOOLEAN
    /\ flash \in [Channel -> BOOLEAN]
    /\ switch_mode \in [Channel -> Modes]
    /\ power_on_state \in [Channel -> PowerUps]
    /\ pc \in {"loop", "store", "auto_off", "module", "select", "busy",
               "compare", "rearm", "expired", "force", "end"}
    /\ requests \in 0..MaxRequests
    /\ losses \in 0..MaxPowerLosses

-----------------------------------------------------------------------------
(* Start-up: relay_init after the configuration has been loaded.           *)

\* relay_restore_target_state: what a stored bit becomes at power-up.
Restored(i, stored) ==
    /\ switch_mode[i] # "MOMENTARY"
    /\ \/ power_on_state[i] = "POWER_UP_ON"
       \/ power_on_state[i] = "POWER_UP_RESTORE" /\ stored[i]

Restore(stored) == [i \in Channel |-> Restored(i, stored)]

Complement(m) == [i \in Channel |-> ~m[i]]

Init ==
    /\ flash \in [Channel -> BOOLEAN]
    /\ switch_mode \in [Channel -> Modes]
    /\ power_on_state \in [Channel -> PowerUps]
    /\ RLS_TARGET = Restore(flash)
    /\ RLS_SET = RLS_TARGET
    /\ RLS_PRESENT = Complement(RLS_TARGET)
    /\ RLS_ACTUAL = [i \in Channel |-> FALSE]
    /\ src_control = [i \in Channel |-> "SRC_DEVICE"]
    /\ relay_module_st = "RELAY_IDLE"
    /\ done_flag = FALSE
    /\ control_when_timeout = FALSE
    /\ active_chn = NO_RL_CHN_ACTIVE
    /\ active_st = FALSE
    /\ timer1 = TRUE                       \* timer1_hw_config starts it
    /\ pin = [i \in Channel |-> FALSE]
    /\ onRelayFlag = [i \in Channel |-> FALSE]
    /\ pulse_young = FALSE
    /\ store_enable = FALSE
    /\ pc = "loop"
    /\ requests = 0
    /\ losses = 0

\* The supply fails at any instant; RAM and the outputs are lost, flash and
\* the stored configuration are kept, and start-up runs again.
PowerLoss ==
    /\ losses < MaxPowerLosses
    /\ losses' = losses + 1
    /\ RLS_TARGET' = Restore(flash)
    /\ RLS_SET' = RLS_TARGET'
    /\ RLS_PRESENT' = Complement(RLS_TARGET')
    /\ RLS_ACTUAL' = [i \in Channel |-> FALSE]
    /\ src_control' = [i \in Channel |-> "SRC_DEVICE"]
    /\ relay_module_st' = "RELAY_IDLE"
    /\ done_flag' = FALSE
    /\ control_when_timeout' = FALSE
    /\ active_chn' = NO_RL_CHN_ACTIVE
    /\ active_st' = FALSE
    /\ timer1' = TRUE
    /\ pin' = [i \in Channel |-> FALSE]
    /\ onRelayFlag' = [i \in Channel |-> FALSE]
    /\ pulse_young' = FALSE
    /\ store_enable' = FALSE
    /\ pc' = "loop"
    /\ UNCHANGED <<flash, config, requests>>

-----------------------------------------------------------------------------
(* Requests, handled in the main loop outside relay_proc.                  *)

\* Mutant: the comparison takes RLS_PRESENT for RLS_TARGET.
SetTargetStatePresent(i, st, src) ==
    /\ RLS_SET' = [RLS_SET EXCEPT ![i] = st]
    /\ store_enable' = (store_enable \/ st # RLS_PRESENT[i])
    /\ src_control' = [src_control EXCEPT ![i] = src]
    /\ UNCHANGED <<RLS_TARGET, RLS_PRESENT, RLS_ACTUAL, switch_mode>>

\* Mutant: the source of the request is not recorded.
SetTargetStateNoSource(i, st, src) ==
    /\ RLS_SET' = [RLS_SET EXCEPT ![i] = st]
    /\ store_enable' = (store_enable \/ st # RLS_TARGET[i])
    /\ UNCHANGED <<RLS_TARGET, RLS_PRESENT, RLS_ACTUAL, src_control, switch_mode>>

\* relay_set_target_state with store = true, as in every call outside the
\* factory test.  The deferred store is armed only when the
\* requested state differs from RLS_TARGET, not from RLS_SET.
SetTargetState(i, st, src) ==
    /\ RLS_SET' = [RLS_SET EXCEPT ![i] = st]
    /\ store_enable' = (store_enable \/ st # RLS_TARGET[i])
    /\ src_control' = [src_control EXCEPT ![i] = src]
    /\ UNCHANGED <<RLS_TARGET, RLS_PRESENT, RLS_ACTUAL, switch_mode>>

\* Mutant: the channel is not driven again.
ControlSameStateSkipped(i) == UNCHANGED RLS_PRESENT

\* relay_control_same_state: make the channel look undriven.
ControlSameState(i) ==
    RLS_PRESENT' = [RLS_PRESENT EXCEPT ![i] = ~RLS_TARGET[i]]

Request(kind) ==
    /\ kind \in Requests
    /\ pc = "loop"
    /\ requests < MaxRequests
    /\ requests' = requests + 1
    /\ UNCHANGED <<driveState, pulseState, flash, power_on_state, pc, losses>>

\* send_control_dev_manual_to_mcu: a mesh on/off command.  A command for the
\* state RLS_TARGET already has is not passed on.
AppControl(i, st) ==
    /\ Request("app")
    /\ IF RLS_TARGET[i] = st
       THEN UNCHANGED <<relayState, store_enable, switch_mode>>
       ELSE SetTargetState(i, st, "SRC_APP")

\* relay_toggle_state, from a button (directly or through dimming).
Toggle(i) ==
    /\ Request("toggle")
    /\ switch_mode[i] \in {"TOGGLE", "LIGHTING"}
    /\ SetTargetState(i, ~RLS_TARGET[i], "SRC_DEVICE")

\* button_handle_relay_btn_state: START_PRESS and RELEASE of a momentary
\* channel's button.
MomentaryPress(i) ==
    /\ Request("press")
    /\ switch_mode[i] = "MOMENTARY"
    /\ SetTargetState(i, TRUE, "SRC_DEVICE")

MomentaryRelease(i) ==
    /\ Request("release")
    /\ switch_mode[i] = "MOMENTARY"
    /\ SetTargetState(i, FALSE, "SRC_DEVICE")

\* The VD_CONFIG_SWITCH_MODE_OPT handler with its callback
\* relay_handle_switch_change_mode.  "mode_completing" lets the message
\* arrive while a switching of the same channel awaits its bookkeeping.
ChangeMode(i, m) ==
    /\ IF done_flag /\ active_chn = i THEN Request("mode_completing")
                                       ELSE Request("mode")
    /\ m # switch_mode[i]
    /\ switch_mode' = [switch_mode EXCEPT ![i] = m]
    /\ IF m = "MOMENTARY" /\ RLS_TARGET[i]
       THEN /\ RLS_SET' = [RLS_SET EXCEPT ![i] = FALSE]
            /\ src_control' = [src_control EXCEPT ![i] = "SRC_DEVICE"]
            /\ store_enable' = TRUE
            /\ UNCHANGED <<RLS_TARGET, RLS_PRESENT, RLS_ACTUAL>>
       ELSE /\ ControlSameState(i)
            /\ UNCHANGED <<RLS_SET, RLS_TARGET, RLS_ACTUAL, src_control,
                           store_enable>>

-----------------------------------------------------------------------------
(* relay_proc, in program order.                                           *)

\* relay_map_set_and_target_status
MapSetAndTarget ==
    /\ pc = "loop"
    /\ RLS_TARGET' = RLS_SET
    /\ RLS_PRESENT' = [i \in Channel |-> IF RLS_SET[i] # RLS_TARGET[i]
                                         THEN ~RLS_SET[i] ELSE RLS_PRESENT[i]]
    /\ pc' = "store"
    /\ UNCHANGED <<RLS_SET, RLS_ACTUAL, src_control, driveState, pulseState,
                   storeState, config, bounds>>

\* relay_handle_store_delay, the three seconds being over
StoreTargetState ==
    /\ pc = "store"
    /\ store_enable
    /\ flash' = RLS_TARGET
    /\ store_enable' = FALSE
    /\ pc' = "auto_off"
    /\ UNCHANGED <<relayState, driveState, pulseState, config, bounds>>

\* ... or not armed or not over
StoreNotDue ==
    /\ pc = "store"
    /\ pc' = "auto_off"
    /\ UNCHANGED <<relayState, driveState, pulseState, storeState, config,
                   bounds>>

\* A pulse lasts 500 ms and a switching at most the 70 ms zero wait and one
\* half period, so a pulse is not over before its own switching is booked.
Pulsed == {i \in Channel : /\ switch_mode[i] = "MOMENTARY"
                           /\ onRelayFlag[i]
                           /\ ~(pulse_young /\ active_chn = i)}

\* relay_check_auto_off; expired are the pulses whose 500 ms are over.
AutoOff(expired) ==
    /\ pc = "auto_off"
    /\ expired \subseteq Pulsed
    /\ onRelayFlag' = [i \in Channel |-> onRelayFlag[i] /\ i \notin expired]
    /\ RLS_SET' = [i \in Channel |-> RLS_SET[i] /\ i \notin expired]
    /\ src_control' = [i \in Channel |-> IF i \in expired THEN "SRC_DEVICE"
                                         ELSE src_control[i]]
    /\ store_enable' = (store_enable \/ \E i \in expired : RLS_TARGET[i])
    /\ pc' = "module"
    /\ UNCHANGED <<pulse_young, RLS_TARGET, RLS_PRESENT, RLS_ACTUAL, driveState, flash,
                   config, bounds>>

\* Mutant: the target is booked instead of the state that was driven.
BookedPresentTarget ==
    [RLS_PRESENT EXCEPT ![active_chn] = RLS_TARGET[active_chn]]

BookedPresent == [RLS_PRESENT EXCEPT ![active_chn] = active_st]

\* Mutant: the LIGHTING exception is forgotten.
BookedActualPlain == [RLS_ACTUAL EXCEPT ![active_chn] = active_st]

BookedActual ==
    [RLS_ACTUAL EXCEPT ![active_chn] =
        active_st \/ switch_mode[active_chn] = "LIGHTING"]

\* The module is idle: book the switching the timer handler has finished.
CompleteControl ==
    /\ pc = "module"
    /\ relay_module_st = "RELAY_IDLE"
    /\ IF done_flag /\ active_chn # NO_RL_CHN_ACTIVE
       THEN /\ RLS_PRESENT' = BookedPresent
            /\ RLS_ACTUAL' = BookedActual
       ELSE UNCHANGED <<RLS_PRESENT, RLS_ACTUAL>>
    /\ done_flag' = FALSE
    /\ pulse_young' = FALSE
    /\ pc' = "select"
    /\ UNCHANGED <<RLS_SET, RLS_TARGET, src_control, relay_module_st,
                   control_when_timeout, active_chn, active_st, timer1, pin,
                   onRelayFlag, storeState, config, bounds>>

NothingToDrive ==
    /\ pc = "select"
    /\ RLS_TARGET = RLS_PRESENT
    /\ pc' = "end"
    /\ UNCHANGED <<relayState, driveState, pulseState, storeState, config,
                   bounds>>

\* The lowest channel whose target differs is prepared; a momentary channel
\* switched on by the application starts its pulse.
SelectChannel(i) ==
    /\ pc = "select"
    /\ RLS_TARGET[i] # RLS_PRESENT[i]
    /\ \A j \in Channel : j < i => RLS_TARGET[j] = RLS_PRESENT[j]
    /\ active_chn' = i
    /\ active_st' = RLS_TARGET[i]
    /\ pulse_young' = (/\ RLS_TARGET[i]
                       /\ switch_mode[i] = "MOMENTARY"
                       /\ src_control[i] = "SRC_APP")
    /\ IF pulse_young'
       THEN /\ onRelayFlag' = [onRelayFlag EXCEPT ![i] = TRUE]
            /\ src_control' = [src_control EXCEPT ![i] = "SRC_DEVICE"]
       ELSE UNCHANGED <<onRelayFlag, src_control>>
    /\ pc' = "busy"
    /\ UNCHANGED <<RLS_SET, RLS_TARGET, RLS_PRESENT, RLS_ACTUAL,
                   relay_module_st, done_flag, control_when_timeout, timer1,
                   pin, storeState, config, bounds>>

SetBusy ==
    /\ pc = "busy"
    /\ relay_module_st' = "RELAY_BUSY"
    /\ pc' = "compare"
    /\ UNCHANGED <<relayState, done_flag, control_when_timeout, active_chn,
                   active_st, timer1, pin, pulseState, storeState, config,
                   bounds>>

\* relay_set_up_time_to_change_state: timer1_update_cmp_value stops timer 1.
UpdateCompare ==
    /\ pc = "compare"
    /\ timer1' = FALSE
    /\ pc' = "rearm"
    /\ UNCHANGED <<relayState, relay_module_st, done_flag,
                   control_when_timeout, active_chn, active_st, pin,
                   pulseState, storeState, config, bounds>>

\* Mutant: the flag keeps its value from the previous switching.
RearmZeroSyncForgotten ==
    /\ pc = "rearm"
    /\ pc' = "end"
    /\ UNCHANGED <<relayState, driveState, pulseState, storeState, config,
                   bounds>>

\* From here the next zero crossing starts the timer.
RearmZeroSync ==
    /\ pc = "rearm"
    /\ control_when_timeout' = FALSE
    /\ pc' = "end"
    /\ UNCHANGED <<relayState, relay_module_st, done_flag, active_chn,
                   active_st, timer1, pin, pulseState, storeState, config,
                   bounds>>

\* The module is busy: keep waiting for the zero crossing ...
KeepWaiting ==
    /\ pc = "module"
    /\ relay_module_st = "RELAY_BUSY"
    /\ pc' = "end"
    /\ UNCHANGED <<relayState, driveState, pulseState, storeState, config,
                   bounds>>

\* ... until WAIT_ZERO_POINT_TIMEOUT_MS is over.
ZeroWaitExpires ==
    /\ pc = "module"
    /\ relay_module_st = "RELAY_BUSY"
    /\ active_chn # NO_RL_CHN_ACTIVE
    /\ ~control_when_timeout
    /\ pc' = "expired"
    /\ UNCHANGED <<relayState, driveState, pulseState, storeState, config,
                   bounds>>

GiveUpZeroSync ==
    /\ pc = "expired"
    /\ control_when_timeout' = TRUE
    /\ pc' = "force"
    /\ UNCHANGED <<relayState, relay_module_st, done_flag, active_chn,
                   active_st, timer1, pin, pulseState, storeState, config,
                   bounds>>

\* Mutant: the timer is not started.
ForceTimerForgotten ==
    /\ pc = "force"
    /\ pc' = "end"
    /\ UNCHANGED <<relayState, driveState, pulseState, storeState, config,
                   bounds>>

ForceTimer ==
    /\ pc = "force"
    /\ timer1' = TRUE
    /\ pc' = "end"
    /\ UNCHANGED <<relayState, relay_module_st, done_flag,
                   control_when_timeout, active_chn, active_st, pin,
                   pulseState, storeState, config, bounds>>

ProcReturn ==
    /\ pc = "end"
    /\ pc' = "loop"
    /\ UNCHANGED <<relayState, driveState, pulseState, storeState, config,
                   bounds>>

RelayProc ==
    \/ MapSetAndTarget \/ StoreTargetState \/ StoreNotDue
    \/ \E expired \in SUBSET Channel : AutoOff(expired)
    \/ CompleteControl \/ NothingToDrive
    \/ \E i \in Channel : SelectChannel(i)
    \/ SetBusy \/ UpdateCompare \/ RearmZeroSync
    \/ KeepWaiting \/ ZeroWaitExpires \/ GiveUpZeroSync \/ ForceTimer
    \/ ProcReturn

-----------------------------------------------------------------------------
(* Interrupt handlers.                                                     *)

\* RL_handleZeroSync; with control_when_timeout set it changes nothing here.
ZeroSync ==
    /\ ~control_when_timeout
    /\ control_when_timeout' = TRUE
    /\ timer1' = TRUE
    /\ UNCHANGED <<relayState, relay_module_st, done_flag, active_chn,
                   active_st, pin, pulseState, storeState, config, pc, bounds>>

\* relay_handle_control_when_timer_match
TimerMatch ==
    /\ timer1
    /\ timer1' = FALSE
    /\ IF relay_module_st = "RELAY_BUSY"
       THEN /\ pin' = IF active_chn \in Channel
                      THEN [pin EXCEPT ![active_chn] =
                              active_st \/ switch_mode[active_chn] = "LIGHTING"]
                      ELSE pin
            /\ done_flag' = TRUE
            /\ relay_module_st' = "RELAY_IDLE"
       ELSE UNCHANGED <<pin, done_flag, relay_module_st>>
    /\ UNCHANGED <<relayState, control_when_timeout, active_chn, active_st,
                   pulseState, storeState, config, pc, bounds>>

-----------------------------------------------------------------------------
Environment ==
    \/ PowerLoss
    \/ \E i \in Channel :
         \/ \E st \in BOOLEAN : AppControl(i, st)
         \/ Toggle(i) \/ MomentaryPress(i) \/ MomentaryRelease(i)
         \/ \E m \in Modes : ChangeMode(i, m)

Next == RelayProc \/ ZeroSync \/ TimerMatch \/ Environment

Spec == Init /\ [][Next]_vars

\* The main loop keeps running, an enabled timer matches, and time passes:
\* a deadline the code keeps looking at is over in the end.  Nothing is
\* assumed of the mains: there may be no zero crossing at all.
Fairness ==
    /\ WF_vars(RelayProc)
    /\ WF_vars(TimerMatch)
    /\ SF_vars(ZeroWaitExpires)
    /\ SF_vars(StoreTargetState)
    /\ \A i \in Channel :
          SF_vars(\E expired \in SUBSET Channel : i \in expired /\ AutoOff(expired))

FairSpec == Spec /\ Fairness

-----------------------------------------------------------------------------
(* Properties.                                                             *)

\* What the output of a channel should be when it is driven to st: a
\* LIGHTING channel feeds a dimmable lamp and stays closed.
Level(i, st) == st \/ switch_mode[i] = "LIGHTING"

\* The channel is being switched, or was and is not booked yet.
InFlight(i) ==
    /\ active_chn = i
    /\ relay_module_st = "RELAY_BUSY" \/ done_flag \/ pc = "busy"

\* A busy module whose zero-cross handler has been disarmed has the timer
\* running, or relay_proc is on its way to start it or to rearm: the switching
\* cannot hang until the ten-second watchdog of relay_proc reboots the device.
NoLostWakeup ==
    relay_module_st = "RELAY_BUSY" /\ control_when_timeout
        => timer1 \/ pc \in {"compare", "rearm", "force"}

\* A switching goes through its stages in order: the channel is chosen before
\* the module is busy, the timer handler finishes it and frees the module, and
\* relay_proc books it before it chooses the next one.
FlightOrder ==
    /\ relay_module_st = "RELAY_BUSY" \/ done_flag \/ pc = "busy"
          => active_chn \in Channel
    /\ done_flag => relay_module_st = "RELAY_IDLE"
    /\ pc \in {"select", "busy"}
          => relay_module_st = "RELAY_IDLE" /\ ~done_flag

\* What is about to be booked is what the timer handler drove.
DrivenAsBooked ==
    done_flag => pin[active_chn] = Level(active_chn, active_st)

\* Whenever relay_proc has nothing left to do for a channel (RLS_PRESENT
\* equals RLS_TARGET and the channel is not in flight) its output is what the
\* target and the mode ask for, and so is the state the meter is told.
SettledPins ==
    \A i \in Channel :
        ~InFlight(i) /\ RLS_PRESENT[i] = RLS_TARGET[i]
            => pin[i] = Level(i, RLS_TARGET[i])

\* The energy meter's view of a channel at rest is its output: the value that
\* CompleteControl books is the one the timer handler drove.
ActualIsPin ==
    \A i \in Channel :
        ~InFlight(i) /\ RLS_PRESENT[i] = RLS_TARGET[i]
            => RLS_ACTUAL[i] = pin[i]

\* The inductive invariant behind SettledPins and ActualIsPin.
SettledInv == FlightOrder /\ DrivenAsBooked /\ SettledPins /\ ActualIsPin

\* With no deferred store pending, flash holds the state in force: a power
\* failure restores it for every channel whose policy is to restore.
DurableTarget ==
    ~store_enable =>
        \A i \in Channel :
            /\ RLS_SET[i] = RLS_TARGET[i]
            /\ switch_mode[i] # "MOMENTARY"
                  /\ power_on_state[i] = "POWER_UP_RESTORE"
               => flash[i] = RLS_TARGET[i]

\* The inductive invariant behind DurableTarget: between the mapping of the
\* requests and the store there is nothing left to map.
DurableInv == DurableTarget /\ (pc = "store" => RLS_SET = RLS_TARGET)

\* Every switching ends, whether or not the mains shows a zero crossing.
BusyEnds == relay_module_st = "RELAY_BUSY" ~> relay_module_st = "RELAY_IDLE"

\* A momentary channel that is not held by a finger comes to rest open: what
\* the application switches on is switched off again by relay_check_auto_off.
MomentaryRests ==
    <>[](\A i \in Channel : switch_mode[i] = "MOMENTARY" => ~pin[i])

\* Once requests and power failures stop, every output takes the level that
\* was last set for it and keeps it, and the state is in flash.
Converges ==
    <>[](/\ RLS_TARGET = RLS_SET
         /\ \A i \in Channel : pin[i] = Level(i, RLS_SET[i])
         /\ ~store_enable)

=============================================================================

# A verification of the wall-switch firmware

TLA+ models, model-checking configurations and machine-checked proofs for the
application of this repository: the firmware of a mains-powered wall switch
(up to three relays, two scene buttons) on a Telink TLSR8258 Bluetooth-mesh SDK.
The application's own logic is `src/vendor/mesh/user/**` with the main loop in
`src/vendor/mesh/app.c`, the interrupt entry in `src/vendor/mesh/main.c` and the
100 ms tick in `src/vendor/common/system_time.c`. The mesh stack, drivers, boot
code and the other example applications are vendor code and only appear as the
environment. Paths below are relative to `src/vendor/mesh/user/`.

The build options the models follow are those of `app_config_8258.h` and the
headers of `user`: `ZERO_CROSSING_ENABLE 1`, `DETECT_RELAY_TYPE_EN 1`,
`MAP_INPUT_OUTPUT_EN 0`, `SWITCH_ENABLE_BINDING 1`, `FACT_ENABLE 1`,
`EN_SWITCH_CONFIG_DIMMING 1`, `CURRENT_CORRECTION_EN 0`, `BL0906_CALIB_EN 0`,
`OVER_CURRENT_DETECT 0`.

Modules of one component: `X.tla` (the model with its properties), `MCX.tla`
and `*.cfg` (instances for TLC), `XProofs.tla` (theorems; `ButtonProofs` is
about the scanner and both of its handlers, `SettingsProofs` about LockSchedule
and SwConfig). A definition that
begins with the comment `Mutant:` is a bug the code does not have; with it in
place of the real definition a property of a run must fail.

## 1. Inventory

One main loop (`app.c` 665-720) runs everything: the mesh stack with its
message handlers and timers, the delayed factory reset, the default network,
LEDs, the button scan, `relay_proc`, the clock, the factory test and a table of
delayed functions. Two interrupt handlers share memory with it, and a third one
receives the serial bytes of the metering chip.

| Component (files) | State | Operations | What is hard |
|---|---|---|---|
| Relay driver (`relay.c`) | bit masks SET, TARGET, PRESENT, ACTUAL; the active switching; deferred store; pulse timers | requests (mesh, button, mode), `relay_proc`, store, restart | interrupts between any two accesses; requests that overlap a switching |
| Timer and zero-cross interrupts (`user_irq.c`) | timer 1, `control_when_timeout` | falling edge of the mains, timer match | race with the 70 ms give-up in `relay_proc` |
| Flash log (`flash_user.c`) | one sector, the index of the last record | store, erase, scan at start-up, restore | a power failure between erase and write |
| Energy account (`energy.c`) | per channel: offset, total, restored total, reported | readings, publishing, store, restart | counter wrap, reset of the chip, restart of either side |
| Energy reports (`energy.c`) | per channel: a waiting report, two periods, a waiting total | change of the relay, change of the load, periods, time | reports that replace, refuse and postpone each other |
| Metering chip driver (`periph/bl0906.c`, `fifo.c`) | queue of reads, the read in progress, gain | ask, receive, time out, decode | late or lost answers, a full queue |
| Button scanner (`periph/periph_button.c`) | per button: previous level, hold step, press count, two times | one visit per scan interval | the pin changes between the reads of one visit |
| Button events (`button.c`) | last event per button, two reset gestures | relay requests, key reports, factory reset | two buttons, timeouts, a lock in between |
| Dimming (`dimming.c`, `button.c`, `execution_scene.c`) | per button: last event, `hold_500ms_flag`, direction | tap, hold, release | a lock or an unbinding between hold and release; a press counted after the hold |
| Switch configuration (`sw_config.c`) | one stored image, the announcement in progress | messages that set and read it, announcement, join | partial validation, changes acknowledged but not stored |
| Group binding (`sw_binding.c`, `net_message.c`) | bound groups, what the group was told | local change, group message | a loop of echoes; channels that end apart |
| Automatic on/off (`sw_auto.c`) | per channel delay and start time | state change, tick | the destination of the last message, used later |
| Child-lock schedule (`lock_schedule.c`) | lock per button, schedule, last minute seen | task every second, messages, start-up | windows over midnight, clock set at any time, restart |
| Clock (`timestamp.c`, `standard/time.c`) | seconds since 1970, synchronised flag | tick, set, expire | calendar boundaries |
| Scene execution (`execution_scene.c`) | stored scene conditions | match a key, send repeatedly | |
| Factory reset, default network (`factory_reset.c`, `default_network.c`) | a delayed action | set up, expire | reset racing a provisioning |
| Messages (`net_message.c`) | the destination of the last command | on/off, lightness, status | a command compared with a state that lags |
| LEDs, key reports, EEPROM, diagnostics, helpers, factory test | output or test only | | |

Who calls whom: the scanner calls the button handler, which asks the relay
driver, the dimming or a scene, or sets up a factory reset. Messages change the
configuration, the lock schedule, the bindings and the relay driver's set mask.
The relay driver calls back when a channel has changed: the message handler,
which tells the group, and the energy module, which sets up a report. The
metering chip's driver hands readings to the energy module. Relay states,
configuration, locks and energy are each stored in a flash log of their own.

What makes the modelled ones correct: a requested switching is carried out once
and the output, the driver's view, the meter's view and the record in flash
agree again afterwards; a record survives a power failure; no channel is charged
for energy it has not used; readings are taken as what they are and keep coming;
every change of the load is heard of in bounded time; every press reaches its
handler as press, hold and release in this order, and no gesture resets the
device by accident; lights that fade are stopped; a lock follows its schedule at
every minute; switches bound to one group end in one state without answering
each other for ever; and what the gateway was told of a setting stays true.

## 2. Modules

### Relay (relay.c, user_irq.c)

State: the four masks as functions from channels to booleans, `relay_active_st`,
the module's flags, the outputs `pin`, the deferred store and its record,
configuration per channel. `pc` splits `relay_proc` where an interrupt handler
can observe a difference: `loop` (elsewhere in the main loop), `store`
(`relay_handle_store_delay`), `auto_off` (`relay_check_auto_off`), `module`
(busy or idle), `select`, `busy`, `compare`, `rearm` (the three statements that
set up a switching), `expired`, `force` (giving up the zero crossing), `end`.
`ZeroSync` and `TimerMatch` are the interrupt handlers and may run at any pc.
Requests run at `loop`: `AppControl` (mesh), `Toggle`, `MomentaryPress`,
`MomentaryRelease` (buttons), `ChangeMode` (configuration). `PowerLoss` may come at any instant and includes
`relay_init`. An elapsed-time test is a free choice, with one exception: the
500 ms pulse of a momentary channel outlasts its own switching (70 ms and half a
mains period), which `pulse_young` expresses.

### DurableCell, FlashLog (flash_user.c)

`FlashLog` is the log sector in blocks; `Store`, `EraseSector` and `WritePage`
are the steps between which power may fail (`Crash`, including the scan of the
restart). `DurableCell` is what its users rely on: one value that survives, a
store that happens or does not (or leaves a torn record), and the one window in
which everything may be lost, while a full sector is recycled.

### Energy (energy.c, pulse counters of bl0906.c)

Per channel the chip's counter, the reading (`cf_cnt_offset`, `cf_cnt_present`,
`active_energy`), the account (`active_energy_power_on`,
`active_energy_offset`, `total_active_energy`), what was reported, and the
record. The history variable `consumed` is what the load really used. `Consume`
and `ChipReset` are the chip; the others are the handlers of the same name, each
of which runs to its end. One pulse is one unit of energy.

### EnergyReport (energy.c)

When one channel's measurements are sent. `RelayChanges` is
`energy_handle_relay_state_change`, `Measured` and `Scanned` the end of a reading
and of a scan, `SetupIup` and `SetupTotal` the two functions that set a report
up; the passes of `energy_proc` that find a report or a period due have the
names of the code (`energy_publish_periodic_proc` and the two
`energy_publish_..._delay_proc`), and `Tick` is time passing while nothing is due.
A measured value is a record of current, voltage and power, and `NeedsReport` is
`energy_iup_is_need_report_by_delta` with its percentages and minima, in whole
milliamperes, millivolts and milliwatts where the code has floats. `on` changes
with the callback, although the relay of the meter's view follows up to 70 ms
later, which is less than a tick. The histories count
how long the gateway has not heard (`quiet`, `overdue`, `total_quiet`) and mark
the two ways in which the code itself gives a report up (`swallowed`,
`postponed`).

### MeterLink (bl0906.c, fifo.c, energy.c, my_fifo of tutility.c)

One `Tick` is `sw_loop_100ms_interval`: the gain, the scan of `energy.c` that
asks for four values per channel, and one step of the queue of reads (`Ask`,
`NothingToAsk`, `KeepWaiting`, `TimeOut`). `FifoPush` keeps what the ring of
`fifo.c` does when it overflows: the waiting reads are gone. `Receive` decodes
one frame with its checksum. The chip is `ChipServes` (answers in order),
`Lose`, `FallSilent` (it may forget its gain) and `AnswerAgain`; while it is
not `up`, a command or its answer may be lost or come any number of ticks late.
Of a frame only the sum of its bytes, its checksum and the gain matter.

### ButtonScan (periph_button.c)

Each visit of `option_button_scan` to one button is one action (`ScanPress`,
`ScanHold`, `ScanRelease`, `ScanIdle`, `ScanBounce`), chosen by the levels the
pin may have at the reads of this visit; `out` holds the calls of the handler it
makes, which return one by one. `LateReads` lets the final read (`prev_state`)
differ from the first. Time is abstracted to the age of the last counted press
(`recent` up to 700 ms, `due` up to 900 ms, `over`), and a hold threshold may
have passed whenever that age allows it; `hold_old` covers a `start_hold_t`
older than the press. `open`, `held` and `longest` are what the handler was told
since the last START_PRESS; `tapped` marks a press that was over, to the reads of
one visit, before any visit of its hold.

### Buttons, Dimming (button.c, dimming.c)

Both EXTEND the scanner and handle its calls with `Handle`,
`button_handle_option_btn_state`.

`Buttons`: the relay requests (`asked`), the key reports, the two reset gestures
with their cleaning every 100 ms, and a lock set by the schedule or a message.
A lock may come at any time. The history `together` is set while both buttons of a
gesture are held beyond five seconds and cleared when the gesture is given up;
`barred` marks a relay button that was locked, or overtaken by an armed gesture,
in the middle of a press, until its relay hears a press again.

`Dimming`: buttons of lit channels (`LightEffect`, `dimming_handle_btn_st`) and
scene buttons to which a dimming is bound (`SceneEffect`,
`button_handle_scene_btn_state` with `execution_dimming_control`). `lights` is
what the bound group was told last. A button may be locked, unlocked, bound and
unbound between any two calls. `disturbed`, `uneven` and `left_on` are histories
of what came in the way of the latest press.

### LockSchedule (lock_schedule.c, timestamp.c)

The clock is a minute of the week, unset after a restart, set by a message and
believed for seven days. `lock_schedule_task` splits into `BecomeReady`
and `CheckMinute`; `LockBySchedule` and `SetAlways` are the set
message with its validation and immediate evaluation; `storing` separates the
store of the schedule from what comes before, so that `Restart` may fall between.

### GroupBinding (net_message.c, sw_binding.c, relay.c)

Several switches bound to one group. `StartMap`, `MapChannel` and `SkipChannel`
are the loop of `relay_map_set_and_target_status` with its callback for each
changed channel, which compares the state with what the group was told
(`told`), sends, and sets the switch's other bound channels. `Deliver` is a
group message at its receiver, with the echo filter; `Lose` loses one. Causes
from outside are `Press`, `Command`, `Broadcast`, `AutoControl`, binding,
unbinding and `Restart`.

### SwConfig (sw_config.c)

Per channel mode, toggle type, link, group default and state after power-up, as
they are in force (`cfg`), stored (`saved`) and told to the gateway (`said`).
One action per message: `SetLink`, `SetModeAndType`, `SetMode` (its short form),
`SetPowerUp`, `SetOnPowerUp`, `SetLinks`, `SetGroup`, `Get`, `GetAll`. `AutoSend`
is one pass of the announcement, `Join` and `DelayOver` the one 30 s after a
join, `ConfigRestart` the start-up. The indices are computed as the code computes
them, the wrong ones included.

## 3. Runs

| Run | Bounds | Shows |
|---|---|---|
| `relay_safety` | 2 channels, 3 modes and their changes, 2 requests, 1 power failure | NoLostWakeup, SettledPins, ActualIsPin |
| `relay_live` | 2 channels, 2 fixed modes, 2 requests, 1 power failure, fairness | DurableTarget, BusyEnds, Converges, MomentaryRests |
| `flash_log` | 4 slots, 10 stores, 2 power failures | WriteOnErased, ScanAgrees, ImplementsCell |
| `energy_count` | 2 channels, counters modulo 3, 4 units each, a restart and a chip reset | NeverOvercounts |
| `report_timers` | 1 channel, 3 loads, waits of up to 4 ticks and periods of up to 5 | HeardInTime, ChangeIsHeard, TotalInTime |
| `meter_link` | 2 channels, 1 value each and the voltage, a queue of 5, a scan every 6 ticks, the gain every 15 | TakenIsAsked, DropsNeedSilence, KeepsBooking, GainIsSet |
| `buttons_reset` | the 2 buttons of the reset gesture and a third one, both relays momentary, counts to 2, in four situations (below) | ButtonsTypeOK, MomentaryOpens, GestureIsSilent, ArmedIsReleased, ResetNeedsHold |
| `dimming` | 1 button of either kind, counts to 2, contacts that change within a visit | DimmingTypeOK, HeldIsReleased, PressIsReleased, FadingStops, PressActsOnce, FadeIsNotPress |
| `lock_schedule` | 2 buttons, 2 days of 4 minutes, 4 windows | FollowsSchedule, RestartKeepsLock |
| `group_binding` | 2 switches with 2 and 1 channels, 2 causes | ToldIsState, Agreement, NoEcho, DiesOut |
| `switch_config` | 3 channels behind 2 scene buttons, 3 events from outside | ConfigTypeOK, GatewayKnows, RestartKeepsConfig, AnnouncementHeals, JoinIsAnnounced |
| `energy_store` | 2 channels, one restart | violates StoredNeverShrinks (section 4) |

The type invariants of the modules that have proofs are theorems and are not
run again.

Bounds.

* Relay: two channels are enough for what channels share (one active switching,
  one record, one store flag) and for the order in which they are served; a
  second request lands in every phase of the switching of the first, a third one
  adds only another round of the same. Mode changes and the deferred store are
  in different runs because a mode change does break DurableTarget and
  MomentaryRests (section 4).
* FlashLog: ten stores are two and a half turns of a four-block sector, so wrap,
  erase and scan happen in every combination with two failures.
* Energy: four units on counters modulo 3 make the counter wrap; a threshold of
  two units makes a total pass from offset to report to store within them.
* EnergyReport: the waits are shortened but keep the order they have in the
  code, also that the fast wait (4 s + 3 s) may exceed twice
  `ENERGY_FAST_REPORT`, which is what a waiting report refuses. The loads are
  nothing, 20 W and 1 W: from either of the small ones to 20 W is enough for a
  report and, by the percentages below 2.5 W, no way back is.
* MeterLink: queue, scan and gain intervals have the proportions of the real
  ones (ten reads, 16 slots, 20 and 50 ticks), as the assumption of
  `MCMeterLink` says. `SILENCE` = 3 missed answers is the most for which
  DropsNeedSilence holds there (TLC finds reads dropped after three with
  `SILENCE` = 4), and also the most for which the theorem below has it;
  `MaxLate` = 2 commands may be on their way at a chip that does not answer.
* Buttons: the scanner keeps nothing between buttons, so one is enough for
  Dimming. The reset gesture takes two and one press, and a button that the armed
  gesture overtakes is a third; all three with all they may do are too many
  states. `MCButtons` therefore lets each behaviour be in one of four situations,
  and `Within` says what each leaves out: `gesture` (the pair, without locks),
  `locked` (the pair, the relay's button locked at any time; no holds beyond
  HOLD_5S and no presses in quick succession), `beside` (all three, without locks,
  the third held for a moment only, up to the first factory reset) and `bounce` (the
  relay's button alone, with contacts that change within a visit, locked at any time;
  no holds of five seconds, for which GestureIsSilent needs steady contacts).
  Counts from `MaxPress` on are alike for these handlers. The theorems of section 5
  are about the module without these situations.
* LockSchedule: the windows are one within a day, one over midnight, one of
  equal ends and one that is refused; `MAX_U8` is a minute of the day, as the
  initial 255 is 04:15.
* GroupBinding: one switch with two channels has both ways to follow a change,
  by the message and by the switch itself. Two causes may cross or overlap.
* SwConfig: three channels behind an offset of two tell the index errors apart;
  three events allow a change, a restart and a join in any order, or one of them
  with the query of one element (`Get`, an event too) before and after it. The
  query of everything (`GetAll`) is not an event: it may come at any time.

`MaxPress`, `MaxRequests`, `MaxPowerLosses`, `MaxStores`, `MaxCrashes`,
`MaxConsumed`, `MaxRestarts`, `MaxResets`, `MaxLate`, `MaxCauses` and `MaxEvents`
are the bounds in the modules, and the proofs hold for any value of them;
`Within` is the one bound of an MC module. Deadlock is
checked except in `flash_log`, `energy_count` and `energy_store`, where the
bounds make the model stop. Symmetry is not used: the loops serve the lowest
channel first.

Fairness.

* Relay: the main loop keeps calling `relay_proc` (weak fairness of its next
  step), a timer that was started matches (weak fairness of `TimerMatch`), and a
  deadline that `relay_proc` keeps looking at has passed in the end: strong
  fairness of giving up the zero crossing, of the deferred store and of the end
  of a pulse, because each of those looks is one of many visits of the same
  `pc`. Nothing is assumed of the mains: `BusyEnds` and `Converges` hold with no
  zero crossing at all.
* MeterLink: the 100 ms tick goes on (weak fairness of `Tick`), the main loop
  empties the receive ring (`Receive`), and the chip answers while it works
  (`up /\ ChipServes`). Nothing is assumed of a silent chip: KeepsBooking and
  GainIsSet are about runs in which it works from some time on.
* GroupBinding: the loop over the channels goes on (`StartMap`, `SkipChannel`,
  `MapChannel`), and a message that is not lost arrives (`Deliver`).
* SwConfig: the main loop calls `sw_config_auto_send_task`, which makes the next
  announcement and looks at the delay after a join (`AutoSend`, `DelayOver`).

## 4. Findings

`energy_store` is a violation run with the counterexample of TLC: a store caused
by one channel overwrites the record of one not used since start-up with 0
(`energy.c` 183), and the next restart continues from 0.

What the models also allow, and the runs above leave out by their constants or
properties except by name:

Relay

* A command is compared with `RLS_TARGET`, which lags: OFF directly after ON is
  dropped as "Control same state" (`net_message.c` 684).
* A mode message between the timer match and its booking (`relay.c` 769) books a
  state the output does not have. The request kind `"mode_completing"` is this
  message; with it `relay_safety` breaks ActualIsPin.
* A toggle pending when its channel becomes momentary is carried out in the new
  mode with source `SRC_DEVICE`, and no pulse opens the channel again
  (`relay.c` 1107); an ON that arrives while a switching from before the change
  is in flight finds the channel closed already and starts no pulse either. With
  `"mode"` among its requests `relay_live` breaks MomentaryRests.
* A momentary channel stores its closed state when held for three seconds; made
  a toggle channel, it is restored closed after a power failure although it was
  open, and `relay_live` breaks DurableTarget.
* Timer 1, left running from before, may match between `RELAY_BUSY` and
  `timer1_update_cmp_value` and switch the relay away from the zero point
  (`relay.c` 824).

Buttons

* A tap that ends before the last read of its visit is never released
  (`periph/periph_button.c` 378), and the relay of a momentary button stays closed:
  the exception `tapped` of PressIsReleased and MomentaryOpens, without which
  `buttons_reset` fails in the situation `bounce`.
* A button locked while held leaves its momentary relay closed (`button.c` 362),
  and so does a gesture that is armed while a third button is held (630): the
  exception `barred` of MomentaryOpens, without which `buttons_reset` fails in the
  situations `locked` and `bounce`, and in `beside`.
* A press made before the arming confirms the factory reset, because its count
  is delivered 700 ms later (`button.c` 515).
* A press of about 850 ms is reported as a press and as a hold of two seconds
  (`periph/periph_button.c` 328).

Dimming

* A locked scene button still starts a dimming when held, as `HOLD_500MS` does
  not look at `is_lock` (`button.c` 229), where the commented-out case above it
  (217-227) and the other cases that send something do; its release then sends
  no stop.
* A lock or an unbinding between hold and release leaves the lights fading and
  the flag set; the next tap only stops them.
* A tap of a dimming scene button that is longer than 50 ms blinks
  (`button.c` 307) but sends no step, as only START_PRESS before RELEASE does.
* A tap within a second after a long hold is swallowed with the hold's own
  count (`button.c` 235).

Energy and its reports

* A change of the relay takes the present values for reported although its own
  report may be refused (`energy.c` 543) because one of a changed load waits,
  and that one is then dropped (499): the gateway hears of neither. This is the
  exception `swallowed` of ChangeIsHeard. The refusal compares with 2 * 3 s
  where the fast wait is 4 s + 3 s (`energy.h` 53).
* Each report of current and power, sent or dropped, restarts the period of the
  total (`energy.c` 502, 529), the exception `postponed` of TotalInTime.
* `active_power_max` is in mW but compared with 100 to 1000 as if in W
  (`energy.c` 407): every load above 1 W gets the threshold of the largest.
* Below 2.5 W the percentages of current and power become 120, which no decrease
  reaches (`energy.c` 613): a load that vanishes behind a closed relay is not
  reported as a change and waits for the periodic report, up to two hours.
  `NeedsReport` is false of it, so ChangeIsHeard does not speak of it, HeardInTime
  does.
* The gain is not written again once read back, although the chip forgets it
  when it restarts on its own (`bl0906.c` 1192), and an answer that waits in the
  ring while the chip restarts makes the driver believe a gain that is gone. So
  GainIsSet begins with a gain not yet known, an empty ring and a chip that stays
  up; without any one of the three `meter_link` breaks it.
* A silent chip fills the ring, and its overflow drops up to 15 reads
  (`fifo.c` 64); the scans get back into step, as KeepsBooking says.

Lock schedule

* After a restart the last minute is 255, a real minute (04:15): a schedule set
  before the first evaluation is checked against it (`lock_schedule.c` 554).
* A clock set to another day at the same minute is evaluated in the next minute
  only (the exception `jumped` of FollowsSchedule); a clock not set for seven
  days freezes the locks; a window over midnight is judged, after midnight, by
  the new day's bit.
* A lock set by a message on a button with a schedule is not stored and may
  change with a restart (the exception of RestartKeepsLock).
* `timestamp_get_second_in_day` tests the flag the wrong way round; it has no
  callers.

Groups

* A channel bound again is not told of, so its first change may look told
  already (`net_message.c` 398), the exception `rebound` of ToldIsState.
* An automatic switching after a group message that changed nothing uses that
  message's destination, and the group is not told (`sw_auto.c` 108).
* Crossing presses on two switches may leave them apart: Agreement is about
  changes that come alone.
* `check_en_control` subtracts the offset of the relay elements twice and reads
  before its array (`net_message.c` 680).

Configuration

* The link of `SetLink` is answered but not stored (`sw_config.c` 672).
* The short mode message resets the toggle type of another channel (719), and
  the power-up message uses an index of its own (760).
* The announcement skips the mode of channel 0 and never announces group
  defaults (262).

## 5. Theorems

All are checked by TLAPS for every value of the constants that satisfies the
named assumption of the module (`RelayAssumption`, `FlashLogAssumption`,
`EnergyAssumption`, `ButtonScanAssumption`, `ButtonsAssumption`,
`MeterLinkAssumption`, `LockScheduleAssumption`, `GroupBindingAssumption`,
`EnergyReportAssumption`, `SwConfigAssumption`), which TLC evaluates in the runs.
Every invariant and every action property that a run checks is a theorem too.
Where a theorem needs more than that assumption, it says so in its statement:

| Hypothesis | Of | Why |
|---|---|---|
| `NoModeRace` | OutputsAtRest, EnergySeesPin | no mode message falls between match and booking; it breaks both (section 4) |
| `StoredRequests` | StoreIsDurable | a change of the mode breaks it (section 4) |
| `~LateReads` | LongPressesAreNotShort, GesturesAreSilent, ResetsNeedHold | contacts that change within a visit give a hold the start time of an earlier press: a long press may then be counted as a short one too (TLC finds GestureIsSilent violated). ResetsNeedHold rests on the same invariant of the scanner (SteadyInv) |
| `Provisioned` | DropsAreJustified | the proportions of ring, scan and gain; the real ones satisfy it |

Relay

* `TypeCorrect`, `NoLostWakeupHolds`. NoLostWakeup is inductive given the types:
  every step that disarms the zero-cross handler also starts the timer or leaves
  `pc` where `relay_proc` will.
* `OutputsAtRest`, `EnergySeesPin`. `SettledInv` strengthens SettledPins and
  ActualIsPin: a switching goes through its stages in order (`FlightOrder`), what
  is about to be booked is what was driven (`DrivenAsBooked`), and a settled
  channel has the output and the meter's view its target and mode ask for.
* `StoreIsDurable`. `DurableInv`: with no store pending nothing is left to map,
  and flash holds the target.

Flash and energy

* `FlashLogProofs`. `LogInv` adds the shape of the sector (`LogShape`: written
  blocks form a prefix, and which one at each phase). From it follow
  `LogTypeCorrect`, `NeverOverwrites`, `RestartFindsLast` and, step by step,
  the refinement `LogImplementsCell`.
* `EnergyProofs`. `EnergyInv` adds `AccountInv`: what the account stands for
  after the last reading (`Counted`) and what the counter holds that is not
  read yet (`Unread`) together never exceed the consumption. `EnergyTypeCorrect`
  shows the unsigned subtractions do not wrap, `NoOvercount` that no total,
  report or record is too high.
* `EnergyReportProofs`. `ReportTypeCorrect` for the ranges;
  `ReportHeardInTime` from `HeardInv` (while no periodic report is set up, its
  period covers what is left of the time); `ReportTotalInTime` from `TotalInv`
  (a total that waits is within its wait, one that does not is within its
  period); `ReportChangeIsHeard`, for any set of loads, from `KnownInv` (unless one
  was swallowed, the values taken for reported are what the gateway has, and a
  difference that `NeedsReport` calls enough has a report waiting).

Metering chip (`MeterLinkProofs`)

* `LinkTypeCorrect`: whatever the ring of `fifo.c` drops, it holds registers and
  a free slot. `NeverMistaken`: no answer, however late, is taken for that of
  another register, because adding two different register numbers below 256 to
  the same bytes gives different checksums (`ChecksumSeparates`), and frames keep
  their checksum on the line.
* `DropsAreJustified`. DropsNeedSilence says nothing about how full the ring is
  before it overflows, so `PaceInv` bounds its `Work`, the ticks it takes to run
  empty if every answer comes late. A scan adds `2 * Reads` of it and the gain 2,
  each tick takes one off unless an answer is missed, and the time since the last
  scan and the last reading of the gain stands for what they have left of it:
  scaled by both intervals (`Cycle`), the sum of these never exceeds what one
  scan, one reading of the gain and the missed answers amount to (`Bound`). This
  is arithmetic of products (`BusyBound`, `IdleBound`, `BoundAtGain`,
  `BoundAtScan`), stated apart from the model and proved with one comparison per
  step. For the real numbers it allows ten missed answers before a read is lost.

Buttons (`ButtonProofs`)

* The scanner. `HoldsAreReleased`: `HoldInv`, a reported hold is remembered in
  `hold_step`, for any contacts. `PressesAreReleased`: `PressInv`, a reported press
  is remembered in `prev_state` or in `hold_step`, for any contacts, unless it is
  `tapped`. `LongPressesAreNotShort`: `SteadyInv`, with steady contacts the length
  of a hold is remembered in the age of its press.
* The scanner under a handler. `ButtonsImplementScanner` and
  `DimmingImplementsScanner` map each behaviour of a handler to one of the
  scanner, so that what is proved of it holds of both (`ButtonsPressesAreReleased`,
  `DimmingHoldsAreReleased`).
* The gestures. `ButtonsTypeCorrect`. `ArmingReleased`: `ReleasedInv`, a button
  whose last event was a release has no press open but one about to be reported.
  `GesturesAreSilent`: `SilentInv`, a report that waits belongs to a press that is
  over, and a hold of five seconds cannot be one. `MomentaryRelaysOpen`,
  for any contacts, buttons and locks: `HeardInv`, a relay that was asked to close
  and is not `barred` listens, and its press is open or its release about to be
  reported; a button last known as idle has no press open but a `tapped` one. `ResetsNeedHold`: `TogetherInv`, a gesture that has begun
  has seen both buttons held, which follows the phases of
  `button_handle_special_option_btn_state` for both gestures at once.
* Dimming. `DimmingTypeCorrect`. `FadingsStop`: `FadeInv`, for any contacts, a set
  `hold_500ms_flag` has a hold whose release is still to come, or a history of why
  not. For the others the contacts are steady within a visit during the press
  spoken of (`uneven` is part of the properties): `EvenInv` brings what the calls
  say together with what was pressed, `FadesAreNotPresses` follows from
  `UnreportedInv` (the count of a press that fades is still to come, or is
  swallowed), `PressesActOnce` from `OnceInv` (an undisturbed press waits, starts,
  fades or is over, and has done what each of these says).

Settings (`SettingsProofs`)

* `WindowIsCyclic`: the comparisons of
  `lock_schedule_check_active_time_point` are membership in one cyclic interval
  of the day. `LockTypeCorrect`; `LockFollowsSchedule`, with `FreshClock` (a
  clock believed before the device is ready was set since the restart);
  `LockSurvivesRestart`, with `RestartInv` (at rest the stored schedule is the
  one in force, and the stored lock is the present one but for `unsaved`).
* `ConfigTypeCorrect`. `GatewayIsRight`, `RestartsKeepConfig` and
  `AnnouncementsHeal` share an invariant: GatewayKnows is only inductive with
  `SavedInv` (what is in force is stored, links excepted), without which a
  restart would falsify what was told, and `HealInv` says of an announcement past
  the links that no belief in one is false. Every message but a join and a
  restart is shown once to tell what it changes and to store it (`ConfigStep`).

Groups (`GroupBindingProofs`)

* `GroupTypeCorrect`; `NoMessageIsEcho`, with `OwnHasCause` (a change a channel
  will tell has a cause of its own); `GroupKnows` (ToldIsState is inductive given
  the types); `ChangeReachesAll`, with `Spreads` (of an undisturbed change, each
  bound channel has the new state, is about to take it, or has a message of it on
  its way, or one channel is still to tell).

The strengthened invariants were checked by TLC on the instances of section 3
before they were proved.

Model-checked only: liveness (BusyEnds, Converges, MomentaryRests, KeepsBooking,
GainIsSet, DiesOut, JoinIsAnnounced), which is outside the prover's reach, as
are ENABLED, induction over data and RECURSIVE operators (the models have none).

## 6. Not modelled, and simplifications

* Relay: `relay_force_control` (only called by the calibration of the metering
  chip, which this build leaves out), the OFF of all channels when the factory
  test starts, the reboot after ten seconds without progress (NoLostWakeup and BusyEnds
  say it is never needed), `relay_control_refresh_all` (compiled out), the
  estimate of the mains frequency and the compare value, the on-time account,
  LEDs and status callbacks, the read-modify-write of a GPIO port shared with
  other outputs. Enabling or disabling timer 1 takes two register writes and is
  one flag.
* Flash: an erase is atomic; how an interrupted erase leaves the sector is not
  known from this repository. A store that crosses a page is one write; a
  record cut short is torn in either case.
* Energy: floats, watt-hours and u32 truncation; the undefined conversion of a
  negative difference is a free choice. `energy_handle_delete_power_information`
  has no caller, `serial_queue.c` neither; over-current detection and the
  calibration are compiled out. Energy and EnergyReport are separate: when a
  total is set up is open in the one, and what it says in the other.
* Buttons: key reports and gestures are in Buttons, dimming in Dimming, and the
  two are not composed; blinks, the ten-press announcement (its effect is
  `GetAll` of SwConfig) and factory-test mode are left out. Both gestures are
  defined; the run presses the two buttons of the factory reset (the pair of the
  default reset, which takes five presses, is too large for exhaustive
  checking). A button held at start-up counts from `start_hold_t` = 0, which is
  taken as its press.
* Dimming: the lightness and its transition are the mesh stack's; the stored
  dimming settings (`EN_SWITCH_CONFIG_DIMMING`: speed, level when switched on)
  decide how fast lights fade, not when they do. Messages to the group arrive.
* Lock schedule and clock: the calendar is old library code of which only the
  minute and the day of the week are used; they are the model's clock.
* Groups: all channels toggle (a LIGHTING channel with a stored level tells the
  group a lightness instead, `net_message.c` 238); the delay of the automatic
  on/off is a free choice; lightness and colour commands and the application-key
  binding of `bind.c` are the mesh stack's.
* Configuration: each setting has two values and one out of range; answers are
  taken as sent.
* Scenes: the table of scenes and the sending of a scene have no state the
  modelled parts share.
* Components listed as `not_modelled` in PROJECT.json, with the reasons there:
  their state is only output, test, the provisioning of the mesh stack (a binary
  library here), or the code of the SDK.

## 7. What could come next

1. The safety parts of the liveness properties as theorems (that a switching in
   flight always has a step that ends it, that a join is owed only while a delay
   or an announcement is under way); weaker hypotheses for ResetsNeedHold, for a tap
   that bounces while no gesture is on its way.
2. The reset gestures and the dimming composed in one handler; a lit channel of
   GroupBinding that tells a lightness; the delay of `sw_auto.c` counted.
3. The on-time account of the relay with `cycle_funcs.c`; the stored dimming
   settings; the delayed factory reset, once the provisioning state it acts on is
   stated.

----------------------------- MODULE EnergyReport -----------------------------
(***************************************************************************)
(* When one channel's measurements are sent to the gateway (energy.c):     *)
(* current, voltage and power ("iup") when the relay has changed, when the *)
(* load has changed by enough, and periodically; the total of energy       *)
(* ("total") when it has grown, after the relay has opened, and            *)
(* periodically.  Each is sent after a random wait, and both share the     *)
(* time the total's period starts from.  The channels share nothing here.  *)
(*                                                                         *)
(* Time advances in ticks; energy_proc runs many times in each, so nothing *)
(* that is due outlives a tick and its parts may run in any order.  Of     *)
(* what is measured, current, voltage and power are kept, as whole numbers *)
(* of mA, mV and mW; an energy reading only may set the total up.          *)
(***************************************************************************)
EXTENDS Integers

CONSTANTS
    Load,                               \* what may be measured
    TIMER_4S, ENERGY_FAST_REPORT,       \* wait after a change of the relay
    IUP_REPORT_OFFSET, IUP_REPORT_RANDOM,
    TIMER_1Min,                         \* wait of the first report of a load
    TOTAL_WAIT,                         \* the longest wait of the total
    IUP_PERIOD_OFFSET, IUP_PERIOD_RANDOM,
    TOTAL_PERIOD_OFFSET, TOTAL_PERIOD_RANDOM

ASSUME EnergyReportAssumption ==
    /\ Load \subseteq [i_rms : Nat, v_rms : Nat, active_power : Nat]
    /\ \A c \in {TIMER_4S, ENERGY_FAST_REPORT, IUP_REPORT_OFFSET,
                 IUP_REPORT_RANDOM, TIMER_1Min, TOTAL_WAIT, IUP_PERIOD_RANDOM,
                 TOTAL_PERIOD_RANDOM} : c \in Nat
    /\ IUP_PERIOD_OFFSET \in Nat \ {0}
    /\ TOTAL_PERIOD_OFFSET \in Nat \ {0}

\* offset + rand() % random, in ticks
Wait(offset, random) == offset .. (offset + random)

FastWait    == Wait(TIMER_4S, ENERGY_FAST_REPORT)
SlowWait    == Wait(IUP_REPORT_OFFSET, IUP_REPORT_RANDOM)
FirstWait   == Wait(TIMER_1Min, TIMER_1Min)
IupPeriod   == Wait(IUP_PERIOD_OFFSET, IUP_PERIOD_RANDOM)
TotalPeriod == Wait(TOTAL_PERIOD_OFFSET, TOTAL_PERIOD_RANDOM)

Source == {"CHANGE_ST", "DELTA", "PERIODIC"}
NONE   == "none"   \* src of a report that is not set up
NEVER  == -1

\* What the values are before anything has been measured, and what they may be.
Unread == [i_rms |-> 0, v_rms |-> 0, active_power |-> 0]
Values == Load \cup {Unread}

VARIABLES
    on,             \* pvEnergy_get_actual_relay_state
    value,          \* energy_value
    reported,       \* energy_reported: current, voltage and power
    forced,         \* force_report_iup_when_st_change_flag, fast_report_iup_flag
    report_power_on,
    iup,            \* publish_iup_pf_delay_par: src, or NONE when not enabled,
                    \* and what is left of its wait
    iup_period,     \* ticks until the periodic iup report
    total,          \* publish_energy_delay_par: what is left, or NEVER
    total_age, total_period,    \* since update_last_t_s, and power_t_len_s
    sent,           \* history: what the gateway has heard
    quiet,          \* history: ticks since an iup report was sent or put off by
                    \* a change of the relay
    overdue,        \* history: ticks since a scan has seen a load the gateway
                    \* does not know, or that report was put off
    swallowed,      \* history: a change of the relay found a report of a load
                    \* waiting, and none has been sent since
    total_quiet,    \* history: ticks since the total was sent
    postponed       \* history: an iup report was sent or dropped since then

totals  == <<total, total_age, total_period>>
history == <<sent, quiet, overdue, swallowed, total_quiet, postponed>>
vars    == <<on, value, reported, forced, report_power_on, iup, iup_period,
             totals, history>>

Off        == [src |-> NONE, left |-> 0]
QuietMax   == IUP_PERIOD_OFFSET + IUP_PERIOD_RANDOM
TotalMax   == TOTAL_PERIOD_OFFSET + TOTAL_PERIOD_RANDOM + TOTAL_WAIT
OverdueMax == IUP_REPORT_OFFSET + IUP_REPORT_RANDOM + TIMER_4S
                 + ENERGY_FAST_REPORT + 2 * TIMER_1Min

TypeOK ==
    /\ on \in BOOLEAN
    /\ value \in Values /\ reported \in Values /\ sent \in Values
    /\ forced \in {"no", "fast", "slow"}
    /\ report_power_on \in BOOLEAN
    /\ iup \in [src : Source \cup {NONE}, left : Nat]
    /\ iup.left > 0 => \E w \in FastWait \cup SlowWait \cup FirstWait : iup.left <= w
    /\ iup_period \in 0..QuietMax
    /\ total \in {NEVER} \cup (0..TOTAL_WAIT)
    /\ total_period \in TotalPeriod
    /\ total_age \in 0..total_period
    /\ quiet \in 0..(QuietMax + 1)
    /\ overdue \in {NEVER} \cup (0..(OverdueMax + 1))
    /\ swallowed \in BOOLEAN
    /\ total_quiet \in 0..(TotalMax + 1)
    /\ postponed \in BOOLEAN

\* energy_init
Init ==
    /\ on \in BOOLEAN
    /\ value = Unread /\ reported = Unread /\ sent = Unread
    /\ forced = "no"
    /\ report_power_on = TRUE
    /\ iup = Off
    /\ iup_period \in IupPeriod
    /\ total = NEVER
    /\ total_period \in TotalPeriod
    /\ total_age = 0
    /\ quiet = 0
    /\ overdue = NEVER
    /\ swallowed = FALSE
    /\ total_quiet = 0
    /\ postponed = FALSE

-----------------------------------------------------------------------------
(* What is enough of a change.                                             *)

PERCENT_CURRENT_NEED_REPORT == 30
PERCENT_VOLTAGE_NEED_REPORT == 10
PERCENT_POWER_NEED_REPORT   == 30
MINIMUM_ACTIVE_CURRENT_MA   == 20
MINIMUM_ACTIVE_POWER_MW     == 5000
THRESHOLD_ACTIVE_POWER_SMALL_LOAD_MW      == 10000
THRESHOLD_ACTIVE_POWER_VERY_SMALL_LOAD_MW == 2500

\* is_satisfy_percent_change_condition, from a value and from nothing
ChangesBy(old, new, percent) ==
    /\ old # 0
    /\ 100 * (IF new < old THEN old - new ELSE new - old) >= percent * old

Appears(closed, old, new, minimum) == closed /\ old = 0 /\ new >= minimum

\* The percentages of current and power grow as the new power gets small.
Factor(new) ==
    IF new.active_power < THRESHOLD_ACTIVE_POWER_VERY_SMALL_LOAD_MW THEN 4
    ELSE IF new.active_power < THRESHOLD_ACTIVE_POWER_SMALL_LOAD_MW THEN 2
    ELSE 1

\* energy_iup_is_need_report_by_delta.  Below 2.5 W no decrease is enough.
NeedsReport(closed, old, new) ==
    \/ ChangesBy(old.i_rms, new.i_rms, PERCENT_CURRENT_NEED_REPORT * Factor(new))
    \/ Appears(closed, old.i_rms, new.i_rms, MINIMUM_ACTIVE_CURRENT_MA)
    \/ ChangesBy(old.v_rms, new.v_rms, PERCENT_VOLTAGE_NEED_REPORT)
    \/ ChangesBy(old.active_power, new.active_power,
                 PERCENT_POWER_NEED_REPORT * Factor(new))
    \/ Appears(closed, old.active_power, new.active_power, MINIMUM_ACTIVE_POWER_MW)

-----------------------------------------------------------------------------
(* Reports are set up.                                                     *)

\* Mutant: a report that is set up is not replaced by any other.
RefusedAlways(w) == iup.src # NONE

Refused(w) == iup.src # NONE /\ w > 2 * ENERGY_FAST_REPORT

\* energy_setup_publish_iup_pf_delay
SetupIup(w, src) ==
    iup' = IF Refused(w) THEN iup ELSE [src |-> src, left |-> w]

\* Mutant: the wait starts again.
SetupTotalAgain(w) == total' = w

\* energy_setup_publish_energy_delay
SetupTotal(w) == total' = IF total = NEVER THEN w ELSE total

\* energy_handle_relay_state_change; fast: the channel was controlled on its own.
RelayChanges(st, fast) ==
    /\ on' = st
    /\ forced' = IF fast THEN "fast" ELSE "slow"
    /\ \/ UNCHANGED total
       \/ ~st /\ \E w \in 0..TOTAL_WAIT : SetupTotal(w)
    /\ overdue' = IF NeedsReport(st, sent, value) THEN overdue ELSE NEVER
    /\ UNCHANGED <<value, reported, report_power_on, iup, iup_period,
                   total_age, total_period, sent, quiet, swallowed,
                   total_quiet, postponed>>

\* energy_handle_measurement_complete for a scan that is not completed
Measured(v) ==
    /\ value' = v
    /\ overdue' = IF NeedsReport(on, sent, v) THEN overdue ELSE NEVER
    /\ UNCHANGED <<on, reported, forced, report_power_on, iup, iup_period,
                   totals, sent, quiet, swallowed, total_quiet, postponed>>

\* energy_check_publish_all_parameter after a change of the relay
ReportChange(w) ==
    /\ w \in IF forced = "fast" THEN FastWait ELSE SlowWait
    /\ SetupIup(w, "CHANGE_ST")
    /\ reported' = value'
    /\ forced' = "no"
    /\ quiet' = IF Refused(w) THEN quiet ELSE 0
    /\ swallowed' = (swallowed \/ (Refused(w) /\ iup.src = "DELTA"))
    /\ UNCHANGED report_power_on

\* ... and of the load
ReportDelta(w) ==
    /\ iup.src = NONE
    /\ NeedsReport(on, reported, value')
    /\ w \in IF report_power_on THEN FirstWait ELSE SlowWait
    /\ SetupIup(w, "DELTA")
    /\ report_power_on' = FALSE
    /\ UNCHANGED <<reported, forced, quiet, swallowed>>

\* A scan is complete: energy_measurement_proc with energy_calculator_kwh, which
\* sets up the total when it has grown by enough.
Scanned(v) ==
    /\ value' = v
    /\ IF forced # "no" THEN \E w \in FastWait \cup SlowWait : ReportChange(w)
       ELSE IF iup.src = NONE /\ NeedsReport(on, reported, v)
       THEN \E w \in FirstWait \cup SlowWait : ReportDelta(w)
       ELSE UNCHANGED <<iup, reported, forced, quiet, swallowed, report_power_on>>
    /\ \/ UNCHANGED total
       \/ \E w \in 0..TOTAL_WAIT : SetupTotal(w)
    /\ overdue' = IF ~NeedsReport(on, sent, v) THEN NEVER
                  ELSE IF overdue = NEVER \/ (forced # "no" /\ iup' # iup) THEN 0
                  ELSE overdue
    /\ UNCHANGED <<on, iup_period, total_age, total_period, sent, total_quiet,
                   postponed>>

\* The gateway asks for the total (sw_config.c).
TotalAsked ==
    /\ SetupTotal(0)
    /\ UNCHANGED <<on, value, reported, forced, report_power_on, iup,
                   iup_period, total_age, total_period, history>>

PeriodicIup ==
    /\ SetupIup(0, "PERIODIC")
    /\ iup_period' \in IupPeriod

PeriodicTotal ==
    /\ SetupTotal(0)
    /\ total_period' \in TotalPeriod
    /\ total_age' = 0

\* energy_publish_periodic_proc, when either is due
energy_publish_periodic_proc ==
    /\ iup_period = 0 \/ total_age = total_period
    /\ IF iup_period = 0 THEN PeriodicIup ELSE UNCHANGED <<iup, iup_period>>
    /\ IF total_age = total_period THEN PeriodicTotal ELSE UNCHANGED totals
    /\ UNCHANGED <<on, value, reported, forced, report_power_on, history>>

-----------------------------------------------------------------------------
(* Reports are sent.                                                       *)

\* The load is not far from what was reported last any more.
Dropped == iup.src = "DELTA" /\ ~NeedsReport(on, reported, value)

\* Mutant: the values are not refreshed before they are sent.
SendIupOld ==
    /\ sent' = reported
    /\ quiet' = 0
    /\ swallowed' = FALSE
    /\ UNCHANGED reported

\* The newest values are sent.
SendIup ==
    /\ reported' = value
    /\ sent' = value
    /\ quiet' = 0
    /\ swallowed' = FALSE

\* energy_publish_iup_pf_delay_proc; the period it starts again is the total's.
energy_publish_iup_pf_delay_proc ==
    /\ iup.src # NONE /\ iup.left = 0
    /\ IF Dropped THEN UNCHANGED <<reported, sent, quiet, swallowed>> ELSE SendIup
    /\ iup' = Off
    /\ total_age' = 0
    /\ overdue' = IF NeedsReport(on, sent', value) THEN overdue ELSE NEVER
    /\ postponed' = TRUE
    /\ UNCHANGED <<on, value, forced, report_power_on, iup_period, total,
                   total_period, total_quiet>>

energy_publish_active_energy_delay_proc ==
    /\ total = 0
    /\ total' = NEVER
    /\ total_age' = 0
    /\ total_quiet' = 0
    /\ postponed' = FALSE
    /\ UNCHANGED <<on, value, reported, forced, report_power_on, iup,
                   iup_period, total_period, sent, quiet, overdue, swallowed>>

-----------------------------------------------------------------------------
Later(n, most) == IF n > most THEN n ELSE n + 1

\* Nothing is due: time passes.
Tick ==
    /\ iup_period > 0 /\ total_age < total_period
    /\ iup.src # NONE => iup.left > 0
    /\ total # 0
    /\ iup' = IF iup.src = NONE THEN iup ELSE [iup EXCEPT !.left = @ - 1]
    /\ iup_period' = iup_period - 1
    /\ total' = IF total = NEVER THEN NEVER ELSE total - 1
    /\ total_age' = total_age + 1
    /\ quiet' = Later(quiet, QuietMax)
    /\ overdue' = IF overdue = NEVER THEN NEVER ELSE Later(overdue, OverdueMax)
    /\ total_quiet' = Later(total_quiet, TotalMax)
    /\ UNCHANGED <<on, value, reported, forced, report_power_on, total_period,
                   sent, swallowed, postponed>>

Next ==
    \/ \E st, fast \in BOOLEAN : RelayChanges(st, fast)
    \/ \E v \in Load : Measured(v) \/ Scanned(v)
    \/ TotalAsked
    \/ energy_publish_periodic_proc
    \/ energy_publish_iup_pf_delay_proc
    \/ energy_publish_active_energy_delay_proc
    \/ Tick

Spec == Init /\ [][Next]_vars

-----------------------------------------------------------------------------
\* An iup report is sent within its longest period, or put off by a change of
\* the relay: reports that are set up and dropped again do not use it up.
HeardInTime == quiet <= QuietMax

\* A load that differs from what the gateway has heard by enough (which one that
\* vanishes does not) is reported within the longest wait, except when a change of
\* the relay has found its report waiting.
ChangeIsHeard ==
    swallowed \/ overdue = NEVER
        \/ \E w \in FastWait \cup SlowWait \cup FirstWait : overdue <= w

\* The total is sent within its longest period and wait, but for the iup reports
\* sent or dropped meanwhile, however often it is asked for or set up again.
TotalInTime == postponed \/ total_quiet <= TotalMax

=============================================================================

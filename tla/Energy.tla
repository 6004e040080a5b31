------------------------------- MODULE Energy -------------------------------
(***************************************************************************)
(* The energy account of each relay channel: from the pulse counters of    *)
(* the metering chip (periph/bl0906.c) over total_active_energy to the     *)
(* record kept in flash (energy.c).                                        *)
(*                                                                         *)
(* One pulse of the chip counts as one unit of energy: the conversion to   *)
(* watt-hours and the truncation to u32 are left out.  The handlers run in *)
(* one loop, each to its end; what decides when they run (scan period,     *)
(* report delays, the chip's answers) is a free choice.  The flash record  *)
(* is the durable cell of FlashLog.                                        *)
(***************************************************************************)
EXTENDS Integers

CONSTANTS
    NUMBER_RL,         \* channels
    WRAP,              \* modulus of the chip's counters, 2^24
    CF_CNT_UNKNOWN,    \* a value no counter has
    REPORT_DELTA,      \* smallest report threshold
    OFF_DELTA,         \* MINIMUM_ACTIVE_ENERY_NEED_REPORT_AFTER_RL_OFF
    MaxConsumed,       \* bound on the energy used per channel
    MaxRestarts,       \* bound on restarts of the device
    MaxResets          \* bound on resets of the chip alone

ASSUME EnergyAssumption ==
    /\ NUMBER_RL \in Nat \ {0}
    /\ WRAP \in Nat /\ WRAP > 1
    /\ CF_CNT_UNKNOWN \in Nat /\ CF_CNT_UNKNOWN >= WRAP
    /\ REPORT_DELTA \in Nat \ {0} /\ OFF_DELTA \in Nat \ {0}
    /\ MaxConsumed \in Nat /\ MaxRestarts \in Nat /\ MaxResets \in Nat

Channel == 0..(NUMBER_RL - 1)

VARIABLES
    cf,                          \* CFx_CNT in the chip
    cf_cnt_offset, cf_cnt_present,
    updated,                     \* energy_updated_flag[].active_energy
    active_energy,               \* energy_value[].active_energy
    active_energy_power_on,      \* restored at start-up
    active_energy_offset,        \* reading from which this run counts, 0 = none
    total_active_energy,
    reported,                    \* energy_reported[].active_energy
    publish,                     \* publish_energy_delay_par[].enable
    flash,                       \* the record store_active_power wrote last
    consumed,                    \* history: what the load has really used
    restarts, resets

chip    == <<cf, consumed>>
reading == <<cf_cnt_offset, cf_cnt_present, active_energy>>
account == <<active_energy_power_on, active_energy_offset, total_active_energy>>
bounds  == <<restarts, resets>>
vars == <<chip, reading, updated, account, reported, publish, flash, bounds>>

TypeOK ==
    /\ cf \in [Channel -> 0..(WRAP - 1)]
    /\ cf_cnt_offset \in [Channel -> 0..(WRAP - 1) \cup {CF_CNT_UNKNOWN}]
    /\ cf_cnt_present \in [Channel -> 0..(WRAP - 1) \cup {CF_CNT_UNKNOWN}]
    /\ updated \in [Channel -> BOOLEAN]
    /\ active_energy \in [Channel -> Nat]
    /\ active_energy_power_on \in [Channel -> Nat]
    /\ active_energy_offset \in [Channel -> Nat]
    /\ total_active_energy \in [Channel -> Nat]
    /\ reported \in [Channel -> Nat]
    /\ publish \in [Channel -> BOOLEAN]
    /\ flash \in [Channel -> Nat]
    /\ consumed \in [Channel -> Nat]
    /\ restarts \in 0..MaxRestarts
    /\ resets \in 0..MaxResets

Zero == [i \in Channel |-> 0]

\* energy_init and bl0906_init on a device that has never stored anything.
Init ==
    /\ cf = Zero
    /\ cf_cnt_offset = [i \in Channel |-> CF_CNT_UNKNOWN]
    /\ cf_cnt_present = [i \in Channel |-> CF_CNT_UNKNOWN]
    /\ updated = [i \in Channel |-> FALSE]
    /\ active_energy = Zero
    /\ active_energy_power_on = Zero
    /\ active_energy_offset = Zero
    /\ total_active_energy = Zero
    /\ reported = Zero
    /\ publish = [i \in Channel |-> FALSE]
    /\ flash = Zero
    /\ consumed = Zero
    /\ restarts = 0
    /\ resets = 0

-----------------------------------------------------------------------------
(* The chip.                                                               *)

Consume(i) ==
    /\ consumed[i] < MaxConsumed
    /\ consumed' = [consumed EXCEPT ![i] = @ + 1]
    /\ cf' = [cf EXCEPT ![i] = (@ + 1) % WRAP]
    /\ UNCHANGED <<reading, updated, account, reported, publish, flash, bounds>>

\* The chip alone loses its counters.
ChipReset ==
    /\ resets < MaxResets
    /\ resets' = resets + 1
    /\ cf' = Zero
    /\ UNCHANGED <<consumed, reading, updated, account, reported, publish, flash,
                   restarts>>

-----------------------------------------------------------------------------
(* The readings.                                                           *)

Fresh(i)    == cf_cnt_present[i] = CF_CNT_UNKNOWN
RunsBack(i) == ~Fresh(i) /\ cf[i] < cf_cnt_present[i]

\* Where the counting starts: at the first reading, and again at a reading
\* below the previous one.
CountFrom(i) == IF Fresh(i) \/ RunsBack(i) THEN cf[i] ELSE cf_cnt_offset[i]

\* energy_handle_cf_cnt_scale_overflow
CfOverflow(i) ==
    /\ active_energy_power_on' =
          [active_energy_power_on EXCEPT ![i] = total_active_energy[i]]
    /\ total_active_energy' = [total_active_energy EXCEPT ![i] = 0]
    /\ active_energy_offset' = [active_energy_offset EXCEPT ![i] = 0]

\* bl0906_handle_active_energy_rsp: an answer of the chip has arrived.
ReadEnergy(i) ==
    /\ cf_cnt_offset' = [cf_cnt_offset EXCEPT ![i] = CountFrom(i)]
    /\ cf_cnt_present' = [cf_cnt_present EXCEPT ![i] = cf[i]]
    /\ active_energy' = [active_energy EXCEPT ![i] = cf[i] - CountFrom(i)]
    /\ updated' = [updated EXCEPT ![i] = TRUE]
    /\ IF RunsBack(i) THEN CfOverflow(i) ELSE UNCHANGED account
    /\ UNCHANGED <<chip, reported, publish, flash, bounds>>

\* energy_measurement_proc starts the next scan.
Query(i) ==
    /\ updated[i]
    /\ updated' = [updated EXCEPT ![i] = FALSE]
    /\ UNCHANGED <<chip, reading, account, reported, publish, flash, bounds>>

Distance(a, b) == IF a >= b THEN a - b ELSE b - a

\* energy_calculator_kwh, once all four values of a scan are there.  The first
\* positive reading only becomes the offset; the threshold grows with the load
\* and the report must be 30 s after the last, so a gap may be reported or not.
Calculate(i) ==
    /\ updated[i]
    /\ updated' = [updated EXCEPT ![i] = FALSE]
    /\ IF active_energy_offset[i] # 0
       THEN /\ total_active_energy' = [total_active_energy EXCEPT ![i] =
                  active_energy_power_on[i]
                     + (active_energy[i] - active_energy_offset[i])]
            /\ \/ UNCHANGED publish
               \/ /\ Distance(total_active_energy'[i], reported[i])
                        >= REPORT_DELTA
                  /\ publish' = [publish EXCEPT ![i] = TRUE]
            /\ UNCHANGED active_energy_offset
       ELSE /\ active_energy_offset' =
                  [active_energy_offset EXCEPT ![i] = active_energy[i]]
            /\ UNCHANGED <<total_active_energy, publish>>
    /\ UNCHANGED <<chip, reading, active_energy_power_on, reported, flash, bounds>>

-----------------------------------------------------------------------------
(* Reports and the record in flash.                                        *)

\* energy_publish_periodic_proc and the configuration reports set up a report.
SetupPublish(i) ==
    /\ ~publish[i]
    /\ publish' = [publish EXCEPT ![i] = TRUE]
    /\ UNCHANGED <<chip, reading, updated, account, reported, flash, bounds>>

\* energy_handle_relay_state_change(G_OFF).  A negative difference is converted
\* to u32, which C leaves undefined: it may pass the test or not.
RelayOff(i) ==
    /\ ~publish[i]
    /\ LET tmp == total_active_energy[i] - reported[i]
       IN  tmp >= OFF_DELTA \/ tmp < 0
    /\ publish' = [publish EXCEPT ![i] = TRUE]
    /\ UNCHANGED <<chip, reading, updated, account, reported, flash, bounds>>

\* Mutant: the total of one channel is stored for all.
PublishEnergyOneTotal(i) ==
    /\ publish[i]
    /\ publish' = [publish EXCEPT ![i] = FALSE]
    /\ reported' = [reported EXCEPT ![i] = total_active_energy[i]]
    /\ flash' = IF total_active_energy[i] - reported[i] > 1
                THEN [j \in Channel |-> total_active_energy[i]] ELSE flash
    /\ UNCHANGED <<chip, reading, updated, account, bounds>>

\* energy_publish_active_energy_delay_proc with store_active_power, which
\* stores the totals of all channels when one of them has grown.
PublishEnergy(i) ==
    /\ publish[i]
    /\ publish' = [publish EXCEPT ![i] = FALSE]
    /\ reported' = [reported EXCEPT ![i] = total_active_energy[i]]
    /\ flash' = IF total_active_energy[i] - reported[i] > 1
                THEN total_active_energy ELSE flash
    /\ UNCHANGED <<chip, reading, updated, account, bounds>>

\* energy_clean_all_active_power, when the factory test has passed.
CleanAll ==
    /\ flash # Zero
    /\ flash' = Zero
    /\ UNCHANGED <<chip, reading, updated, account, reported, publish, bounds>>

\* The device restarts (energy_init); the chip may restart with it or run on.
Restart ==
    /\ restarts < MaxRestarts
    /\ restarts' = restarts + 1
    /\ cf' \in {cf, Zero}
    /\ cf_cnt_offset' = [i \in Channel |-> CF_CNT_UNKNOWN]
    /\ cf_cnt_present' = [i \in Channel |-> CF_CNT_UNKNOWN]
    /\ updated' = [i \in Channel |-> FALSE]
    /\ active_energy' = Zero
    /\ active_energy_power_on' = flash
    /\ active_energy_offset' = Zero
    /\ total_active_energy' = Zero
    /\ reported' = flash
    /\ publish' = [i \in Channel |-> FALSE]
    /\ UNCHANGED <<flash, consumed, resets>>

-----------------------------------------------------------------------------
Next ==
    \/ ChipReset \/ CleanAll \/ Restart
    \/ \E i \in Channel :
          Consume(i) \/ ReadEnergy(i) \/ Query(i) \/ Calculate(i)
             \/ SetupPublish(i) \/ RelayOff(i) \/ PublishEnergy(i)

Spec == Init /\ [][Next]_vars

-----------------------------------------------------------------------------
\* No channel is ever charged for more than its load has used, in RAM, in a
\* report or in flash, however readings, counter wraps, resets of the chip and
\* restarts of the device are interleaved.
NeverOvercounts ==
    \A i \in Channel :
        /\ total_active_energy[i] <= consumed[i]
        /\ reported[i] <= consumed[i]
        /\ flash[i] <= consumed[i]

\* What the counters hold that has not been read yet.
Unread(i) ==
    IF Fresh(i) \/ RunsBack(i) THEN 0 ELSE cf[i] - cf_cnt_present[i]

\* What the account stands for once the last reading is calculated.
Counted(i) ==
    IF active_energy_offset[i] = 0 THEN active_energy_power_on[i]
    ELSE active_energy_power_on[i] + active_energy[i] - active_energy_offset[i]

\* The inductive invariant behind NeverOvercounts.
AccountInv ==
    \A i \in Channel :
        /\ total_active_energy[i] <= Counted(i)
        /\ Counted(i) + Unread(i) <= consumed[i]
        /\ reported[i] <= consumed[i]
        /\ flash[i] <= consumed[i]
        /\ active_energy_offset[i] <= active_energy[i]
        /\ IF Fresh(i)
           THEN active_energy[i] = 0 /\ active_energy_offset[i] = 0
           ELSE /\ cf_cnt_offset[i] <= cf_cnt_present[i]
                /\ cf_cnt_present[i] # CF_CNT_UNKNOWN
                /\ active_energy[i] = cf_cnt_present[i] - cf_cnt_offset[i]

\* The account in flash, from which the next start-up continues, never goes
\* back but when the factory test clears it.
StoredNeverShrinks ==
    [][CleanAll \/ \A i \in Channel : flash'[i] >= flash[i]]_vars
=============================================================================

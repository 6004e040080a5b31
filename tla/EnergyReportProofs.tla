-------------------------- MODULE EnergyReportProofs --------------------------
(***************************************************************************)
(* Proofs about EnergyReport, for every length of the waits and periods:   *)
(* the timers keep their ranges, an iup report and the total are sent in   *)
(* time, and a load is reported in time unless its report was swallowed.   *)
(***************************************************************************)
EXTENDS EnergyReport, TLAPS

Waits == FastWait \cup SlowWait \cup FirstWait

LEMMA Ranges ==
    /\ Waits \subseteq Nat /\ FastWait \subseteq Waits
    /\ SlowWait \subseteq Waits /\ FirstWait \subseteq Waits
    /\ QuietMax \in Nat \ {0} /\ IupPeriod \subseteq 1..QuietMax
    /\ TotalMax \in Nat /\ TOTAL_WAIT \in Nat
    /\ OverdueMax \in Nat /\ \A w \in Waits : w <= OverdueMax
    /\ TotalPeriod \subseteq Nat \ {0}
    /\ \A p \in TotalPeriod : p + TOTAL_WAIT <= TotalMax
<1>1. /\ TIMER_4S \in Nat /\ ENERGY_FAST_REPORT \in Nat
      /\ IUP_REPORT_OFFSET \in Nat /\ IUP_REPORT_RANDOM \in Nat
      /\ TIMER_1Min \in Nat /\ TOTAL_WAIT \in Nat
      /\ IUP_PERIOD_RANDOM \in Nat /\ TOTAL_PERIOD_RANDOM \in Nat
      /\ IUP_PERIOD_OFFSET \in Nat \ {0} /\ TOTAL_PERIOD_OFFSET \in Nat \ {0}
  BY EnergyReportAssumption
<1>2. /\ Waits \subseteq Nat /\ FastWait \subseteq Waits
      /\ SlowWait \subseteq Waits /\ FirstWait \subseteq Waits
  BY <1>1 DEF Waits, FastWait, SlowWait, FirstWait, Wait
<1>3. /\ QuietMax \in Nat \ {0} /\ IupPeriod \subseteq 1..QuietMax
      /\ TotalMax \in Nat /\ OverdueMax \in Nat
  BY <1>1 DEF QuietMax, IupPeriod, TotalMax, OverdueMax, Wait
<1>4. \A w \in Waits : w <= OverdueMax
  BY <1>1 DEF Waits, FastWait, SlowWait, FirstWait, Wait, OverdueMax
<1>5. /\ TotalPeriod \subseteq Nat \ {0}
      /\ \A p \in TotalPeriod : p + TOTAL_WAIT <= TotalMax
  BY <1>1 DEF TotalPeriod, TotalMax, Wait
<1> QED
  BY <1>1, <1>2, <1>3, <1>4, <1>5

LEMMA LoadsAreValues == Load \subseteq Values
BY DEF Values

LEMMA Zeros ==
    /\ 0 \in 0..(QuietMax + 1) /\ 0 \in 0..(TotalMax + 1)
    /\ 0 \in 0..(OverdueMax + 1)
BY Ranges

LEMMA Counters ==
    ASSUME NEW most \in Nat, NEW n \in 0..(most + 1)
    PROVE  Later(n, most) \in 0..(most + 1) /\ Later(n, most) <= n + 1
BY DEF Later

\* What the gateway has heard it need not hear again.
LEMMA SameIsKnown ==
    ASSUME NEW closed \in BOOLEAN, NEW v \in Values
    PROVE  ~NeedsReport(closed, v, v)
<1>1. v.i_rms \in Nat /\ v.v_rms \in Nat /\ v.active_power \in Nat
  BY EnergyReportAssumption DEF Values, Unread
<1>2. ASSUME NEW n \in Nat, NEW percent \in Nat \ {0} PROVE ~ChangesBy(n, n, percent)
  <2>1. n # 0 => percent * n > 0
    BY <1>2
  <2>2. n - n = 0
    BY <1>2
  <2>3. 100 * (IF n < n THEN n - n ELSE n - n) = 0
    BY <2>2
  <2> QED
    BY <1>2, <2>1, <2>3 DEF ChangesBy
<1>3. /\ PERCENT_CURRENT_NEED_REPORT * Factor(v) \in Nat \ {0}
      /\ PERCENT_VOLTAGE_NEED_REPORT \in Nat \ {0}
      /\ PERCENT_POWER_NEED_REPORT * Factor(v) \in Nat \ {0}
  BY DEF PERCENT_CURRENT_NEED_REPORT, PERCENT_VOLTAGE_NEED_REPORT,
         PERCENT_POWER_NEED_REPORT, Factor
<1>4. /\ ~Appears(closed, v.i_rms, v.i_rms, MINIMUM_ACTIVE_CURRENT_MA)
      /\ ~Appears(closed, v.active_power, v.active_power, MINIMUM_ACTIVE_POWER_MW)
  BY DEF Appears, MINIMUM_ACTIVE_CURRENT_MA, MINIMUM_ACTIVE_POWER_MW
<1> QED
  BY <1>1, <1>2, <1>3, <1>4 DEF NeedsReport

\* A report, set up or not.
IupOK(r) ==
    /\ r \in [src : Source \cup {NONE}, left : Nat]
    /\ r.left > 0 => \E w \in Waits : r.left <= w

LEMMA SetupIupOK ==
    ASSUME IupOK(iup), NEW w \in Waits \cup {0}, NEW src \in Source,
           SetupIup(w, src)
    PROVE  IupOK(iup')
BY Ranges DEF SetupIup, IupOK

LEMMA SetupTotalOK ==
    ASSUME TypeOK, NEW w \in 0..TOTAL_WAIT, SetupTotal(w)
    PROVE  total' \in {NEVER} \cup (0..TOTAL_WAIT)
BY DEF SetupTotal, TypeOK

LEMMA ReportInit == Init => TypeOK
<1> SUFFICES ASSUME Init PROVE TypeOK
  OBVIOUS
<1>1. iup \in [src : Source \cup {NONE}, left : Nat] /\ iup.left = 0
  BY DEF Init, Off
<1>2. total_period \in TotalPeriod /\ total_age \in 0..total_period
  BY Ranges DEF Init
<1>3. /\ iup_period \in 0..QuietMax /\ quiet \in 0..(QuietMax + 1)
      /\ total_quiet \in 0..(TotalMax + 1)
  BY Ranges DEF Init
<1>4. value \in Values /\ reported \in Values /\ sent \in Values
  BY DEF Init, Values
<1>5. /\ total \in {NEVER} \cup (0..TOTAL_WAIT)
      /\ overdue \in {NEVER} \cup (0..(OverdueMax + 1))
      /\ iup.left > 0 => \E w \in FastWait \cup SlowWait \cup FirstWait : iup.left <= w
  BY <1>1 DEF Init
<1>6. /\ on \in BOOLEAN /\ report_power_on \in BOOLEAN /\ swallowed \in BOOLEAN
      /\ postponed \in BOOLEAN /\ forced \in {"no", "fast", "slow"}
  BY DEF Init
<1> QED
  BY <1>1, <1>2, <1>3, <1>4, <1>5, <1>6 DEF TypeOK

LEMMA ScannedType ==
    ASSUME TypeOK, NEW v \in Load, Scanned(v)
    PROVE  TypeOK'
<1>1. IupOK(iup)
  BY DEF TypeOK, IupOK, Waits
<1> DEFINE Goal == /\ IupOK(iup') /\ reported' \in Values
                   /\ forced' \in {"no", "fast", "slow"}
                   /\ quiet' \in 0..(QuietMax + 1) /\ swallowed' \in BOOLEAN
                   /\ report_power_on' \in BOOLEAN
<1>2. Goal
  <2>1. ASSUME NEW w \in FastWait \cup SlowWait, ReportChange(w) PROVE Goal
    <3>1. IupOK(iup')
      BY <1>1, <2>1, SetupIupOK, Ranges DEF ReportChange, Source
    <3> QED
      BY <2>1, <3>1, Ranges, LoadsAreValues DEF ReportChange, TypeOK, Scanned
  <2>2. ASSUME NEW w \in FirstWait \cup SlowWait, ReportDelta(w) PROVE Goal
    <3>1. IupOK(iup')
      BY <1>1, <2>2, SetupIupOK, Ranges DEF ReportDelta, Source
    <3> QED
      BY <2>2, <3>1 DEF ReportDelta, TypeOK
  <2>3. CASE UNCHANGED <<iup, reported, forced, quiet, swallowed, report_power_on>>
    BY <1>1, <2>3 DEF TypeOK
  <2> QED
    BY <2>1, <2>2, <2>3 DEF Scanned
<1>3. total' \in {NEVER} \cup (0..TOTAL_WAIT)
  BY SetupTotalOK DEF Scanned, TypeOK
<1>4. overdue' \in {NEVER} \cup (0..(OverdueMax + 1))
  BY Ranges DEF Scanned, TypeOK
<1> QED
  BY <1>2, <1>3, <1>4, LoadsAreValues DEF Scanned, TypeOK, IupOK, Waits

LEMMA TickType ==
    ASSUME TypeOK, Tick
    PROVE  TypeOK'
<1> USE DEF TypeOK
<1>1. IupOK(iup')
  <2>1. CASE iup.src = NONE
    BY <2>1 DEF Tick, IupOK, Waits
  <2>2. CASE iup.src # NONE
    <3>1. iup.left \in Nat /\ iup.left > 0 /\ iup'.left = iup.left - 1
          /\ iup' \in [src : Source \cup {NONE}, left : Nat]
      BY <2>2 DEF Tick
    <3>2. PICK w \in Waits : iup.left <= w
      BY <3>1 DEF Waits
    <3>3. iup'.left <= w
      BY <3>1, <3>2, Ranges
    <3> QED
      BY <3>1, <3>3 DEF IupOK
  <2> QED
    BY <2>1, <2>2
<1>2. iup_period' \in 0..QuietMax /\ total_age' \in 0..total_period'
  BY Ranges DEF Tick
<1>3. total' \in {NEVER} \cup (0..TOTAL_WAIT)
  BY Ranges DEF Tick, NEVER
<1>4. /\ quiet' \in 0..(QuietMax + 1)
      /\ total_quiet' \in 0..(TotalMax + 1)
  BY Counters, Ranges DEF Tick
<1>5. overdue' \in {NEVER} \cup (0..(OverdueMax + 1))
  BY Counters, Ranges DEF Tick, NEVER
<1> QED
  BY <1>1, <1>2, <1>3, <1>4, <1>5 DEF Tick, IupOK, Waits

LEMMA PeriodicType ==
    ASSUME TypeOK, energy_publish_periodic_proc
    PROVE  TypeOK'
<1>1. IupOK(iup) /\ "PERIODIC" \in Source
  BY DEF TypeOK, IupOK, Waits, Source
<1>2. IupOK(iup') /\ iup_period' \in 0..QuietMax
  <2>1. CASE PeriodicIup
    BY <1>1, <2>1, SetupIupOK, Ranges DEF PeriodicIup
  <2>2. CASE UNCHANGED <<iup, iup_period>>
    BY <1>1, <2>2 DEF TypeOK
  <2> QED
    BY <2>1, <2>2 DEF energy_publish_periodic_proc
<1>3. /\ total' \in {NEVER} \cup (0..TOTAL_WAIT)
      /\ total_period' \in TotalPeriod /\ total_age' \in 0..total_period'
  <2>1. CASE PeriodicTotal
    BY <2>1, SetupTotalOK, Ranges DEF PeriodicTotal
  <2>2. CASE UNCHANGED totals
    BY <2>2 DEF TypeOK, totals
  <2> QED
    BY <2>1, <2>2 DEF energy_publish_periodic_proc
<1> QED
  BY <1>2, <1>3 DEF energy_publish_periodic_proc, TypeOK, history, IupOK, Waits

LEMMA ReportStepType == TypeOK /\ [Next]_vars => TypeOK'
<1> SUFFICES ASSUME TypeOK, [Next]_vars PROVE TypeOK'
  OBVIOUS
<1>1. ASSUME NEW st \in BOOLEAN, NEW fast \in BOOLEAN, RelayChanges(st, fast)
      PROVE  TypeOK'
  <2>1. total' \in {NEVER} \cup (0..TOTAL_WAIT)
    BY <1>1, SetupTotalOK DEF RelayChanges, TypeOK
  <2> QED
    BY <1>1, <2>1 DEF RelayChanges, TypeOK
<1>2. ASSUME NEW v \in Load, Measured(v) PROVE TypeOK'
  BY <1>2, LoadsAreValues DEF Measured, TypeOK, totals
<1>3. CASE TotalAsked
  <2>1. total' \in {NEVER} \cup (0..TOTAL_WAIT)
    BY <1>3, SetupTotalOK, Ranges DEF TotalAsked
  <2> QED
    BY <1>3, <2>1 DEF TotalAsked, TypeOK, history
<1>4. CASE energy_publish_iup_pf_delay_proc
  <2>1. iup' \in [src : Source \cup {NONE}, left : Nat] /\ iup'.left = 0
    BY <1>4 DEF energy_publish_iup_pf_delay_proc, Off
  <2>2. total_period' \in TotalPeriod /\ total_age' \in 0..total_period'
    BY <1>4, Ranges DEF energy_publish_iup_pf_delay_proc, TypeOK
  <2>3. /\ value' \in Values /\ reported' \in Values /\ sent' \in Values
        /\ quiet' \in 0..(QuietMax + 1) /\ swallowed' \in BOOLEAN
    <3>1. CASE Dropped
      BY <1>4, <3>1 DEF energy_publish_iup_pf_delay_proc, TypeOK
    <3>2. CASE SendIup
      BY <1>4, <3>2, Zeros DEF energy_publish_iup_pf_delay_proc, SendIup, TypeOK
    <3> QED
      BY <1>4, <3>1, <3>2 DEF energy_publish_iup_pf_delay_proc
  <2>4. overdue' \in {NEVER} \cup (0..(OverdueMax + 1))
    BY <1>4 DEF energy_publish_iup_pf_delay_proc, TypeOK
  <2>5. iup'.left > 0 => \E w \in FastWait \cup SlowWait \cup FirstWait : iup'.left <= w
    BY <2>1
  <2>6. /\ on' \in BOOLEAN /\ forced' \in {"no", "fast", "slow"}
        /\ report_power_on' \in BOOLEAN /\ iup_period' \in 0..QuietMax
        /\ total' \in {NEVER} \cup (0..TOTAL_WAIT)
        /\ total_quiet' \in 0..(TotalMax + 1) /\ postponed' \in BOOLEAN
    BY <1>4 DEF energy_publish_iup_pf_delay_proc, TypeOK
  <2> QED
    BY <2>1, <2>2, <2>3, <2>4, <2>5, <2>6 DEF TypeOK
<1>5. CASE energy_publish_active_energy_delay_proc
  <2>1. /\ total' \in {NEVER} \cup (0..TOTAL_WAIT)
        /\ total_quiet' \in 0..(TotalMax + 1)
    BY <1>5, Zeros DEF energy_publish_active_energy_delay_proc
  <2>2. total_period' \in TotalPeriod /\ total_age' \in 0..total_period'
    BY <1>5, Ranges DEF energy_publish_active_energy_delay_proc, TypeOK
  <2> QED
    BY <1>5, <2>1, <2>2 DEF energy_publish_active_energy_delay_proc, TypeOK
<1>6. CASE UNCHANGED vars
  BY <1>6 DEF vars, totals, history, TypeOK
<1> QED
  BY <1>1, <1>2, <1>3, <1>4, <1>5, <1>6, ScannedType, PeriodicType, TickType
     DEF Next

\* Timers and counters keep their ranges; in particular a period is never
\* longer over than the pass that notices it.
THEOREM ReportTypeCorrect == Spec => []TypeOK
BY ReportInit, ReportStepType, PTL DEF Spec

-----------------------------------------------------------------------------
(* The gateway hears of the channel in time.                               *)

\* While no periodic report is set up, its period covers what is left.
HeardInv ==
    IF iup.src = "PERIODIC" THEN iup.left = 0 /\ quiet <= QuietMax
    ELSE quiet + iup_period <= QuietMax

LEMMA HeardStep == TypeOK /\ HeardInv /\ [Next]_vars => HeardInv'
<1> SUFFICES ASSUME TypeOK, HeardInv, [Next]_vars PROVE HeardInv'
  OBVIOUS
<1>0. /\ QuietMax \in Nat \ {0} /\ quiet \in Nat /\ iup_period \in 0..QuietMax
      /\ iup.left \in Nat /\ quiet <= QuietMax
  BY Ranges DEF TypeOK, HeardInv
<1>1. ASSUME NEW v \in Load, Scanned(v) PROVE HeardInv'
  <2>1. ASSUME NEW w \in FastWait \cup SlowWait, ReportChange(w) PROVE HeardInv'
    <3>1. CASE Refused(w)
      BY <1>1, <2>1, <3>1 DEF ReportChange, SetupIup, Scanned, HeardInv
    <3>2. CASE ~Refused(w)
      BY <1>0, <1>1, <2>1, <3>2 DEF ReportChange, SetupIup, Scanned, HeardInv
    <3> QED
      BY <3>1, <3>2
  <2>2. ASSUME NEW w \in FirstWait \cup SlowWait, ReportDelta(w) PROVE HeardInv'
    <3>1. iup' = [src |-> "DELTA", left |-> w] /\ iup.src # "PERIODIC"
      BY <2>2 DEF ReportDelta, SetupIup, Refused, NONE
    <3> QED
      BY <1>1, <2>2, <3>1 DEF ReportDelta, Scanned, HeardInv
  <2>3. CASE UNCHANGED <<iup, reported, forced, quiet, swallowed, report_power_on>>
    BY <1>1, <2>3 DEF Scanned, HeardInv
  <2> QED
    BY <1>1, <2>1, <2>2, <2>3 DEF Scanned
<1>2. CASE energy_publish_periodic_proc
  <2>1. CASE iup_period = 0
    <3>1. iup' = [src |-> "PERIODIC", left |-> 0]
      BY <1>2, <2>1, EnergyReportAssumption
         DEF energy_publish_periodic_proc, PeriodicIup, SetupIup, Refused
    <3> QED
      BY <1>0, <1>2, <3>1 DEF energy_publish_periodic_proc, history, HeardInv
  <2>2. CASE iup_period # 0
    BY <1>2, <2>2 DEF energy_publish_periodic_proc, history, HeardInv
  <2> QED
    BY <2>1, <2>2
<1>3. CASE energy_publish_iup_pf_delay_proc
  <2>1. iup'.src # "PERIODIC" /\ iup_period' = iup_period
    BY <1>3 DEF energy_publish_iup_pf_delay_proc, Off, NONE
  <2>2. CASE Dropped
    BY <1>3, <2>1, <2>2 DEF energy_publish_iup_pf_delay_proc, Dropped, HeardInv
  <2>3. CASE ~Dropped
    BY <1>0, <1>3, <2>1, <2>3 DEF energy_publish_iup_pf_delay_proc, SendIup, HeardInv
  <2> QED
    BY <2>2, <2>3
<1>4. CASE Tick
  <2>1. iup.src # "PERIODIC" /\ iup'.src = iup.src
    BY <1>4 DEF Tick, HeardInv, NONE, TypeOK
  <2>2. /\ iup_period' = iup_period - 1 /\ quiet' = quiet + 1
    BY <1>0, <1>4 DEF Tick, Later
  <2> QED
    BY <1>0, <2>1, <2>2 DEF HeardInv
<1>5. CASE energy_publish_active_energy_delay_proc
  BY <1>5 DEF energy_publish_active_energy_delay_proc, HeardInv
<1>6. CASE TotalAsked
  BY <1>6 DEF TotalAsked, history, HeardInv
<1>7. ASSUME NEW v \in Load, Measured(v) PROVE HeardInv'
  BY <1>7 DEF Measured, HeardInv
<1>8. ASSUME NEW st \in BOOLEAN, NEW fast \in BOOLEAN, RelayChanges(st, fast)
      PROVE  HeardInv'
  BY <1>8 DEF RelayChanges, HeardInv
<1>9. CASE UNCHANGED vars
  BY <1>9 DEF vars, history, HeardInv
<1> QED
  BY <1>1, <1>2, <1>3, <1>4, <1>5, <1>6, <1>7, <1>8, <1>9 DEF Next

\* An iup report is sent within its longest period, however the reports of
\* changes interfere with it.
THEOREM ReportHeardInTime == Spec => []HeardInTime
<1>1. Init => HeardInv
  BY Ranges DEF Init, HeardInv, Off, NONE
<1>2. TypeOK /\ HeardInv => HeardInTime
  BY Ranges DEF TypeOK, HeardInv, HeardInTime
<1> QED
  BY <1>1, <1>2, HeardStep, ReportTypeCorrect, PTL DEF Spec

-----------------------------------------------------------------------------
(* The total is sent in time.                                              *)

TotalInv ==
    ~postponed => IF total = NEVER THEN total_quiet <= total_age
                  ELSE total_quiet + total <= TotalMax

\* Setting the total up keeps the bound, whatever the wait.
LEMMA SetupKeepsTotal ==
    ASSUME TypeOK, TotalInv, ~postponed, NEW w \in 0..TOTAL_WAIT, SetupTotal(w)
    PROVE  total' # NEVER /\ total_quiet + total' <= TotalMax
<1>1. /\ TOTAL_WAIT \in Nat /\ TotalMax \in Nat /\ total_period \in Nat
      /\ total_period + TOTAL_WAIT <= TotalMax
  BY Ranges DEF TypeOK
<1>2. total_quiet \in Nat /\ total_age \in Nat /\ total_age <= total_period
  BY <1>1, Ranges DEF TypeOK
<1> QED
  BY <1>1, <1>2 DEF SetupTotal, TotalInv, NEVER

LEMMA TotalStep == TypeOK /\ TotalInv /\ [Next]_vars => TotalInv'
<1> SUFFICES ASSUME TypeOK, TotalInv, [Next]_vars, ~postponed' PROVE TotalInv'
  BY DEF TotalInv
<1>0. /\ TOTAL_WAIT \in Nat /\ TotalMax \in Nat /\ total_quiet \in Nat
      /\ total_age \in Nat /\ total \in {NEVER} \cup (0..TOTAL_WAIT)
  BY Ranges DEF TypeOK
<1>1. ASSUME NEW w \in 0..TOTAL_WAIT, SetupTotal(w), UNCHANGED <<total_quiet, postponed>>
      PROVE  TotalInv'
  BY <1>1, SetupKeepsTotal DEF TotalInv
<1>2. ASSUME UNCHANGED <<total, total_age, total_quiet, postponed>> PROVE TotalInv'
  BY <1>2 DEF TotalInv
<1>3. ASSUME NEW st \in BOOLEAN, NEW fast \in BOOLEAN, RelayChanges(st, fast)
      PROVE  TotalInv'
  BY <1>1, <1>2, <1>3 DEF RelayChanges
<1>4. ASSUME NEW v \in Load, Measured(v) PROVE TotalInv'
  BY <1>2, <1>4 DEF Measured, totals
<1>5. ASSUME NEW v \in Load, Scanned(v) PROVE TotalInv'
  BY <1>1, <1>2, <1>5 DEF Scanned
<1>6. CASE TotalAsked
  BY <1>0, <1>1, <1>6 DEF TotalAsked, history
<1>7. CASE energy_publish_periodic_proc
  BY <1>0, <1>1, <1>2, <1>7 DEF energy_publish_periodic_proc, PeriodicTotal, totals, history
<1>8. CASE energy_publish_iup_pf_delay_proc
  BY <1>8 DEF energy_publish_iup_pf_delay_proc
<1>9. CASE energy_publish_active_energy_delay_proc
  BY <1>9 DEF energy_publish_active_energy_delay_proc, TotalInv
<1>10. CASE Tick
  <2>1. total_quiet' \in Nat /\ total_quiet' <= total_quiet + 1
    BY <1>0, <1>10 DEF Tick, Later
  <2>2. CASE total = NEVER
    BY <1>0, <1>10, <2>1, <2>2 DEF Tick, TotalInv
  <2>3. CASE total # NEVER
    BY <1>0, <1>10, <2>1, <2>3 DEF Tick, TotalInv, NEVER
  <2> QED
    BY <2>2, <2>3
<1>11. CASE UNCHANGED vars
  BY <1>2, <1>11 DEF vars, totals, history
<1> QED
  BY <1>3, <1>4, <1>5, <1>6, <1>7, <1>8, <1>9, <1>10, <1>11 DEF Next

\* Asking for the total, and setting it up again, does not put it off.
THEOREM ReportTotalInTime == Spec => []TotalInTime
<1>1. Init => TotalInv
  BY DEF Init, TotalInv
<1>2. TypeOK /\ TotalInv => TotalInTime
  <2> SUFFICES ASSUME TypeOK, TotalInv, ~postponed PROVE total_quiet <= TotalMax
    BY DEF TotalInTime
  <2>1. /\ TOTAL_WAIT \in Nat /\ TotalMax \in Nat /\ total_period \in Nat
        /\ total_period + TOTAL_WAIT <= TotalMax
    BY Ranges DEF TypeOK
  <2>2. total_quiet \in Nat /\ total_age \in Nat /\ total_age <= total_period
    BY <2>1, Ranges DEF TypeOK
  <2> QED
    BY <2>1, <2>2 DEF TypeOK, TotalInv, NEVER
<1> QED
  BY <1>1, <1>2, TotalStep, ReportTypeCorrect, PTL DEF Spec

-----------------------------------------------------------------------------
(* A load the gateway does not know is reported in time.                   *)

\* With no report waiting the gateway knows what was reported last, and a load
\* it does not know has a report that is sent in time.
Pending == iup.src # NONE /\ \E w \in Waits : overdue + iup.left <= w

KnownInv ==
    ~swallowed => /\ iup.src \in {NONE, "DELTA"} => reported = sent
                  /\ overdue # NEVER => Pending

LEMMA KnownScanned ==
    ASSUME TypeOK, KnownInv, NEW v \in Load, Scanned(v)
    PROVE  KnownInv'
<1> SUFFICES ASSUME ~swallowed' PROVE KnownInv'
  BY DEF KnownInv
<1>0. /\ Waits \subseteq Nat /\ Waits # {} /\ iup.left \in Nat
      /\ iup.left > 0 => \E w \in Waits : iup.left <= w
  <2>1. TIMER_4S \in Waits
    BY EnergyReportAssumption DEF Waits, FastWait, Wait
  <2> QED
    BY <2>1, Ranges DEF TypeOK, Waits
<1>1. \E w \in Waits : 0 + iup.left <= w
  <2>1. CASE iup.left > 0
    BY <1>0, <2>1
  <2>2. CASE iup.left = 0
    <3>1. PICK w \in Waits : w \in Nat
      BY <1>0
    <3> QED
      BY <2>2, <3>1
  <2> QED
    BY <1>0, <2>1, <2>2
<1>2. ASSUME NEW w \in FastWait \cup SlowWait, ReportChange(w), forced # "no"
      PROVE  KnownInv'
  <2>0. ~swallowed /\ w \in Waits
    BY <1>2, Ranges DEF ReportChange
  <2>1. CASE Refused(w)
    <3>1. iup' = iup /\ iup.src \notin {NONE, "DELTA"}
      BY <1>2, <2>1 DEF ReportChange, SetupIup, Refused
    <3>2. overdue' # NEVER => Pending'
      BY <1>1, <2>0, <3>1 DEF Scanned, KnownInv, Pending
    <3> QED
      BY <3>1, <3>2 DEF KnownInv
  <2>2. CASE ~Refused(w)
    <3>1. iup' = [src |-> "CHANGE_ST", left |-> w] /\ forced # "no"
      BY <1>2, <2>2 DEF ReportChange, SetupIup
    <3>2. \E u \in Waits : 0 + iup'.left <= u
      BY <1>0, <2>0, <3>1
    <3>3. overdue' # NEVER => Pending'
      <4>1. CASE iup' = iup
        BY <2>0, <3>1, <3>2, <4>1 DEF Scanned, KnownInv, Pending, NONE
      <4>2. CASE iup' # iup
        BY <3>1, <3>2, <4>2 DEF Scanned, Pending, NONE
      <4> QED
        BY <4>1, <4>2
    <3> QED
      BY <3>1, <3>3 DEF KnownInv, NONE
  <2> QED
    BY <2>1, <2>2
<1>3. ASSUME NEW w \in FirstWait \cup SlowWait, ReportDelta(w), forced = "no"
      PROVE  KnownInv'
  <2>1. ~swallowed /\ w \in Waits /\ iup.src = NONE /\ reported' = reported
    BY <1>3, Ranges DEF ReportDelta
  <2>2. iup' = [src |-> "DELTA", left |-> w]
    BY <1>3, <2>1 DEF ReportDelta, SetupIup, Refused
  <2>3. reported = sent /\ overdue = NEVER /\ sent' = sent
    BY <2>1 DEF KnownInv, Pending, Scanned
  <2>4. overdue' \in {NEVER, 0}
    BY <1>3, <2>3 DEF Scanned
  <2>5. \E u \in Waits : 0 + iup'.left <= u
    BY <1>0, <2>1, <2>2
  <2> QED
    BY <2>1, <2>2, <2>3, <2>4, <2>5 DEF KnownInv, Pending, NONE
<1>4. ASSUME UNCHANGED <<iup, reported, forced, quiet, swallowed, report_power_on>>,
             forced = "no", ~(iup.src = NONE /\ NeedsReport(on, reported, v))
      PROVE  KnownInv'
  <2>1. ~swallowed /\ sent' = sent
    BY <1>4 DEF Scanned
  <2>2. CASE iup.src = NONE
    <3>1. overdue' = NEVER
      BY <1>4, <2>1, <2>2 DEF KnownInv, Scanned
    <3> QED
      BY <1>4, <2>1, <2>2, <3>1 DEF KnownInv
  <2>3. CASE iup.src # NONE
    <3>1. overdue' # NEVER => Pending'
      BY <1>1, <1>4, <2>1, <2>3 DEF Scanned, KnownInv, Pending
    <3> QED
      BY <1>4, <2>1, <3>1 DEF KnownInv
  <2> QED
    BY <2>2, <2>3
<1> QED
  BY <1>2, <1>3, <1>4 DEF Scanned

LEMMA KnownStep == TypeOK /\ KnownInv /\ [Next]_vars => KnownInv'
<1> SUFFICES ASSUME TypeOK, KnownInv, [Next]_vars PROVE KnownInv'
  OBVIOUS
<1>1. ASSUME NEW st \in BOOLEAN, NEW fast \in BOOLEAN, RelayChanges(st, fast)
      PROVE  KnownInv'
  BY <1>1 DEF RelayChanges, KnownInv, Pending
<1>2. ASSUME NEW v \in Load, Measured(v) PROVE KnownInv'
  BY <1>2 DEF Measured, KnownInv, Pending
<1>3. CASE TotalAsked
  BY <1>3 DEF TotalAsked, history, KnownInv, Pending
<1>4. CASE energy_publish_periodic_proc
  <2>1. CASE iup_period = 0
    <3>1. iup' = [src |-> "PERIODIC", left |-> 0]
      BY <1>4, <2>1, EnergyReportAssumption
         DEF energy_publish_periodic_proc, PeriodicIup, SetupIup, Refused
    <3>2. /\ TIMER_4S \in Waits /\ TIMER_4S >= 0
      BY EnergyReportAssumption DEF Waits, FastWait, Wait
    <3>3. overdue # NEVER /\ ~swallowed => \E w \in Waits : overdue + 0 <= w
      <4> SUFFICES ASSUME overdue # NEVER, ~swallowed
                   PROVE  \E w \in Waits : overdue + 0 <= w
        OBVIOUS
      <4>1. PICK w \in Waits : overdue + iup.left <= w
        BY DEF KnownInv, Pending
      <4>2. iup.left \in Nat /\ overdue \in Nat /\ w \in Nat
        BY Ranges DEF TypeOK, NEVER
      <4> QED
        BY <4>1, <4>2
    <3> QED
      BY <1>4, <3>1, <3>3
         DEF energy_publish_periodic_proc, history, KnownInv, Pending, NONE
  <2>2. CASE iup_period # 0
    BY <1>4, <2>2 DEF energy_publish_periodic_proc, history, KnownInv, Pending
  <2> QED
    BY <2>1, <2>2
<1>5. CASE energy_publish_iup_pf_delay_proc
  <2>1. CASE Dropped
    BY <1>5, <2>1 DEF energy_publish_iup_pf_delay_proc, Dropped, KnownInv, NONE
  <2>2. CASE ~Dropped
    <3>1. sent' = value /\ reported' = value
      BY <1>5, <2>2 DEF energy_publish_iup_pf_delay_proc, SendIup
    <3>2. overdue' = NEVER
      BY <1>5, <3>1, SameIsKnown DEF energy_publish_iup_pf_delay_proc, TypeOK
    <3> QED
      BY <3>1, <3>2 DEF KnownInv
  <2> QED
    BY <2>1, <2>2
<1>6. CASE energy_publish_active_energy_delay_proc
  BY <1>6 DEF energy_publish_active_energy_delay_proc, KnownInv, Pending
<1>7. CASE Tick
  <2>1. CASE overdue = NEVER \/ swallowed
    BY <1>7, <2>1 DEF Tick, KnownInv
  <2>2. CASE overdue # NEVER /\ ~swallowed
    <3>1. iup.src # NONE
      BY <2>2 DEF KnownInv, Pending
    <3>2. PICK w \in Waits : overdue + iup.left <= w
      BY <2>2 DEF KnownInv, Pending
    <3>3. iup.left \in Nat /\ overdue \in Nat /\ w \in Nat
      BY <2>2, Ranges DEF TypeOK, NEVER
    <3>4. iup'.src = iup.src /\ iup'.left = iup.left - 1
      BY <1>7, <3>1 DEF Tick, TypeOK
    <3>5. overdue' <= overdue + 1 /\ overdue' \in Nat
      BY <1>7, <2>2, <3>3 DEF Tick, Later
    <3>6. overdue' + iup'.left <= w
      BY <3>2, <3>3, <3>4, <3>5
    <3> QED
      BY <1>7, <3>1, <3>4, <3>6 DEF Tick, KnownInv, Pending
  <2> QED
    BY <2>1, <2>2
<1>8. CASE UNCHANGED vars
  BY <1>8 DEF vars, history, KnownInv, Pending
<1> QED
  BY <1>1, <1>2, <1>3, <1>4, <1>5, <1>6, <1>7, <1>8, KnownScanned DEF Next

\* A load the gateway does not know is reported within the longest wait, unless
\* a change of the relay has found its report waiting.
THEOREM ReportChangeIsHeard == Spec => []ChangeIsHeard
<1>1. Init => KnownInv
  BY DEF Init, KnownInv
<1>2. TypeOK /\ KnownInv => ChangeIsHeard
  <2> SUFFICES ASSUME TypeOK, KnownInv, ~swallowed, overdue # NEVER
               PROVE  \E w \in Waits : overdue <= w
    BY DEF ChangeIsHeard, Waits
  <2>1. PICK w \in Waits : overdue + iup.left <= w
    BY DEF KnownInv, Pending
  <2>2. iup.left \in Nat /\ overdue \in Nat /\ w \in Nat
    BY Ranges DEF TypeOK, NEVER
  <2> QED
    BY <2>1, <2>2
<1> QED
  BY <1>1, <1>2, KnownStep, ReportTypeCorrect, PTL DEF Spec

=============================================================================

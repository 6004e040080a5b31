\* The fast wait may exceed twice ENERGY_FAST_REPORT, as 4 s + 3 s exceed 2 * 3 s.
SPECIFICATION Spec
CONSTANTS
    Load <- Loads
    TIMER_4S = 2
    ENERGY_FAST_REPORT = 1
    IUP_REPORT_OFFSET = 2
    IUP_REPORT_RANDOM = 1
    TIMER_1Min = 2
    TOTAL_WAIT = 1
    IUP_PERIOD_OFFSET = 5
    IUP_PERIOD_RANDOM = 0
    TOTAL_PERIOD_OFFSET = 2
    TOTAL_PERIOD_RANDOM = 0
INVARIANTS HeardInTime ChangeIsHeard TotalInTime

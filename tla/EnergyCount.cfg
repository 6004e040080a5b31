\* Two channels whose counters wrap, a restart and a reset of the chip.
SPECIFICATION Spec
CONSTANTS
    NUMBER_RL = 2
    WRAP = 3
    CF_CNT_UNKNOWN = 99
    REPORT_DELTA = 2
    OFF_DELTA = 2
    MaxConsumed = 4
    MaxRestarts = 1
    MaxResets = 1
INVARIANTS NeverOvercounts
CHECK_DEADLOCK FALSE

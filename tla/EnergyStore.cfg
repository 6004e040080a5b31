\* Two channels, one restart: the other channel's record is lost.
SPECIFICATION Spec
CONSTANTS
    NUMBER_RL = 2
    WRAP = 20
    CF_CNT_UNKNOWN = 99
    REPORT_DELTA = 2
    OFF_DELTA = 2
    MaxConsumed = 3
    MaxRestarts = 1
    MaxResets = 0
PROPERTIES StoredNeverShrinks
CHECK_DEADLOCK FALSE

\* A chip that falls silent and answers late, perhaps forgetting its gain.
SPECIFICATION FairSpec
CONSTANTS
    NUMBER_RL = 2
    Measured <- CounterOnly
    BL0906_BUF_CMD_SIZE = 5
    TIME_SCAN_MEASURE = 6
    SET_GAIN_INTERVAL = 15
    Sums = {230}
    SILENCE = 3
    MaxLate = 2
INVARIANTS TakenIsAsked DropsNeedSilence
PROPERTIES KeepsBooking GainIsSet

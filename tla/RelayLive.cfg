\* Requests stop after two, power failures after one; modes do not change.
SPECIFICATION FairSpec
CONSTANTS
    NUMBER_RL = 2
    Modes = {"TOGGLE", "MOMENTARY"}
    PowerUps = {"POWER_UP_RESTORE"}
    Requests = {"app", "toggle"}
    MaxRequests = 2
    MaxPowerLosses = 1
INVARIANTS DurableTarget
PROPERTIES BusyEnds Converges MomentaryRests

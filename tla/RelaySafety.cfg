\* Two channels in any modes, requests of every source, mode changes, a power failure.
SPECIFICATION Spec
CONSTANTS
    NUMBER_RL = 2
    Modes = {"TOGGLE", "MOMENTARY", "LIGHTING"}
    PowerUps = {"POWER_UP_RESTORE"}
    Requests = {"app", "toggle", "press", "release", "mode"}
    MaxRequests = 2
    MaxPowerLosses = 1
INVARIANTS NoLostWakeup SettledPins ActualIsPin

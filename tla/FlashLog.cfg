\* Two and a half turns of the log with up to two power failures.
SPECIFICATION Spec
CONSTANTS
    Last = 3
    Value = {v1, v2}
    Blank = Blank
    Torn = Torn
    None = None
    MaxStores = 10
    MaxCrashes = 2
INVARIANTS WriteOnErased ScanAgrees
PROPERTIES ImplementsCell
CHECK_DEADLOCK FALSE

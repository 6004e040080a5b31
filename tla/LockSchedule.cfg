\* Two buttons, two days of four minutes; before the first evaluation the
\* present minute is that of a real time of day, as 255 is 04:15.
SPECIFICATION Spec
CONSTANTS
    Button = {0, 1}
    DAY = 4
    WEEK = 2
    MAX_U8 = 2
    Window <- Windows
INVARIANTS FollowsSchedule
PROPERTIES RestartKeepsLock
